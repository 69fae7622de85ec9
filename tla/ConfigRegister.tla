---------------------------- MODULE ConfigRegister ----------------------------
(***************************************************************************)
(* What the store of the server configuration promises its pages: a save   *)
(* replaces the configuration at one instant by the rows it was sent, with *)
(* the passwords it leaves out taken from a configuration that was read    *)
(* before, as a whole.  A save that is refused changes nothing.  What is   *)
(* stored is lost only by a save that breaks off, and only once that has   *)
(* read: a page that sends nothing cannot lose anything.                   *)
(***************************************************************************)
CONSTANTS Pages, Requests, None, Kept, Lost

VARIABLES value,  \* the configuration: the password of each server, or Lost
          asked,  \* the rows of the save of each page that is under way
          base    \* the configuration each of them has read

registerVars == <<value, asked, base>>

(* The rows, with the kept passwords filled in. *)
Merged(rows, config) ==
  [i \in DOMAIN rows |-> IF rows[i] = Kept THEN config[i] ELSE rows[i]]

Known(rows, config) ==
  \A i \in DOMAIN rows : rows[i] = Kept => i \in DOMAIN config

Init == /\ value # Lost
        /\ asked = [c \in Pages |-> None]
        /\ base = [c \in Pages |-> None]

Ends(c) == /\ asked' = [asked EXCEPT ![c] = None]
           /\ base' = [base EXCEPT ![c] = None]

Ask(c) ==
  /\ asked[c] = None
  /\ asked'[c] \in Requests
  /\ asked' = [asked EXCEPT ![c] = asked'[c]]
  /\ UNCHANGED <<value, base>>

Read(c) ==
  /\ asked[c] # None /\ base[c] = None /\ value # Lost
  /\ base' = [base EXCEPT ![c] = value]
  /\ UNCHANGED <<value, asked>>

Replace(c) ==
  /\ base[c] # None /\ Known(asked[c], base[c])
  /\ value' = Merged(asked[c], base[c])
  /\ Ends(c)

Refuse(c) == asked[c] # None /\ Ends(c) /\ UNCHANGED value

Break(c) ==
  /\ base[c] # None /\ Known(asked[c], base[c])
  /\ value' = Lost
  /\ Ends(c)

(* The store stops, and starts again without the saves under way. *)
Restart ==
  /\ asked' = [c \in Pages |-> None]
  /\ base' = [c \in Pages |-> None]
  /\ \/ UNCHANGED value
     \/ /\ \E c \in Pages : base[c] # None
        /\ value' = Lost

Next ==
  \/ \E c \in Pages :
       Ask(c) \/ Read(c) \/ Replace(c) \/ Refuse(c) \/ Break(c)
  \/ Restart

Spec == Init /\ [][Next]_registerVars
=============================================================================
