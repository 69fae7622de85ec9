------------------------------ MODULE TailLease ------------------------------
(***************************************************************************)
(* What LogFollowService promises the remote host, whatever its threads do *)
(* to each other: a `tail -F` is opened once, for one stream, at a time    *)
(* when that stream has no other; it is closed once; and a stream that has *)
(* been released never opens one again.                                    *)
(***************************************************************************)
CONSTANTS Streams, Handles, None

VARIABLES state,     \* of each tail: "unused", then "open", then "closed"
          owner,     \* the stream each tail was opened for
          released   \* the streams that are closed for good

leaseVars == <<state, owner, released>>

TailsOf(s) == {h \in Handles : state[h] = "open" /\ owner[h] = s}

Init ==
  /\ state = [h \in Handles |-> "unused"]
  /\ owner = [h \in Handles |-> None]
  /\ released = {}

Open(s, h) ==
  /\ state[h] = "unused"
  /\ TailsOf(s) = {}
  /\ s \notin released
  /\ state' = [state EXCEPT ![h] = "open"]
  /\ owner' = [owner EXCEPT ![h] = s]
  /\ UNCHANGED released

(* To make room for the next tail of the same stream. *)
Close(h) ==
  /\ state[h] = "open"
  /\ state' = [state EXCEPT ![h] = "closed"]
  /\ UNCHANGED <<owner, released>>

(* With the tail the stream still has, if any. *)
Release(s) ==
  /\ s \notin released
  /\ state' = [h \in Handles |-> IF h \in TailsOf(s) THEN "closed"
                                                     ELSE state[h]]
  /\ released' = released \cup {s}
  /\ UNCHANGED owner

Next ==
  \/ \E s \in Streams, h \in Handles : Open(s, h)
  \/ \E h \in Handles : Close(h)
  \/ \E s \in Streams : Release(s)

Spec == Init /\ [][Next]_leaseVars
=============================================================================
