-------------------------- MODULE ConfigStoreProofs --------------------------
(***************************************************************************)
(* Proofs about ConfigStore for any number of pages, servers and saves:    *)
(* its type invariant, that passwords stay with their servers, and that it *)
(* implements ConfigRegister.                                              *)
(*                                                                         *)
(* The inductive invariant has two more parts.  ThreadInv says what a      *)
(* thread holds at each of its steps, and that the file is empty exactly   *)
(* for the thread inside the monitor, or for ever.  OwnInv extends         *)
(* PasswordsStayWithTheirServer to everything a password comes from before *)
(* it is in the file.                                                      *)
(***************************************************************************)
EXTENDS ConfigStore, TLAPS

Own(rows) ==
  \A i \in DOMAIN rows : rows[i] \in Passwords => rows[i][1] = i

ThreadInv ==
  /\ \A c \in Pages :
       /\ pc[c] = "write" <=> lock = c
       /\ request[c] = None <=> pc[c] = "idle"
       /\ existing[c] # None <=> pc[c] \in {"save", "write"}
       /\ pc[c] = "write" => HasItsPasswords(c)
  /\ lock = None <=> before = None
  /\ lock # None => file = Unreadable

OwnInv ==
  /\ file # Unreadable => Own(file)
  /\ \A c \in Pages :
       /\ form[c] # None => Own(form[c])
       /\ request[c] # None => Own(request[c])
       /\ existing[c] # None => Own(existing[c])

IInv == TypeOK /\ ThreadInv /\ OwnInv

-----------------------------------------------------------------------------
(* Membership in a set of partial functions, both ways. *)
LEMMA PartialIntro ==
  ASSUME NEW S, NEW I \in SUBSET Ids, NEW f \in [I -> S]
  PROVE  f \in FunctionsTo(S)
BY DEF FunctionsTo

LEMMA PartialElim ==
  ASSUME NEW S, NEW f \in FunctionsTo(S)
  PROVE  /\ DOMAIN f \in SUBSET Ids
         /\ f \in [DOMAIN f -> S]
         /\ \A i \in DOMAIN f : f[i] \in S
<1>1. PICK I \in SUBSET Ids : f \in [I -> S]
  BY DEF FunctionsTo
<1>2. QED
  BY <1>1

(* A configuration can be sent back, and what is sent can be in a form. *)
LEMMA Inclusions ==
  /\ Configs \subseteq Requests
  /\ Requests \subseteq Rows
  /\ None \notin Configs \cup Requests \cup Rows \cup Pages
  /\ Unreadable \notin Configs
<1>1. \A f \in Configs : f \in Requests /\ f \in Rows
  <2> SUFFICES ASSUME NEW f \in Configs
               PROVE  f \in Requests /\ f \in Rows
    OBVIOUS
  <2>1. PICK I \in SUBSET Ids : f \in [I -> Passwords]
    BY DEF Configs, FunctionsTo
  <2>2. f \in [I -> Passwords \cup {Mask}]
        /\ f \in [I -> Passwords \cup {Mask, Blank}]
    BY <2>1
  <2>3. QED
    BY <2>2, PartialIntro DEF Requests, Rows
<1>2. \A f \in Requests : f \in Rows
  <2> SUFFICES ASSUME NEW f \in Requests PROVE f \in Rows
    OBVIOUS
  <2>1. PICK I \in SUBSET Ids : f \in [I -> Passwords \cup {Mask}]
    BY DEF Requests, FunctionsTo
  <2>2. f \in [I -> Passwords \cup {Mask, Blank}]
    BY <2>1
  <2>3. QED
    BY <2>2, PartialIntro DEF Rows
<1>3. QED
  BY <1>1, <1>2, ConfigStoreAssumption

(* A row that is set to a password or the mask leaves a form. *)
LEMMA WithRowIsRows ==
  ASSUME NEW rows \in Rows, NEW i \in Ids,
         NEW p \in Passwords \cup {Mask, Blank}
  PROVE  WithRow(rows, i, p) \in Rows
<1>1. DOMAIN rows \in SUBSET Ids
      /\ \A j \in DOMAIN rows : rows[j] \in Passwords \cup {Mask, Blank}
  BY PartialElim DEF Rows
<1>2. WithRow(rows, i, p) \in
        [DOMAIN rows \cup {i} -> Passwords \cup {Mask, Blank}]
  BY <1>1 DEF WithRow
<1>3. DOMAIN rows \cup {i} \in SUBSET Ids
  BY <1>1
<1>4. QED
  BY <1>2, <1>3, PartialIntro DEF Rows

LEMMA MaskedIsRows ==
  ASSUME NEW rows \in Rows PROVE Masked(rows) \in Rows /\ Own(Masked(rows))
<1>1. DOMAIN rows \in SUBSET Ids
  BY PartialElim DEF Rows
<1>2. Masked(rows) \in [DOMAIN rows -> Passwords \cup {Mask, Blank}]
  BY DEF Masked
<1>3. Own(Masked(rows))
  BY ConfigStoreAssumption DEF Own, Masked
<1>4. QED
  BY <1>1, <1>2, <1>3, PartialIntro DEF Rows

(* What a save writes is a configuration, with every password in place. *)
LEMMA ResolvedIsConfig ==
  ASSUME NEW c \in Pages, request[c] \in Requests, existing[c] \in Configs,
         HasItsPasswords(c), Own(request[c]), Own(existing[c])
  PROVE  Resolved(c) \in Configs /\ Own(Resolved(c))
<1>1. /\ DOMAIN request[c] \in SUBSET Ids
      /\ \A i \in DOMAIN request[c] :
           request[c][i] \in Passwords \cup {Mask}
  BY PartialElim DEF Requests
<1>2. \A i \in DOMAIN existing[c] : existing[c][i] \in Passwords
  BY PartialElim DEF Configs
<1>3. ASSUME NEW i \in DOMAIN request[c]
      PROVE  Resolved(c)[i] \in Passwords /\ Resolved(c)[i][1] = i
  <2>1. Resolved(c)[i] = IF request[c][i] = Mask THEN existing[c][i]
                                                 ELSE request[c][i]
    BY DEF Resolved
  <2>2. CASE request[c][i] = Mask
    <3>1. i \in DOMAIN existing[c]
      BY <2>2 DEF HasItsPasswords
    <3>2. QED
      BY <2>1, <2>2, <3>1, <1>2 DEF Own
  <2>3. CASE request[c][i] # Mask
    BY <2>1, <2>3, <1>1 DEF Own
  <2>4. QED
    BY <2>2, <2>3
<1>4. DOMAIN Resolved(c) = DOMAIN request[c]
  BY DEF Resolved
<1>5. Resolved(c) \in [DOMAIN request[c] -> Passwords]
  BY <1>3, <1>4 DEF Resolved
<1>6. QED
  BY <1>1, <1>3, <1>4, <1>5, PartialIntro DEF Configs, Own

-----------------------------------------------------------------------------
LEMMA InitFile == Init => file \in Configs /\ Own(file)
<1> SUFFICES ASSUME Init PROVE file \in Configs /\ Own(file)
  OBVIOUS
<1>1. PICK I \in SUBSET Ids : file = [i \in I |-> <<i, 0>>]
  BY DEF Init
<1>2. \A i \in I : <<i, 0>> \in Passwords
  BY ConfigStoreAssumption DEF Passwords
<1>3. file \in [I -> Passwords] /\ Own(file)
  BY <1>1, <1>2 DEF Own
<1>4. QED
  BY <1>3, PartialIntro DEF Configs

LEMMA InitInv == Init => IInv
<1> SUFFICES ASSUME Init PROVE IInv
  OBVIOUS
<1> USE ConfigStoreAssumption
<1>1. file \in Configs /\ Own(file)
  BY InitFile
<1>2. TypeOK
  BY <1>1 DEF Init, TypeOK
<1>3. ThreadInv
  BY Inclusions DEF Init, ThreadInv
<1>4. OwnInv
  BY <1>1 DEF Init, OwnInv
<1>5. QED
  BY <1>2, <1>3, <1>4 DEF IInv

(***************************************************************************)
(* What the form of a page can become: rows with their own passwords.      *)
(***************************************************************************)
LEMMA FormStep ==
  ASSUME IInv, NEW c \in Pages, NEW rows \in Rows, Own(rows),
         form' = [form EXCEPT ![c] = rows],
         typed' \in 0..MaxTyped,
         UNCHANGED <<pc, request, existing, lock, file, before, saves>>
  PROVE  IInv'
<1>1. TypeOK'
  BY DEF IInv, TypeOK
<1>2. ThreadInv'
  BY DEF IInv, ThreadInv, HasItsPasswords
<1>3. OwnInv'
  BY DEF IInv, OwnInv, TypeOK
<1>4. QED
  BY <1>1, <1>2, <1>3 DEF IInv

LEMMA ReloadKeeps ==
  ASSUME IInv, NEW c \in Pages, ReloadConfigEditor(c) PROVE IInv'
<1>1. file \in Configs /\ file \in Rows
  BY Inclusions DEF IInv, TypeOK, ReloadConfigEditor
<1>2. typed' \in 0..MaxTyped
      /\ UNCHANGED <<pc, request, existing, lock, file, before, saves>>
  BY DEF ReloadConfigEditor, IInv, TypeOK
<1>3. CASE form' = [form EXCEPT ![c] = Masked(file)]
  BY <1>1, <1>2, <1>3, MaskedIsRows, FormStep
<1>4. CASE \E i \in Ids : form' = [form EXCEPT ![c] = [j \in {i} |-> Blank]]
  <2>1. PICK i \in Ids : form' = [form EXCEPT ![c] = [j \in {i} |-> Blank]]
    BY <1>4
  <2> DEFINE row == [j \in {i} |-> Blank]
  <2>2. row \in [{i} -> Passwords \cup {Mask, Blank}]
    OBVIOUS
  <2>3. row \in Rows
    BY <2>2, PartialIntro DEF Rows
  <2>4. Own(row)
    BY ConfigStoreAssumption DEF Own
  <2>5. QED
    BY <1>2, <2>1, <2>3, <2>4, FormStep
<1>5. QED
  BY <1>3, <1>4 DEF ReloadConfigEditor, Shows

(* Setting a row to its own password, or to none, keeps the rest. *)
LEMMA WithRowIsOwn ==
  ASSUME NEW rows, Own(rows), NEW i, NEW p, p \in Passwords => p[1] = i
  PROVE  Own(WithRow(rows, i, p))
BY DEF Own, WithRow

LEMMA EditKeeps ==
  ASSUME IInv, NEW c \in Pages, NEW i \in Ids,
         \/ AddServerForm(c, i) \/ RemoveServerForm(c, i)
         \/ TypePassword(c, i) \/ TypeMask(c, i)
  PROVE  IInv'
<1> USE ConfigStoreAssumption
<1>1. form[c] # None
  BY DEF AddServerForm, RemoveServerForm, TypePassword, TypeMask
<1>2. form[c] \in Rows /\ Own(form[c])
  BY <1>1 DEF IInv, TypeOK, OwnInv
<1>3. CASE AddServerForm(c, i)
  <2>1. WithRow(form[c], i, Blank) \in Rows /\ Own(WithRow(form[c], i, Blank))
    BY <1>2, WithRowIsRows, WithRowIsOwn
  <2>2. QED
    BY <1>3, <2>1, FormStep DEF AddServerForm, EditForm, IInv, TypeOK
<1>4. CASE RemoveServerForm(c, i)
  <2> DEFINE rows == [j \in DOMAIN form[c] \ {i} |-> form[c][j]]
  <2>1. DOMAIN form[c] \in SUBSET Ids
        /\ \A j \in DOMAIN form[c] : form[c][j] \in Passwords \cup {Mask, Blank}
    BY <1>2, PartialElim DEF Rows
  <2>2. rows \in [DOMAIN form[c] \ {i} -> Passwords \cup {Mask, Blank}]
    BY <2>1
  <2>3. DOMAIN form[c] \ {i} \in SUBSET Ids
    BY <2>1
  <2>4. rows \in Rows
    BY <2>2, <2>3, PartialIntro DEF Rows
  <2>5. Own(rows)
    BY <1>2 DEF Own
  <2>6. QED
    BY <1>4, <2>4, <2>5, FormStep DEF RemoveServerForm, EditForm, IInv, TypeOK
<1>5. CASE TypePassword(c, i)
  <2>1. typed' \in 0..MaxTyped
    BY <1>5 DEF TypePassword, IInv, TypeOK
  <2>2. <<i, typed'>> \in Passwords
    BY <2>1 DEF Passwords
  <2>3. WithRow(form[c], i, <<i, typed'>>) \in Rows
        /\ Own(WithRow(form[c], i, <<i, typed'>>))
    BY <1>2, <2>2, WithRowIsRows, WithRowIsOwn
  <2>4. QED
    BY <1>5, <2>1, <2>3, FormStep DEF TypePassword, EditForm
<1>6. CASE TypeMask(c, i)
  <2>1. WithRow(form[c], i, Mask) \in Rows /\ Own(WithRow(form[c], i, Mask))
    BY <1>2, WithRowIsRows, WithRowIsOwn
  <2>2. QED
    BY <1>6, <2>1, FormStep DEF TypeMask, EditForm, IInv, TypeOK
<1>7. QED
  BY <1>3, <1>4, <1>5, <1>6

-----------------------------------------------------------------------------
(***************************************************************************)
(* The steps of a save.                                                    *)
(***************************************************************************)
LEMMA SaveKeeps ==
  ASSUME IInv, NEW c \in Pages, SaveConfig(c) PROVE IInv'
<1> USE DEF SaveConfig
<1>1. form[c] \in Rows /\ Own(form[c])
  BY DEF IInv, TypeOK, OwnInv
<1>2. form[c] \in Requests
  <2>1. PICK I \in SUBSET Ids : form[c] \in [I -> Passwords \cup {Mask, Blank}]
    BY <1>1 DEF Rows, FunctionsTo
  <2>2. \A i \in I : form[c][i] \in Passwords \cup {Mask}
    BY <2>1
  <2>3. form[c] \in [I -> Passwords \cup {Mask}]
    BY <2>1, <2>2
  <2>4. QED
    BY <2>3, PartialIntro DEF Requests
<1>3. TypeOK'
  BY <1>2 DEF IInv, TypeOK
<1>4. ThreadInv'
  BY <1>2, Inclusions DEF IInv, TypeOK, ThreadInv, HasItsPasswords
<1>5. OwnInv'
  BY <1>1 DEF IInv, TypeOK, OwnInv
<1>6. QED
  BY <1>3, <1>4, <1>5 DEF IInv

LEMMA LoadKeeps ==
  ASSUME IInv, NEW c \in Pages, LoadExisting(c) PROVE IInv'
<1> USE DEF LoadExisting
<1>1. file \in Configs /\ Own(file)
  BY DEF IInv, TypeOK, OwnInv
<1>2. TypeOK'
  BY <1>1 DEF IInv, TypeOK
<1>3. ThreadInv'
  BY <1>1, Inclusions DEF IInv, TypeOK, ThreadInv, HasItsPasswords
<1>4. OwnInv'
  BY <1>1 DEF IInv, TypeOK, OwnInv
<1>5. QED
  BY <1>2, <1>3, <1>4 DEF IInv

(* A thread that ends outside the monitor leaves the rest as it was. *)
LEMMA RefusedKeeps ==
  ASSUME IInv, NEW c \in Pages, LoadExistingFails(c) \/ RefuseSave(c)
  PROVE  IInv'
<1>1. /\ Ends(c) /\ UNCHANGED <<form, lock, file, before, typed, saves>>
      /\ lock # c
  BY DEF LoadExistingFails, RefuseSave, IInv, ThreadInv
<1>2. TypeOK'
  BY <1>1 DEF Ends, IInv, TypeOK
<1>3. ThreadInv'
  BY <1>1 DEF Ends, IInv, TypeOK, ThreadInv, HasItsPasswords
<1>4. OwnInv'
  BY <1>1 DEF Ends, IInv, TypeOK, OwnInv
<1>5. QED
  BY <1>2, <1>3, <1>4 DEF IInv

LEMMA TruncateKeeps ==
  ASSUME IInv, NEW c \in Pages, Truncate(c) PROVE IInv'
<1> USE DEF Truncate
<1>1. TypeOK'
  BY DEF IInv, TypeOK
<1>2. ThreadInv'
  BY Inclusions, ConfigStoreAssumption
     DEF IInv, TypeOK, ThreadInv, HasItsPasswords
<1>3. OwnInv'
  BY DEF IInv, TypeOK, OwnInv
<1>4. QED
  BY <1>1, <1>2, <1>3 DEF IInv

LEMMA WriteKeeps ==
  ASSUME IInv, NEW c \in Pages, Write(c) PROVE IInv'
<1>1. /\ pc[c] = "write" /\ lock = c
      /\ request[c] \in Requests /\ Own(request[c])
      /\ existing[c] \in Configs /\ Own(existing[c])
      /\ HasItsPasswords(c)
  BY DEF Write, IInv, TypeOK, ThreadInv, OwnInv
<1>2. Resolved(c) \in Configs /\ Own(Resolved(c))
  BY <1>1, ResolvedIsConfig
<1>3. TypeOK'
  BY <1>2 DEF Write, IInv, TypeOK
<1>4. ThreadInv'
  BY <1>1, Inclusions DEF Write, IInv, TypeOK, ThreadInv, HasItsPasswords
<1>5. OwnInv'
  BY <1>2 DEF Write, IInv, TypeOK, OwnInv
<1>6. QED
  BY <1>3, <1>4, <1>5 DEF IInv

LEMMA WriteFailsKeeps ==
  ASSUME IInv, NEW c \in Pages, WriteFails(c) PROVE IInv'
<1> USE DEF WriteFails, Ends
<1>1. lock = c
  BY DEF IInv, ThreadInv
<1>2. TypeOK'
  BY DEF IInv, TypeOK
<1>3. ThreadInv'
  BY <1>1, Inclusions DEF IInv, TypeOK, ThreadInv, HasItsPasswords
<1>4. OwnInv'
  BY DEF IInv, TypeOK, OwnInv
<1>5. QED
  BY <1>2, <1>3, <1>4 DEF IInv

LEMMA ConfigSavedKeeps ==
  ASSUME IInv, NEW c \in Pages, ConfigSaved(c) PROVE IInv'
<1> USE DEF ConfigSaved, Ends
<1>1. request[c] \in Rows
  BY Inclusions DEF IInv, TypeOK, ThreadInv
<1>2. Masked(request[c]) \in Rows /\ Own(Masked(request[c]))
  BY <1>1, MaskedIsRows
<1>3. TypeOK'
  BY <1>2 DEF IInv, TypeOK
<1>4. ThreadInv'
  BY DEF IInv, TypeOK, ThreadInv, HasItsPasswords
<1>5. OwnInv'
  BY <1>2 DEF IInv, TypeOK, OwnInv
<1>6. QED
  BY <1>3, <1>4, <1>5 DEF IInv

LEMMA CrashKeeps ==
  ASSUME IInv, Crash PROVE IInv'
<1> USE DEF Crash
<1>1. TypeOK'
  BY DEF IInv, TypeOK
<1>2. ThreadInv'
  BY Inclusions DEF IInv, TypeOK, ThreadInv
<1>3. OwnInv'
  BY DEF IInv, TypeOK, OwnInv
<1>4. QED
  BY <1>1, <1>2, <1>3 DEF IInv

LEMMA NextKeeps == IInv /\ [Next]_vars => IInv'
<1> SUFFICES ASSUME IInv, [Next]_vars PROVE IInv'
  OBVIOUS
<1>1. CASE UNCHANGED vars
  BY <1>1 DEF vars, IInv, TypeOK, ThreadInv, OwnInv, HasItsPasswords
<1>2. ASSUME NEW c \in Pages, Edit(c) PROVE IInv'
  BY <1>2, ReloadKeeps, EditKeeps DEF Edit
<1>3. ASSUME NEW c \in Pages, SaveConfig(c) PROVE IInv'
  BY <1>3, SaveKeeps
<1>4. ASSUME NEW c \in Pages, Thread(c) PROVE IInv'
  BY <1>4, LoadKeeps, RefusedKeeps, TruncateKeeps, WriteKeeps,
     WriteFailsKeeps, ConfigSavedKeeps DEF Thread
<1>5. CASE Crash
  BY <1>5, CrashKeeps
<1>6. QED
  BY <1>1, <1>2, <1>3, <1>4, <1>5 DEF Next

LEMMA InvariantHolds == Spec => []IInv
BY InitInv, NextKeeps, PTL DEF Spec

(***************************************************************************)
(* The types of the variables, whatever is typed and saved.                *)
(***************************************************************************)
THEOREM TypeCorrect == Spec => []TypeOK
<1>1. IInv => TypeOK
  BY DEF IInv
<1>2. QED
  BY <1>1, InvariantHolds, PTL

(***************************************************************************)
(* The store has for each server a password typed for it, however the      *)
(* saves of the pages interleave, fail or break off.                       *)
(***************************************************************************)
THEOREM PasswordsStay == Spec => []PasswordsStayWithTheirServer
<1>1. IInv => PasswordsStayWithTheirServer
  <2> SUFFICES ASSUME IInv, file # Unreadable, NEW i \in DOMAIN file
               PROVE  file[i] \in Passwords /\ file[i][1] = i
    BY DEF PasswordsStayWithTheirServer
  <2>1. file \in Configs /\ Own(file)
    BY DEF IInv, TypeOK, OwnInv
  <2>2. file[i] \in Passwords
    BY <2>1, PartialElim DEF Configs
  <2>3. QED
    BY <2>1, <2>2 DEF Own
<1>2. QED
  BY <1>1, InvariantHolds, PTL

-----------------------------------------------------------------------------
(***************************************************************************)
(* The refinement: what ConfigRegister sees of the store, and what each    *)
(* step is for it.  Edits of the forms, Truncate and ConfigSaved are       *)
(* stutters: while a thread holds the monitor the value is what the file   *)
(* was, and a save that has its answer is over.                            *)
(***************************************************************************)
Value == IF lock = None THEN file ELSE before
Asked == [c \in Pages |-> IF pc[c] = "answer" THEN None ELSE request[c]]

SeenByRegister == <<Value, Asked, existing>>

LEMMA InitImplements == Init => Register!Init
<1> SUFFICES ASSUME Init PROVE Register!Init
  OBVIOUS
<1>1. file # Unreadable
  BY InitFile, Inclusions
<1>2. Value # Unreadable
  BY <1>1 DEF Init, Value
<1>3. Asked = [c \in Pages |-> None]
  BY DEF Init, Asked
<1>4. QED
  BY <1>2, <1>3 DEF Register!Init, Value, Asked, Init

LEMMA EditImplements ==
  ASSUME NEW c \in Pages, Edit(c) PROVE UNCHANGED SeenByRegister
BY DEF Edit, ReloadConfigEditor, AddServerForm, RemoveServerForm,
       TypePassword, TypeMask, EditForm, SeenByRegister, Value, Asked

LEMMA SaveImplements ==
  ASSUME IInv, NEW c \in Pages, SaveConfig(c) PROVE Register!Ask(c)
<1> USE DEF SaveConfig
<1>1. IInv' /\ request[c] = None /\ request'[c] # None
  BY SaveKeeps DEF IInv, ThreadInv, TypeOK
<1>2. request'[c] \in Requests
  BY <1>1 DEF IInv, TypeOK
<1>3. Asked[c] = None /\ Asked'[c] = request'[c]
  BY <1>1 DEF Asked, IInv, TypeOK
<1>4. Asked' = [Asked EXCEPT ![c] = Asked'[c]]
  BY DEF Asked, IInv, TypeOK
<1>5. UNCHANGED <<Value, existing>>
  BY DEF Value
<1>6. QED
  BY <1>2, <1>3, <1>4, <1>5 DEF Register!Ask, Value, Asked

LEMMA LoadImplements ==
  ASSUME IInv, NEW c \in Pages, LoadExisting(c) PROVE Register!Read(c)
<1> USE DEF LoadExisting
<1>1. Asked[c] # None /\ existing[c] = None
  BY DEF Asked, IInv, ThreadInv, TypeOK
<1>2. Value = file /\ UNCHANGED <<Value, Asked>>
  BY DEF Value, Asked, IInv, TypeOK
<1>3. QED
  BY <1>1, <1>2 DEF Register!Read, Value, Asked

(* A thread that ends takes its request and what it has read with it. *)
LEMMA EndsImplements ==
  ASSUME IInv, NEW c \in Pages, Ends(c) PROVE Register!Ends(c)
<1>1. Asked' = [Asked EXCEPT ![c] = None]
  BY DEF Asked, IInv, TypeOK, Ends
<1>2. QED
  BY <1>1 DEF Register!Ends, Ends, Asked

LEMMA RefusedImplements ==
  ASSUME IInv, NEW c \in Pages, LoadExistingFails(c) \/ RefuseSave(c)
  PROVE  Register!Refuse(c)
<1>1. Asked[c] # None
  BY DEF Asked, IInv, ThreadInv, TypeOK, LoadExistingFails, RefuseSave
<1>2. Register!Ends(c)
  BY EndsImplements DEF LoadExistingFails, RefuseSave
<1>3. UNCHANGED Value
  BY DEF Value, LoadExistingFails, RefuseSave
<1>4. QED
  BY <1>1, <1>2, <1>3 DEF Register!Refuse, Value, Asked

LEMMA TruncateImplements ==
  ASSUME IInv, NEW c \in Pages, Truncate(c) PROVE UNCHANGED SeenByRegister
<1>1. c # None
  BY ConfigStoreAssumption
<1>2. UNCHANGED Value
  BY <1>1 DEF Value, Truncate
<1>3. UNCHANGED Asked
  BY DEF Asked, Truncate, IInv, TypeOK
<1>4. QED
  BY <1>2, <1>3 DEF SeenByRegister, Truncate

(* The thread that writes still has what Replace and Break need. *)
LEMMA WriterHolds ==
  ASSUME IInv, NEW c \in Pages, pc[c] = "write"
  PROVE  /\ existing[c] # None /\ lock = c /\ c # None
         /\ Asked[c] = request[c]
         /\ Register!Known(Asked[c], existing[c])
         /\ file = Unreadable
<1>1. existing[c] # None /\ lock = c /\ c # None /\ file = Unreadable
  BY ConfigStoreAssumption DEF IInv, ThreadInv
<1>2. Asked[c] = request[c]
  BY DEF Asked
<1>3. HasItsPasswords(c)
  BY DEF IInv, ThreadInv
<1>4. QED
  BY <1>1, <1>2, <1>3 DEF HasItsPasswords, Register!Known

LEMMA WriteImplements ==
  ASSUME IInv, NEW c \in Pages, Write(c) PROVE Register!Replace(c)
<1> USE DEF Write
<1>1. /\ existing[c] # None /\ Asked[c] = request[c]
      /\ Register!Known(Asked[c], existing[c])
  BY WriterHolds
<1>2. Value' = Register!Merged(Asked[c], existing[c])
  BY <1>1 DEF Value, Resolved, Register!Merged
<1>3. Asked' = [Asked EXCEPT ![c] = None]
  BY DEF Asked, IInv, TypeOK
<1>4. Register!Ends(c)
  BY <1>3 DEF Register!Ends, Asked
<1>5. QED
  BY <1>1, <1>2, <1>4 DEF Register!Replace, Value, Asked

LEMMA WriteFailsImplements ==
  ASSUME IInv, NEW c \in Pages, WriteFails(c) PROVE Register!Break(c)
<1> USE DEF WriteFails
<1>1. /\ existing[c] # None /\ file = Unreadable
      /\ Register!Known(Asked[c], existing[c])
  BY WriterHolds
<1>2. Value' = Unreadable
  BY <1>1 DEF Value
<1>3. Register!Ends(c)
  BY EndsImplements
<1>4. QED
  BY <1>1, <1>2, <1>3 DEF Register!Break, Value, Asked

LEMMA ConfigSavedImplements ==
  ASSUME IInv, NEW c \in Pages, ConfigSaved(c)
  PROVE  UNCHANGED SeenByRegister
<1> USE DEF ConfigSaved, Ends
<1>1. existing[c] = None /\ existing' = existing
  BY DEF IInv, TypeOK, ThreadInv
<1>2. UNCHANGED Asked
  BY DEF Asked, IInv, TypeOK
<1>3. UNCHANGED Value
  BY DEF Value
<1>4. QED
  BY <1>1, <1>2, <1>3 DEF SeenByRegister

LEMMA CrashImplements ==
  ASSUME IInv, Crash PROVE Register!Restart
<1> USE DEF Crash
<1>1. Asked' = [c \in Pages |-> None]
  BY DEF Asked
<1>2. CASE lock = None
  <2>1. UNCHANGED Value
    BY <1>2 DEF Value
  <2>2. QED
    BY <1>1, <2>1 DEF Register!Restart, Value, Asked
<1>3. CASE lock # None
  <2>1. lock \in Pages /\ pc[lock] = "write" /\ file = Unreadable
    BY <1>3 DEF IInv, TypeOK, ThreadInv
  <2>2. \E c \in Pages : existing[c] # None
    BY <2>1, WriterHolds
  <2>3. Value' = Unreadable
    BY <2>1 DEF Value
  <2>4. QED
    BY <1>1, <2>2, <2>3 DEF Register!Restart, Value, Asked
<1>4. QED
  BY <1>2, <1>3

LEMMA StepImplements ==
  IInv /\ [Next]_vars => [Register!Next]_(Register!registerVars)
<1> SUFFICES ASSUME IInv, [Next]_vars
             PROVE  Register!Next \/ UNCHANGED SeenByRegister
  BY DEF Register!registerVars, SeenByRegister, Value, Asked
<1>1. CASE UNCHANGED vars
  BY <1>1 DEF vars, SeenByRegister, Value, Asked
<1>2. ASSUME NEW c \in Pages, Edit(c) \/ SaveConfig(c) \/ Thread(c)
      PROVE  \/ UNCHANGED SeenByRegister
             \/ Register!Ask(c) \/ Register!Read(c) \/ Register!Replace(c)
             \/ Register!Refuse(c) \/ Register!Break(c)
  BY <1>2, EditImplements, SaveImplements, LoadImplements, RefusedImplements,
     TruncateImplements, WriteImplements, WriteFailsImplements,
     ConfigSavedImplements DEF Thread
<1>3. CASE Crash
  BY <1>3, CrashImplements DEF Register!Next
<1>4. QED
  BY <1>1, <1>2, <1>3 DEF Next, Register!Next

(***************************************************************************)
(* The store implements ConfigRegister: a save takes effect at one         *)
(* instant, with kept passwords from a configuration read as a whole, and  *)
(* only one that breaks off after it has read loses what is stored.        *)
(***************************************************************************)
THEOREM ImplementsRegister == Spec => RegisterSpec
BY InvariantHolds, InitImplements, StepImplements, PTL
   DEF Spec, RegisterSpec, Register!Spec
=============================================================================
