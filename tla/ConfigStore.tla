------------------------------ MODULE ConfigStore ------------------------------
(***************************************************************************)
(* The server configuration: the form of each page (app.js), the threads   *)
(* that save it (ServerConfigService) and the file it is stored in         *)
(* (ServerConfigFileRepository, CredentialCipher).                         *)
(*                                                                         *)
(* Passwords never leave the store: a page gets Mask instead, "******",    *)
(* and a save that sends Mask keeps the password the store has for the id. *)
(* A save reads the old configuration and writes the new one in two visits *)
(* of the monitor of the repository, and the write truncates the file      *)
(* first.                                                                  *)
(*                                                                         *)
(* A configuration is a function from ids to passwords; the other fields   *)
(* of a server, and the order of the list, are left out.  A password is    *)
(* the id it was typed for and a number, and stands for itself encrypted   *)
(* too.  The file is there from the start, and short enough to be written  *)
(* at once or not at all.                                                  *)
(***************************************************************************)
EXTENDS Naturals

CONSTANTS Pages,      \* browser pages, each with one save at a time
          Ids,        \* server ids
          None,
          Mask,
          Blank,      \* the password of a row that is new
          Unreadable, \* a file that was truncated
          MaxTyped,   \* bound: the passwords that are typed
          MaxSaves    \* bound: the saves

Passwords == Ids \X (0..MaxTyped)

FunctionsTo(S) == UNION {[I -> S] : I \in SUBSET Ids}
Configs == FunctionsTo(Passwords)
Requests == FunctionsTo(Passwords \cup {Mask})
Rows == FunctionsTo(Passwords \cup {Mask, Blank})

ASSUME ConfigStoreAssumption ==
  /\ MaxTyped \in Nat /\ MaxSaves \in Nat
  /\ Mask \notin Passwords \cup {Blank} /\ Blank \notin Passwords
  /\ None \notin Rows \cup Pages \cup {Unreadable}
  /\ Unreadable \notin Rows

VARIABLES
  form,     \* the rows in the form of each page, None before it is opened
  pc,       \* what the thread of its save does next
  request,  \* the rows it was sent
  existing, \* the configuration it has read
  lock,     \* the page whose thread is inside save of the repository
  file,
  before,   \* history: the file when the lock was taken
  typed, saves

vars == <<form, pc, request, existing, lock, file, before, typed, saves>>

Init ==
  /\ \E I \in SUBSET Ids : file = [i \in I |-> <<i, 0>>]
  /\ form = [c \in Pages |-> None]
  /\ pc = [c \in Pages |-> "idle"]
  /\ request = [c \in Pages |-> None]
  /\ existing = [c \in Pages |-> None]
  /\ lock = None
  /\ before = None
  /\ typed = 0 /\ saves = 0

-----------------------------------------------------------------------------
(***************************************************************************)
(* The form.                                                               *)
(***************************************************************************)
(* maskSensitiveFields. *)
Masked(config) == [i \in DOMAIN config |-> Mask]

(* An id that nobody has: generateServerId draws it at random. *)
Uses(rows, i) == rows # None /\ i \in DOMAIN rows
IsNewId(i) ==
  /\ file # Unreadable => i \notin DOMAIN file
  /\ \A c \in Pages : ~Uses(form[c], i) /\ ~Uses(request[c], i)
                                        /\ ~Uses(existing[c], i)

WithRow(rows, i, password) ==
  [j \in DOMAIN rows \cup {i} |-> IF j = i THEN password ELSE rows[j]]

(* renderConfigForm shows a new row when there is no server. *)
Shows(c, config) ==
  IF DOMAIN config # {} THEN form' = [form EXCEPT ![c] = Masked(config)]
  ELSE \E i \in Ids :
         IsNewId(i) /\ form' = [form EXCEPT ![c] = [j \in {i} |-> Blank]]

ReloadConfigEditor(c) ==
  /\ lock = None /\ file # Unreadable
  /\ Shows(c, file)
  /\ UNCHANGED <<pc, request, existing, lock, file, before, typed, saves>>

EditForm(c, rows) ==
  /\ form' = [form EXCEPT ![c] = rows]
  /\ UNCHANGED <<pc, request, existing, lock, file, before, saves>>

AddServerForm(c, i) ==
  /\ form[c] # None /\ IsNewId(i)
  /\ EditForm(c, WithRow(form[c], i, Blank))
  /\ UNCHANGED typed

RemoveServerForm(c, i) ==
  /\ form[c] # None /\ i \in DOMAIN form[c] /\ DOMAIN form[c] # {i}
  /\ EditForm(c, [j \in DOMAIN form[c] \ {i} |-> form[c][j]])
  /\ UNCHANGED typed

TypePassword(c, i) ==
  /\ form[c] # None /\ i \in DOMAIN form[c]
  /\ typed < MaxTyped /\ typed' = typed + 1
  /\ EditForm(c, WithRow(form[c], i, <<i, typed'>>))

(* The user types six stars, or empties the field of a server that has a   *)
(* password: collectConfigFormPayload sends the mask.                      *)
TypeMask(c, i) ==
  /\ form[c] # None /\ i \in DOMAIN form[c]
  /\ EditForm(c, WithRow(form[c], i, Mask))
  /\ UNCHANGED typed

-----------------------------------------------------------------------------
(***************************************************************************)
(* saveBootstrapConfig.                                                    *)
(***************************************************************************)
Ends(c) ==
  /\ pc' = [pc EXCEPT ![c] = "idle"]
  /\ request' = [request EXCEPT ![c] = None]
  /\ existing' = [existing EXCEPT ![c] = None]

SaveConfig(c) ==
  /\ pc[c] = "idle"
  /\ form[c] # None /\ \A i \in DOMAIN form[c] : form[c][i] # Blank
  /\ saves < MaxSaves /\ saves' = saves + 1
  /\ pc' = [pc EXCEPT ![c] = "load"]
  /\ request' = [request EXCEPT ![c] = form[c]]
  /\ UNCHANGED <<form, existing, lock, file, before, typed>>

LoadExisting(c) ==
  /\ pc[c] = "load" /\ lock = None /\ file # Unreadable
  /\ pc' = [pc EXCEPT ![c] = "save"]
  /\ existing' = [existing EXCEPT ![c] = file]
  /\ UNCHANGED <<form, request, lock, file, before, typed, saves>>

LoadExistingFails(c) ==
  /\ pc[c] = "load" /\ lock = None /\ file = Unreadable
  /\ Ends(c)
  /\ UNCHANGED <<form, lock, file, before, typed, saves>>

HasItsPasswords(c) ==
  \A i \in DOMAIN request[c] :
    request[c][i] = Mask => i \in DOMAIN existing[c]

(* Mutant: the password of any server is taken. *)
ResolvedByPosition(c) ==
  [i \in DOMAIN request[c] |->
     IF request[c][i] = Mask
     THEN existing[c][CHOOSE j \in DOMAIN existing[c] : TRUE]
     ELSE request[c][i]]

(* The mask is replaced by the password of the same id. *)
Resolved(c) ==
  [i \in DOMAIN request[c] |->
     IF request[c][i] = Mask THEN existing[c][i] ELSE request[c][i]]

RefuseSave(c) ==
  /\ pc[c] = "save" /\ ~HasItsPasswords(c)
  /\ Ends(c)
  /\ UNCHANGED <<form, lock, file, before, typed, saves>>

(* Mutant: save of the repository is not synchronized. *)
TruncateUnlocked(c) ==
  /\ pc[c] = "save" /\ HasItsPasswords(c)
  /\ pc' = [pc EXCEPT ![c] = "write"]
  /\ lock' = c
  /\ before' = file
  /\ file' = Unreadable
  /\ UNCHANGED <<form, request, existing, typed, saves>>

Truncate(c) ==
  /\ pc[c] = "save" /\ HasItsPasswords(c) /\ lock = None
  /\ pc' = [pc EXCEPT ![c] = "write"]
  /\ lock' = c
  /\ before' = file
  /\ file' = Unreadable
  /\ UNCHANGED <<form, request, existing, typed, saves>>

(* From here on the thread has the answer for its page. *)
Write(c) ==
  /\ pc[c] = "write"
  /\ file' = Resolved(c)
  /\ pc' = [pc EXCEPT ![c] = "answer"]
  /\ existing' = [existing EXCEPT ![c] = None]
  /\ lock' = None /\ before' = None
  /\ UNCHANGED <<form, request, typed, saves>>

WriteFails(c) ==
  /\ pc[c] = "write"
  /\ Ends(c)
  /\ lock' = None /\ before' = None
  /\ UNCHANGED <<form, file, typed, saves>>

(* The form shows what was saved, whatever was typed meanwhile. *)
ConfigSaved(c) ==
  /\ pc[c] = "answer"
  /\ form' = [form EXCEPT ![c] = Masked(request[c])]
  /\ Ends(c)
  /\ UNCHANGED <<lock, file, before, typed, saves>>

(* The process ends and is started again; the pages stay. *)
Crash ==
  /\ pc' = [c \in Pages |-> "idle"]
  /\ request' = [c \in Pages |-> None]
  /\ existing' = [c \in Pages |-> None]
  /\ lock' = None /\ before' = None
  /\ UNCHANGED <<form, file, typed, saves>>

-----------------------------------------------------------------------------
Edit(c) ==
  \/ ReloadConfigEditor(c)
  \/ \E i \in Ids : \/ AddServerForm(c, i) \/ RemoveServerForm(c, i)
                    \/ TypePassword(c, i) \/ TypeMask(c, i)

Thread(c) ==
  \/ LoadExisting(c) \/ LoadExistingFails(c) \/ RefuseSave(c)
  \/ Truncate(c) \/ Write(c) \/ WriteFails(c) \/ ConfigSaved(c)

Next == \/ \E c \in Pages : Edit(c) \/ SaveConfig(c) \/ Thread(c)
        \/ Crash

Spec == Init /\ [][Next]_vars

-----------------------------------------------------------------------------
(* Types of the variables. *)
TypeOK ==
  /\ form \in [Pages -> Rows \cup {None}]
  /\ pc \in [Pages -> {"idle", "load", "save", "write", "answer"}]
  /\ request \in [Pages -> Requests \cup {None}]
  /\ existing \in [Pages -> Configs \cup {None}]
  /\ lock \in Pages \cup {None}
  /\ file \in Configs \cup {Unreadable}
  /\ before \in Configs \cup {Unreadable, None}
  /\ typed \in 0..MaxTyped
  /\ saves \in Nat

(***************************************************************************)
(* The password the store has for a server was typed for that server and   *)
(* is never the mask, whatever pages with older forms save, and whatever   *)
(* was added, removed or renamed (saveBootstrapConfig looks passwords up   *)
(* by id).                                                                 *)
(***************************************************************************)
PasswordsStayWithTheirServer ==
  file # Unreadable =>
    \A i \in DOMAIN file : file[i] \in Passwords /\ file[i][1] = i

(***************************************************************************)
(* The store implements ConfigRegister: truncating and writing look like   *)
(* one step, readers never see the file in between, and only a crash or an *)
(* error between the two loses the configuration.                          *)
(***************************************************************************)
Register == INSTANCE ConfigRegister WITH
  Kept <- Mask,
  Lost <- Unreadable,
  value <- IF lock = None THEN file ELSE before,
  asked <- [c \in Pages |-> IF pc[c] = "answer" THEN None ELSE request[c]],
  base <- existing

RegisterSpec == Register!Spec
=============================================================================
