--------------------------- MODULE ServerPageProofs ---------------------------
(***************************************************************************)
(* Proofs about ServerPage for any number of servers, projects, tabs and   *)
(* waiting calls, whatever the order of clicks and answers: where the      *)
(* server in use is said and whose stars and projects are shown, as long   *)
(* as activateTab has loaded no tab that was left meanwhile.               *)
(***************************************************************************)
EXTENDS ServerPage, TLAPS, WellFoundedInduction

-----------------------------------------------------------------------------
(***************************************************************************)
(* Sequences: the first that passes a test, one taken out, one put in.     *)
(***************************************************************************)
LEMMA MinIsIn ==
  ASSUME NEW I \in SUBSET Nat, I # {}
  PROVE  Min(I) \in I
<1>1. PICK x \in I : \A y \in I : <<y, x>> \notin OpToRel(<, Nat)
  BY NatLessThanWellFounded, WFMin
<1>2. \A y \in I : x <= y
  <2> TAKE y \in I
  <2>1. <<y, x>> \in Nat \X Nat /\ <<y, x>>[1] = y /\ <<y, x>>[2] = x
    OBVIOUS
  <2>2. ~(y < x)
    BY <1>1, <2>1 DEF OpToRel
  <2>3. QED
    BY <2>2
<1>3. QED
  BY <1>1, <1>2 DEF Min

LEMMA SecondPart ==
  ASSUME NEW S, NEW a \in Seq(S), NEW b \in Seq(S),
         NEW j \in 1..(Len(a) + Len(b)), j > Len(a)
  PROVE  (a \o b)[j] = b[j - Len(a)]
OBVIOUS

(* r is s without its element at i. *)
SkipAt(r, s, i) ==
  /\ DOMAIN r = 1..(Len(s) - 1) /\ Len(r) = Len(s) - 1
  /\ \A j \in DOMAIN r : r[j] = s[IF j < i THEN j ELSE j + 1]

LEMMA RemoveAtSkips ==
  ASSUME NEW S, NEW s \in Seq(S), NEW i \in DOMAIN s, NEW r,
         r = RemoveAt(s, i)
  PROVE  r \in Seq(S) /\ SkipAt(r, s, i)
<1>1. i \in 1..Len(s) /\ Len(s) \in Nat
  OBVIOUS
<1> DEFINE a == SubSeq(s, 1, i - 1)
           b == SubSeq(s, i + 1, Len(s))
<1>2. /\ a \in Seq(S) /\ Len(a) = i - 1
      /\ \A j \in 1..(i - 1) : a[j] = s[j]
  BY <1>1
<1>3. /\ b \in Seq(S) /\ Len(b) = Len(s) - i
      /\ \A j \in 1..(Len(s) - i) : b[j] = s[i + j]
  BY <1>1
<1>4. r = a \o b
  BY DEF RemoveAt
<1> HIDE DEF a, b
<1>5. /\ r \in Seq(S) /\ Len(r) = Len(s) - 1 /\ DOMAIN r = 1..(Len(s) - 1)
  BY <1>1, <1>2, <1>3, <1>4
<1>6. ASSUME NEW j \in 1..(Len(s) - 1)
      PROVE  r[j] = s[IF j < i THEN j ELSE j + 1]
  <2>1. CASE j < i
    <3>1. r[j] = a[j]
      BY <1>1, <1>2, <1>3, <1>4, <2>1
    <3>2. QED
      BY <1>1, <1>2, <2>1, <3>1
  <2>2. CASE j >= i
    <3>1. j > Len(a) /\ j \in 1..(Len(a) + Len(b))
      BY <1>1, <1>2, <1>3, <2>2
    <3>2. (a \o b)[j] = b[j - Len(a)]
      BY <1>2, <1>3, <3>1, SecondPart
    <3>3. j - (i - 1) \in 1..(Len(s) - i) /\ i + (j - (i - 1)) = j + 1
      BY <1>1, <2>2
    <3>4. b[j - (i - 1)] = s[j + 1]
      BY <1>3, <3>3
    <3>5. QED
      BY <1>1, <1>2, <1>4, <2>2, <3>2, <3>4
  <2>3. QED
    BY <1>1, <2>1, <2>2
<1>7. QED
  BY <1>5, <1>6 DEF SkipAt

(* Of a sequence without duplicates the rest has all others.               *)
AllBut(r, s, e) ==
  /\ IsInjective(r)
  /\ \A x : (\E k \in DOMAIN r : r[k] = x)
              <=> (\E k \in DOMAIN s : s[k] = x) /\ x # e

LEMMA SkipsOne ==
  ASSUME NEW S, NEW s \in Seq(S), IsInjective(s), NEW i \in DOMAIN s,
         NEW r, SkipAt(r, s, i)
  PROVE  AllBut(r, s, s[i])
<1> DEFINE old(j) == IF j < i THEN j ELSE j + 1
<1>1. i \in 1..Len(s) /\ Len(s) \in Nat /\ DOMAIN s = 1..Len(s)
  OBVIOUS
<1>2. DOMAIN r = 1..(Len(s) - 1)
  BY DEF SkipAt
<1>3. \A j \in DOMAIN r : old(j) \in DOMAIN s /\ old(j) # i /\ r[j] = s[old(j)]
  BY <1>1, <1>2 DEF SkipAt
<1>4. ASSUME NEW j \in DOMAIN r, NEW k \in DOMAIN r, r[j] = r[k]
      PROVE  j = k
  <2>1. old(j) = old(k)
    BY <1>3, <1>4 DEF IsInjective
  <2>2. QED
    BY <1>1, <1>2, <2>1
<1>5. ASSUME NEW j \in DOMAIN r
      PROVE  r[j] # s[i]
  BY <1>3 DEF IsInjective
<1>6. ASSUME NEW j \in DOMAIN s, s[j] # s[i]
      PROVE  \E k \in DOMAIN r : r[k] = s[j]
  <2>1. CASE j < i
    <3>1. j \in DOMAIN r /\ old(j) = j
      BY <1>1, <1>2, <2>1
    <3>2. QED
      BY <1>3, <3>1
  <2>2. CASE j > i
    <3>1. j - 1 \in DOMAIN r /\ old(j - 1) = j
      BY <1>1, <1>2, <2>2
    <3>2. QED
      BY <1>3, <3>1
  <2>3. j # i
    BY <1>6
  <2>4. QED
    BY <1>1, <2>1, <2>2, <2>3
<1>7. IsInjective(r)
  BY <1>4 DEF IsInjective
<1>8. QED
  BY <1>3, <1>5, <1>6, <1>7 DEF AllBut

LEMMA RemoveFirstIs ==
  ASSUME NEW S, NEW s \in Seq(S), IsInjective(s), NEW e, NEW r,
         r = RemoveFirst(s, e)
  PROVE  r \in Seq(S) /\ AllBut(r, s, e)
<1>1. CASE \E i \in 1..Len(s) : s[i] = e
  <2> DEFINE I == {i \in 1..Len(s) : s[i] = e}
  <2>1. I \in SUBSET Nat /\ I # {}
    BY <1>1
  <2>2. Min(I) \in I
    BY <2>1, MinIsIn
  <2>3. PICK i : i = Min(I)
    OBVIOUS
  <2>4. r = RemoveAt(s, i)
    BY <1>1, <2>1, <2>3 DEF RemoveFirst, SelectInSeq
  <2>5. i \in DOMAIN s /\ s[i] = e
    BY <2>2, <2>3
  <2>6. r \in Seq(S) /\ SkipAt(r, s, i)
    BY <2>4, <2>5, RemoveAtSkips
  <2>7. QED
    BY <2>5, <2>6, SkipsOne
<1>2. CASE ~ \E i \in 1..Len(s) : s[i] = e
  <2>1. r = s
    BY <1>2 DEF RemoveFirst
  <2>2. DOMAIN s = 1..Len(s)
    OBVIOUS
  <2>3. QED
    BY <1>2, <2>1, <2>2 DEF AllBut
<1>3. QED
  BY <1>1, <1>2

(* What is added is another.                                               *)
OneMore(r, s, e) ==
  /\ IsInjective(r)
  /\ \A x : (\E k \in DOMAIN r : r[k] = x)
              <=> (\E k \in DOMAIN s : s[k] = x) \/ x = e

LEMMA InsertAtIs ==
  ASSUME NEW S, NEW s \in Seq(S), IsInjective(s), NEW e \in S,
         ~ \E k \in DOMAIN s : s[k] = e, NEW i \in 1..(Len(s) + 1),
         NEW r, r = InsertAt(s, i, e)
  PROVE  r \in Seq(S) /\ OneMore(r, s, e)
<1>1. Len(s) \in Nat /\ DOMAIN s = 1..Len(s)
  OBVIOUS
<1> DEFINE a == SubSeq(s, 1, i - 1)
           b == SubSeq(s, i, Len(s))
           c == a \o <<e>>
           old(j) == IF j < i THEN j ELSE j - 1
<1>2. /\ a \in Seq(S) /\ Len(a) = i - 1
      /\ \A j \in 1..(i - 1) : a[j] = s[j]
  BY <1>1
<1>3. /\ b \in Seq(S) /\ Len(b) = Len(s) - i + 1
      /\ \A j \in 1..(Len(s) - i + 1) : b[j] = s[i + j - 1]
  BY <1>1
<1>4. r = c \o b
  BY DEF InsertAt
<1> HIDE DEF a, b
<1>5. /\ c \in Seq(S) /\ Len(c) = i
      /\ \A j \in 1..(i - 1) : c[j] = s[j]
      /\ c[i] = e
  BY <1>2
<1> HIDE DEF c
<1>6. /\ r \in Seq(S) /\ Len(r) = Len(s) + 1 /\ DOMAIN r = 1..(Len(s) + 1)
  BY <1>1, <1>3, <1>4, <1>5
<1>7. r[i] = e
  BY <1>3, <1>4, <1>5
<1>8. ASSUME NEW j \in DOMAIN r, j # i
      PROVE  old(j) \in DOMAIN s /\ r[j] = s[old(j)]
  <2>1. CASE j < i
    <3>1. r[j] = c[j]
      BY <1>1, <1>3, <1>4, <1>5, <1>6, <2>1
    <3>2. QED
      BY <1>1, <1>5, <1>6, <2>1, <3>1
  <2>2. CASE j > i
    <3>1. j > Len(c) /\ j \in 1..(Len(c) + Len(b))
      BY <1>1, <1>3, <1>5, <1>6, <2>2
    <3>2. r[j] = b[j - i]
      BY <1>3, <1>4, <1>5, <3>1, SecondPart
    <3>3. j - i \in 1..(Len(s) - i + 1) /\ i + (j - i) - 1 = j - 1
      BY <1>1, <1>6, <2>2
    <3>4. b[j - i] = s[j - 1]
      BY <1>3, <3>3
    <3>5. QED
      BY <1>1, <1>6, <2>2, <3>2, <3>4
  <2>3. QED
    BY <1>6, <1>8, <2>1, <2>2
<1>9. ASSUME NEW j \in DOMAIN r, NEW k \in DOMAIN r, r[j] = r[k]
      PROVE  j = k
  <2>1. j = i <=> k = i
    BY <1>7, <1>8, <1>9
  <2>2. ASSUME j # i, k # i
        PROVE  j = k
    <3>1. old(j) = old(k)
      BY <1>8, <1>9, <2>2 DEF IsInjective
    <3>2. QED
      BY <1>6, <2>2, <3>1
  <2>3. QED
    BY <2>1, <2>2
<1>10. ASSUME NEW j \in DOMAIN s
       PROVE  \E k \in DOMAIN r : r[k] = s[j]
  <2>1. CASE j < i
    <3>1. j \in DOMAIN r /\ j # i /\ old(j) = j
      BY <1>1, <1>6, <2>1
    <3>2. QED
      BY <1>8, <3>1
  <2>2. CASE j >= i
    <3>1. j + 1 \in DOMAIN r /\ j + 1 # i /\ old(j + 1) = j
      BY <1>1, <1>6, <2>2
    <3>2. QED
      BY <1>8, <3>1
  <2>3. QED
    BY <1>1, <2>1, <2>2
<1>11. i \in DOMAIN r
  BY <1>1, <1>6
<1>12. IsInjective(r)
  BY <1>9 DEF IsInjective
<1>13. QED
  BY <1>6, <1>7, <1>8, <1>10, <1>11, <1>12 DEF OneMore

LEMMA AppendIs ==
  ASSUME NEW S, NEW s \in Seq(S), IsInjective(s), NEW e \in S,
         ~ \E k \in DOMAIN s : s[k] = e, NEW r, r = Append(s, e)
  PROVE  r \in Seq(S) /\ OneMore(r, s, e)
<1>1. /\ r \in Seq(S) /\ DOMAIN r = 1..(Len(s) + 1)
      /\ DOMAIN s = 1..Len(s) /\ Len(s) \in Nat
      /\ r[Len(s) + 1] = e
      /\ \A j \in DOMAIN s : r[j] = s[j]
  OBVIOUS
<1>2. \A j \in DOMAIN r : j \in DOMAIN s \/ j = Len(s) + 1
  BY <1>1
<1>3. IsInjective(r)
  BY <1>1, <1>2 DEF IsInjective
<1>4. DOMAIN s \subseteq DOMAIN r /\ Len(s) + 1 \in DOMAIN r
  BY <1>1
<1>5. QED
  BY <1>1, <1>2, <1>3, <1>4 DEF OneMore

(* A drop takes a star to another place and leaves the others theirs.      *)
LEMMA MovedIs ==
  ASSUME NEW order \in Stars, NEW p \in Projects, NEW q, p # q,
         Contains(order, p), Contains(order, q), NEW after \in BOOLEAN,
         NEW r, r = Moved(order, p, q, after)
  PROVE  /\ r \in Stars
         /\ \A x : (\E k \in DOMAIN r : r[k] = x)
                     <=> (\E k \in DOMAIN order : order[k] = x)
<1>1. order \in Seq(Projects) /\ IsInjective(order)
  BY DEF Stars
<1>2. PICK rest : rest = RemoveFirst(order, p)
  OBVIOUS
<1>3. rest \in Seq(Projects) /\ AllBut(rest, order, p)
  BY <1>1, <1>2, RemoveFirstIs
<1>4. IsInjective(rest) /\ ~ \E k \in DOMAIN rest : rest[k] = p
  BY <1>3 DEF AllBut
<1>5. DOMAIN order = 1..Len(order) /\ DOMAIN rest = 1..Len(rest)
      /\ Len(rest) \in Nat
  BY <1>1, <1>3
<1>6. \E k \in DOMAIN rest : rest[k] = q
  BY <1>3, <1>5 DEF AllBut, Contains
<1> DEFINE I == {i \in 1..Len(rest) : rest[i] = q}
<1>7. I \in SUBSET Nat /\ I # {}
  BY <1>5, <1>6
<1>8. Min(I) \in I
  BY <1>7, MinIsIn
<1>9. PICK i : i = Min(I)
  OBVIOUS
<1>10. i \in 1..Len(rest)
  BY <1>8, <1>9
<1>11. PICK n : n = IF after THEN i + 1 ELSE i
  OBVIOUS
<1>12. n \in 1..(Len(rest) + 1)
  BY <1>5, <1>10, <1>11
<1>13. r = InsertAt(rest, n, p)
  BY <1>2, <1>7, <1>9, <1>11 DEF Moved, SelectInSeq
<1>14. r \in Seq(Projects) /\ OneMore(r, rest, p)
  BY <1>3, <1>4, <1>12, <1>13, InsertAtIs
<1>15. \E k \in DOMAIN order : order[k] = p
  BY <1>5 DEF Contains
<1>16. QED
  BY <1>3, <1>14, <1>15 DEF AllBut, OneMore, Stars

-----------------------------------------------------------------------------
(***************************************************************************)
(* What renderServerSelect and the default project pick.                   *)
(***************************************************************************)
LEMMA FirstOfIs ==
  ASSUME NEW l \in Lists, NEW q \in Seq(MaybeServer), NEW r,
         r = FirstOf(q, l)
  PROVE  /\ r \in MaybeServer
         /\ r = None \/ r \in l.servers
         /\ (\E i \in 1..Len(q) : q[i] \in l.servers) => r # None
<1> DEFINE I == {i \in 1..Len(q) : q[i] \in l.servers}
<1>1. l.servers \subseteq Servers /\ None \notin Servers
  BY ServerPageAssumption DEF Lists
<1>2. CASE I = {}
  <2>1. r = None
    BY <1>2 DEF FirstOf, SelectInSeq
  <2>2. QED
    BY <1>2, <2>1 DEF MaybeServer
<1>3. CASE I # {}
  <2>1. I \in SUBSET Nat
    OBVIOUS
  <2>2. Min(I) \in I
    BY <1>3, <2>1, MinIsIn
  <2> HIDE DEF I
  <2>3. PICK i : i = Min(I)
    OBVIOUS
  <2>4. i \in 1..Len(q) /\ q[i] \in l.servers /\ i # 0
    BY <2>2, <2>3 DEF I
  <2>5. r = q[i]
    BY <1>3, <2>3, <2>4 DEF FirstOf, SelectInSeq, I
  <2>6. QED
    BY <1>1, <2>4, <2>5 DEF MaybeServer
<1>4. QED
  BY <1>2, <1>3

LEMMA FirstStarredIs ==
  ASSUME NEW pg, pg.order \in Stars, NEW r, r = FirstStarred(pg)
  PROVE  r = None \/ r \in Projects
<1> DEFINE I == {i \in 1..Len(pg.order) : pg.order[i] \in Listed(pg.listed)}
<1>1. CASE I = {}
  BY <1>1 DEF FirstStarred, SelectInSeq
<1>2. CASE I # {}
  <2>1. I \in SUBSET Nat
    OBVIOUS
  <2>2. Min(I) \in I
    BY <1>2, <2>1, MinIsIn
  <2> HIDE DEF I
  <2>3. PICK i : i = Min(I)
    OBVIOUS
  <2>4. i \in 1..Len(pg.order) /\ i # 0
    BY <2>2, <2>3 DEF I
  <2>5. r = pg.order[i]
    BY <1>2, <2>3, <2>4 DEF FirstStarred, SelectInSeq, I
  <2>6. QED
    BY <2>4, <2>5 DEF Stars
<1>3. QED
  BY <1>1, <1>2

-----------------------------------------------------------------------------
(***************************************************************************)
(* The inductive invariant: the page, the tabs and the calls that wait.    *)
(***************************************************************************)
Pages == [server : MaybeServer, project : MaybeProject, order : Stars,
          listed : MaybeServer, done : BOOLEAN]
Storages == [server : MaybeServer, stars : [Servers -> Stars \cup {None}],
             migratedTo : MaybeServer]
Contents == [server : MaybeServer, project : MaybeProject]
Selects == [options : SUBSET Servers, value : MaybeServer]
Calls == [kind : {"projects", "save"}, server : MaybeServer,
          then : {"nothing", "default", "activate"},
          tab : Tabs \cup {None}, project : MaybeProject]

(* A server that is in use is not given up.                                *)
ServerInv ==
  /\ page \in Pages /\ storage \in Storages /\ select \in Selects
  /\ page.listed # None \/ page.project # None => page.server # None

(* A tab without a project is the only one, and a project has a server.    *)
TabsInv ==
  /\ tabs \in Seq(Tabs) /\ IsInjective(tabs)
  /\ activeTabId \in Tabs /\ IsOpen(activeTabId)
  /\ saved \in [Tabs -> Contents]
  /\ \A t, u \in Tabs :
       IsOpen(t) /\ IsOpen(u) /\ saved[t].project = None => t = u
  /\ \A t \in Tabs : saved[t].project # None => saved[t].server # None

(* activateTab waits for no tab without a project.                         *)
Awaited(t) ==
  \E i \in DOMAIN calls : calls[i].then = "activate" /\ calls[i].tab = t

CallsInv ==
  /\ calls \in Seq(Calls)
  /\ \A i \in DOMAIN calls :
       calls[i].kind = "projects" =>
         calls[i].server # None /\ page.server # None
  /\ \A t : Awaited(t) => t \in Tabs /\ saved[t].project # None

(* A page that shows no project is that of a tab without one.              *)
EmptyInv ==
  page.project = None =>
    saved[activeTabId].project = None /\ ~Awaited(activeTabId)

(* The server in use is the same wherever it is said.                      *)
StarsAt(st, s) ==
  IF s = None \/ st.stars[s] = None THEN << >> ELSE st.stars[s]

Shown(sel, s) == sel.value = IF s \in sel.options THEN s ELSE None

InStep ==
  /\ page.order = StarsAt(storage, page.server)
  /\ Shown(select, page.server)
  /\ storage.server = page.server
  /\ saved[activeTabId].server = page.server

Base ==
  /\ ServerInv /\ TabsInv /\ CallsInv /\ EmptyInv
  /\ ~astray => InStep
  /\ astray \in BOOLEAN

IInv == Base /\ missed \in BOOLEAN /\ overtaken \in BOOLEAN
             /\ clicks \in 0..MaxClicks

(* What a step may do to the stars.                                        *)
OneByOne(s) ==
  LET changed == Changed(StarsIn(storage.stars[s]),
                         StarsIn(storage'.stars[s]))
  IN \/ \A p, q \in changed : p = q
     \/ storage.migratedTo = None /\ storage'.migratedTo = s

StarsStep == \A s \in Servers : OneByOne(s)

(* What every step is shown to keep.                                       *)
Good ==
  /\ ServerInv' /\ TabsInv' /\ CallsInv' /\ EmptyInv'
  /\ ~astray' => InStep'
  /\ astray' \in BOOLEAN
  /\ ~astray => StarsStep

(* The last of the calls asks the server in use.                           *)
AsksLast ==
  LET n == Len(calls)
  IN n > 0 /\ calls[n].kind = "projects" /\ calls[n].server = page.server

(* What a click makes of the list of projects.                             *)
ListStep ==
  \/ AsksLast'
  \/ /\ astray' = astray
     /\ ~astray => page'.server = page.server /\ page'.listed = page.listed
     /\ \/ calls' = calls
        \/ \E c \in Calls : c.kind = "save" /\ calls' = Append(calls, c)

-----------------------------------------------------------------------------
(***************************************************************************)
(* The server in use.                                                      *)
(***************************************************************************)
LEMMA NoneIsApart ==
  /\ None \notin Servers /\ None \notin Projects /\ None \notin Tabs
  /\ None \notin Stars /\ << >> \in Stars /\ Legacy \in Stars
<1>1. << >> \in Seq(Projects) /\ IsInjective(<< >>)
  BY DEF IsInjective
<1>2. QED
  BY <1>1, ServerPageAssumption DEF Stars

(* The stars of no server change.                                          *)
LEMMA SameStars ==
  ASSUME storage'.stars = storage.stars
  PROVE  StarsStep
<1>1. ASSUME NEW s \in Servers
      PROVE  Changed(StarsIn(storage.stars[s]), StarsIn(storage'.stars[s]))
               = {}
  BY DEF Changed
<1>2. QED
  BY <1>1 DEF StarsStep, OneByOne

LEMMA RememberIs ==
  ASSUME storage \in Storages, NEW s \in MaybeServer, Remember(s)
  PROVE  /\ storage' \in Storages /\ storage'.server = s
         /\ storage'.stars = storage.stars /\ StarsStep
<1>1. /\ storage' \in Storages /\ storage'.server = s
      /\ storage'.stars = storage.stars
  BY DEF Remember, Storages
<1>2. QED
  BY <1>1, SameStars

(* Who comes to a server reads the stars that are stored for it then.      *)
LEMMA VisitIs ==
  ASSUME storage \in Storages, NEW s \in MaybeServer, Visit(s)
  PROVE  /\ storage' \in Storages /\ storage'.server = s
         /\ StarsOf(s) = StarsAt(storage', s) /\ StarsOf(s) \in Stars
         /\ StarsStep
<1>1. CASE Migrates(s)
  <2>1. s \in Servers /\ storage.stars[s] = None /\ storage.migratedTo = None
    BY <1>1 DEF Migrates, MaybeServer
  <2>2. storage' = [storage EXCEPT !.server = s, !.stars[s] = Legacy,
                                   !.migratedTo = s]
    BY <1>1 DEF Visit
  <2>3. /\ storage' \in Storages /\ storage'.server = s
        /\ storage'.migratedTo = s /\ storage'.stars[s] = Legacy
        /\ \A u \in Servers : u # s => storage'.stars[u] = storage.stars[u]
    BY <2>1, <2>2, NoneIsApart DEF Storages, MaybeServer
  <2>4. StarsOf(s) = Legacy
    BY <1>1, <2>1, NoneIsApart DEF StarsOf
  <2>5. StarsAt(storage', s) = Legacy
    BY <2>1, <2>3, NoneIsApart DEF StarsAt
  <2>6. StarsStep
    <3>1. ASSUME NEW u \in Servers, u # s
          PROVE  OneByOne(u)
      <4>1. Changed(StarsIn(storage.stars[u]), StarsIn(storage'.stars[u]))
              = {}
        BY <2>3, <3>1 DEF Changed
      <4>2. QED
        BY <4>1 DEF OneByOne
    <3>2. OneByOne(s)
      BY <2>1, <2>3 DEF OneByOne
    <3>3. QED
      BY <3>1, <3>2 DEF StarsStep
  <2>7. QED
    BY <2>3, <2>4, <2>5, <2>6, NoneIsApart
<1>2. CASE ~Migrates(s)
  <2>1. /\ storage' \in Storages /\ storage'.server = s
        /\ storage'.stars = storage.stars
    BY <1>2 DEF Visit, Storages
  <2>2. StarsOf(s) = StarsAt(storage', s)
    BY <1>2, <2>1 DEF StarsOf, StarsAt
  <2>3. StarsAt(storage', s) \in Stars
    BY <2>1, NoneIsApart DEF StarsAt, Storages, MaybeServer
  <2>4. QED
    BY <2>1, <2>2, <2>3, SameStars
<1>3. QED
  BY <1>1, <1>2

(* The page goes to server s and finds its stars.                          *)
LEMMA VisitInv ==
  ASSUME ServerInv, NEW s \in MaybeServer, Visit(s),
         StarsOf(s) \in Stars => page' \in Pages,
         page'.server = s, page'.order = StarsOf(s),
         page'.listed # None \/ page'.project # None => s # None,
         select' \in Selects
  PROVE  /\ ServerInv' /\ StarsStep
         /\ Shown(select', s) /\ saved'[activeTabId'].server = s => InStep'
<1>1. storage \in Storages
  BY DEF ServerInv
<1>2. /\ storage' \in Storages /\ storage'.server = s
      /\ StarsOf(s) = StarsAt(storage', s) /\ StarsOf(s) \in Stars
      /\ StarsStep
  BY <1>1, VisitIs
<1>3. QED
  BY <1>2 DEF ServerInv, InStep

(* The page stays with its server.                                         *)
LEMMA StayInv ==
  ASSUME ServerInv, UNCHANGED storage \/ Remember(page.server),
         page' \in Pages, page'.server = page.server,
         page'.order = page.order,
         page'.listed # None \/ page'.project # None => page.server # None,
         UNCHANGED select
  PROVE  /\ ServerInv' /\ StarsStep
         /\ InStep /\ saved'[activeTabId'].server = page.server => InStep'
<1>1. storage \in Storages /\ page.server \in MaybeServer
  BY DEF ServerInv, Pages
<1>2. /\ storage' \in Storages /\ storage'.stars = storage.stars /\ StarsStep
      /\ storage'.server = storage.server \/ storage'.server = page.server
  BY <1>1, RememberIs, SameStars
<1>3. ServerInv'
  BY <1>2 DEF ServerInv
<1>4. StarsAt(storage', page'.server) = StarsAt(storage, page.server)
  BY <1>2 DEF StarsAt
<1>5. InStep /\ saved'[activeTabId'].server = page.server => InStep'
  BY <1>2, <1>4 DEF InStep, Shown
<1>6. QED
  BY <1>2, <1>3, <1>5

-----------------------------------------------------------------------------
(***************************************************************************)
(* The calls that wait.                                                    *)
(***************************************************************************)
Remains(rest) ==
  /\ rest \in Seq(Calls)
  /\ \A k \in DOMAIN rest : \E i \in DOMAIN calls : rest[k] = calls[i]

LEMMA AllRemain == CallsInv => Remains(calls)
BY DEF CallsInv, Remains

LEMMA RestRemains ==
  ASSUME CallsInv, NEW i \in DOMAIN calls, NEW rest,
         rest = RemoveAt(calls, i)
  PROVE  Remains(rest) /\ SkipAt(rest, calls, i)
<1>1. calls \in Seq(Calls)
  BY DEF CallsInv
<1>2. PICK cs : cs = calls
  OBVIOUS
<1>3. rest \in Seq(Calls) /\ SkipAt(rest, cs, i)
  BY <1>1, <1>2, RemoveAtSkips
<1>4. DOMAIN cs = 1..Len(cs) /\ Len(cs) \in Nat
  BY <1>1, <1>2
<1>5. \A k \in DOMAIN rest : \E j \in DOMAIN cs : rest[k] = cs[j]
  <2> TAKE k \in DOMAIN rest
  <2>1. k \in 1..(Len(cs) - 1) /\ rest[k] = cs[IF k < i THEN k ELSE k + 1]
    BY <1>3 DEF SkipAt
  <2>2. (IF k < i THEN k ELSE k + 1) \in DOMAIN cs
    BY <1>2, <1>4, <2>1
  <2>3. QED
    BY <2>1, <2>2
<1>6. QED
  BY <1>2, <1>3, <1>5 DEF Remains

(* A tab that is waited for keeps to have a project.                       *)
KeepsAwaited ==
  \A t \in Tabs : Awaited(t) /\ saved[t].project # None
                   => saved'[t].project # None

LEMMA CallsRemain ==
  ASSUME CallsInv, NEW rest, Remains(rest), calls' = rest,
         page.server # None => page'.server # None, KeepsAwaited
  PROVE  CallsInv' /\ (\A t : Awaited(t)' => Awaited(t))
<1>1. \A t : Awaited(t)' => Awaited(t)
  BY DEF Remains, Awaited
<1>2. \A t : Awaited(t)' => t \in Tabs /\ saved'[t].project # None
  BY <1>1 DEF CallsInv, KeepsAwaited
<1>3. \A i \in DOMAIN calls' :
        calls'[i].kind = "projects" =>
          calls'[i].server # None /\ page'.server # None
  BY DEF Remains, CallsInv
<1>4. QED
  BY <1>1, <1>2, <1>3 DEF CallsInv, Remains

LEMMA CallsGrow ==
  ASSUME CallsInv, NEW rest, Remains(rest), NEW c \in Calls,
         calls' = Append(rest, c),
         page.server # None => page'.server # None, KeepsAwaited,
         c.kind = "projects" => c.server # None /\ page'.server # None,
         c.then = "activate" => c.tab \in Tabs /\ saved'[c.tab].project # None
  PROVE  /\ CallsInv'
         /\ \A t : Awaited(t)' =>
                     Awaited(t) \/ (c.then = "activate" /\ c.tab = t)
         /\ c.kind = "projects" /\ c.server = page'.server => AsksLast'
<1>1. PICK cs : cs = Append(rest, c)
  OBVIOUS
<1>2. rest \in Seq(Calls)
  BY DEF Remains
<1>3. /\ cs \in Seq(Calls) /\ DOMAIN cs = 1..(Len(rest) + 1)
      /\ Len(cs) = Len(rest) + 1 /\ Len(rest) \in Nat
      /\ DOMAIN rest = 1..Len(rest)
      /\ cs[Len(rest) + 1] = c
      /\ \A k \in DOMAIN rest : cs[k] = rest[k]
  <2> HIDE DEF Calls
  <2>1. QED
    BY <1>1, <1>2
<1>4. \A k \in DOMAIN cs :
        cs[k] = c \/ \E i \in DOMAIN calls : cs[k] = calls[i]
  <2>1. ASSUME NEW k \in DOMAIN cs
        PROVE  k = Len(rest) + 1 \/ k \in DOMAIN rest
    BY <1>3
  <2>2. QED
    BY <1>3, <2>1 DEF Remains
<1>5. calls' = cs
  BY <1>1
<1>6. \A t : Awaited(t)' => Awaited(t) \/ (c.then = "activate" /\ c.tab = t)
  BY <1>4, <1>5 DEF Awaited
<1>7. \A t : Awaited(t)' => t \in Tabs /\ saved'[t].project # None
  BY <1>6 DEF CallsInv, KeepsAwaited
<1>8. \A i \in DOMAIN cs :
        cs[i].kind = "projects" =>
          cs[i].server # None /\ page'.server # None
  BY <1>4 DEF CallsInv
<1>9. CallsInv'
  BY <1>3, <1>5, <1>7, <1>8 DEF CallsInv
<1>10. c.kind = "projects" /\ c.server = page'.server => AsksLast'
  BY <1>3, <1>5 DEF AsksLast
<1>11. QED
  BY <1>6, <1>9, <1>10

-----------------------------------------------------------------------------
(***************************************************************************)
(* The steps that write nothing into a tab, and those that write what the  *)
(* page shows into the active one.                                         *)
(***************************************************************************)
(* The tabs stay as they are.                                              *)
LEMMA SameTabs ==
  ASSUME TabsInv, UNCHANGED <<tabs, activeTabId, saved>>
  PROVE  TabsInv' /\ KeepsAwaited
BY DEF TabsInv, IsOpen, KeepsAwaited

(* Of the page only the stars and the list of projects change.             *)
LEMMA SameEmpty ==
  ASSUME EmptyInv, UNCHANGED <<activeTabId, saved>>,
         page'.project = page.project, \A t : Awaited(t)' => Awaited(t)
  PROVE  EmptyInv'
BY DEF EmptyInv

LEMMA SavedPageIs ==
  ASSUME ServerInv, TabsInv, EmptyInv, NEW s \in MaybeServer,
         page.server # None => s # None,
         saved' = [saved EXCEPT ![activeTabId] =
                     [server |-> s, project |-> page.project]]
  PROVE  /\ saved' \in [Tabs -> Contents]
         /\ saved'[activeTabId] = [server |-> s, project |-> page.project]
         /\ \A t \in Tabs : t # activeTabId => saved'[t] = saved[t]
         /\ \A t, u \in Tabs :
              IsOpen(t) /\ IsOpen(u) /\ saved'[t].project = None => t = u
         /\ \A t \in Tabs : saved'[t].project # None
                              => saved'[t].server # None
         /\ KeepsAwaited
<1>1. PICK a : a = activeTabId
  OBVIOUS
<1>2. a \in Tabs /\ IsOpen(a) /\ saved \in [Tabs -> Contents]
  BY <1>1 DEF TabsInv
<1>3. [server |-> s, project |-> page.project] \in Contents
  BY DEF Contents, ServerInv, Pages
<1>4. /\ saved' \in [Tabs -> Contents]
      /\ saved'[a] = [server |-> s, project |-> page.project]
      /\ \A t \in Tabs : t # a => saved'[t] = saved[t]
  BY <1>1, <1>2, <1>3
<1>5. page.project = None => saved[a].project = None /\ ~Awaited(a)
  BY <1>1 DEF EmptyInv
<1>6. page.project # None => s # None
  BY DEF ServerInv
<1>7. \A t, u \in Tabs :
        IsOpen(t) /\ IsOpen(u) /\ saved'[t].project = None => t = u
  BY <1>4, <1>5 DEF TabsInv
<1>8. \A t \in Tabs : saved'[t].project # None => saved'[t].server # None
  BY <1>4, <1>6 DEF TabsInv
<1>9. KeepsAwaited
  BY <1>4, <1>5 DEF KeepsAwaited
<1>10. QED
  BY <1>1, <1>4, <1>7, <1>8, <1>9

LEMMA SyncStateToActiveTabInv ==
  ASSUME Base, SyncStateToActiveTab
  PROVE  Good
<1> USE DEF SyncStateToActiveTab
<1>1. PICK s : s = page.server
  OBVIOUS
<1>2. s \in MaybeServer /\ page \in Pages
  BY <1>1 DEF Base, ServerInv, Pages
<1>3. saved' = [saved EXCEPT ![activeTabId] =
                  [server |-> s, project |-> page.project]]
  BY <1>1 DEF Content
<1>4. /\ saved' \in [Tabs -> Contents]
      /\ saved'[activeTabId] = [server |-> s, project |-> page.project]
      /\ \A t, u \in Tabs :
           IsOpen(t) /\ IsOpen(u) /\ saved'[t].project = None => t = u
      /\ \A t \in Tabs : saved'[t].project # None
                           => saved'[t].server # None
      /\ KeepsAwaited
  BY <1>1, <1>2, <1>3, SavedPageIs DEF Base
<1>5. TabsInv'
  BY <1>4 DEF Base, TabsInv, IsOpen
<1>6. ServerInv' /\ StarsStep /\ (~astray => InStep')
  BY <1>1, <1>4, StayInv DEF Base, ServerInv
<1>7. CallsInv' /\ (\A t : Awaited(t)' => Awaited(t))
  BY <1>4, AllRemain, CallsRemain DEF Base
<1>8. EmptyInv'
  BY <1>4, <1>7 DEF Base, EmptyInv
<1>9. QED
  BY <1>5, <1>6, <1>7, <1>8 DEF Good, Base

LEMMA RefreshProjectsInv ==
  ASSUME Base, RefreshProjects
  PROVE  Good /\ ListStep
<1> USE DEF RefreshProjects
<1>1. PICK c : c = Call("projects", page.server, "nothing", None, None)
  OBVIOUS
<1>2. c \in Calls /\ c.kind = "projects" /\ c.server = page.server
      /\ c.then = "nothing"
  BY <1>1 DEF Base, ServerInv, Pages, Calls, Call, MaybeProject
<1>3. calls' = Append(calls, c)
  BY <1>1 DEF LoadProjects, Wait
<1>4. TabsInv' /\ KeepsAwaited
  BY SameTabs DEF Base
<1>5. CallsInv' /\ (\A t : Awaited(t)' => Awaited(t)) /\ AsksLast'
  BY <1>2, <1>3, <1>4, AllRemain, CallsGrow DEF Base
<1>6. ServerInv' /\ StarsStep /\ (~astray => InStep')
  BY StayInv DEF Base, ServerInv, InStep
<1>7. EmptyInv'
  BY <1>5, SameEmpty DEF Base
<1>8. QED
  BY <1>4, <1>5, <1>6, <1>7 DEF Good, Base, ListStep

LEMMA SaveConfigInv ==
  ASSUME Base, SaveConfig
  PROVE  Good /\ ListStep
<1> USE DEF SaveConfig
<1>1. PICK c : c = Call("save", None, "nothing", None, None)
  OBVIOUS
<1>2. c \in Calls /\ c.kind = "save" /\ c.then = "nothing"
  BY <1>1 DEF Calls, Call, MaybeProject, MaybeServer
<1>3. calls' = Append(calls, c)
  BY <1>1 DEF Wait
<1>4. TabsInv' /\ KeepsAwaited
  BY SameTabs DEF Base
<1>5. CallsInv' /\ (\A t : Awaited(t)' => Awaited(t))
  BY <1>2, <1>3, <1>4, AllRemain, CallsGrow DEF Base
<1>6. ServerInv' /\ StarsStep /\ (~astray => InStep')
  BY StayInv DEF Base, ServerInv, InStep
<1>7. EmptyInv'
  BY <1>5, SameEmpty DEF Base
<1>8. QED
  BY <1>2, <1>3, <1>4, <1>5, <1>6, <1>7 DEF Good, Base, ListStep

-----------------------------------------------------------------------------
(***************************************************************************)
(* The stars.                                                              *)
(***************************************************************************)
LEMMA SetStarsInv ==
  ASSUME Base, NEW order \in Stars, page.server # None, SetStars(order),
         NEW p, \A x \in Changed(ToSet(page.order), ToSet(order)) : x = p
  PROVE  Good /\ ListStep
<1> USE DEF SetStars
<1>1. PICK s : s = page.server
  OBVIOUS
<1>2. s \in Servers /\ page \in Pages /\ storage \in Storages
  BY <1>1 DEF Base, ServerInv, Pages, MaybeServer
<1>3. /\ page' \in Pages /\ page'.server = s /\ page'.order = order
      /\ page'.listed = page.listed /\ page'.project = page.project
  BY <1>1, <1>2 DEF Pages
<1>4. /\ storage' \in Storages /\ storage'.server = storage.server
      /\ storage'.stars[s] = order
      /\ \A u \in Servers : u # s => storage'.stars[u] = storage.stars[u]
  BY <1>1, <1>2 DEF Storages
<1>5. ServerInv'
  BY <1>1, <1>3, <1>4 DEF ServerInv, Base
<1>6. ~astray => InStep'
  <2>1. StarsAt(storage', s) = order
    BY <1>2, <1>4, NoneIsApart DEF StarsAt
  <2>2. QED
    BY <1>1, <1>3, <1>4, <2>1 DEF Base, InStep, Shown
<1>7. ASSUME ~astray
      PROVE  OneByOne(s)
  <2>1. page.order = StarsAt(storage, s)
    BY <1>1, <1>7 DEF Base, InStep
  <2>2. StarsIn(storage'.stars[s]) = ToSet(order)
    BY <1>4, NoneIsApart DEF StarsIn
  <2>3. StarsIn(storage.stars[s]) = ToSet(page.order)
    <3>1. CASE storage.stars[s] = None
      <4>1. page.order = << >>
        BY <2>1, <3>1 DEF StarsAt
      <4>2. QED
        BY <3>1, <4>1 DEF StarsIn, ToSet
    <3>2. CASE storage.stars[s] # None
      BY <1>2, <2>1, <3>2, NoneIsApart DEF StarsIn, StarsAt
    <3>3. QED
      BY <3>1, <3>2
  <2>4. QED
    BY <2>2, <2>3 DEF OneByOne
<1>8. ASSUME NEW u \in Servers, u # s
      PROVE  OneByOne(u)
  <2>1. Changed(StarsIn(storage.stars[u]), StarsIn(storage'.stars[u])) = {}
    BY <1>4, <1>8 DEF Changed
  <2>2. QED
    BY <2>1 DEF OneByOne
<1>9. ~astray => StarsStep
  BY <1>7, <1>8 DEF StarsStep
<1>10. TabsInv' /\ KeepsAwaited
  BY SameTabs DEF Base
<1>11. CallsInv' /\ (\A t : Awaited(t)' => Awaited(t))
  BY <1>1, <1>3, <1>10, AllRemain, CallsRemain DEF Base
<1>12. EmptyInv'
  BY <1>3, <1>11, SameEmpty DEF Base
<1>13. QED
  BY <1>1, <1>3, <1>5, <1>6, <1>9, <1>10, <1>11, <1>12
  DEF Good, Base, ListStep

LEMMA ToggleProjectStarInv ==
  ASSUME Base, NEW p \in Projects, ToggleProjectStar(p)
  PROVE  Good /\ ListStep
<1> USE DEF ToggleProjectStar
<1>1. PICK s : s = page.order
  OBVIOUS
<1>2. s \in Seq(Projects) /\ IsInjective(s) /\ DOMAIN s = 1..Len(s)
  BY <1>1 DEF Base, ServerInv, Pages, Stars
<1>3. CASE IsStarred(p)
  <2>1. PICK order : order = RemoveFirst(s, p)
    OBVIOUS
  <2>2. order \in Seq(Projects) /\ AllBut(order, s, p)
    BY <1>2, <2>1, RemoveFirstIs
  <2>3. order \in Stars
    BY <2>2 DEF Stars, AllBut
  <2>4. \A x \in Changed(ToSet(s), ToSet(order)) : x = p
    BY <2>2 DEF AllBut, Changed, ToSet
  <2>5. page.server # None /\ SetStars(order)
    BY <1>1, <1>3, <2>1
  <2>6. QED
    BY <1>1, <2>3, <2>4, <2>5, SetStarsInv
<1>4. CASE ~IsStarred(p)
  <2>1. PICK order : order = Append(s, p)
    OBVIOUS
  <2>2. ~ \E k \in DOMAIN s : s[k] = p
    BY <1>1, <1>2, <1>4 DEF IsStarred, Contains
  <2>3. order \in Seq(Projects) /\ OneMore(order, s, p)
    BY <1>2, <2>1, <2>2, AppendIs
  <2>4. order \in Stars
    BY <2>3 DEF Stars, OneMore
  <2>5. \A x \in Changed(ToSet(s), ToSet(order)) : x = p
    BY <2>3 DEF OneMore, Changed, ToSet
  <2>6. page.server # None /\ SetStars(order)
    BY <1>1, <1>4, <2>1
  <2>7. QED
    BY <1>1, <2>4, <2>5, <2>6, SetStarsInv
<1>5. QED
  BY <1>3, <1>4

LEMMA ReorderStarredProjectInv ==
  ASSUME Base, NEW p \in Projects, NEW q \in Projects, NEW after \in BOOLEAN,
         ReorderStarredProject(p, q, after)
  PROVE  Good /\ ListStep
<1> USE DEF ReorderStarredProject
<1>1. PICK s : s = page.order
  OBVIOUS
<1>2. s \in Stars /\ Contains(s, p) /\ Contains(s, q)
  BY <1>1 DEF Base, ServerInv, Pages, IsStarred
<1>3. PICK order : order = Moved(s, p, q, after)
  OBVIOUS
<1>4. /\ order \in Stars
      /\ \A x : (\E k \in DOMAIN order : order[k] = x)
                  <=> (\E k \in DOMAIN s : s[k] = x)
  BY <1>2, <1>3, MovedIs
<1>5. \A x \in Changed(ToSet(s), ToSet(order)) : x = p
  BY <1>4 DEF Changed, ToSet
<1>6. page.server # None /\ SetStars(order)
  BY <1>1, <1>3
<1>7. QED
  BY <1>1, <1>4, <1>5, <1>6, SetStarsInv

-----------------------------------------------------------------------------
(***************************************************************************)
(* activateTab.                                                            *)
(***************************************************************************)
LEMMA SwitchServerInv ==
  ASSUME Base, NEW t \in Tabs, NEW s \in MaybeServer,
         NEW p \in MaybeProject, SwitchServer(page, t, s, p, calls),
         activeTabId' = t, saved'[t].server = s, saved'[t].project # None,
         page.project # None, KeepsAwaited
  PROVE  /\ ServerInv' /\ StarsStep /\ CallsInv' /\ EmptyInv' /\ InStep'
         /\ astray' = FALSE /\ AsksLast'
<1> USE DEF SwitchServer
<1>1. PICK c : c = Call("projects", s, "activate", t, p)
  OBVIOUS
<1>2. c \in Calls /\ c.kind = "projects" /\ c.server = s /\ c.tab = t
  BY <1>1 DEF Calls, Call
<1>3. s # None /\ Visit(s) /\ astray' = FALSE
  BY DEF NeedsSwitch
<1>4. calls' = Append(calls, c)
  BY <1>1 DEF Wait
<1>5. page \in Pages
  BY DEF Base, ServerInv
<1>6. /\ StarsOf(s) \in Stars => page' \in Pages
      /\ page'.server = s /\ page'.order = StarsOf(s)
      /\ page'.project = page.project
  BY <1>5 DEF Pages
<1>7. select' \in Selects /\ Shown(select', s)
  BY DEF Base, ServerInv, Selects, Shown, Offered, MaybeServer
<1>8. ServerInv' /\ StarsStep /\ InStep'
  BY <1>3, <1>6, <1>7, VisitInv DEF Base
<1>9. CallsInv' /\ AsksLast'
  BY <1>2, <1>3, <1>4, <1>6, AllRemain, CallsGrow DEF Base
<1>10. EmptyInv'
  BY <1>6 DEF EmptyInv
<1>11. QED
  BY <1>3, <1>8, <1>9, <1>10

LEMMA StayOnServerInv ==
  ASSUME Base, NEW t \in Tabs, NEW s \in MaybeServer,
         NEW p \in MaybeProject, StayOnServer(page, s, p, calls),
         activeTabId' = t, saved'[t].server = s, s # None, p # None,
         KeepsAwaited
  PROVE  /\ ServerInv' /\ StarsStep /\ CallsInv' /\ EmptyInv'
         /\ ListStep /\ (~astray => InStep')
         /\ astray' = astray /\ calls' = calls
<1> USE DEF StayOnServer
<1>1. page \in Pages /\ select \in Selects
  BY DEF Base, ServerInv
<1>2. UNCHANGED <<calls, select, astray>>
  OBVIOUS
<1>3. ~astray => s = page.server
  BY DEF NeedsSwitch, Base, InStep, Shown
<1>4. CASE s = page.server
  <2>1. page' = [page EXCEPT !.project = p]
    BY <1>4 DEF AtServer
  <2>2. /\ page' \in Pages /\ page'.server = s /\ page'.project = p
        /\ page'.order = page.order /\ page'.listed = page.listed
    BY <1>1, <1>4, <2>1 DEF Pages
  <2>3. Remember(page.server)
    BY <1>4
  <2>4. ServerInv' /\ StarsStep /\ (~astray => InStep')
    BY <1>2, <1>4, <2>2, <2>3, StayInv DEF Base
  <2>5. QED
    BY <1>2, <1>4, <2>2, <2>4, AllRemain, CallsRemain
    DEF Base, EmptyInv, ListStep
<1>5. CASE s # page.server
  <2>1. page' = [page EXCEPT !.server = s, !.order = StarsOf(s),
                             !.project = p]
    BY <1>5 DEF AtServer
  <2>2. /\ StarsOf(s) \in Stars => page' \in Pages
        /\ page'.server = s /\ page'.order = StarsOf(s)
        /\ page'.project = p
    BY <1>1, <2>1 DEF Pages
  <2>3. Visit(s)
    BY <1>5
  <2>4. ServerInv' /\ StarsStep
    BY <1>1, <1>2, <2>2, <2>3, VisitInv DEF Base
  <2>5. QED
    BY <1>2, <1>3, <1>5, <2>2, <2>4, AllRemain, CallsRemain
    DEF Base, EmptyInv, ListStep
<1>6. QED
  BY <1>4, <1>5

LEMMA ActivateTabInv ==
  ASSUME Base, NEW t \in Tabs, ActivateTab(t)
  PROVE  Good /\ ListStep
<1> USE DEF ActivateTab
<1>1. PICK s, p, a : s = saved[t].server /\ p = saved[t].project
                     /\ a = page.server
  OBVIOUS
<1>2. /\ s \in MaybeServer /\ p \in MaybeProject /\ None \in MaybeProject
      /\ a \in MaybeServer /\ s # None /\ p # None
  BY <1>1 DEF Base, TabsInv, Contents, ServerInv, Pages, MaybeProject
<1>3. saved[activeTabId].project # None
  BY DEF Base, TabsInv
<1>4. page.project # None
  BY <1>3 DEF Base, EmptyInv
<1>5. saved' = [saved EXCEPT ![activeTabId] =
                  [server |-> a, project |-> page.project]]
  BY <1>1 DEF Content
<1>6. /\ saved' \in [Tabs -> Contents] /\ saved'[t] = saved[t]
      /\ \A u, v \in Tabs :
           IsOpen(u) /\ IsOpen(v) /\ saved'[u].project = None => u = v
      /\ \A u \in Tabs : saved'[u].project # None
                           => saved'[u].server # None
      /\ KeepsAwaited
  BY <1>1, <1>2, <1>5, SavedPageIs DEF Base
<1>7. TabsInv'
  BY <1>6 DEF Base, TabsInv, IsOpen
<1>8. saved'[t].server = s /\ saved'[t].project = p
  BY <1>1, <1>6
<1>9. CASE SwitchServer(page, t, s, None, calls)
  BY <1>2, <1>4, <1>6, <1>7, <1>8, <1>9, SwitchServerInv DEF Good, ListStep
<1>10. CASE StayOnServer(page, s, p, calls)
  <2>1. /\ ServerInv' /\ StarsStep /\ CallsInv' /\ EmptyInv'
        /\ ListStep /\ (~astray => InStep')
        /\ astray' = astray
    BY <1>2, <1>6, <1>8, <1>10, StayOnServerInv
  <2>2. astray' \in BOOLEAN
    BY <2>1 DEF Base
  <2>3. QED
    BY <1>7, <2>1, <2>2 DEF Good
<1>11. QED
  BY <1>1, <1>9, <1>10

-----------------------------------------------------------------------------
(***************************************************************************)
(* openProjectInTab, by a click.                                           *)
(***************************************************************************)
LEMMA FirstTabWithIs ==
  ASSUME NEW s, NEW p, NEW i, i = FirstTabWith(s, p), i # 0
  PROVE  i \in 1..Len(tabs) /\ saved[tabs[i]] = [server |-> s, project |-> p]
<1> DEFINE I == {k \in 1..Len(tabs) :
                   saved[tabs[k]] = [server |-> s, project |-> p]}
<1>1. I # {}
  BY DEF FirstTabWith, SelectInSeq
<1>2. i = Min(I)
  BY <1>1 DEF FirstTabWith, SelectInSeq
<1>3. I \in SUBSET Nat
  OBVIOUS
<1>4. Min(I) \in I
  BY <1>1, <1>3, MinIsIn
<1>5. QED
  BY <1>2, <1>4

LEMMA NewTabIs ==
  ASSUME TabsInv, NEW t \in Tabs, IsNew(t), tabs' = Append(tabs, t)
  PROVE  /\ tabs' \in Seq(Tabs) /\ IsInjective(tabs')
         /\ \A u : IsOpen(u)' <=> IsOpen(u) \/ u = t
<1>1. PICK s, r : s = tabs /\ r = Append(tabs, t)
  OBVIOUS
<1>2. s \in Seq(Tabs) /\ IsInjective(s) /\ ~ \E k \in DOMAIN s : s[k] = t
  BY <1>1 DEF TabsInv, IsNew, IsOpen
<1>3. r \in Seq(Tabs) /\ OneMore(r, s, t)
  BY <1>1, <1>2, AppendIs
<1>4. tabs' = r /\ tabs = s
  BY <1>1
<1>5. QED
  BY <1>3, <1>4 DEF OneMore, IsOpen

(* The active tab shows project p.                                         *)
LEMMA ShowInActiveTabInv ==
  ASSUME Base, NEW pg, pg \in Pages, pg.server = page.server,
         pg.order = page.order, page.server # None, NEW p \in Projects,
         NEW rest, Remains(rest), ShowInActiveTab(pg, p, rest)
  PROVE  /\ Good /\ page'.server = page.server /\ page'.listed = pg.listed
         /\ calls' = rest /\ astray' = astray
<1> USE DEF ShowInActiveTab
<1>1. PICK t : t = activeTabId
  OBVIOUS
<1>2. t \in Tabs /\ saved \in [Tabs -> Contents]
  BY <1>1 DEF Base, TabsInv
<1>3. p \in MaybeProject /\ p # None
  BY NoneIsApart DEF MaybeProject
<1>4. /\ page' \in Pages /\ page'.server = page.server /\ page'.project = p
      /\ page'.order = page.order /\ page'.listed = pg.listed
  BY <1>3 DEF Pages
<1>5. saved' = [saved EXCEPT ![t] = Content(page')]
  BY <1>1
<1>6. Content(page') \in Contents /\ Content(page').project = p
      /\ Content(page').server = page.server
  BY <1>4 DEF Content, Contents, Pages
<1>7. /\ saved' \in [Tabs -> Contents] /\ saved'[t] = Content(page')
      /\ \A u \in Tabs : u # t => saved'[u] = saved[u]
  BY <1>2, <1>5, <1>6
<1>8. /\ UNCHANGED <<tabs, activeTabId>>
      /\ \A u : IsOpen(u)' <=> IsOpen(u)
  BY DEF IsOpen
<1>9. TabsInv'
  <2>1. \A u, w \in Tabs :
          IsOpen(u) /\ IsOpen(w) /\ saved'[u].project = None => u = w
    BY <1>3, <1>6, <1>7 DEF Base, TabsInv
  <2>2. \A u \in Tabs : saved'[u].project # None => saved'[u].server # None
    BY <1>6, <1>7 DEF Base, TabsInv
  <2>3. QED
    BY <1>7, <1>8, <2>1, <2>2 DEF Base, TabsInv
<1>10. KeepsAwaited
  BY <1>3, <1>6, <1>7 DEF KeepsAwaited
<1>11. saved'[activeTabId'].server = page.server
  BY <1>1, <1>6, <1>7
<1>12. ServerInv' /\ StarsStep /\ (~astray => InStep')
  BY <1>4, <1>11, StayInv DEF Base
<1>13. CallsInv'
  BY <1>4, <1>10, CallsRemain DEF Base
<1>14. EmptyInv'
  BY <1>3, <1>4 DEF EmptyInv
<1>15. QED
  BY <1>4, <1>9, <1>12, <1>13, <1>14 DEF Good, Base

(* Another tab becomes the active one.                                     *)
LEMMA ShowInOtherTabInv ==
  ASSUME Base, NEW t \in Tabs, t # activeTabId, NEW p \in Projects,
         page.server # None, ShowInOtherTab(page, t, p, calls),
         saved[activeTabId].project # None,
         \/ IsOpen(t) /\ UNCHANGED tabs
         \/ IsNew(t) /\ tabs' = Append(tabs, t)
  PROVE  Good /\ ListStep
<1> USE DEF ShowInOtherTab
<1>1. PICK s, a : s = page.server /\ a = activeTabId
  OBVIOUS
<1>2. /\ s \in MaybeServer /\ s # None /\ p \in MaybeProject /\ p # None
      /\ page \in Pages /\ saved \in [Tabs -> Contents]
      /\ a \in Tabs /\ IsOpen(a)
  BY <1>1, NoneIsApart DEF Base, ServerInv, TabsInv, Pages, MaybeProject
<1>3. page.project # None
  BY DEF Base, EmptyInv
<1>4. saved' = [saved EXCEPT ![a] = Content(page),
                             ![t] = [server |-> s, project |-> p]]
  BY <1>1
<1>5. Content(page) \in Contents /\ [server |-> s, project |-> p] \in Contents
  BY <1>2 DEF Contents, Content, Pages
<1>6. /\ saved' \in [Tabs -> Contents] /\ saved'[a] = Content(page)
      /\ saved'[t] = [server |-> s, project |-> p]
      /\ \A u \in Tabs \ {a, t} : saved'[u] = saved[u]
  BY <1>1, <1>2, <1>4, <1>5
<1>7. /\ saved'[a].project = page.project /\ saved'[a].server = s
      /\ saved'[t].project = p /\ saved'[t].server = s
  BY <1>1, <1>6 DEF Content
<1>8. KeepsAwaited
  BY <1>2, <1>3, <1>6, <1>7 DEF KeepsAwaited
<1>9. \A u \in Tabs : IsOpen(u) => saved[u].project # None
  BY <1>1, <1>2 DEF Base, TabsInv
<1>10. /\ tabs' \in Seq(Tabs) /\ IsInjective(tabs')
       /\ \A u : IsOpen(u)' <=> IsOpen(u) \/ u = t
  <2>1. CASE IsOpen(t) /\ UNCHANGED tabs
    BY <2>1 DEF Base, TabsInv, IsOpen
  <2>2. CASE IsNew(t) /\ tabs' = Append(tabs, t)
    BY <2>2, NewTabIs DEF Base
  <2>3. QED
    BY <2>1, <2>2
<1>11. \A u \in Tabs : IsOpen(u)' => saved'[u].project # None
  BY <1>2, <1>3, <1>6, <1>7, <1>9, <1>10
<1>12. \A u \in Tabs : saved'[u].project # None => saved'[u].server # None
  BY <1>2, <1>6, <1>7 DEF Base, TabsInv
<1>13. TabsInv'
  BY <1>6, <1>10, <1>11, <1>12 DEF TabsInv
<1>14. CASE SwitchServer(page, t, s, p, calls)
  BY <1>2, <1>3, <1>7, <1>8, <1>13, <1>14, SwitchServerInv
  DEF Good, ListStep
<1>15. CASE StayOnServer(page, s, p, calls)
  <2>1. /\ ServerInv' /\ StarsStep /\ CallsInv' /\ EmptyInv'
        /\ ListStep /\ (~astray => InStep')
        /\ astray' = astray
    BY <1>2, <1>7, <1>8, <1>15, StayOnServerInv
  <2>2. astray' \in BOOLEAN
    BY <2>1 DEF Base
  <2>3. QED
    BY <1>13, <2>1, <2>2 DEF Good
<1>16. QED
  BY <1>1, <1>14, <1>15

LEMMA OpenProjectInv ==
  ASSUME Base, NEW p \in Projects, OpenProject(p)
  PROVE  Good /\ ListStep
<1>1. OpenProjectInTab(page, p, calls)
  BY DEF OpenProject
<1>2. page \in Pages /\ page.server # None
  BY NoneIsApart DEF OpenProject, Listed, Base, ServerInv
<1>3. PICK i : i = FirstTabWith(page.server, p)
  OBVIOUS
<1>4. CASE ShowInActiveTab(page, p, calls)
  <2>1. /\ Good /\ page'.server = page.server /\ page'.listed = page.listed
        /\ calls' = calls /\ astray' = astray
    BY <1>2, <1>4, AllRemain, ShowInActiveTabInv DEF Base
  <2>2. QED
    BY <2>1 DEF ListStep
<1>5. CASE /\ i # 0 /\ tabs[i] # activeTabId
           /\ ShowInOtherTab(page, tabs[i], p, calls)
           /\ UNCHANGED tabs
  <2>1. PICK t : t = tabs[i]
    OBVIOUS
  <2>2. i \in DOMAIN tabs /\ tabs \in Seq(Tabs)
    <3>1. tabs \in Seq(Tabs)
      BY DEF Base, TabsInv
    <3>2. i \in 1..Len(tabs)
      BY <1>3, <1>5, FirstTabWithIs
    <3>3. QED
      BY <3>1, <3>2
  <2>3. t \in Tabs /\ IsOpen(t)
    BY <2>1, <2>2 DEF IsOpen
  <2>4. saved[activeTabId].project # None
    BY <1>5, <2>1, <2>3 DEF Base, TabsInv
  <2>5. QED
    BY <1>2, <1>5, <2>1, <2>3, <2>4, ShowInOtherTabInv
<1>6. CASE /\ saved[activeTabId].project # None
           /\ \E t \in Tabs : /\ IsNew(t) /\ tabs' = Append(tabs, t)
                              /\ ShowInOtherTab(page, t, p, calls)
  <2>1. PICK t \in Tabs : /\ IsNew(t) /\ tabs' = Append(tabs, t)
                          /\ ShowInOtherTab(page, t, p, calls)
    BY <1>6
  <2>2. t # activeTabId
    BY <2>1 DEF IsNew, Base, TabsInv
  <2>3. QED
    BY <1>2, <1>6, <2>1, <2>2, ShowInOtherTabInv
<1>7. QED
  BY <1>1, <1>3, <1>4, <1>5, <1>6 DEF OpenProjectInTab

-----------------------------------------------------------------------------
(***************************************************************************)
(* closeTab.                                                               *)
(***************************************************************************)
LEMMA ShowNeighbourInv ==
  ASSUME Base, NEW u \in Tabs, ShowNeighbour(u), saved'[u] \in Contents,
         \/ saved'[u].server # None /\ saved'[u].project # None
         \/ /\ saved'[u].server = page.server
            /\ saved'[u].project = None /\ ~Awaited(u),
         KeepsAwaited
  PROVE  /\ ServerInv' /\ StarsStep /\ CallsInv' /\ EmptyInv'
         /\ ListStep /\ (~astray => InStep')
         /\ astray' = astray /\ activeTabId' = u
<1>1. PICK s, p : s = saved'[u].server /\ p = saved'[u].project
  OBVIOUS
<1>2. s \in MaybeServer /\ p \in MaybeProject
  BY <1>1 DEF Contents
<1>3. /\ activeTabId' = u /\ UNCHANGED astray
      /\ page' = [AtServer(page, s) EXCEPT !.project = p]
      /\ select' = [select EXCEPT !.value = IF s = None \/ @ = s THEN @
                                            ELSE Offered(s)]
      /\ IF s = page.server THEN Remember(s) /\ UNCHANGED calls
         ELSE Visit(s) /\ LoadProjects(calls, s, "nothing")
  BY <1>1 DEF ShowNeighbour
<1>4. page \in Pages /\ select \in Selects
  BY DEF Base, ServerInv
<1>5. select' \in Selects
  BY <1>2, <1>3, <1>4 DEF Offered, Selects, MaybeServer
<1>6. p # None => s # None
  BY <1>1
<1>7. CASE s = page.server
  <2>1. page' = [page EXCEPT !.project = p]
    BY <1>3, <1>7 DEF AtServer
  <2>2. /\ page' \in Pages /\ page'.server = s /\ page'.project = p
        /\ page'.order = page.order /\ page'.listed = page.listed
    BY <1>2, <1>4, <1>7, <2>1 DEF Pages
  <2>3. Remember(s) /\ UNCHANGED calls
    BY <1>3, <1>7
  <2>4. /\ storage' \in Storages /\ storage'.server = s
        /\ storage'.stars = storage.stars /\ StarsStep
    BY <1>2, <2>3, RememberIs DEF Base, ServerInv
  <2>5. ServerInv'
    BY <1>5, <1>6, <1>7, <2>2, <2>4 DEF Base, ServerInv
  <2>6. ~astray => InStep'
    <3>1. StarsAt(storage', s) = StarsAt(storage, s)
      BY <2>4 DEF StarsAt
    <3>2. Shown(select, s) => Shown(select', s)
      BY <1>3, <1>4 DEF Offered, Shown, Selects
    <3>3. saved'[activeTabId'].server = s
      BY <1>1, <1>3
    <3>4. QED
      BY <1>7, <2>2, <2>4, <3>1, <3>2, <3>3 DEF Base, InStep
  <2>7. CallsInv' /\ \A t : Awaited(t)' => Awaited(t)
    BY <1>7, <2>2, <2>3, AllRemain, CallsRemain DEF Base
  <2>8. EmptyInv'
    BY <1>1, <1>3, <2>2, <2>7 DEF EmptyInv
  <2>9. ListStep
    BY <1>3, <1>7, <2>2, <2>3 DEF ListStep
  <2>10. QED
    BY <1>3, <2>4, <2>5, <2>6, <2>7, <2>8, <2>9
<1>8. CASE s # page.server
  <2>1. s # None /\ p # None
    BY <1>1, <1>8
  <2>2. page' = [page EXCEPT !.server = s, !.order = StarsOf(s),
                             !.project = p]
    BY <1>3, <1>8 DEF AtServer
  <2>3. /\ StarsOf(s) \in Stars => page' \in Pages
        /\ page'.server = s /\ page'.order = StarsOf(s)
        /\ page'.project = p
    BY <1>2, <1>4, <2>2 DEF Pages
  <2>4. ~astray => Shown(select', s)
    BY <1>2, <1>3, <1>4, <1>8, <2>1
    DEF Offered, Shown, Selects, MaybeServer, Base, InStep
  <2>5. Visit(s) /\ LoadProjects(calls, s, "nothing")
    BY <1>3, <1>8
  <2>6. ServerInv' /\ StarsStep /\ (~astray => InStep')
    BY <1>1, <1>2, <1>3, <1>5, <2>1, <2>3, <2>4, <2>5, VisitInv DEF Base
  <2>7. PICK c : c = Call("projects", s, "nothing", None, None)
    OBVIOUS
  <2>8. c \in Calls /\ c.kind = "projects" /\ c.server = s
        /\ c.then = "nothing"
    BY <1>2, <2>7 DEF Calls, Call, MaybeProject
  <2>9. calls' = Append(calls, c)
    BY <2>5, <2>7 DEF LoadProjects, Wait
  <2>10. CallsInv' /\ AsksLast'
    BY <2>1, <2>3, <2>8, <2>9, AllRemain, CallsGrow DEF Base
  <2>11. EmptyInv'
    BY <2>1, <2>3 DEF EmptyInv
  <2>12. QED
    BY <1>3, <2>6, <2>10, <2>11 DEF ListStep
<1>9. QED
  BY <1>7, <1>8

(* The tabs without tab t.                                                 *)
LEMMA TabClosed ==
  ASSUME TabsInv, NEW i \in DOMAIN tabs, tabs' = RemoveAt(tabs, i),
         UNCHANGED saved
  PROVE  /\ tabs' \in Seq(Tabs) /\ IsInjective(tabs')
         /\ \A u : IsOpen(u)' <=> IsOpen(u) /\ u # tabs[i]
         /\ Len(tabs') = Len(tabs) - 1 /\ DOMAIN tabs' = 1..Len(tabs')
         /\ activeTabId' \in Tabs /\ IsOpen(activeTabId')
              /\ activeTabId' # tabs[i] => TabsInv'
         /\ KeepsAwaited
<1>1. PICK s, r : s = tabs /\ r = RemoveAt(tabs, i)
  OBVIOUS
<1>2. s \in Seq(Tabs) /\ IsInjective(s) /\ i \in DOMAIN s
  BY <1>1 DEF TabsInv
<1>3. r \in Seq(Tabs) /\ SkipAt(r, s, i)
  BY <1>1, <1>2, RemoveAtSkips
<1>4. AllBut(r, s, s[i])
  BY <1>2, <1>3, SkipsOne
<1>5. tabs' = r /\ tabs = s
  BY <1>1
<1>6. /\ tabs' \in Seq(Tabs) /\ IsInjective(tabs')
      /\ \A u : IsOpen(u)' <=> IsOpen(u) /\ u # tabs[i]
  BY <1>3, <1>4, <1>5 DEF AllBut, IsOpen
<1>7. Len(tabs') = Len(tabs) - 1 /\ DOMAIN tabs' = 1..Len(tabs')
  BY <1>3, <1>5 DEF SkipAt
<1>8. activeTabId' \in Tabs /\ IsOpen(activeTabId')
        /\ activeTabId' # tabs[i] => TabsInv'
  <2> SUFFICES ASSUME activeTabId' \in Tabs, IsOpen(activeTabId'),
                      activeTabId' # tabs[i]
               PROVE  TabsInv'
    OBVIOUS
  <2>1. IsOpen(activeTabId)'
    BY <1>6
  <2>2. QED
    BY <1>6, <2>1 DEF TabsInv
<1>9. KeepsAwaited
  BY DEF KeepsAwaited
<1>10. QED
  BY <1>6, <1>7, <1>8, <1>9

LEMMA CloseBackgroundTabInv ==
  ASSUME Base, NEW i \in DOMAIN tabs, CloseBackgroundTab(i)
  PROVE  Good /\ ListStep
<1> USE DEF CloseBackgroundTab
<1>1. TabsInv' /\ KeepsAwaited
  BY TabClosed DEF Base, TabsInv
<1>2. ServerInv' /\ StarsStep /\ (~astray => InStep')
  BY StayInv DEF Base, ServerInv, InStep
<1>3. CallsInv' /\ (\A t : Awaited(t)' => Awaited(t))
  BY <1>1, AllRemain, CallsRemain DEF Base
<1>4. EmptyInv'
  BY <1>3, SameEmpty DEF Base
<1>5. QED
  BY <1>1, <1>2, <1>3, <1>4 DEF Good, Base, ListStep

LEMMA CloseActiveTabInv ==
  ASSUME Base, NEW i \in DOMAIN tabs, CloseActiveTab(i)
  PROVE  Good /\ ListStep
<1> USE DEF CloseActiveTab
<1>1. tabs \in Seq(Tabs) /\ IsInjective(tabs) /\ DOMAIN tabs = 1..Len(tabs)
  BY DEF Base, TabsInv
<1>2. /\ tabs' \in Seq(Tabs)
      /\ \A u : IsOpen(u)' <=> IsOpen(u) /\ u # tabs[i]
      /\ Len(tabs') = Len(tabs) - 1 /\ DOMAIN tabs' = 1..Len(tabs')
      /\ KeepsAwaited
  BY TabClosed DEF Base
<1>3. PICK k : k = IF i > 1 THEN i - 1 ELSE 1
  OBVIOUS
<1>4. k \in DOMAIN tabs'
  BY <1>1, <1>2, <1>3
<1>5. PICK u : u = tabs'[k]
  OBVIOUS
<1>6. ShowNeighbour(u)
  BY <1>3, <1>5
<1>7. u \in Tabs /\ IsOpen(u)'
  BY <1>2, <1>4, <1>5 DEF IsOpen
<1>8. IsOpen(u) /\ u # tabs[i] /\ tabs[i] = activeTabId
  BY <1>2, <1>7
<1>9. saved'[u] \in Contents /\ saved'[u].project # None
      /\ saved'[u].server # None
  BY <1>7, <1>8 DEF Base, TabsInv
<1>10. /\ ServerInv' /\ StarsStep /\ CallsInv' /\ EmptyInv'
       /\ ListStep /\ (~astray => InStep')
       /\ astray' = astray /\ activeTabId' = u
  BY <1>2, <1>6, <1>7, <1>9, ShowNeighbourInv
<1>11. TabsInv'
  BY <1>7, <1>8, <1>10, TabClosed DEF Base
<1>12. astray' \in BOOLEAN
  BY <1>10 DEF Base
<1>13. QED
  BY <1>10, <1>11, <1>12 DEF Good

(* One tab is left, and it is new.                                         *)
LEMMA OnlyTab ==
  ASSUME TabsInv, NEW u \in Tabs, IsNew(u), tabs' = <<u>>,
         activeTabId' = u, NEW s \in MaybeServer,
         saved' = [saved EXCEPT ![u] = EmptyTab(s)]
  PROVE  /\ TabsInv' /\ KeepsAwaited /\ ~Awaited(u)
         /\ saved'[u] = EmptyTab(s) /\ saved'[u] \in Contents
<1>1. PICK r : r = <<u>>
  OBVIOUS
<1>2. r \in Seq(Tabs) /\ DOMAIN r = {1} /\ r[1] = u
  BY <1>1
<1>3. IsInjective(r)
  BY <1>2 DEF IsInjective
<1>4. tabs' = r
  BY <1>1
<1>5. \A t : IsOpen(t)' <=> t = u
  BY <1>2, <1>4 DEF IsOpen
<1>6. EmptyTab(s) \in Contents /\ EmptyTab(s).project = None
  BY DEF EmptyTab, Contents, MaybeProject
<1>7. /\ saved' \in [Tabs -> Contents] /\ saved'[u] = EmptyTab(s)
      /\ \A t \in Tabs : t # u => saved'[t] = saved[t]
  BY <1>6 DEF TabsInv
<1>8. \A t \in Tabs : saved'[t].project # None => saved'[t].server # None
  BY <1>6, <1>7 DEF TabsInv
<1>9. TabsInv'
  BY <1>2, <1>3, <1>4, <1>5, <1>7, <1>8 DEF TabsInv
<1>10. ~Awaited(u)
  BY DEF Awaited, IsNew
<1>11. KeepsAwaited
  BY <1>7, <1>10 DEF KeepsAwaited
<1>12. QED
  BY <1>6, <1>7, <1>9, <1>10, <1>11

LEMMA CloseLastTabInv ==
  ASSUME Base, CloseLastTab
  PROVE  Good /\ ListStep
<1>1. PICK u \in Tabs :
        /\ IsNew(u) /\ tabs' = <<u>>
        /\ saved' = [saved EXCEPT ![u] = EmptyTab(page.server)]
        /\ ShowNeighbour(u)
  BY DEF CloseLastTab
<1>2. activeTabId' = u
  BY <1>1 DEF ShowNeighbour
<1>3. page.server \in MaybeServer
  BY DEF Base, ServerInv, Pages
<1>4. /\ TabsInv' /\ KeepsAwaited /\ ~Awaited(u)
      /\ saved'[u] = EmptyTab(page.server) /\ saved'[u] \in Contents
  BY <1>1, <1>2, <1>3, OnlyTab DEF Base
<1>5. saved'[u].server = page.server /\ saved'[u].project = None
  BY <1>4 DEF EmptyTab
<1>6. /\ ServerInv' /\ StarsStep /\ CallsInv' /\ EmptyInv'
      /\ ListStep /\ (~astray => InStep')
      /\ astray' = astray
  BY <1>1, <1>4, <1>5, ShowNeighbourInv
<1>7. astray' \in BOOLEAN
  BY <1>6 DEF Base
<1>8. QED
  BY <1>4, <1>6, <1>7 DEF Good

LEMMA CloseTabInv ==
  ASSUME Base, NEW t \in Tabs, CloseTab(t)
  PROVE  Good /\ ListStep
BY CloseBackgroundTabInv, CloseActiveTabInv, CloseLastTabInv DEF CloseTab

-----------------------------------------------------------------------------
(***************************************************************************)
(* The select.                                                             *)
(***************************************************************************)
LEMMA ChangeServerInv ==
  ASSUME Base, NEW s \in Servers, ChangeServer(s)
  PROVE  Good /\ ListStep
<1> USE DEF ChangeServer
<1>1. PICK t \in Tabs :
        /\ IsNew(t) /\ tabs' = <<t>> /\ activeTabId' = t
        /\ saved' = [saved EXCEPT ![t] = EmptyTab(s)]
  OBVIOUS
<1>2. /\ page \in Pages /\ select \in Selects
      /\ s \in MaybeServer /\ s # None
  BY NoneIsApart DEF Base, ServerInv, MaybeServer
<1>3. /\ TabsInv' /\ KeepsAwaited /\ ~Awaited(t)
      /\ saved'[t] = EmptyTab(s)
  BY <1>1, <1>2, OnlyTab DEF Base
<1>4. saved'[t].project = None /\ saved'[t].server = s
  BY <1>3 DEF EmptyTab
<1>5. /\ StarsOf(s) \in Stars => page' \in Pages
      /\ page'.server = s /\ page'.order = StarsOf(s)
      /\ page'.project = None
  BY <1>2 DEF Pages, MaybeProject
<1>6. select' \in Selects /\ Shown(select', s)
  BY <1>2 DEF Selects, Shown
<1>7. ServerInv' /\ StarsStep /\ InStep'
  BY <1>1, <1>2, <1>4, <1>5, <1>6, VisitInv DEF Base
<1>8. PICK c : c = Call("projects", s, "default", None, None)
  OBVIOUS
<1>9. c \in Calls /\ c.kind = "projects" /\ c.server = s
      /\ c.then = "default"
  BY <1>2, <1>8 DEF Calls, Call, MaybeProject
<1>10. calls' = Append(calls, c)
  BY <1>8 DEF LoadProjects, Wait
<1>11. CallsInv' /\ AsksLast' /\ (\A u : Awaited(u)' => Awaited(u))
  BY <1>2, <1>3, <1>5, <1>9, <1>10, AllRemain, CallsGrow DEF Base
<1>12. EmptyInv'
  BY <1>1, <1>3, <1>4, <1>11 DEF EmptyInv
<1>13. QED
  BY <1>3, <1>7, <1>11, <1>12 DEF Good, ListStep

-----------------------------------------------------------------------------
(***************************************************************************)
(* The answers.  The tabs stay where they are.                             *)
(***************************************************************************)
SamePlace == UNCHANGED <<tabs, activeTabId>>

(* What the answer to call c makes of the list of projects.                *)
AnswerStep(c, rest) ==
  \/ AsksLast'
  \/ /\ calls' = rest /\ (astray => astray')
     /\ astray' \/ page'.server = page.server
     /\ \/ c.kind = "projects" /\ page'.listed = c.server /\ missed' = FALSE
        \/ page'.listed = page.listed
           /\ missed' = (missed \/ c.kind = "projects")

LEMMA ProjectsLoadedInv ==
  ASSUME Base, NEW i \in DOMAIN calls, NEW c, c = calls[i], NEW rest,
         Remains(rest), ProjectsLoaded(c, rest), missed' = FALSE
  PROVE  Good /\ SamePlace /\ AnswerStep(c, rest)
<1> USE DEF ProjectsLoaded
<1>1. c \in Calls /\ page \in Pages /\ page.server # None
  BY DEF Base, CallsInv, ServerInv
<1>2. /\ page' \in Pages /\ page'.server = page.server
      /\ page'.project = page.project /\ page'.order = page.order
      /\ page'.listed = c.server
  BY <1>1 DEF WithList, Pages, Calls
<1>3. TabsInv' /\ KeepsAwaited
  BY SameTabs DEF Base
<1>4. ServerInv' /\ StarsStep /\ (~astray => InStep')
  BY <1>1, <1>2, StayInv DEF Base, InStep
<1>5. CallsInv' /\ (\A t : Awaited(t)' => Awaited(t))
  BY <1>2, <1>3, CallsRemain DEF Base
<1>6. EmptyInv'
  BY <1>2, <1>5, SameEmpty DEF Base
<1>7. QED
  BY <1>2, <1>3, <1>4, <1>5, <1>6 DEF Good, Base, SamePlace, AnswerStep

LEMMA ProjectsLoadedOpenDefaultInv ==
  ASSUME Base, NEW i \in DOMAIN calls, NEW c, c = calls[i], NEW rest,
         Remains(rest), ProjectsLoadedOpenDefault(c, rest), missed' = FALSE
  PROVE  Good /\ SamePlace /\ AnswerStep(c, rest)
<1>1. c \in Calls /\ page \in Pages /\ page.server # None
      /\ c.kind = "projects"
  BY DEF Base, CallsInv, ServerInv, ProjectsLoadedOpenDefault
<1>2. PICK pg : pg = [WithList(c) EXCEPT !.done = TRUE]
  OBVIOUS
<1>3. /\ pg \in Pages /\ pg.server = page.server
      /\ pg.project = page.project /\ pg.order = page.order
      /\ pg.listed = c.server
  BY <1>1, <1>2 DEF WithList, Pages, Calls
<1>4. CASE /\ page' = pg /\ calls' = rest
           /\ UNCHANGED <<select, storage, tabs, activeTabId, saved, astray>>
  <2>1. TabsInv' /\ KeepsAwaited
    BY <1>4, SameTabs DEF Base
  <2>2. ServerInv' /\ StarsStep /\ (~astray => InStep')
    BY <1>1, <1>3, <1>4, StayInv DEF Base, InStep
  <2>3. CallsInv' /\ (\A t : Awaited(t)' => Awaited(t))
    BY <1>3, <1>4, <2>1, CallsRemain DEF Base
  <2>4. EmptyInv'
    BY <1>3, <1>4, <2>3, SameEmpty DEF Base
  <2>5. QED
    BY <1>1, <1>3, <1>4, <2>1, <2>2, <2>3, <2>4
    DEF Good, Base, SamePlace, AnswerStep
<1>5. CASE /\ saved[activeTabId].project = None
           /\ FirstStarred(pg) # None
           /\ OpenProjectInTab(pg, FirstStarred(pg), rest)
  <2>1. PICK p, k : p = FirstStarred(pg) /\ k = FirstTabWith(pg.server, p)
    OBVIOUS
  <2>2. p \in Projects
    BY <1>3, <1>5, <2>1, FirstStarredIs DEF Pages
  <2>3. tabs \in Seq(Tabs) /\ \A t \in Tabs : IsOpen(t) => t = activeTabId
    BY <1>5 DEF Base, TabsInv
  <2>4. ASSUME k # 0
        PROVE  FALSE
    <3>1. /\ k \in 1..Len(tabs)
          /\ saved[tabs[k]] = [server |-> pg.server, project |-> p]
      BY <2>1, <2>4, FirstTabWithIs
    <3>2. tabs[k] \in Tabs /\ IsOpen(tabs[k])
      BY <2>3, <3>1 DEF IsOpen
    <3>3. saved[activeTabId].project = p
      BY <2>3, <3>1, <3>2
    <3>4. QED
      BY <1>5, <2>2, <3>3, NoneIsApart
  <2>5. ShowInActiveTab(pg, p, rest)
    BY <1>5, <2>1, <2>4 DEF OpenProjectInTab
  <2>6. /\ Good /\ page'.server = page.server /\ page'.listed = pg.listed
        /\ calls' = rest /\ astray' = astray
    BY <1>1, <1>3, <2>2, <2>5, ShowInActiveTabInv
  <2>7. SamePlace
    BY <2>5 DEF ShowInActiveTab, SamePlace
  <2>8. QED
    BY <1>1, <1>3, <2>6, <2>7 DEF AnswerStep
<1>6. QED
  BY <1>2, <1>4, <1>5
  DEF ProjectsLoadedOpenDefault, StartsDefault

(* The page is shown the tab that has been waited for, active or not.      *)
LEMMA ProjectsLoadedShowTabInv ==
  ASSUME Base, NEW i \in DOMAIN calls, NEW c, c = calls[i], NEW rest,
         Remains(rest), ProjectsLoadedShowTab(c, rest), missed' = FALSE
  PROVE  Good /\ SamePlace /\ AnswerStep(c, rest)
<1>1. c \in Calls /\ c.then = "activate" /\ c.kind = "projects"
      /\ page \in Pages /\ page.server # None
  BY DEF Base, CallsInv, ServerInv, ProjectsLoadedShowTab
<1>2. PICK s, p : /\ s = saved[c.tab].server
                  /\ p = IF c.project = None THEN saved[c.tab].project
                                             ELSE c.project
  OBVIOUS
<1>3. Awaited(c.tab)
  BY <1>1 DEF Awaited
<1>4. c.tab \in Tabs /\ saved[c.tab].project # None
  BY <1>3 DEF Base, CallsInv
<1>5. /\ s \in MaybeServer /\ s # None /\ p \in MaybeProject /\ p # None
  BY <1>1, <1>2, <1>4 DEF Base, TabsInv, Contents, Calls
<1>6. PICK pg : pg = [WithList(c) EXCEPT !.server = s, !.project = p]
  OBVIOUS
<1>7. /\ pg \in Pages /\ pg.server = s /\ pg.project = p
      /\ pg.order = page.order /\ pg.listed = c.server
  BY <1>1, <1>5, <1>6 DEF WithList, Pages, Calls
<1>8. /\ page' = pg /\ calls' = rest
      /\ saved' = IF c.project = None THEN saved
                  ELSE [saved EXCEPT ![activeTabId] = Content(pg)]
      /\ astray' = (astray \/ c.tab # activeTabId)
      /\ UNCHANGED <<select, storage, tabs, activeTabId>>
  <2>1. pg = [WithList(c) EXCEPT
                !.server = IF saved[c.tab].server = None THEN @
                           ELSE saved[c.tab].server,
                !.project = IF c.project = None THEN saved[c.tab].project
                                                ELSE c.project]
    BY <1>2, <1>5, <1>6
  <2>2. QED
    BY <2>1 DEF ProjectsLoadedShowTab
<1>9. PICK a : a = activeTabId
  OBVIOUS
<1>10. a \in Tabs /\ saved \in [Tabs -> Contents]
  BY <1>9 DEF Base, TabsInv
<1>11. Content(pg) = [server |-> s, project |-> p] /\ Content(pg) \in Contents
  BY <1>5, <1>7 DEF Content, Contents
<1>12. /\ saved' \in [Tabs -> Contents]
       /\ \A t \in Tabs : t # a => saved'[t] = saved[t]
       /\ saved'[a] = saved[a] \/ saved'[a] = [server |-> s, project |-> p]
  BY <1>8, <1>9, <1>10, <1>11
<1>13. /\ \A t \in Tabs : saved'[t].project = saved[t].project
                            \/ saved'[t].project # None
       /\ \A t \in Tabs : saved'[t].project # None => saved'[t].server # None
  BY <1>5, <1>12 DEF Base, TabsInv
<1>14. TabsInv' /\ KeepsAwaited
  BY <1>8, <1>12, <1>13 DEF Base, TabsInv, IsOpen, KeepsAwaited
<1>15. ServerInv' /\ StarsStep
  BY <1>5, <1>7, <1>8, SameStars DEF Base, ServerInv
<1>16. ASSUME ~astray'
       PROVE  InStep' /\ page'.server = page.server
  <2>1. ~astray /\ c.tab = a
    BY <1>8, <1>9, <1>16
  <2>2. s = page.server
    BY <1>2, <1>9, <2>1 DEF Base, InStep
  <2>3. saved'[a].server = s
    BY <1>2, <1>12, <2>1
  <2>4. QED
    BY <1>7, <1>8, <1>9, <2>1, <2>2, <2>3 DEF Base, InStep
<1>17. CallsInv'
  BY <1>5, <1>7, <1>8, <1>14, CallsRemain DEF Base
<1>18. EmptyInv'
  BY <1>5, <1>7, <1>8 DEF EmptyInv
<1>19. astray' \in BOOLEAN /\ (astray => astray')
  BY <1>8 DEF Base
<1>20. AnswerStep(c, rest)
  BY <1>1, <1>7, <1>8, <1>16, <1>19 DEF AnswerStep
<1>21. SamePlace
  BY <1>8 DEF SamePlace
<1>22. QED
  BY <1>14, <1>15, <1>16, <1>17, <1>18, <1>19, <1>20, <1>21 DEF Good

LEMMA ConfigSavedInv ==
  ASSUME Base, NEW i \in DOMAIN calls, NEW c, c = calls[i], NEW rest,
         Remains(rest), NEW l \in Lists, ConfigSaved(c, rest, l)
  PROVE  Good /\ SamePlace /\ AnswerStep(c, rest)
<1> USE DEF ConfigSaved
<1>1. page \in Pages /\ storage \in Storages /\ select \in Selects
  BY DEF Base, ServerInv
<1>2. l.servers \in SUBSET Servers /\ l.first \in MaybeServer
      /\ l.first \in l.servers
  BY DEF Lists, MaybeServer
<1>3. PICK current : current = IF page.server = None THEN select.value
                                                     ELSE page.server
  OBVIOUS
<1>4. PICK q : q = <<current, storage.server, l.first>>
  OBVIOUS
<1>5. q \in Seq(MaybeServer) /\ Len(q) = 3 /\ q[3] = l.first
  BY <1>1, <1>2, <1>3, <1>4 DEF Pages, Storages, Selects
<1>6. PICK r : r = Picked(l)
  OBVIOUS
<1>7. r = FirstOf(q, l)
  BY <1>3, <1>4, <1>6 DEF Picked
<1>8. r \in MaybeServer /\ r # None /\ r \in l.servers
  <2>1. 3 \in 1..Len(q) /\ q[3] \in l.servers
    BY <1>2, <1>5
  <2>2. r \in MaybeServer /\ (r = None \/ r \in l.servers) /\ r # None
    BY <1>5, <1>7, <2>1, FirstOfIs
  <2>3. QED
    BY <2>2
<1>9. /\ select' = [options |-> l.servers, value |-> r]
      /\ page' = [page EXCEPT !.server = r, !.order = StarsOf(r)]
      /\ Visit(r) /\ astray' = FALSE
      /\ saved' = [saved EXCEPT ![activeTabId] =
                     [server |-> r, project |-> page.project]]
      /\ UNCHANGED <<tabs, activeTabId>>
  BY <1>6 DEF RenderServerSelect
<1>10. /\ StarsOf(r) \in Stars => page' \in Pages
       /\ page'.server = r /\ page'.order = StarsOf(r)
       /\ page'.project = page.project
  BY <1>1, <1>8, <1>9 DEF Pages
<1>11. select' \in Selects /\ Shown(select', r)
  BY <1>2, <1>8, <1>9 DEF Selects, Shown
<1>12. /\ saved' \in [Tabs -> Contents]
       /\ saved'[activeTabId] = [server |-> r, project |-> page.project]
       /\ \A t, u \in Tabs :
            IsOpen(t) /\ IsOpen(u) /\ saved'[t].project = None => t = u
       /\ \A t \in Tabs : saved'[t].project # None
                            => saved'[t].server # None
       /\ KeepsAwaited
  BY <1>8, <1>9, SavedPageIs DEF Base
<1>13. saved'[activeTabId'].server = r
  BY <1>9, <1>12
<1>14. ServerInv' /\ StarsStep /\ InStep'
  BY <1>8, <1>9, <1>10, <1>11, <1>13, VisitInv DEF Base
<1>15. TabsInv'
  BY <1>9, <1>12 DEF Base, TabsInv, IsOpen
<1>16. PICK d : d = Call("projects", r, "default", None, None)
  OBVIOUS
<1>17. d \in Calls /\ d.kind = "projects" /\ d.server = r
       /\ d.then = "default"
  BY <1>8, <1>16 DEF Calls, Call, MaybeProject
<1>18. calls' = Append(rest, d)
  BY <1>10, <1>16 DEF LoadProjects, Wait
<1>19. CallsInv' /\ AsksLast' /\ (\A t : Awaited(t)' => Awaited(t))
  BY <1>8, <1>10, <1>12, <1>17, <1>18, CallsGrow DEF Base
<1>20. EmptyInv'
  BY <1>9, <1>10, <1>12, <1>19 DEF Base, EmptyInv
<1>21. QED
  BY <1>9, <1>14, <1>15, <1>19, <1>20 DEF Good, SamePlace, AnswerStep

LEMMA CallFailsInv ==
  ASSUME Base, NEW i \in DOMAIN calls, NEW c, c = calls[i], NEW rest,
         Remains(rest), CallFails(c, rest)
  PROVE  Good /\ SamePlace /\ AnswerStep(c, rest)
<1> USE DEF CallFails
<1>1. TabsInv' /\ KeepsAwaited
  BY SameTabs DEF Base
<1>2. ServerInv' /\ StarsStep /\ (~astray => InStep')
  BY StayInv DEF Base, ServerInv, InStep
<1>3. CallsInv' /\ (\A t : Awaited(t)' => Awaited(t))
  BY <1>1, CallsRemain DEF Base
<1>4. EmptyInv'
  BY <1>3, SameEmpty DEF Base
<1>5. QED
  BY <1>1, <1>2, <1>3, <1>4 DEF Good, Base, SamePlace, AnswerStep

-----------------------------------------------------------------------------
(***************************************************************************)
(* The whole specification.                                                *)
(***************************************************************************)
LEMMA StartsInv ==
  ASSUME NEW t \in Tabs, NEW l \in Lists, NEW last \in Servers \cup {None},
         NEW stars \in [Servers -> {None, << >>}],
         Starts(t, l, FirstOf(<<last, l.first>>, l), stars)
  PROVE  IInv
<1>1. PICK q : q = <<last, l.first>>
  OBVIOUS
<1>2. l.first \in MaybeServer /\ l.servers \in SUBSET Servers
  BY DEF Lists, MaybeServer
<1>3. q \in Seq(MaybeServer)
  BY <1>1, <1>2 DEF MaybeServer
<1>4. PICK s : s = FirstOf(q, l)
  OBVIOUS
<1>5. s \in MaybeServer /\ (s = None \/ s \in l.servers)
  BY <1>3, <1>4, FirstOfIs
<1>6. PICK moves \in BOOLEAN :
        moves <=> s # None /\ stars[s] = None /\ Legacy # << >>
  OBVIOUS
<1>7. PICK order : order = IF moves THEN Legacy ELSE << >>
  OBVIOUS
<1>8. /\ tabs = <<t>> /\ activeTabId = t
      /\ saved = [u \in Tabs |-> EmptyTab(IF u = t THEN s ELSE None)]
      /\ select = [options |-> l.servers, value |-> s]
      /\ storage = [server |-> s, migratedTo |-> IF moves THEN s ELSE None,
                    stars |-> IF moves THEN [stars EXCEPT ![s] = Legacy]
                                       ELSE stars]
      /\ page = [server |-> s, project |-> None, order |-> order,
                 listed |-> None, done |-> s = None]
      /\ calls = IF s = None THEN << >>
                 ELSE <<Call("projects", s, "default", None, None)>>
      /\ missed = FALSE /\ overtaken = FALSE /\ astray = FALSE
      /\ clicks = 0
  BY <1>1, <1>4, <1>6, <1>7 DEF Starts
<1>9. page \in Pages
  BY <1>5, <1>7, <1>8, NoneIsApart DEF Pages, MaybeServer, MaybeProject
<1>10. storage \in Storages
  <2>1. (IF moves THEN [stars EXCEPT ![s] = Legacy] ELSE stars)
          \in [Servers -> Stars \cup {None}]
    BY NoneIsApart
  <2>2. QED
    BY <1>5, <1>8, <2>1 DEF Storages, MaybeServer
<1>11. page.order = StarsAt(storage, s)
  <2>1. CASE moves
    <3>1. s \in Servers /\ storage.stars[s] = Legacy
      BY <1>5, <1>6, <1>8, <2>1 DEF MaybeServer
    <3>2. QED
      BY <1>6, <1>7, <1>8, <2>1, <3>1, NoneIsApart DEF StarsAt
  <2>2. CASE ~moves
    <3>1. storage.stars = stars /\ page.order = << >>
      BY <1>7, <1>8, <2>2
    <3>2. s = None \/ stars[s] \in {None, << >>}
      BY <1>5 DEF MaybeServer
    <3>3. QED
      BY <3>1, <3>2 DEF StarsAt
  <2>3. QED
    BY <2>1, <2>2
<1>12. ServerInv
  BY <1>2, <1>5, <1>8, <1>9, <1>10, NoneIsApart DEF ServerInv, Selects
<1>13. InStep
  BY <1>5, <1>8, <1>11 DEF InStep, Shown, EmptyTab
<1>14. TabsInv
  <2>1. PICK r : r = <<t>>
    OBVIOUS
  <2>2. r \in Seq(Tabs) /\ DOMAIN r = {1} /\ r[1] = t
    BY <2>1
  <2>3. IsInjective(r)
    BY <2>2 DEF IsInjective
  <2>4. \A u : IsOpen(u) <=> u = t
    BY <1>8, <2>1, <2>2 DEF IsOpen
  <2>5. \A u \in Tabs : EmptyTab(IF u = t THEN s ELSE None) \in Contents
    BY <1>5 DEF EmptyTab, Contents, MaybeServer, MaybeProject
  <2>6. saved \in [Tabs -> Contents]
    BY <1>8, <2>5
  <2>7. \A u \in Tabs : saved[u].project = None
    BY <1>8 DEF EmptyTab
  <2>8. QED
    BY <1>8, <2>1, <2>2, <2>3, <2>4, <2>6, <2>7 DEF TabsInv
<1>15. CallsInv /\ \A u : ~Awaited(u)
  <2>1. CASE s = None
    BY <1>8, <2>1 DEF CallsInv, Awaited
  <2>2. CASE s # None
    <3>1. PICK c : c = Call("projects", s, "default", None, None)
      OBVIOUS
    <3>2. c \in Calls /\ c.server = s /\ c.then = "default"
      BY <1>5, <3>1 DEF Calls, Call, MaybeProject
    <3>3. calls = <<c>> /\ page.server = s
      BY <1>8, <2>2, <3>1
    <3>4. calls \in Seq(Calls) /\ \A i \in DOMAIN calls : calls[i] = c
      BY <3>2, <3>3
    <3>5. QED
      BY <2>2, <3>2, <3>3, <3>4 DEF CallsInv, Awaited
  <2>3. QED
    BY <2>1, <2>2
<1>16. EmptyInv
  BY <1>8, <1>15 DEF EmptyInv, EmptyTab
<1>17. QED
  <2>1. missed \in BOOLEAN /\ overtaken \in BOOLEAN /\ astray \in BOOLEAN
    BY <1>8
  <2>2. clicks \in 0..MaxClicks
    BY <1>8, ServerPageAssumption
  <2>3. QED
    BY <1>12, <1>13, <1>14, <1>15, <1>16, <2>1, <2>2 DEF IInv, Base

LEMMA InitInv == Init => IInv
BY StartsInv DEF Init

LEMMA ClickInv ==
  ASSUME Base, Click
  PROVE  Good /\ ListStep /\ UNCHANGED missed
<1>1. CASE \E t \in Tabs : ActivateTab(t) \/ CloseTab(t)
  BY <1>1, ActivateTabInv, CloseTabInv DEF ActivateTab, CloseTab
<1>2. CASE \E p \in Projects : OpenProject(p) \/ ToggleProjectStar(p)
  BY <1>2, OpenProjectInv, ToggleProjectStarInv
  DEF OpenProject, ToggleProjectStar, SetStars
<1>3. CASE \E p, q \in Projects, after \in BOOLEAN :
             ReorderStarredProject(p, q, after)
  BY <1>3, ReorderStarredProjectInv DEF ReorderStarredProject, SetStars
<1>4. CASE \E s \in Servers : ChangeServer(s)
  BY <1>4, ChangeServerInv DEF ChangeServer
<1>5. CASE RefreshProjects \/ SaveConfig
  BY <1>5, RefreshProjectsInv, SaveConfigInv DEF RefreshProjects, SaveConfig
<1>6. QED
  BY <1>1, <1>2, <1>3, <1>4, <1>5 DEF Click

LEMMA AnswerInv ==
  ASSUME Base, missed \in BOOLEAN, NEW i \in DOMAIN calls, NEW c,
         c = calls[i], NEW rest, rest = RemoveAt(calls, i), Answer(c, rest)
  PROVE  /\ Good /\ SamePlace /\ AnswerStep(c, rest)
         /\ missed' \in BOOLEAN /\ SkipAt(rest, calls, i)
<1>1. Remains(rest) /\ SkipAt(rest, calls, i)
  BY RestRemains DEF Base
<1>2. CASE ProjectsLoaded(c, rest) /\ missed' = FALSE
  BY <1>1, <1>2, ProjectsLoadedInv
<1>3. CASE ProjectsLoadedOpenDefault(c, rest) /\ missed' = FALSE
  BY <1>1, <1>3, ProjectsLoadedOpenDefaultInv
<1>4. CASE ProjectsLoadedShowTab(c, rest) /\ missed' = FALSE
  BY <1>1, <1>4, ProjectsLoadedShowTabInv
<1>5. CASE \E l \in Lists : ConfigSaved(c, rest, l)
  BY <1>1, <1>5, ConfigSavedInv DEF ConfigSaved
<1>6. CASE CallFails(c, rest)
  <2>1. missed' \in BOOLEAN
    BY <1>6 DEF CallFails
  <2>2. QED
    BY <1>1, <1>6, <2>1, CallFailsInv
<1>7. QED
  BY <1>2, <1>3, <1>4, <1>5, <1>6 DEF Answer, Loaded

LEMMA NextInv ==
  ASSUME IInv, [Next]_vars
  PROVE  /\ IInv'
         /\ ~astray => StarsStep
         /\ clicks' = clicks => SamePlace
<1>1. CASE /\ Click /\ overtaken' = (overtaken /\ ~AsksAnew)
           /\ clicks < MaxClicks /\ clicks' = clicks + 1
  <2>1. Good /\ UNCHANGED missed
    BY <1>1, ClickInv DEF IInv
  <2>2. clicks' \in 0..MaxClicks /\ clicks' # clicks
    BY <1>1, ServerPageAssumption DEF IInv
  <2>3. overtaken' \in BOOLEAN
    BY <1>1
  <2>4. QED
    BY <2>1, <2>2, <2>3 DEF IInv, Base, Good
<1>2. CASE /\ \E i \in DOMAIN calls :
                /\ Answer(calls[i], RemoveAt(calls, i))
                /\ overtaken' = ((overtaken /\ ~AsksAnew) \/ Overtakes(i))
           /\ UNCHANGED clicks
  <2>1. PICK i \in DOMAIN calls :
          /\ Answer(calls[i], RemoveAt(calls, i))
          /\ overtaken' = ((overtaken /\ ~AsksAnew) \/ Overtakes(i))
    BY <1>2
  <2>2. Good /\ SamePlace /\ missed' \in BOOLEAN
    BY <2>1, AnswerInv DEF IInv
  <2>3. overtaken' \in BOOLEAN
    BY <2>1
  <2>4. QED
    BY <1>2, <2>2, <2>3 DEF IInv, Base, Good
<1>3. CASE SyncStateToActiveTab /\ UNCHANGED <<overtaken, clicks>>
  <2>1. Good
    BY <1>3, SyncStateToActiveTabInv DEF IInv
  <2>2. QED
    BY <1>3, <2>1
    DEF IInv, Base, Good, SyncStateToActiveTab, SamePlace
<1>4. CASE UNCHANGED vars
  <2> USE <1>4 DEF vars
  <2>1. ServerInv' /\ StarsStep /\ (~astray => InStep')
    BY StayInv DEF IInv, Base, ServerInv, InStep
  <2>2. TabsInv' /\ KeepsAwaited
    BY SameTabs DEF IInv, Base
  <2>3. CallsInv' /\ (\A t : Awaited(t)' => Awaited(t))
    BY <2>2, AllRemain, CallsRemain DEF IInv, Base
  <2>4. EmptyInv'
    BY <2>3, SameEmpty DEF IInv, Base
  <2>5. QED
    BY <2>1, <2>2, <2>3, <2>4 DEF IInv, Base, SamePlace
<1>5. QED
  BY <1>1, <1>2, <1>3, <1>4 DEF Next

-----------------------------------------------------------------------------
(***************************************************************************)
(* The list of projects, while answers come in the order they were asked   *)
(* for: the last list that is waited for is of the server in use.          *)
(***************************************************************************)
ListInv ==
  \/ \E i \in DOMAIN calls :
       /\ calls[i].kind = "projects" /\ calls[i].server = page.server
       /\ \A j \in DOMAIN calls : calls[j].kind = "projects" => j <= i
  \/ ~Waits("projects") /\ (missed \/ page.listed = page.server)

InOrder == ~overtaken /\ ~astray => ListInv

LEMMA AsksLastList ==
  ASSUME CallsInv, AsksLast
  PROVE  ListInv
<1>1. PICK n : n = Len(calls)
  OBVIOUS
<1>2. DOMAIN calls = 1..n /\ n \in Nat
  BY <1>1 DEF CallsInv
<1>3. n > 0 /\ calls[n].kind = "projects" /\ calls[n].server = page.server
  BY <1>1 DEF AsksLast
<1>4. n \in DOMAIN calls /\ \A j \in DOMAIN calls : j <= n
  BY <1>2, <1>3
<1>5. QED
  BY <1>3, <1>4 DEF ListInv

LEMMA AsksLastNext == CallsInv' /\ AsksLast' => ListInv'
BY AsksLastList, PTL

LEMMA ClickList ==
  ASSUME CallsInv, CallsInv', InOrder, ListStep, UNCHANGED missed,
         overtaken' = (overtaken /\ ~AsksAnew)
  PROVE  InOrder'
<1> SUFFICES ASSUME ~overtaken', ~astray'
             PROVE  ListInv'
  BY DEF InOrder
<1>1. CASE AsksLast'
  BY <1>1, AsksLastNext
<1>2. CASE /\ astray' = astray /\ calls' = calls
           /\ ~astray => page'.server = page.server
                         /\ page'.listed = page.listed
  <2>1. ~astray /\ ~overtaken
    BY <1>2 DEF AsksAnew, Waits
  <2>2. ListInv
    BY <2>1 DEF InOrder
  <2>3. QED
    BY <1>2, <2>1, <2>2 DEF ListInv, Waits
<1>3. CASE /\ astray' = astray
           /\ ~astray => page'.server = page.server
                         /\ page'.listed = page.listed
           /\ \E c \in Calls : c.kind = "save" /\ calls' = Append(calls, c)
  <2>1. PICK c \in Calls : c.kind = "save" /\ calls' = Append(calls, c)
    BY <1>3
  <2>2. PICK cs, n : cs = Append(calls, c) /\ n = Len(calls)
    OBVIOUS
  <2>3. /\ calls \in Seq(Calls) /\ DOMAIN calls = 1..n /\ n \in Nat
        /\ DOMAIN cs = 1..(n + 1) /\ cs[n + 1] = c
        /\ \A j \in DOMAIN calls : cs[j] = calls[j]
    <3> HIDE DEF Calls
    <3>1. QED
      BY <2>2 DEF CallsInv
  <2>4. \A j \in DOMAIN cs :
          cs[j].kind = "projects" => j \in DOMAIN calls /\ cs[j] = calls[j]
    <3> TAKE j \in DOMAIN cs
    <3>1. j = n + 1 \/ j \in DOMAIN calls
      BY <2>3
    <3>2. QED
      BY <2>1, <2>3, <3>1
  <2>5. DOMAIN calls \subseteq DOMAIN cs
    BY <2>3
  <2>6. calls' = cs
    BY <2>1, <2>2
  <2>7. Waits("projects")' => Waits("projects")
    BY <2>4, <2>6 DEF Waits
  <2>8. ~astray /\ ~overtaken
    BY <1>3, <2>7 DEF AsksAnew
  <2>9. ListInv /\ page'.server = page.server /\ page'.listed = page.listed
    BY <1>3, <2>8 DEF InOrder
  <2>10. CASE Waits("projects")
    <3>1. PICK i \in DOMAIN calls :
            /\ calls[i].kind = "projects" /\ calls[i].server = page.server
            /\ \A j \in DOMAIN calls : calls[j].kind = "projects" => j <= i
      BY <2>9, <2>10 DEF ListInv
    <3>2. /\ i \in DOMAIN cs /\ cs[i].kind = "projects"
          /\ cs[i].server = page.server
          /\ \A j \in DOMAIN cs : cs[j].kind = "projects" => j <= i
      BY <2>3, <2>4, <2>5, <3>1
    <3>3. QED
      BY <2>6, <2>9, <3>2 DEF ListInv
  <2>11. CASE ~Waits("projects")
    <3>1. missed \/ page.listed = page.server
      BY <2>9, <2>11 DEF ListInv, Waits
    <3>2. QED
      BY <2>7, <2>9, <2>11, <3>1 DEF ListInv
  <2>12. QED
    BY <2>10, <2>11
<1>4. QED
  BY <1>1, <1>2, <1>3 DEF ListStep

(* Which of the calls that stay one of the old ones is.                    *)
LEMMA AnswerList ==
  ASSUME CallsInv, CallsInv', InOrder, NEW i \in DOMAIN calls, NEW rest,
         SkipAt(rest, calls, i), AnswerStep(calls[i], rest),
         overtaken' = ((overtaken /\ ~AsksAnew) \/ Overtakes(i))
  PROVE  InOrder'
<1> SUFFICES ASSUME ~overtaken', ~astray'
             PROVE  ListInv'
  BY DEF InOrder
<1>1. CASE AsksLast'
  BY <1>1, AsksLastNext
<1>2. CASE ~AsksLast'
  <2>1. PICK n : n = Len(calls)
    OBVIOUS
  <2>2. DOMAIN calls = 1..n /\ n \in Nat /\ i \in 1..n
    BY <2>1 DEF CallsInv
  <2>3. /\ DOMAIN rest = 1..(n - 1)
        /\ \A j \in DOMAIN rest : rest[j] = calls[IF j < i THEN j ELSE j + 1]
    BY <2>1, <2>2 DEF SkipAt
  <2>4. calls' = rest /\ page'.server = page.server /\ ~astray
    BY <1>2 DEF AnswerStep
  <2>5. \A j \in DOMAIN rest :
          \E k \in DOMAIN calls :
            k = (IF j < i THEN j ELSE j + 1) /\ rest[j] = calls[k]
    BY <2>2, <2>3
  <2>6. \A k \in DOMAIN calls :
          k # i => \E j \in DOMAIN rest :
                     j = (IF k < i THEN k ELSE k - 1) /\ rest[j] = calls[k]
    <3> TAKE k \in DOMAIN calls
    <3>1. CASE k < i
      BY <2>2, <2>3, <3>1
    <3>2. CASE k > i
      <4>1. k - 1 \in DOMAIN rest /\ ~(k - 1 < i) /\ (k - 1) + 1 = k
        BY <2>2, <2>3, <3>2
      <4>2. rest[k - 1] = calls[k]
        BY <2>3, <4>1
      <4>3. QED
        BY <2>2, <3>2, <4>1, <4>2
    <3>3. QED
      BY <2>2, <3>1, <3>2
  <2>7. Waits("projects")' => Waits("projects")
    BY <2>4, <2>5 DEF Waits
  <2>8. ~overtaken /\ ~Overtakes(i)
    BY <2>7 DEF AsksAnew
  <2>9. ListInv
    BY <2>4, <2>8 DEF InOrder
  <2>10. CASE \E j \in DOMAIN rest : rest[j].kind = "projects"
    <3>1. PICK k \in DOMAIN calls :
            /\ calls[k].kind = "projects" /\ calls[k].server = page.server
            /\ \A j \in DOMAIN calls : calls[j].kind = "projects" => j <= k
      BY <2>5, <2>9, <2>10 DEF ListInv, Waits
    <3>2. k # i
      <4>1. SUFFICES ASSUME k = i
                     PROVE  FALSE
        OBVIOUS
      <4>2. PICK j \in DOMAIN calls : calls[j].kind = "projects" /\ j # i
        <5>1. PICK r \in DOMAIN rest : rest[r].kind = "projects"
          BY <2>10
        <5>2. PICK j \in DOMAIN calls :
                j = (IF r < i THEN r ELSE r + 1) /\ rest[r] = calls[j]
          BY <2>5
        <5>3. j # i
          BY <2>2, <2>3, <5>2
        <5>4. QED
          BY <5>1, <5>2, <5>3
      <4>3. j < i
        BY <2>2, <3>1, <4>1, <4>2
      <4>4. QED
        BY <2>8, <3>1, <4>1, <4>2, <4>3 DEF Overtakes
    <3>3. PICK m \in DOMAIN rest :
            m = (IF k < i THEN k ELSE k - 1) /\ rest[m] = calls[k]
      BY <2>6, <3>2
    <3>4. ASSUME NEW j \in DOMAIN rest, rest[j].kind = "projects"
          PROVE  j <= m
      <4>1. PICK l \in DOMAIN calls :
              l = (IF j < i THEN j ELSE j + 1) /\ rest[j] = calls[l]
        BY <2>5
      <4>2. l <= k
        BY <3>1, <3>4, <4>1
      <4>3. QED
        BY <2>2, <2>3, <3>2, <3>3, <4>1, <4>2
    <3>5. QED
      BY <2>4, <3>1, <3>3, <3>4 DEF ListInv
  <2>11. CASE ~ \E j \in DOMAIN rest : rest[j].kind = "projects"
    <3>1. \A k \in DOMAIN calls : calls[k].kind = "projects" => k = i
      BY <2>6, <2>11
    <3>2. missed' \/ page'.listed = page'.server
      <4>1. CASE calls[i].kind = "projects" /\ page'.listed = calls[i].server
        <5>1. calls[i].server = page.server
          BY <2>9, <3>1, <4>1 DEF ListInv, Waits
        <5>2. QED
          BY <2>4, <4>1, <5>1
      <4>2. CASE /\ page'.listed = page.listed
                 /\ missed' = (missed \/ calls[i].kind = "projects")
        <5>1. CASE calls[i].kind = "projects"
          BY <4>2, <5>1
        <5>2. CASE calls[i].kind # "projects"
          <6>1. missed \/ page.listed = page.server
            BY <2>9, <3>1, <5>2 DEF ListInv, Waits
          <6>2. QED
            BY <2>4, <4>2, <6>1
        <5>3. QED
          BY <5>1, <5>2
      <4>3. QED
        BY <1>2, <4>1, <4>2 DEF AnswerStep
    <3>3. QED
      BY <2>4, <2>11, <3>2 DEF ListInv, Waits
  <2>12. QED
    BY <2>10, <2>11
<1>3. QED
  BY <1>1, <1>2

LEMMA InitList == Init => InOrder
<1>1. ASSUME NEW t, NEW l, NEW s, NEW stars, Starts(t, l, s, stars)
      PROVE  ListInv
  <2>1. page.server = s /\ page.listed = None
    BY <1>1 DEF Starts
  <2>2. CASE s = None
    <3>1. calls = << >>
      BY <1>1, <2>2 DEF Starts
    <3>2. QED
      BY <2>1, <2>2, <3>1 DEF ListInv, Waits
  <2>3. CASE s # None
    <3>1. PICK c : c = Call("projects", s, "default", None, None)
      OBVIOUS
    <3>2. calls = <<c>> /\ c.kind = "projects" /\ c.server = s
      BY <1>1, <2>3, <3>1 DEF Starts, Call
    <3>3. DOMAIN calls = {1} /\ calls[1] = c
      BY <3>2
    <3>4. QED
      BY <2>1, <3>2, <3>3 DEF ListInv
  <2>4. QED
    BY <2>2, <2>3
<1>2. QED
  BY <1>1 DEF Init, InOrder

LEMMA NextList ==
  ASSUME IInv, InOrder, [Next]_vars
  PROVE  InOrder'
<1>1. CallsInv /\ CallsInv' /\ Base /\ missed \in BOOLEAN
  BY NextInv DEF IInv, Base
<1>2. CASE Click /\ overtaken' = (overtaken /\ ~AsksAnew)
  <2>1. ListStep /\ UNCHANGED missed
    BY <1>1, <1>2, ClickInv
  <2>2. QED
    BY <1>1, <1>2, <2>1, ClickList
<1>3. CASE \E i \in DOMAIN calls :
             /\ Answer(calls[i], RemoveAt(calls, i))
             /\ overtaken' = ((overtaken /\ ~AsksAnew) \/ Overtakes(i))
  <2>1. PICK i \in DOMAIN calls :
          /\ Answer(calls[i], RemoveAt(calls, i))
          /\ overtaken' = ((overtaken /\ ~AsksAnew) \/ Overtakes(i))
    BY <1>3
  <2>2. PICK c, rest : c = calls[i] /\ rest = RemoveAt(calls, i)
    OBVIOUS
  <2>3. AnswerStep(c, rest) /\ SkipAt(rest, calls, i)
    BY <1>1, <2>1, <2>2, AnswerInv
  <2>4. QED
    BY <1>1, <2>1, <2>2, <2>3, AnswerList
<1>4. CASE SyncStateToActiveTab /\ UNCHANGED <<overtaken, clicks>>
  BY <1>4 DEF SyncStateToActiveTab, InOrder, ListInv, Waits
<1>5. CASE UNCHANGED vars
  BY <1>5 DEF vars, InOrder, ListInv, Waits
<1>6. QED
  BY <1>2, <1>3, <1>4, <1>5 DEF Next

-----------------------------------------------------------------------------
(***************************************************************************)
(* The theorems.                                                           *)
(***************************************************************************)
LEMMA ServerPageInvariant == Spec => []IInv
<1>1. Init => IInv
  BY InitInv
<1>2. IInv /\ [Next]_vars => IInv'
  BY NextInv
<1>3. QED
  BY <1>1, <1>2, PTL DEF Spec

(* Every variable keeps its type: the list of tabs has no tab twice and    *)
(* always has the active one, no list of stars has a project twice.        *)
THEOREM ServerPageTypes == Spec => []TypeOK
<1>1. IInv => TypeOK
  <2> SUFFICES ASSUME IInv
               PROVE  TypeOK
    OBVIOUS
  <2>1. /\ page \in [server : MaybeServer, project : MaybeProject,
                     order : Stars, listed : MaybeServer, done : BOOLEAN]
        /\ select.options \subseteq Servers /\ select.value \in MaybeServer
        /\ storage \in [server : MaybeServer,
                        stars : [Servers -> Stars \cup {None}],
                        migratedTo : MaybeServer]
    BY DEF IInv, Base, ServerInv, Pages, Storages, Selects
  <2>2. /\ tabs \in Seq(Tabs) /\ IsInjective(tabs) /\ IsOpen(activeTabId)
        /\ saved \in [Tabs -> [server : MaybeServer, project : MaybeProject]]
    BY DEF IInv, Base, TabsInv, Contents
  <2>3. calls \in Seq([kind : {"projects", "save"}, server : MaybeServer,
                       then : {"nothing", "default", "activate"},
                       tab : Tabs \cup {None}, project : MaybeProject])
    BY DEF IInv, Base, CallsInv, Calls
  <2>4. {missed, overtaken, astray} \subseteq BOOLEAN
        /\ clicks \in 0..MaxClicks
    BY DEF IInv, Base
  <2>5. QED
    BY <2>1, <2>2, <2>3, <2>4 DEF TypeOK
<1>2. QED
  BY <1>1, ServerPageInvariant, PTL

(* The stars on the page are those stored for the server in use, so that   *)
(* a click on a star (persistStarredProjectPaths) writes back the list of  *)
(* this server and of no other, unless activateTab has loaded a tab that   *)
(* was left meanwhile.                                                     *)
THEOREM StarsOfTheServer == Spec => []StarsAreOfTheServer
<1>1. IInv => StarsAreOfTheServer
  BY DEF IInv, Base, InStep, StarsAreOfTheServer, StarsAt
<1>2. QED
  BY <1>1, ServerPageInvariant, PTL

(* The page, the select, localStorage and the active tab agree about the   *)
(* server in use (activateTab, closeTab, renderServerSelect), while a list *)
(* is waited for too, unless activateTab has loaded a tab that was left.   *)
THEOREM OneServerEverywhere == Spec => []ServerIsTheSelected
<1>1. IInv => ServerIsTheSelected
  BY DEF IInv, Base, InStep, Shown, ServerIsTheSelected
<1>2. QED
  BY <1>1, ServerPageInvariant, PTL

(* The projects on the page are those of the server in use once all lists  *)
(* that loadProjects asked for are there, unless one has come before an    *)
(* earlier one or activateTab has loaded a tab that was left.              *)
THEOREM ProjectsOfTheServer == Spec => []ProjectsAreOfTheServer
<1>1. Init => IInv /\ InOrder
  BY InitInv, InitList
<1>2. IInv /\ InOrder /\ [Next]_vars => IInv' /\ InOrder'
  BY NextInv, NextList
<1>3. InOrder => ProjectsAreOfTheServer
  BY DEF InOrder, ListInv, Waits, ProjectsAreOfTheServer
<1>4. QED
  BY <1>1, <1>2, <1>3, PTL DEF Spec

(* An answer, the one that opens the default project too, leaves the user  *)
(* in the tab where he is.                                                 *)
THEOREM UserStaysWhereHeIs == Spec => AnswersLeaveTheUserAlone
<1>1. IInv /\ [Next]_vars
        => [clicks' = clicks => activeTabId' = activeTabId
                                  /\ tabs' = tabs]_vars
  BY NextInv DEF SamePlace
<1>2. QED
  BY <1>1, ServerPageInvariant, PTL DEF Spec, AnswersLeaveTheUserAlone

(* A step changes the star of one project of one server, but for the first *)
(* server that takes over the old list (loadStarredProjectPaths), unless   *)
(* activateTab has loaded a tab that was left meanwhile.                   *)
THEOREM StarsAreNotMixed == Spec => StarsChangeOneByOne
<1>1. IInv /\ [Next]_vars => (~astray => StarsStep)
  BY NextInv
<1>2. IInv /\ [Next]_vars
        => [~astray => \A s \in Servers :
              LET changed == Changed(StarsIn(storage.stars[s]),
                                     StarsIn(storage'.stars[s]))
              IN \/ \A p, q \in changed : p = q
                 \/ storage.migratedTo = None
                    /\ storage'.migratedTo = s]_vars
  BY <1>1 DEF StarsStep, OneByOne
<1>3. QED
  BY <1>2, ServerPageInvariant, PTL DEF Spec, StarsChangeOneByOne
=============================================================================
