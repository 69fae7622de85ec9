---------------------------- MODULE LogViewProofs ----------------------------
(***************************************************************************)
(* Proofs about LogView for any number of tabs, lines and keywords and any *)
(* sizes of the view, the text and a read: the lines of a text stay in     *)
(* order whatever is added and cut at its ends, only the user makes the    *)
(* page stop following, and the view shows the lines of the text.          *)
(***************************************************************************)
EXTENDS LogView, TLAPS, SequenceTheorems, WellFoundedInduction

-----------------------------------------------------------------------------
(***************************************************************************)
(* Texts.                                                                  *)
(***************************************************************************)
Above(text, b) == \A i \in DOMAIN text : b < text[i]

IsText(text) == text \in Seq(Nat) /\ Above(text, 0)

(* Lines of the first n of a file that come after line `start`, in order.  *)
InOrder(text, start, n) ==
  /\ text \in Seq(Nat) /\ start \in Nat /\ n \in Nat /\ start <= n
  /\ Increases(text) /\ Above(text, start)
  /\ \A i \in DOMAIN text : text[i] <= n

LEMMA Arithmetic ==
  /\ \A a, b \in Nat : Less(a, b) \in Nat /\ Less(a, b) <= a
  /\ \A a, b \in Nat : b <= a => Less(a, b) = a - b
  /\ \A a, b, c \in Nat : a <= c => Less(a, b) <= Less(c, b)
  /\ \A a, b \in Nat : Smaller(a, b) \in Nat /\ Smaller(a, b) <= a
                        /\ Smaller(a, b) <= b
  /\ \A a, b \in Nat : Larger(a, b) \in Nat /\ Larger(a, b) >= a
                        /\ Larger(a, b) >= b
  /\ Chunk \in Nat /\ Chunk > 0 /\ KeywordLines \in Nat
  /\ MaxText \in Nat /\ MaxText > 0
  /\ Height \in Nat /\ FirstSize \in Nat /\ MaxLines \in Nat
<1>1. \A a, b \in Nat : Less(a, b) \in Nat /\ Less(a, b) <= a
  BY DEF Less
<1>2. \A a, b \in Nat : b <= a => Less(a, b) = a - b
  BY DEF Less
<1>3. \A a, b, c \in Nat : a <= c => Less(a, b) <= Less(c, b)
  BY DEF Less
<1>4. \A a, b \in Nat : Smaller(a, b) \in Nat /\ Smaller(a, b) <= a
                         /\ Smaller(a, b) <= b
  BY DEF Smaller
<1>5. \A a, b \in Nat : Larger(a, b) \in Nat /\ Larger(a, b) >= a
                         /\ Larger(a, b) >= b
  BY DEF Larger
<1>6. /\ Chunk \in Nat /\ Chunk > 0 /\ KeywordLines \in Nat
      /\ MaxText \in Nat /\ MaxText > 0
      /\ Height \in Nat /\ FirstSize \in Nat /\ MaxLines \in Nat
  BY LogViewAssumption
<1>7. QED
  BY <1>1, <1>2, <1>3, <1>4, <1>5, <1>6

LEMMA Elements ==
  ASSUME NEW text \in Seq(Nat), NEW i \in DOMAIN text
  PROVE  text[i] \in Nat
OBVIOUS

(* What stays when text is cut down to r.                                  *)
IsPart(r, text) ==
  /\ r \in Seq(Nat)
  /\ \A m \in Nat : Above(text, m) => Above(r, m)
  /\ \A start, n \in Nat : InOrder(text, start, n) => InOrder(r, start, n)

LEMMA PartOK ==
  ASSUME NEW text \in Seq(Nat),
         NEW a \in Nat, NEW b \in Nat, 1 <= a, a <= b + 1, b <= Len(text),
         NEW r, r = SubSeq(text, a, b)
  PROVE  IsPart(r, text)
<1>2. /\ r \in Seq(Nat) /\ Len(r) = b - a + 1 /\ DOMAIN r = 1..(b - a + 1)
      /\ \A i \in 1..(b - a + 1) : r[i] = text[a + i - 1]
  OBVIOUS
<1>3. DOMAIN text = 1..Len(text) /\ Len(text) \in Nat
  OBVIOUS
<1>4. \A i \in DOMAIN r : a + i - 1 \in DOMAIN text /\ r[i] = text[a + i - 1]
  <2>1. \A i \in 1..(b - a + 1) : a + i - 1 \in 1..Len(text)
    BY <1>3
  <2>2. QED
    BY <1>2, <1>3, <2>1
<1>5. ASSUME Increases(text)
      PROVE  Increases(r)
  <2>1. ASSUME NEW i \in 2..Len(r)
        PROVE  r[i - 1] < r[i]
    <3>1. /\ r[i - 1] = text[a + (i - 1) - 1] /\ r[i] = text[a + i - 1]
          /\ a + i - 1 \in 2..Len(text)
          /\ a + (i - 1) - 1 = (a + i - 1) - 1
      BY <1>2, <1>3, <2>1
    <3>2. text[(a + i - 1) - 1] < text[a + i - 1]
      BY <1>5, <3>1 DEF Increases
    <3>3. QED
      BY <3>1, <3>2
  <2>2. QED
    BY <2>1 DEF Increases
<1>6. \A m \in Nat : Above(text, m) => Above(r, m)
  BY <1>4 DEF Above
<1>7. \A start, n \in Nat : InOrder(text, start, n) => InOrder(r, start, n)
  BY <1>2, <1>4, <1>5, <1>6 DEF InOrder
<1>8. QED
  BY <1>2, <1>6, <1>7 DEF IsPart

LEMMA KeepOK ==
  ASSUME NEW text \in Seq(Nat), NEW r, r = KeepTail(text) \/ r = KeepHead(text)
  PROVE  IsPart(r, text)
<1>1. PICK len : len = Len(text)
  OBVIOUS
<1>2. len \in Nat
  BY <1>1
<1>3. CASE r = KeepTail(text)
  <2>1. PICK a : a = Less(len, MaxText) + 1
    OBVIOUS
  <2>2. /\ a \in Nat /\ 1 <= a /\ a <= len + 1
        /\ len \in Nat /\ len <= Len(text)
    <3>1. Less(len, MaxText) \in Nat /\ Less(len, MaxText) <= len
      BY <1>2, Arithmetic
    <3>2. QED
      BY <1>1, <1>2, <2>1, <3>1
  <2>3. r = SubSeq(text, a, len)
    BY <1>1, <1>3, <2>1 DEF KeepTail
  <2>4. QED
    BY <2>2, <2>3, PartOK
<1>4. CASE r = KeepHead(text)
  <2>1. PICK b : b = Smaller(len, MaxText)
    OBVIOUS
  <2>2. /\ 1 \in Nat /\ 1 <= 1 /\ 1 <= b + 1
        /\ b \in Nat /\ b <= Len(text)
    <3>1. b \in Nat /\ b <= len
      BY <1>2, <2>1, Arithmetic
    <3>2. QED
      BY <1>1, <1>2, <3>1
  <2>3. r = SubSeq(text, 1, b)
    BY <1>1, <1>4, <2>1 DEF KeepHead
  <2>4. QED
    BY <2>2, <2>3, PartOK
<1>5. QED
  BY <1>3, <1>4

LEMMA PartIsText ==
  ASSUME NEW text, IsText(text), NEW r, IsPart(r, text)
  PROVE  IsText(r)
BY DEF IsText, IsPart

(* The line after the n-th comes at the end.                               *)
LEMMA NextLineOK ==
  ASSUME NEW text \in Seq(Nat), NEW n \in Nat, NEW r, r = Append(text, n + 1)
  PROVE  /\ IsText(text) => IsText(r)
         /\ \A start \in Nat :
              InOrder(text, start, n) => InOrder(r, start, n + 1)
         /\ \A m \in Nat : Above(text, m) /\ m <= n => Above(r, m)
<1>2. /\ r \in Seq(Nat) /\ Len(r) = Len(text) + 1 /\ Len(text) \in Nat
      /\ DOMAIN r = 1..(Len(text) + 1) /\ DOMAIN text = 1..Len(text)
      /\ r[Len(text) + 1] = n + 1
      /\ \A i \in DOMAIN text : r[i] = text[i]
  OBVIOUS
<1>3. \A i \in DOMAIN r : i \in DOMAIN text \/ i = Len(text) + 1
  BY <1>2
<1>7. ASSUME NEW m \in Nat, Above(text, m), m <= n
      PROVE  Above(r, m)
  <2>1. \A i \in DOMAIN text : m < r[i]
    BY <1>2, <1>7 DEF Above
  <2>2. m < n + 1
    BY <1>7
  <2>3. QED
    BY <1>2, <1>3, <2>1, <2>2 DEF Above
<1>8. ASSUME NEW start \in Nat, InOrder(text, start, n)
      PROVE  InOrder(r, start, n + 1)
  <2>1. \A i \in DOMAIN text : text[i] \in Nat /\ text[i] <= n
    BY <1>8 DEF InOrder
  <2>2. Increases(r)
    <3>1. ASSUME NEW i \in 2..Len(r)
          PROVE  r[i - 1] < r[i]
      <4>1. CASE i \in 2..Len(text)
        <5>1. i \in DOMAIN text /\ i - 1 \in DOMAIN text
          BY <1>2, <4>1
        <5>2. text[i - 1] < text[i]
          BY <1>8, <4>1 DEF InOrder, Increases
        <5>3. QED
          BY <1>2, <5>1, <5>2
      <4>2. CASE i = Len(text) + 1
        <5>1. i - 1 \in DOMAIN text
          BY <1>2, <3>1, <4>2
        <5>2. QED
          BY <1>2, <2>1, <4>2, <5>1
      <4>3. QED
        BY <1>2, <4>1, <4>2
    <3>2. QED
      BY <3>1 DEF Increases
  <2>3. Above(r, start) /\ start <= n + 1 /\ n + 1 \in Nat
    BY <1>7, <1>8 DEF InOrder
  <2>4. \A i \in DOMAIN r : r[i] <= n + 1
    <3>1. \A i \in DOMAIN text : r[i] <= n + 1
      BY <1>2, <2>1
    <3>2. QED
      BY <1>2, <1>3, <3>1
  <2>5. QED
    BY <1>2, <1>8, <2>2, <2>3, <2>4 DEF InOrder
<1>9. IsText(text) => IsText(r)
  BY <1>2, <1>7 DEF IsText
<1>10. QED
  BY <1>7, <1>8, <1>9

LEMMA EmptyOK ==
  /\ IsText(<< >>) /\ \A n \in Nat : InOrder(<< >>, 0, n)
  /\ \A m \in Nat : Above(<< >>, m)
BY DEF IsText, InOrder, Above, Increases

(* The lines from `from` on up to line n.                                  *)
LEMMA RangeOK ==
  ASSUME NEW from \in Nat, NEW n \in Nat, from <= n, NEW r,
         r = [i \in 1..(n - from) |-> from + i]
  PROVE  /\ r \in Seq(Nat) /\ Len(r) = n - from /\ Increases(r)
         /\ \A i \in DOMAIN r : r[i] = from + i /\ from < r[i] /\ r[i] <= n
<1>1. n - from \in Nat
  OBVIOUS
<1>2. r \in [1..(n - from) -> Nat]
  OBVIOUS
<1>3. r \in Seq(Nat) /\ Len(r) = n - from /\ DOMAIN r = 1..(n - from)
  BY <1>1, <1>2
<1>4. \A i \in DOMAIN r : r[i] = from + i
  OBVIOUS
<1>5. Increases(r)
  <2>1. ASSUME NEW i \in 2..Len(r)
        PROVE  r[i - 1] < r[i]
    <3>1. i \in DOMAIN r /\ i - 1 \in DOMAIN r
      BY <1>1, <1>3, <2>1
    <3>2. QED
      BY <1>1, <1>4, <2>1, <3>1
  <2>2. QED
    BY <2>1 DEF Increases
<1>6. QED
  BY <1>1, <1>3, <1>4, <1>5

LEMMA AboveMore ==
  ASSUME NEW text \in Seq(Nat), NEW a \in Nat, Above(text, a),
         NEW m \in Nat, m <= a
  PROVE  Above(text, m)
BY Elements DEF Above

(* The end of a file of n lines.                                           *)
LEMMA SnapshotOK ==
  ASSUME NEW c, NEW n \in Nat, NEW r, r = Snapshot(c, n)
  PROVE  /\ IsText(r.text) /\ r.start \in Nat /\ r.start <= Less(n, Chunk)
         /\ InOrder(r.text, r.start, n)
         /\ c.keyword = None =>
              \A m \in Nat : m <= Less(n, Chunk) => Above(r.text, m)
<1>1. PICK lines : lines = IF c.keyword = None THEN Chunk ELSE KeywordLines
  OBVIOUS
<1>2. PICK from : from = Less(n, lines)
  OBVIOUS
<1>3. from \in Nat /\ from <= n /\ lines \in Nat /\ Less(n, Chunk) \in Nat
      /\ Less(n, Chunk) <= n
  BY <1>1, <1>2, Arithmetic
<1>4. PICK text : text = [i \in 1..(n - from) |-> from + i]
  OBVIOUS
<1>5. /\ text \in Seq(Nat) /\ Increases(text)
      /\ \A i \in DOMAIN text : from < text[i] /\ text[i] <= n
  BY <1>3, <1>4, RangeOK
<1>6. Above(text, from)
  BY <1>5 DEF Above
<1>7. r.text = text /\ r.start = IF c.keyword = None THEN from ELSE 0
  BY <1>1, <1>2, <1>4 DEF Snapshot
<1>8. r.start \in Nat /\ r.start <= from /\ r.start <= Less(n, Chunk)
  BY <1>1, <1>2, <1>3, <1>7
<1>9. \A m \in Nat : m <= from => Above(text, m)
  BY <1>3, <1>5, <1>6, AboveMore
<1>10. InOrder(text, r.start, n)
  BY <1>3, <1>5, <1>8, <1>9 DEF InOrder
<1>11. IsText(text)
  BY <1>3, <1>5, <1>9 DEF IsText
<1>12. c.keyword = None => from = Less(n, Chunk)
  BY <1>1, <1>2
<1>13. QED
  BY <1>7, <1>8, <1>9, <1>10, <1>11, <1>12

AtMost(text, n) == \A i \in DOMAIN text : text[i] <= n

FromBoth(r, a, b) ==
  \A i \in DOMAIN r : \/ \E j \in DOMAIN a : r[i] = a[j]
                      \/ \E j \in DOMAIN b : r[i] = b[j]

(* Two parts of a file, one after the other.                               *)
LEMMA JoinOK ==
  ASSUME NEW a \in Seq(Nat), NEW b \in Seq(Nat), NEW m \in Nat,
         Increases(a), Increases(b), AtMost(a, m), Above(b, m),
         NEW r, r = a \o b
  PROVE  r \in Seq(Nat) /\ Increases(r) /\ FromBoth(r, a, b)
<1>1. PICK k : k = Len(a)
  OBVIOUS
<1>2. k \in Nat /\ DOMAIN a = 1..k /\ DOMAIN b = 1..Len(b) /\ Len(b) \in Nat
  BY <1>1
<1>3. /\ r \in Seq(Nat) /\ Len(r) = k + Len(b) /\ DOMAIN r = 1..(k + Len(b))
      /\ \A i \in 1..k : r[i] = a[i]
      /\ \A i \in 1..(k + Len(b)) : i > k => r[i] = b[i - k]
  BY <1>1, <1>2
<1>4. \A i \in DOMAIN r : (i \in DOMAIN a) \/ (i > k /\ i - k \in DOMAIN b)
  BY <1>2, <1>3
<1>5. FromBoth(r, a, b)
  BY <1>2, <1>3, <1>4 DEF FromBoth
<1>6. ASSUME NEW i \in Nat, 2 <= i, i <= k + Len(b)
      PROVE  r[i - 1] < r[i]
  <2>1. CASE i <= k
    <3>1. i \in 1..k /\ i - 1 \in 1..k /\ i \in 2..k
      BY <1>2, <1>6, <2>1
    <3>2. a[i - 1] < a[i]
      BY <1>1, <3>1 DEF Increases
    <3>3. QED
      BY <1>3, <3>1, <3>2
  <2>2. CASE i = k + 1
    <3>1. i - 1 \in 1..k /\ i \in 1..(k + Len(b)) /\ i > k /\ i - k = 1
          /\ 1 \in DOMAIN b
      BY <1>2, <1>6, <2>2
    <3>2. r[i - 1] = a[i - 1] /\ r[i] = b[1]
      BY <1>3, <3>1
    <3>3. a[i - 1] <= m /\ m < b[1] /\ a[i - 1] \in Nat /\ b[1] \in Nat
      <4>1. i - 1 \in DOMAIN a /\ 1 \in DOMAIN b
        BY <1>2, <3>1
      <4>2. QED
        BY <4>1, Elements DEF AtMost, Above
    <3>4. QED
      BY <3>2, <3>3
  <2>3. CASE i > k + 1
    <3>1. /\ i \in 1..(k + Len(b)) /\ i - 1 \in 1..(k + Len(b))
          /\ i > k /\ i - 1 > k /\ i - k \in 2..Len(b)
          /\ (i - 1) - k = (i - k) - 1
      BY <1>2, <1>6, <2>3
    <3>2. r[i] = b[i - k] /\ r[i - 1] = b[(i - k) - 1]
      BY <1>3, <3>1
    <3>3. b[(i - k) - 1] < b[i - k]
      BY <3>1 DEF Increases
    <3>4. QED
      BY <3>2, <3>3
  <2>4. QED
    <3>1. i <= k \/ i = k + 1 \/ i > k + 1
      BY <1>2
    <3>2. QED
      BY <2>1, <2>2, <2>3, <3>1
<1>7. Increases(r)
  <2>1. \A i \in 2..Len(r) : i \in Nat /\ 2 <= i /\ i <= k + Len(b)
    BY <1>2, <1>3
  <2>2. QED
    BY <1>6, <2>1 DEF Increases
<1>8. QED
  BY <1>3, <1>5, <1>7

LEMMA BothIsText ==
  ASSUME NEW a, IsText(a), NEW b, IsText(b), NEW r, r = a \o b
  PROVE  IsText(r)
<1>1. a \in Seq(Nat) /\ b \in Seq(Nat) /\ Above(a, 0) /\ Above(b, 0)
  BY DEF IsText
<1>2. PICK k : k = Len(a)
  OBVIOUS
<1>3. k \in Nat /\ DOMAIN a = 1..k /\ DOMAIN b = 1..Len(b) /\ Len(b) \in Nat
  BY <1>1, <1>2
<1>4. /\ r \in Seq(Nat) /\ DOMAIN r = 1..(k + Len(b))
      /\ \A i \in 1..k : r[i] = a[i]
      /\ \A i \in 1..(k + Len(b)) : i > k => r[i] = b[i - k]
  BY <1>1, <1>2, <1>3
<1>5. \A i \in DOMAIN r : (i \in DOMAIN a) \/ (i > k /\ i - k \in DOMAIN b)
  BY <1>3, <1>4
<1>6. QED
  BY <1>1, <1>3, <1>4, <1>5 DEF IsText, Above

(* An earlier part comes before the text, and in its order if it was asked *)
(* for before all of it.                                                   *)
LEMMA PrevOK ==
  ASSUME NEW text, IsText(text), NEW before \in Nat,
         NEW from, from = Less(before, Chunk), NEW chunk,
         chunk = [i \in 1..(before - from) |-> from + i],
         NEW r, r = KeepHead(chunk \o text)
  PROVE  /\ IsText(r) /\ from \in Nat /\ from <= before
         /\ \A start, n \in Nat :
              InOrder(text, start, n) /\ Above(text, before) /\ before <= n
                => InOrder(r, from, n)
<1>1. from \in Nat /\ from <= before
  BY Arithmetic
<1>2. /\ chunk \in Seq(Nat) /\ Increases(chunk)
      /\ \A i \in DOMAIN chunk : from < chunk[i] /\ chunk[i] <= before
  BY <1>1, RangeOK
<1>3. PICK both : both = chunk \o text
  OBVIOUS
<1>4. IsText(both)
  <2>1. Above(chunk, from) /\ 0 \in Nat /\ 0 <= from
    BY <1>1, <1>2 DEF Above
  <2>2. IsText(chunk)
    BY <1>1, <1>2, <2>1, AboveMore DEF IsText
  <2>3. QED
    BY <1>3, <2>2, BothIsText
<1>5. IsPart(r, both)
  BY <1>3, <1>4, KeepOK DEF IsText
<1>6. ASSUME NEW start \in Nat, NEW n \in Nat, InOrder(text, start, n),
             Above(text, before), before <= n
      PROVE  InOrder(r, from, n)
  <2>1. /\ text \in Seq(Nat) /\ Increases(text)
        /\ \A i \in DOMAIN text : before < text[i] /\ text[i] <= n
    BY <1>6 DEF InOrder, Above
  <2>2. both \in Seq(Nat) /\ Increases(both) /\ FromBoth(both, chunk, text)
    <3>1. AtMost(chunk, before)
      BY <1>2 DEF AtMost
    <3>2. QED
      BY <1>2, <1>3, <1>6, <2>1, <3>1, JoinOK
  <2>3. /\ \A j \in DOMAIN chunk : chunk[j] \in Nat /\ chunk[j] <= n
        /\ \A j \in DOMAIN text : text[j] \in Nat /\ from < text[j]
    <3>1. /\ \A j \in DOMAIN chunk : chunk[j] \in Nat
          /\ \A j \in DOMAIN text : text[j] \in Nat
      BY <1>2, <2>1, Elements
    <3>2. QED
      BY <1>1, <1>2, <1>6, <2>1, <3>1
  <2>4. \A i \in DOMAIN both : from < both[i] /\ both[i] <= n
    BY <1>2, <2>1, <2>2, <2>3 DEF FromBoth
  <2>5. InOrder(both, from, n)
    <3>1. from <= n
      BY <1>1, <1>6
    <3>2. QED
      BY <1>1, <1>6, <2>2, <2>4, <3>1 DEF InOrder, Above
  <2>6. QED
    BY <1>1, <1>5, <2>5 DEF IsPart
<1>7. QED
  BY <1>1, <1>4, <1>5, <1>6, PartIsText

-----------------------------------------------------------------------------
(***************************************************************************)
(* Pages.                                                                  *)
(***************************************************************************)
IsPage(p) ==
  /\ DOMAIN p = DOMAIN EmptyPage
  /\ p.text \in Seq(Nat) /\ p.rendered \in Seq(Nat) /\ p.shown \in Seq(Nat)
  /\ p.start \in Nat /\ p.top \in Nat /\ p.lastTop \in Nat

(* The page remembers where the view is, unless the user has moved it.     *)
MoveOK(p) == p.moved # "user" => p.lastTop = p.top

(* What the copies of the tabs are about.                                  *)
Keeps(p, q) ==
  /\ q.text = p.text /\ q.start = p.start /\ q.loadingPrev = p.loadingPrev

StillFollows(p, q) == p.follow => q.follow

LEMMA BottomOK ==
  ASSUME NEW shown \in Seq(Nat), NEW r, r = Bottom(shown)
  PROVE  r \in Nat
<1>1. Len(shown) \in Nat
  OBVIOUS
<1>2. QED
  BY <1>1, Arithmetic DEF Bottom

LEMMA FormattedOK ==
  ASSUME NEW text \in Seq(Nat), NEW r, r = Formatted(text)
  PROVE  r \in Seq(Nat)
BY DEF Formatted, Blank

LEMMA MovedToOK ==
  ASSUME NEW p, IsPage(p), NEW to \in Nat, NEW q, q = MovedTo(p, to)
  PROVE  /\ IsPage(q) /\ MoveOK(q) /\ Keeps(p, q) /\ StillFollows(p, q)
         /\ q.shown = p.shown
<1>1. PICK at : at = Smaller(to, Bottom(p.shown))
  OBVIOUS
<1>2. at \in Nat
  <2>1. Bottom(p.shown) \in Nat
    BY BottomOK DEF IsPage
  <2>2. QED
    BY <1>1, <2>1, Arithmetic
<1>3. PICK m : q = [p EXCEPT !.top = at, !.lastTop = at, !.moved = m]
  BY <1>1 DEF MovedTo
<1>4. QED
  BY <1>2, <1>3 DEF IsPage, MoveOK, Keeps, StillFollows, EmptyPage

LEMMA RenderLogBufferOK ==
  ASSUME NEW p, IsPage(p), NEW q, q = RenderLogBuffer(p)
  PROVE  IsPage(q) /\ MoveOK(q) /\ Keeps(p, q) /\ StillFollows(p, q)
<1>1. PICK shown : shown = Formatted(p.text)
  OBVIOUS
<1>2. shown \in Seq(Nat)
  BY <1>1, FormattedOK DEF IsPage
<1>3. PICK r : r = [p EXCEPT !.shown = shown, !.rendered = p.text]
  OBVIOUS
<1>4. IsPage(r) /\ Keeps(p, r) /\ StillFollows(p, r)
  BY <1>2, <1>3 DEF IsPage, Keeps, StillFollows, EmptyPage
<1>5. q = MovedTo(r, p.top) /\ p.top \in Nat
  BY <1>1, <1>3 DEF RenderLogBuffer, IsPage
<1>6. IsPage(q) /\ MoveOK(q) /\ Keeps(r, q) /\ StillFollows(r, q)
  BY <1>4, <1>5, MovedToOK
<1>7. QED
  BY <1>4, <1>6 DEF Keeps, StillFollows

LEMMA ScheduleOK ==
  ASSUME NEW p, IsPage(p), MoveOK(p), NEW force, NEW follow,
         NEW q, q = ScheduleLogBufferRender(p, force, follow)
  PROVE  /\ IsPage(q) /\ MoveOK(q) /\ Keeps(p, q) /\ StillFollows(p, q)
         /\ q.top = p.top
BY DEF ScheduleLogBufferRender, IsPage, MoveOK, Keeps, StillFollows, EmptyPage

LEMMA ScrollToBottomOK ==
  ASSUME NEW p, IsPage(p), NEW q, q = ScrollToBottom(p)
  PROVE  IsPage(q) /\ MoveOK(q) /\ Keeps(p, q) /\ StillFollows(p, q)
<1>1. PICK to : to = Bottom(p.shown)
  OBVIOUS
<1>2. to \in Nat
  BY <1>1, BottomOK DEF IsPage
<1>3. PICK r : r = MovedTo(p, to)
  OBVIOUS
<1>4. IsPage(r) /\ MoveOK(r) /\ Keeps(p, r)
  BY <1>2, <1>3, MovedToOK
<1>5. PICK fs : q = [r EXCEPT !.follow = TRUE, !.frames = fs]
  BY <1>1, <1>3 DEF ScrollToBottom
<1>6. QED
  BY <1>4, <1>5 DEF IsPage, MoveOK, Keeps, StillFollows, EmptyPage

LEMMA DrawnOK ==
  ASSUME NEW p, IsPage(p), MoveOK(p), NEW q, q = Drawn(p)
  PROVE  IsPage(q) /\ MoveOK(q) /\ Keeps(p, q) /\ StillFollows(p, q)
<1>1. CASE CanAppend(p)
  <2>1. p.text \in Seq(Nat) /\ p.rendered \in Seq(Nat) /\ p.shown \in Seq(Nat)
    BY DEF IsPage
  <2>2. PICK added : added = Added(p)
    OBVIOUS
  <2>3. added \in Seq(Nat)
    BY <2>1, <2>2 DEF Added
  <2>4. PICK shown : shown = p.shown \o Formatted(added)
    OBVIOUS
  <2>5. shown \in Seq(Nat)
    <3>1. Formatted(added) \in Seq(Nat)
      BY <2>3, FormattedOK
    <3>2. QED
      BY <2>1, <2>4, <3>1
  <2>6. q = [p EXCEPT !.shown = shown, !.rendered = p.text]
    BY <1>1, <2>2, <2>4 DEF Drawn
  <2>7. QED
    BY <2>5, <2>6 DEF IsPage, MoveOK, Keeps, StillFollows, EmptyPage
<1>2. CASE ~CanAppend(p)
  <2>1. q = RenderLogBuffer(p)
    BY <1>2 DEF Drawn
  <2>2. QED
    BY <2>1, RenderLogBufferOK
<1>3. QED
  BY <1>1, <1>2

LEMMA ScrolledOK ==
  ASSUME NEW p, IsPage(p), NEW q, q = Scrolled(p)
  PROVE  /\ IsPage(q) /\ MoveOK(q) /\ Keeps(p, q)
         /\ q.follow = FollowsAfterScroll(p) /\ q.top = p.top
<1>1. PICK f : f = FollowsAfterScroll(p)
  OBVIOUS
<1>2. q = [p EXCEPT !.follow = f, !.lastTop = p.top, !.moved = None]
  BY <1>1 DEF Scrolled
<1>3. QED
  BY <1>1, <1>2 DEF IsPage, MoveOK, Keeps, EmptyPage

-----------------------------------------------------------------------------
(***************************************************************************)
(* What is known of the file of a tab: how much was read of it, the line   *)
(* after which the stream goes on, or may begin, and whether the snapshot  *)
(* of the tab had lines that are still to come.                            *)
(***************************************************************************)
Reach(t) ==
  IF stream[t] # Closed THEN sent[t]
  ELSE IF asked[t] # << >> THEN Head(asked[t]).size ELSE size[t]

known == [t \in Tabs |->
            [size |-> size[t], reach |-> Reach(t), mixed |-> mixed \cap {t}]]

IsKnown(k) == k.size \in Nat /\ k.reach \in Nat

Good(k) == k.mixed = {}

TextOK(text, start, k) ==
  /\ IsText(text) /\ start \in Nat /\ start <= Less(k.size, Chunk)
  /\ Good(k) => InOrder(text, start, k.reach)

AsksBefore(c, text, loading, k) ==
  /\ c.before \in Nat /\ c.height \in Nat /\ loading = TRUE
  /\ c.before <= Less(k.size, Chunk)
  /\ Good(k) => Above(text, c.before) /\ c.before <= k.reach

(***************************************************************************)
(* The inductive invariant.  A call of loadPrevChunk that is awaited asks  *)
(* for lines before all of the text its tab has now, whatever text this    *)
(* is, unless the tab is mixed; and a tab has one such call, for           *)
(* loadingPrev is set meanwhile.                                           *)
(***************************************************************************)
CopyOK(copy, k) ==
  /\ DOMAIN copy = Copied
  /\ TextOK(copy.text, copy.start, k)

PrevsOK(t, cs, copy, k) ==
  \A c \in cs :
    c.kind = "prev" /\ c.tab = t =>
      AsksBefore(c, copy.text, copy.loadingPrev, k)

CallsOK(cs) ==
  /\ \A c \in cs : c.tab \in Tabs
  /\ \A c, d \in cs :
       c.kind = "prev" /\ d.kind = "prev" /\ c.tab = d.tab => c = d

AskedOK(q) == \E S : q \in Seq(S) /\ \A r \in S : r.size \in Nat

FileTypes ==
  /\ size \in [Tabs -> Nat] /\ sent \in [Tabs -> Nat]
  /\ DOMAIN stream = Tabs /\ DOMAIN asked = Tabs
  /\ \A t \in Tabs : AskedOK(asked[t])

Types ==
  activeTabId \in Tabs /\ DOMAIN saved = Tabs /\ FileTypes

PageIsTheTab ==
  IsPage(page) /\ MoveOK(page) /\ Keeps(saved[activeTabId], page)

TabsOK ==
  \A t \in Tabs : /\ CopyOK(saved[t], known[t])
                  /\ PrevsOK(t, calls, saved[t], known[t])

IInv == Types /\ PageIsTheTab /\ TabsOK /\ CallsOK(calls)

LEMMA KnownFields ==
  ASSUME NEW t \in Tabs
  PROVE  /\ known[t].size = size[t] /\ known[t].reach = Reach(t)
         /\ known[t].mixed = mixed \cap {t}
BY DEF known

LEMMA KnownNext ==
  ASSUME NEW t \in Tabs
  PROVE  /\ known'[t].size = size'[t] /\ known'[t].reach = Reach(t)'
         /\ known'[t].mixed = mixed' \cap {t}
BY DEF known

LEMMA KnownLess ==
  ASSUME NEW k, IsKnown(k)
  PROVE  /\ k.size \in Nat /\ k.reach \in Nat
         /\ Less(k.size, Chunk) \in Nat /\ 0 <= Less(k.size, Chunk)
<1>1. k.size \in Nat /\ k.reach \in Nat
  BY DEF IsKnown
<1>2. Less(k.size, Chunk) \in Nat
  BY <1>1, Arithmetic
<1>3. QED
  BY <1>1, <1>2

LEMMA LargerOK ==
  ASSUME NEW a \in Nat, NEW b \in Nat, NEW r, r = Larger(a, b)
  PROVE  r \in Nat /\ a <= r /\ b <= r
BY DEF Larger

LEMMA KnownType ==
  ASSUME FileTypes, NEW t \in Tabs
  PROVE  IsKnown(known[t])
<1>1. AskedOK(asked[t]) /\ sent[t] \in Nat /\ size[t] \in Nat
  BY DEF FileTypes
<1>2. asked[t] # << >> => Head(asked[t]).size \in Nat
  <2>1. PICK S : asked[t] \in Seq(S) /\ \A r \in S : r.size \in Nat
    BY <1>1 DEF AskedOK
  <2>2. asked[t] # << >> => Head(asked[t]) \in S
    BY <2>1
  <2>3. QED
    BY <2>1, <2>2
<1>3. Reach(t) \in Nat
  BY <1>1, <1>2 DEF Reach
<1>4. QED
  BY <1>1, <1>3, KnownFields DEF IsKnown

FilesStay == UNCHANGED <<streamVars, fileVars>>

LEMMA SameFilesOK ==
  ASSUME FilesStay
  PROVE  known' = known /\ (FileTypes => FileTypes')
<1>1. /\ stream' = stream /\ sent' = sent /\ asked' = asked
      /\ size' = size /\ mixed' = mixed
  BY DEF FilesStay, streamVars, fileVars
<1>2. \A t \in Tabs : Reach(t)' = Reach(t)
  BY <1>1 DEF Reach
<1>3. known' = known
  BY <1>1, <1>2 DEF known
<1>4. FileTypes => FileTypes'
  BY <1>1 DEF FileTypes
<1>5. QED
  BY <1>3, <1>4

(* More is known of a file, and the texts are as good.                     *)
Grows(k, l) ==
  /\ IsKnown(k) /\ IsKnown(l)
  /\ k.size <= l.size /\ k.reach <= l.reach /\ l.mixed = k.mixed

LEMMA InOrderMore ==
  ASSUME NEW text, NEW start, NEW a, NEW b \in Nat, InOrder(text, start, a),
         a <= b
  PROVE  InOrder(text, start, b)
<1>1. a \in Nat /\ start \in Nat /\ start <= a
  BY DEF InOrder
<1>2. \A i \in DOMAIN text : text[i] \in Nat /\ text[i] <= a
  BY Elements DEF InOrder
<1>3. \A i \in DOMAIN text : text[i] <= b
  BY <1>1, <1>2
<1>4. start <= b
  BY <1>1
<1>5. QED
  BY <1>3, <1>4 DEF InOrder

LEMMA GrowsOK ==
  ASSUME NEW k, NEW l, Grows(k, l)
  PROVE  /\ \A m \in Nat : m <= Less(k.size, Chunk) => m <= Less(l.size, Chunk)
         /\ \A text, start : TextOK(text, start, k) => TextOK(text, start, l)
         /\ \A c, text, loading : AsksBefore(c, text, loading, k)
                                    => AsksBefore(c, text, loading, l)
<1>1. /\ k.size \in Nat /\ l.size \in Nat /\ k.size <= l.size
      /\ k.reach \in Nat /\ l.reach \in Nat /\ k.reach <= l.reach
      /\ Good(l) => Good(k)
  BY DEF Grows, IsKnown, Good
<1>2. /\ Less(k.size, Chunk) \in Nat /\ Less(l.size, Chunk) \in Nat
      /\ Less(k.size, Chunk) <= Less(l.size, Chunk)
  BY <1>1, Arithmetic
<1>3. \A m \in Nat : m <= Less(k.size, Chunk) => m <= Less(l.size, Chunk)
  BY <1>2
<1>4. ASSUME NEW text, NEW start, InOrder(text, start, k.reach)
      PROVE  InOrder(text, start, l.reach)
  BY <1>1, <1>4, InOrderMore
<1>5. ASSUME NEW text, NEW start, TextOK(text, start, k)
      PROVE  TextOK(text, start, l)
  BY <1>1, <1>3, <1>4, <1>5 DEF TextOK
<1>6. ASSUME NEW c, NEW text, NEW loading, AsksBefore(c, text, loading, k)
      PROVE  AsksBefore(c, text, loading, l)
  <2>1. c.before \in Nat /\ (c.before <= k.reach => c.before <= l.reach)
    BY <1>1, <1>6 DEF AsksBefore
  <2>2. QED
    BY <1>1, <1>3, <1>6, <2>1 DEF AsksBefore
<1>7. QED
  BY <1>3, <1>5, <1>6

(* The page has a good text.                                               *)
LEMMA PageText ==
  ASSUME IInv
  PROVE  /\ activeTabId \in Tabs /\ IsKnown(known[activeTabId])
         /\ IsPage(page) /\ MoveOK(page)
         /\ TextOK(page.text, page.start, known[activeTabId])
         /\ page.text = saved[activeTabId].text
         /\ page.loadingPrev = saved[activeTabId].loadingPrev
         /\ \A c \in calls : c.kind = "prev" /\ c.tab = activeTabId =>
              AsksBefore(c, page.text, page.loadingPrev, known[activeTabId])
<1>1. activeTabId \in Tabs /\ IsKnown(known[activeTabId])
  BY KnownType DEF IInv, Types
<1>2. /\ page.text = saved[activeTabId].text
      /\ page.start = saved[activeTabId].start
      /\ page.loadingPrev = saved[activeTabId].loadingPrev
  BY DEF IInv, PageIsTheTab, Keeps
<1>3. /\ CopyOK(saved[activeTabId], known[activeTabId])
      /\ PrevsOK(activeTabId, calls, saved[activeTabId], known[activeTabId])
  BY <1>1 DEF IInv, TabsOK
<1>4. QED
  BY <1>1, <1>2, <1>3 DEF IInv, PageIsTheTab, CopyOK, PrevsOK

(* No earlier part is asked for.                                            *)
NoNewPrev ==
  \A c \in calls' : c.tab \in Tabs /\ (c.kind = "prev" => c \in calls)

(* What a handler of the tab on the page has to see to.                    *)
LEMMA ShowOK ==
  ASSUME IInv, NEW p, IsPage(p), MoveOK(p), Show(p),
         activeTabId' = activeTabId, FileTypes',
         \A t \in Tabs : t # activeTabId => known'[t] = known[t],
         TextOK(p.text, p.start, known'[activeTabId]),
         CallsOK(calls'),
         \A c \in calls' :
           c.kind = "prev" => c \in calls \/ c.tab = activeTabId,
         \A c \in calls' : c.kind = "prev" /\ c.tab = activeTabId =>
           AsksBefore(c, p.text, p.loadingPrev, known'[activeTabId])
  PROVE  IInv'
<1>1. activeTabId \in Tabs /\ DOMAIN saved = Tabs
  BY DEF IInv, Types
<1>2. PICK copy : copy = Copy(p)
  OBVIOUS
<1>3. /\ DOMAIN copy = Copied /\ copy.text = p.text /\ copy.start = p.start
      /\ copy.loadingPrev = p.loadingPrev
  BY <1>2 DEF Copy, Restrict, Copied
<1>4. /\ page' = p /\ saved' = [saved EXCEPT ![activeTabId] = copy]
      /\ DOMAIN saved' = Tabs /\ saved'[activeTabId] = copy
      /\ \A t \in Tabs : t # activeTabId => saved'[t] = saved[t]
  BY <1>1, <1>2 DEF Show
<1>5. Types'
  BY <1>1, <1>4 DEF Types
<1>6. PageIsTheTab'
  BY <1>3, <1>4 DEF PageIsTheTab, Keeps
<1>7. ASSUME NEW t \in Tabs
      PROVE  /\ CopyOK(saved'[t], known'[t])
             /\ PrevsOK(t, calls', saved'[t], known'[t])
  <2>1. CASE t = activeTabId
    BY <1>3, <1>4, <2>1 DEF CopyOK, PrevsOK
  <2>2. CASE t # activeTabId
    <3>1. saved'[t] = saved[t] /\ known'[t] = known[t]
      BY <1>4, <2>2
    <3>2. CopyOK(saved[t], known[t]) /\ PrevsOK(t, calls, saved[t], known[t])
      BY DEF IInv, TabsOK
    <3>3. QED
      BY <2>2, <3>1, <3>2 DEF PrevsOK
  <2>3. QED
    BY <2>1, <2>2
<1>8. TabsOK'
  BY <1>7 DEF TabsOK
<1>9. QED
  BY <1>5, <1>6, <1>8 DEF IInv

(* A handler that leaves the text alone, and asks for no earlier part.     *)
LEMMA ShowSameOK ==
  ASSUME IInv, NEW p, IsPage(p), MoveOK(p), Keeps(page, p), Show(p),
         activeTabId' = activeTabId /\ FilesStay, NoNewPrev
  PROVE  IInv'
<1>1. /\ activeTabId \in Tabs /\ FileTypes
      /\ TextOK(page.text, page.start, known[activeTabId])
      /\ \A c \in calls : c.kind = "prev" /\ c.tab = activeTabId =>
           AsksBefore(c, page.text, page.loadingPrev, known[activeTabId])
  BY PageText DEF IInv, Types
<1>2. /\ p.text = page.text /\ p.start = page.start
      /\ p.loadingPrev = page.loadingPrev
  BY DEF Keeps
<1>3. /\ activeTabId' = activeTabId /\ FileTypes' /\ known' = known
      /\ TextOK(p.text, p.start, known'[activeTabId])
  BY <1>1, <1>2, SameFilesOK
<1>4. CallsOK(calls')
  BY DEF IInv, CallsOK, NoNewPrev
<1>5. /\ \A c \in calls' :
           c.kind = "prev" => c \in calls \/ c.tab = activeTabId
      /\ \A c \in calls' : c.kind = "prev" /\ c.tab = activeTabId =>
           AsksBefore(c, p.text, p.loadingPrev, known'[activeTabId])
  BY <1>1, <1>2, <1>3 DEF NoNewPrev
<1>6. QED
  BY <1>3, <1>4, <1>5, ShowOK

LEMMA InitOK ==
  ASSUME Init
  PROVE  IInv
<1>1. PICK p : p = EmptyPage
  OBVIOUS
<1>2. IsPage(p) /\ MoveOK(p) /\ p.text = << >> /\ p.start = 0
  BY <1>1 DEF EmptyPage, IsPage, MoveOK
<1>3. PICK copy : copy = Copy(p)
  OBVIOUS
<1>4. DOMAIN copy = Copied /\ Keeps(copy, p)
  BY <1>3 DEF Copy, Restrict, Copied, Keeps
<1>5. /\ activeTabId \in Tabs /\ page = p /\ saved = [t \in Tabs |-> copy]
      /\ calls = {}
  BY <1>1, <1>3 DEF Init
<1>6. FileTypes
  <2>1. AskedOK(<< >>)
    <3>1. PICK S : S = {}
      OBVIOUS
    <3>2. << >> \in Seq(S) /\ \A r \in S : r.size \in Nat
      BY <3>1
    <3>3. QED
      BY <3>2 DEF AskedOK
  <2>2. QED
    BY <2>1, Arithmetic DEF Init, FileTypes
<1>7. ASSUME NEW t \in Tabs
      PROVE  CopyOK(saved[t], known[t])
  <2>1. IsKnown(known[t]) /\ known[t].reach \in Nat
    BY <1>6, KnownType DEF IsKnown
  <2>2. TextOK(<< >>, 0, known[t])
    <3>1. known[t].size \in Nat /\ 0 <= Less(known[t].size, Chunk)
      BY <2>1, KnownLess
    <3>2. QED
      BY <2>1, <3>1, EmptyOK DEF TextOK
  <2>3. QED
    BY <1>2, <1>4, <1>5, <2>2 DEF CopyOK, Keeps
<1>9. Types /\ PageIsTheTab
  BY <1>2, <1>4, <1>5, <1>6 DEF Types, PageIsTheTab
<1>10. TabsOK /\ CallsOK(calls)
  BY <1>5, <1>7 DEF TabsOK, PrevsOK, CallsOK
<1>11. QED
  BY <1>9, <1>10 DEF IInv

-----------------------------------------------------------------------------
(***************************************************************************)
(* The steps: each keeps the invariant, and ends following only when the   *)
(* user has moved the view.                                                *)
(***************************************************************************)
FollowStep ==
  activeTabId' = activeTabId /\ page.follow /\ ~page'.follow
    => page.moved = "user"

(* A page that comes into the place of another.                            *)
LEMMA StillFollowsOK ==
  ASSUME NEW p, Show(p), StillFollows(page, p)
  PROVE  FollowStep
BY DEF Show, StillFollows, FollowStep

(* The next line comes in while an earlier part may be awaited.            *)
NextKnown(k, l) ==
  /\ IsKnown(k) /\ IsKnown(l)
  /\ k.size <= l.size /\ l.reach = k.reach + 1 /\ l.mixed = k.mixed

GetsNext(r, text, k) == r = KeepTail(Append(text, k.reach + 1))

LEMMA OneMoreOK ==
  ASSUME NEW text, NEW start, NEW k, NEW l, NextKnown(k, l),
         TextOK(text, start, k), NEW r, GetsNext(r, text, k)
  PROVE  /\ TextOK(r, start, l)
         /\ \A c, loading : AsksBefore(c, text, loading, k)
                              => AsksBefore(c, r, loading, l)
<1>1. /\ k.size \in Nat /\ l.size \in Nat /\ k.size <= l.size
      /\ k.reach \in Nat /\ l.reach \in Nat /\ l.reach = k.reach + 1
      /\ Good(l) => Good(k)
  BY DEF NextKnown, IsKnown, Good
<1>2. PICK n \in Nat : n = k.reach
  BY <1>1
<1>3. PICK long : long = Append(text, n + 1) /\ r = KeepTail(long)
  BY <1>2 DEF GetsNext
<1>4. IsText(text) /\ text \in Seq(Nat) /\ start \in Nat
  BY DEF TextOK, IsText
<1>5. /\ IsText(long)
      /\ InOrder(text, start, n) => InOrder(long, start, n + 1)
      /\ \A m \in Nat : Above(text, m) /\ m <= n => Above(long, m)
  <2>1. n \in Nat /\ text \in Seq(Nat) /\ long = Append(text, n + 1)
    BY <1>3, <1>4
  <2>2. /\ IsText(text) => IsText(long)
        /\ \A first \in Nat : InOrder(text, first, n)
                                => InOrder(long, first, n + 1)
        /\ \A m \in Nat : Above(text, m) /\ m <= n => Above(long, m)
    BY <2>1, NextLineOK
  <2>3. QED
    BY <1>4, <2>2
<1>6. long \in Seq(Nat) /\ n + 1 \in Nat
  BY <1>5 DEF IsText
<1>7. IsPart(r, long)
  BY <1>3, <1>6, KeepOK
<1>8. \A m \in Nat : m <= Less(k.size, Chunk) => m <= Less(l.size, Chunk)
  <2>1. /\ Less(k.size, Chunk) \in Nat /\ Less(l.size, Chunk) \in Nat
        /\ Less(k.size, Chunk) <= Less(l.size, Chunk)
    BY <1>1, Arithmetic
  <2>2. QED
    BY <2>1
<1>9. TextOK(r, start, l)
  <2>1. IsText(r)
    BY <1>5, <1>7, PartIsText
  <2>2. InOrder(text, start, n) => InOrder(r, start, n + 1)
    BY <1>4, <1>5, <1>6, <1>7 DEF IsPart
  <2>3. QED
    BY <1>1, <1>2, <1>4, <1>8, <2>1, <2>2 DEF TextOK
<1>10. ASSUME NEW c, NEW loading, AsksBefore(c, text, loading, k)
      PROVE  AsksBefore(c, r, loading, l)
  <2>1. c.before \in Nat /\ c.before <= Less(l.size, Chunk)
    BY <1>8, <1>10 DEF AsksBefore
  <2>2. ASSUME Good(l)
        PROVE  Above(r, c.before) /\ c.before <= l.reach
    <3>1. Above(text, c.before) /\ c.before <= n
      BY <1>1, <1>2, <1>10, <2>2 DEF AsksBefore
    <3>2. Above(r, c.before)
      BY <1>5, <1>7, <2>1, <3>1 DEF IsPart
    <3>3. QED
      BY <1>1, <1>2, <2>1, <3>1, <3>2
  <2>3. QED
    BY <1>10, <2>1, <2>2 DEF AsksBefore
<1>11. QED
  BY <1>9, <1>10

LEMMA NextLineKnown ==
  ASSUME FileTypes, NEW t \in Tabs, NextLine(t)
  PROVE  /\ FileTypes' /\ NextKnown(known[t], known'[t])
         /\ \A u \in Tabs : u # t => known'[u] = known[u]
         /\ sent[t] = known[t].reach
<1>1. /\ stream[t] # Closed /\ stream' = stream /\ asked' = asked
      /\ mixed' = mixed
      /\ sent' = [sent EXCEPT ![t] = @ + 1]
      /\ size' = [size EXCEPT ![t] = Larger(@, sent[t] + 1)]
  BY DEF NextLine, Read
<1>2. /\ sent[t] \in Nat /\ size[t] \in Nat /\ sent[t] + 1 \in Nat
      /\ sent'[t] = sent[t] + 1 /\ size'[t] = Larger(size[t], sent[t] + 1)
      /\ \A u \in Tabs : u # t => sent'[u] = sent[u] /\ size'[u] = size[u]
  BY <1>1 DEF FileTypes
<1>3. size'[t] \in Nat /\ size[t] <= size'[t]
  BY <1>2, LargerOK
<1>4. FileTypes'
  <2>1. \A u \in Tabs : size'[u] \in Nat /\ sent'[u] \in Nat
    BY <1>2, <1>3 DEF FileTypes
  <2>2. QED
    BY <1>1, <2>1 DEF FileTypes
<1>5. Reach(t) = sent[t] /\ Reach(t)' = sent'[t]
  BY <1>1 DEF Reach
<1>7. \A u \in Tabs : u # t => known'[u] = known[u]
  <2>1. \A u \in Tabs : u # t => Reach(u)' = Reach(u)
    BY <1>1, <1>2 DEF Reach
  <2>2. QED
    BY <1>1, <1>2, <2>1 DEF known
<1>8. NextKnown(known[t], known'[t])
  <2>1. /\ known[t].size = size[t] /\ known[t].reach = sent[t]
        /\ known[t].mixed = mixed \cap {t}
    BY <1>5, KnownFields
  <2>2. /\ known'[t].size = size'[t] /\ known'[t].reach = sent'[t]
        /\ known'[t].mixed = mixed' \cap {t}
    BY <1>5, KnownNext
  <2>3. QED
    BY <1>1, <1>2, <1>3, <2>1, <2>2 DEF NextKnown, IsKnown
<1>9. QED
  BY <1>4, <1>5, <1>7, <1>8, KnownFields

LEMMA LogLinesStep ==
  ASSUME IInv, NEW t, LogLines(t)
  PROVE  IInv' /\ FollowStep
<1>1. PICK n : n = sent[activeTabId]
  OBVIOUS
<1>2. /\ activeTabId \in Tabs /\ IsPage(page) /\ MoveOK(page)
      /\ TextOK(page.text, page.start, known[activeTabId])
      /\ page.text = saved[activeTabId].text
      /\ page.start \in Nat /\ FileTypes
      /\ \A c \in calls : c.kind = "prev" /\ c.tab = activeTabId =>
           AsksBefore(c, page.text, page.loadingPrev, known[activeTabId])
  BY PageText DEF IInv, Types, TextOK
<1>3. /\ t = activeTabId /\ NextLine(t)
      /\ UNCHANGED <<activeTabId, calls>>
  BY DEF LogLines
<1>4. /\ FileTypes' /\ NextKnown(known[activeTabId], known'[activeTabId])
      /\ \A u \in Tabs : u # activeTabId => known'[u] = known[u]
      /\ n = known[activeTabId].reach
  BY <1>1, <1>2, <1>3, NextLineKnown
<1>5. PICK long : long = Append(page.text, n + 1)
  OBVIOUS
<1>6. WithLine(t) = long
  BY <1>1, <1>2, <1>3, <1>5 DEF WithLine
<1>7. PICK text : text = KeepTail(long)
  OBVIOUS
<1>8. /\ TextOK(text, page.start, known'[activeTabId])
      /\ \A c, loading :
           AsksBefore(c, page.text, loading, known[activeTabId])
             => AsksBefore(c, text, loading, known'[activeTabId])
  <2>1. PICK k, l : k = known[activeTabId] /\ l = known'[activeTabId]
    OBVIOUS
  <2>2. GetsNext(text, page.text, k)
    BY <1>4, <1>5, <1>7, <2>1 DEF GetsNext
  <2>3. NextKnown(k, l) /\ TextOK(page.text, page.start, k)
    BY <1>2, <1>4, <2>1
  <2>4. /\ TextOK(text, page.start, l)
        /\ \A c, loading : AsksBefore(c, page.text, loading, k)
                             => AsksBefore(c, text, loading, l)
    BY <2>2, <2>3, OneMoreOK
  <2>5. QED
    BY <2>1, <2>4
<1>9. PICK q : q = [page EXCEPT !.text = text]
  OBVIOUS
<1>10. /\ IsPage(q) /\ MoveOK(q) /\ StillFollows(page, q) /\ q.text = text
       /\ q.start = page.start /\ q.loadingPrev = page.loadingPrev
  <2>1. text \in Seq(Nat)
    BY <1>8 DEF TextOK, IsText
  <2>2. QED
    BY <1>2, <1>9, <2>1 DEF IsPage, MoveOK, StillFollows, EmptyPage
<1>11. PICK p : p = ScheduleLogBufferRender(q, text # long, page.follow)
  OBVIOUS
<1>12. IsPage(p) /\ MoveOK(p) /\ Keeps(q, p) /\ StillFollows(q, p)
  BY <1>10, <1>11, ScheduleOK
<1>13. PICK r : r = IF page.follow THEN p ELSE [p EXCEPT !.lastTop = p.top]
  OBVIOUS
<1>14. Show(r)
  BY <1>6, <1>7, <1>9, <1>11, <1>13 DEF LogLines
<1>15. IsPage(r) /\ MoveOK(r) /\ Keeps(q, r) /\ StillFollows(page, r)
  BY <1>10, <1>12, <1>13 DEF IsPage, MoveOK, Keeps, StillFollows, EmptyPage
<1>16. /\ r.text = text /\ r.start = page.start
       /\ r.loadingPrev = page.loadingPrev
  BY <1>10, <1>15 DEF Keeps
<1>17. TextOK(r.text, r.start, known'[activeTabId])
  BY <1>4, <1>8, <1>16
<1>18. \A c \in calls' : c.kind = "prev" /\ c.tab = activeTabId =>
           AsksBefore(c, r.text, r.loadingPrev, known'[activeTabId])
  BY <1>2, <1>3, <1>4, <1>8, <1>16
<1>19. CallsOK(calls') /\ \A c \in calls' : c \in calls
  BY <1>3 DEF IInv
<1>20. IInv'
  BY <1>3, <1>4, <1>14, <1>15, <1>17, <1>18, <1>19, ShowOK
<1>21. QED
  BY <1>14, <1>15, <1>20, StillFollowsOK

(* What a handler of another tab has to see to.                            *)
LEMMA BackgroundOK ==
  ASSUME IInv, NEW t \in Tabs, t # activeTabId, NEW copy,
         saved' = [saved EXCEPT ![t] = copy], activeTabId' = activeTabId,
         IsPage(page'), MoveOK(page'), Keeps(page, page'),
         FileTypes', \A u \in Tabs : u # t => known'[u] = known[u],
         CopyOK(copy, known'[t]), PrevsOK(t, calls', copy, known'[t]),
         CallsOK(calls'), \A c \in calls' : c.kind = "prev" => c \in calls
  PROVE  IInv'
<1>1. activeTabId \in Tabs /\ DOMAIN saved = Tabs
  BY DEF IInv, Types
<1>2. /\ DOMAIN saved' = Tabs /\ saved'[t] = copy
      /\ \A u \in Tabs : u # t => saved'[u] = saved[u]
  BY <1>1
<1>3. Types'
  BY <1>1, <1>2 DEF Types
<1>4. PageIsTheTab'
  BY <1>1, <1>2 DEF IInv, PageIsTheTab, Keeps
<1>5. ASSUME NEW u \in Tabs
      PROVE  /\ CopyOK(saved'[u], known'[u])
             /\ PrevsOK(u, calls', saved'[u], known'[u])
  <2>1. CASE u = t
    BY <1>2, <2>1
  <2>2. CASE u # t
    <3>1. saved'[u] = saved[u] /\ known'[u] = known[u]
      BY <1>2, <2>2
    <3>2. CopyOK(saved[u], known[u]) /\ PrevsOK(u, calls, saved[u], known[u])
      BY DEF IInv, TabsOK
    <3>3. QED
      BY <3>1, <3>2 DEF PrevsOK
  <2>3. QED
    BY <2>1, <2>2
<1>6. TabsOK'
  BY <1>5 DEF TabsOK
<1>7. QED
  BY <1>3, <1>4, <1>6 DEF IInv

LEMMA LogLinesInBackgroundStep ==
  ASSUME IInv, NEW t \in Tabs, LogLinesInBackground(t)
  PROVE  IInv' /\ FollowStep
<1>1. PICK n : n = sent[t]
  OBVIOUS
<1>2. /\ FileTypes /\ DOMAIN saved = Tabs
      /\ CopyOK(saved[t], known[t]) /\ PrevsOK(t, calls, saved[t], known[t])
  BY DEF IInv, Types, TabsOK
<1>3. /\ t # activeTabId /\ NextLine(t)
      /\ saved' = [saved EXCEPT ![t].text = KeepTail(WithLine(t))]
      /\ UNCHANGED <<activeTabId, page, calls>>
  BY DEF LogLinesInBackground
<1>4. /\ FileTypes' /\ NextKnown(known[t], known'[t])
      /\ \A u \in Tabs : u # t => known'[u] = known[u]
      /\ n = known[t].reach
  BY <1>1, <1>2, <1>3, NextLineKnown
<1>5. PICK long : long = Append(saved[t].text, n + 1)
  OBVIOUS
<1>6. PICK text : text = KeepTail(long)
  OBVIOUS
<1>7. KeepTail(WithLine(t)) = text
  BY <1>1, <1>5, <1>6 DEF WithLine
<1>8. /\ TextOK(text, saved[t].start, known'[t])
      /\ \A c, loading : AsksBefore(c, saved[t].text, loading, known[t])
                           => AsksBefore(c, text, loading, known'[t])
  <2>1. PICK k, l : k = known[t] /\ l = known'[t]
    OBVIOUS
  <2>2. GetsNext(text, saved[t].text, k)
    BY <1>4, <1>5, <1>6, <2>1 DEF GetsNext
  <2>3. NextKnown(k, l) /\ TextOK(saved[t].text, saved[t].start, k)
    BY <1>2, <1>4, <2>1 DEF CopyOK
  <2>4. /\ TextOK(text, saved[t].start, l)
        /\ \A c, loading : AsksBefore(c, saved[t].text, loading, k)
                             => AsksBefore(c, text, loading, l)
    BY <2>2, <2>3, OneMoreOK
  <2>5. QED
    BY <2>1, <2>4
<1>9. PICK copy : copy = [saved[t] EXCEPT !.text = text]
  OBVIOUS
<1>10. saved' = [saved EXCEPT ![t] = copy]
  BY <1>2, <1>3, <1>7, <1>9
<1>11. /\ copy.text = text /\ copy.start = saved[t].start
       /\ copy.loadingPrev = saved[t].loadingPrev /\ DOMAIN copy = Copied
  BY <1>2, <1>9 DEF CopyOK, Copied
<1>12. CopyOK(copy, known'[t]) /\ PrevsOK(t, calls', copy, known'[t])
  BY <1>2, <1>3, <1>4, <1>8, <1>11 DEF CopyOK, PrevsOK
<1>13. IsPage(page') /\ MoveOK(page') /\ Keeps(page, page')
  BY <1>3 DEF IInv, PageIsTheTab, Keeps
<1>14. CallsOK(calls') /\ \A c \in calls' : c \in calls
  BY <1>3 DEF IInv
<1>15. IInv'
  BY <1>3, <1>4, <1>10, <1>12, <1>13, <1>14, BackgroundOK
<1>16. QED
  BY <1>3, <1>15 DEF FollowStep

(* A stream begins: nothing of the texts changes, and more is known.       *)
LEMMA StreamOpenedStep ==
  ASSUME IInv, NEW t \in Tabs, StreamOpened(t)
  PROVE  IInv' /\ FollowStep
<1>1. /\ asked[t] # << >>
      /\ stream' = [stream EXCEPT ![t] = <<Head(asked[t]).keyword>>]
      /\ asked' = [asked EXCEPT ![t] = Tail(@)]
      /\ UNCHANGED <<activeTabId, page, saved, mixed, calls>>
  BY DEF StreamOpened
<1>2. PICK at \in Larger(Head(asked[t]).size, sent[t])..MaxLines :
        sent' = [sent EXCEPT ![t] = at] /\ Read(t, at)
  BY DEF StreamOpened
<1>3. FileTypes /\ AskedOK(asked[t]) /\ sent[t] \in Nat /\ size[t] \in Nat
  BY DEF IInv, Types, FileTypes
<1>4. PICK S : asked[t] \in Seq(S) /\ \A r \in S : r.size \in Nat
  BY <1>3 DEF AskedOK
<1>5. Head(asked[t]).size \in Nat /\ Tail(asked[t]) \in Seq(S)
  <2>1. Head(asked[t]) \in S /\ Tail(asked[t]) \in Seq(S)
    BY <1>1, <1>4
  <2>2. QED
    BY <1>4, <2>1
<1>6. at \in Nat /\ Head(asked[t]).size <= at /\ sent[t] <= at
  <2>1. PICK low : low = Larger(Head(asked[t]).size, sent[t])
    OBVIOUS
  <2>2. low \in Nat /\ low >= Head(asked[t]).size /\ low >= sent[t]
    BY <1>3, <1>5, <2>1, Arithmetic
  <2>3. MaxLines \in Nat /\ at \in low..MaxLines
    BY <2>1, Arithmetic
  <2>4. QED
    BY <1>3, <1>5, <2>2, <2>3
<1>7. /\ sent'[t] = at /\ size'[t] = Larger(size[t], at)
      /\ asked'[t] = Tail(asked[t]) /\ stream'[t] = <<Head(asked[t]).keyword>>
      /\ \A u \in Tabs : u # t => /\ sent'[u] = sent[u] /\ size'[u] = size[u]
                                  /\ asked'[u] = asked[u]
                                  /\ stream'[u] = stream[u]
      /\ size' \in [Tabs -> {size'[u] : u \in Tabs}] /\ DOMAIN sent' = Tabs
      /\ DOMAIN asked' = Tabs /\ DOMAIN stream' = Tabs
  BY <1>1, <1>2, <1>3 DEF FileTypes, Read
<1>8. size'[t] \in Nat /\ size[t] <= size'[t] /\ at <= size'[t]
  BY <1>3, <1>6, <1>7, LargerOK
<1>9. FileTypes'
  <2>1. \A u \in Tabs : size'[u] \in Nat /\ sent'[u] \in Nat
    BY <1>3, <1>6, <1>7, <1>8 DEF FileTypes
  <2>2. AskedOK(asked'[t])
    BY <1>4, <1>5, <1>7 DEF AskedOK
  <2>3. \A u \in Tabs : AskedOK(asked'[u])
    BY <1>3, <1>7, <2>2 DEF FileTypes
  <2>4. size' \in [Tabs -> Nat] /\ sent' \in [Tabs -> Nat]
    BY <1>2, <1>3, <1>7, <2>1 DEF FileTypes, Read
  <2>5. QED
    BY <1>7, <2>3, <2>4 DEF FileTypes
<1>11. \A u \in Tabs : u # t => known'[u] = known[u]
  <2>1. \A u \in Tabs : u # t => Reach(u)' = Reach(u)
    BY <1>7 DEF Reach
  <2>2. QED
    BY <1>1, <1>7, <2>1 DEF known
<1>12. Grows(known[t], known'[t])
  <2>1. Reach(t)' = at
    BY <1>7 DEF Reach, Closed
  <2>2. known[t].reach \in {sent[t], Head(asked[t]).size}
    BY <1>1, KnownFields DEF Reach
  <2>3. known[t].reach \in Nat /\ known[t].reach <= at
    BY <1>3, <1>5, <1>6, <2>2
  <2>4. known[t].size = size[t] /\ known[t].mixed = mixed \cap {t}
    BY KnownFields
  <2>5. /\ known'[t].reach = at /\ known'[t].size = size'[t]
        /\ known'[t].mixed = mixed' \cap {t}
    BY <2>1, KnownNext
  <2>6. QED
    BY <1>1, <1>3, <1>6, <1>8, <2>3, <2>4, <2>5 DEF Grows, IsKnown
<1>13. ASSUME NEW u \in Tabs
       PROVE  /\ CopyOK(saved'[u], known'[u])
              /\ PrevsOK(u, calls', saved'[u], known'[u])
  <2>1. /\ saved'[u] = saved[u] /\ calls' = calls
        /\ CopyOK(saved[u], known[u]) /\ PrevsOK(u, calls, saved[u], known[u])
    BY <1>1 DEF IInv, TabsOK
  <2>2. CASE u = t
    BY <1>12, <2>1, <2>2, GrowsOK DEF CopyOK, PrevsOK
  <2>3. CASE u # t
    BY <1>11, <2>1, <2>3
  <2>4. QED
    BY <2>2, <2>3
<1>14. QED
  BY <1>1, <1>9, <1>13
  DEF IInv, Types, PageIsTheTab, TabsOK, CallsOK, FollowStep

-----------------------------------------------------------------------------
(* The frame, and what it runs.                                            *)
LEMMA NoCallIsNew ==
  ASSUME IInv, \A c \in calls' : c \in calls
  PROVE  NoNewPrev
BY DEF NoNewPrev, IInv, CallsOK

(* The text, the copies and the calls stay as they are.                    *)
LEMMA SameTextOK ==
  ASSUME IInv, IsPage(page'), MoveOK(page'), Keeps(page, page'),
         UNCHANGED <<activeTabId, saved, calls>>, FilesStay
  PROVE  IInv'
BY SameFilesOK DEF IInv, Types, PageIsTheTab, TabsOK, CallsOK, Keeps

LEMMA FrameStep ==
  ASSUME IInv, Frame
  PROVE  IInv' /\ FollowStep
<1>1. IsPage(page) /\ MoveOK(page)
  BY DEF IInv, PageIsTheTab
<1>2. /\ page' = [page EXCEPT !.frames = << >>]
      /\ UNCHANGED <<activeTabId, saved, calls>> /\ FilesStay
  BY DEF Frame, FilesStay
<1>3. /\ IsPage(page') /\ MoveOK(page') /\ Keeps(page, page')
      /\ page'.follow = page.follow
  BY <1>1, <1>2 DEF IsPage, MoveOK, Keeps, EmptyPage
<1>4. QED
  BY <1>2, <1>3, SameTextOK DEF FollowStep

LEMMA RenderFrameStep ==
  ASSUME IInv, RenderFrame
  PROVE  IInv' /\ FollowStep
<1>1. IsPage(page) /\ MoveOK(page)
  BY DEF IInv, PageIsTheTab
<1>2. PICK d : d = Drawn(page)
  OBVIOUS
<1>3. IsPage(d) /\ MoveOK(d) /\ Keeps(page, d) /\ StillFollows(page, d)
  BY <1>1, <1>2, DrawnOK
<1>4. PICK p : p = NothingIsPending(d)
  OBVIOUS
<1>5. IsPage(p) /\ MoveOK(p) /\ Keeps(d, p) /\ StillFollows(d, p)
  BY <1>3, <1>4
  DEF NothingIsPending, IsPage, MoveOK, Keeps, StillFollows, EmptyPage
<1>6. PICK q : q = IF page.pendingFollow THEN ScrollToBottom(p)
                                         ELSE [p EXCEPT !.lastTop = p.top]
  OBVIOUS
<1>7. IsPage(q) /\ MoveOK(q) /\ Keeps(p, q) /\ StillFollows(p, q)
  <2>1. CASE page.pendingFollow
    BY <1>5, <1>6, <2>1, ScrollToBottomOK
  <2>2. CASE ~page.pendingFollow
    BY <1>5, <1>6, <2>2 DEF IsPage, MoveOK, Keeps, StillFollows, EmptyPage
  <2>3. QED
    BY <2>1, <2>2
<1>8. Keeps(page, q) /\ StillFollows(page, q)
  BY <1>3, <1>5, <1>7 DEF Keeps, StillFollows
<1>9. Show(q) /\ UNCHANGED <<activeTabId, calls>> /\ FilesStay
  BY <1>2, <1>4, <1>6 DEF RenderFrame, Callback, FilesStay
<1>10. IInv'
  BY <1>7, <1>8, <1>9, NoCallIsNew, ShowSameOK
<1>11. QED
  BY <1>8, <1>9, <1>10, StillFollowsOK

LEMMA SettleFrameStep ==
  ASSUME IInv, SettleFrame
  PROVE  IInv' /\ FollowStep
<1>1. IsPage(page)
  BY DEF IInv, PageIsTheTab
<1>2. PICK to : to = Bottom(page.shown)
  OBVIOUS
<1>3. to \in Nat
  BY <1>1, <1>2, BottomOK DEF IsPage
<1>4. PICK p : p = MovedTo(page, to)
  OBVIOUS
<1>5. IsPage(p) /\ MoveOK(p) /\ Keeps(page, p) /\ StillFollows(page, p)
  BY <1>1, <1>3, <1>4, MovedToOK
<1>6. Show(p) /\ UNCHANGED <<activeTabId, calls>> /\ FilesStay
  BY <1>2, <1>4 DEF SettleFrame, Callback, FilesStay
<1>7. IInv'
  BY <1>5, <1>6, NoCallIsNew, ShowSameOK
<1>8. QED
  BY <1>5, <1>6, <1>7, StillFollowsOK

(* onLogScroll takes no move of the page for one of the user.              *)
LEMMA ScrolledFollows ==
  ASSUME IInv, page.follow, page.moved # "user", NEW q, q = Scrolled(page)
  PROVE  q.follow
<1>1. IsPage(page) /\ page.lastTop = page.top /\ page.top \in Nat
  BY DEF IInv, PageIsTheTab, MoveOK, IsPage
<1>2. FollowsAfterScroll(page)
  BY <1>1 DEF FollowsAfterScroll
<1>3. QED
  BY <1>1, <1>2, ScrolledOK

LEMMA OnLogScrollStep ==
  ASSUME IInv, OnLogScroll
  PROVE  IInv' /\ FollowStep
<1>1. IsPage(page)
  BY DEF IInv, PageIsTheTab
<1>2. PICK p : p = Scrolled(page)
  OBVIOUS
<1>3. IsPage(p) /\ MoveOK(p) /\ Keeps(page, p)
  BY <1>1, <1>2, ScrolledOK
<1>4. Show(p) /\ UNCHANGED <<activeTabId, calls>> /\ FilesStay
  BY <1>2 DEF OnLogScroll, Callback, FilesStay
<1>5. IInv'
  BY <1>3, <1>4, NoCallIsNew, ShowSameOK
<1>6. page.follow /\ page.moved # "user" => page'.follow
  BY <1>2, <1>4, ScrolledFollows DEF Show
<1>7. QED
  BY <1>5, <1>6 DEF FollowStep

LEMMA OnLogScrollLoadPrevChunkStep ==
  ASSUME IInv, OnLogScrollLoadPrevChunk
  PROVE  IInv' /\ FollowStep
<1>1. /\ activeTabId \in Tabs /\ IsPage(page) /\ MoveOK(page)
      /\ TextOK(page.text, page.start, known[activeTabId])
      /\ page.loadingPrev = saved[activeTabId].loadingPrev
      /\ \A c \in calls : c.kind = "prev" /\ c.tab = activeTabId =>
           AsksBefore(c, page.text, page.loadingPrev, known[activeTabId])
  BY PageText
<1>2. PICK q : q = Scrolled(page)
  OBVIOUS
<1>3. IsPage(q) /\ MoveOK(q) /\ Keeps(page, q)
  BY <1>1, <1>2, ScrolledOK
<1>4. PICK p : p = [q EXCEPT !.loadingPrev = TRUE]
  OBVIOUS
<1>5. /\ IsPage(p) /\ MoveOK(p) /\ p.text = page.text /\ p.start = page.start
      /\ p.loadingPrev = TRUE /\ p.follow = q.follow
  BY <1>3, <1>4 DEF IsPage, MoveOK, Keeps, EmptyPage
<1>6. PICK new : new = [kind |-> "prev", tab |-> activeTabId,
                        before |-> page.start, height |-> Len(page.shown)]
  OBVIOUS
<1>7. /\ Show(p) /\ activeTabId' = activeTabId /\ FilesStay
      /\ calls' = calls \cup {new} /\ ~page.loadingPrev
  BY <1>2, <1>4, <1>6
  DEF OnLogScrollLoadPrevChunk, Callback, AsksForPrev, FilesStay
<1>8. \A c \in calls : c.kind = "prev" => c.tab # activeTabId
  BY <1>1, <1>7 DEF AsksBefore
<1>9. AsksBefore(new, page.text, TRUE, known[activeTabId])
  <2>1. Len(page.shown) \in Nat
    BY <1>1 DEF IsPage
  <2>2. /\ page.start \in Nat
        /\ page.start <= Less(known[activeTabId].size, Chunk)
        /\ Good(known[activeTabId]) =>
             /\ Above(page.text, page.start)
             /\ page.start <= known[activeTabId].reach
    BY <1>1 DEF TextOK, InOrder
  <2>3. new.before = page.start /\ new.height = Len(page.shown)
    BY <1>6
  <2>4. QED
    BY <2>1, <2>2, <2>3 DEF AsksBefore
<1>10. CallsOK(calls')
  BY <1>1, <1>6, <1>7, <1>8 DEF IInv, CallsOK
<1>11. /\ \A c \in calls' :
            c.kind = "prev" => c \in calls \/ c.tab = activeTabId
       /\ \A c \in calls' : c.kind = "prev" /\ c.tab = activeTabId =>
            AsksBefore(c, p.text, p.loadingPrev, known'[activeTabId])
  <2>1. \A c \in calls' : c \in calls \/ c = new
    BY <1>7
  <2>2. new.tab = activeTabId
    BY <1>6
  <2>3. AsksBefore(new, p.text, p.loadingPrev, known'[activeTabId])
    BY <1>5, <1>7, <1>9, SameFilesOK
  <2>4. QED
    BY <1>8, <2>1, <2>2, <2>3
<1>12. /\ activeTabId' = activeTabId /\ FileTypes'
       /\ \A t \in Tabs : t # activeTabId => known'[t] = known[t]
       /\ TextOK(p.text, p.start, known'[activeTabId])
  BY <1>1, <1>5, <1>7, SameFilesOK DEF IInv, Types
<1>13. IInv'
  BY <1>5, <1>7, <1>10, <1>11, <1>12, ShowOK
<1>14. page.follow /\ page.moved # "user" => page'.follow
  BY <1>2, <1>5, <1>7, ScrolledFollows DEF Show
<1>15. QED
  BY <1>13, <1>14 DEF FollowStep

-----------------------------------------------------------------------------
(* The answers to loadPrevChunk.  With c the only call of its tab goes.    *)
LEMMA PrevReturns ==
  ASSUME IInv, NEW c \in calls, c.kind = "prev", Returns(c)
  PROVE  /\ \A d \in calls' : d \in calls
         /\ \A d \in calls' : ~(d.kind = "prev" /\ d.tab = c.tab)
         /\ CallsOK(calls') /\ c.tab \in Tabs
BY DEF IInv, CallsOK, Returns

LEMMA PrevChunkLoadedStep ==
  ASSUME IInv, NEW c \in calls, PrevChunkLoaded(c)
  PROVE  IInv' /\ FollowStep
<1>1. /\ c.kind = "prev" /\ c.tab = activeTabId /\ Returns(c)
      /\ activeTabId' = activeTabId /\ FilesStay
  BY DEF PrevChunkLoaded, FilesStay
<1>2. PICK k : k = known[activeTabId]
  OBVIOUS
<1>3. /\ IsKnown(k) /\ IsPage(page) /\ TextOK(page.text, page.start, k)
      /\ AsksBefore(c, page.text, page.loadingPrev, k)
  BY <1>1, <1>2, PageText
<1>4. PICK from : from = Less(c.before, Chunk)
  OBVIOUS
<1>5. PICK chunk : chunk = [i \in 1..(c.before - from) |-> from + i]
  OBVIOUS
<1>6. PICK text : text = KeepHead(chunk \o page.text)
  OBVIOUS
<1>7. TextOK(text, from, k) /\ text \in Seq(Nat) /\ from \in Nat
  <2>1. /\ c.before \in Nat /\ c.before <= Less(k.size, Chunk)
        /\ Good(k) => Above(page.text, c.before) /\ c.before <= k.reach
    BY <1>3 DEF AsksBefore
  <2>2. /\ IsText(page.text) /\ page.start \in Nat /\ k.reach \in Nat
        /\ k.size \in Nat
        /\ Good(k) => InOrder(page.text, page.start, k.reach)
    BY <1>3 DEF TextOK, IsKnown
  <2>3. /\ IsText(text) /\ from \in Nat /\ from <= c.before
        /\ Good(k) => InOrder(text, from, k.reach)
    BY <1>4, <1>5, <1>6, <2>1, <2>2, PrevOK
  <2>4. from <= Less(k.size, Chunk)
    <3>1. Less(k.size, Chunk) \in Nat
      BY <2>2, Arithmetic
    <3>2. QED
      BY <2>1, <2>3, <3>1
  <2>5. QED
    BY <2>3, <2>4 DEF TextOK, IsText
<1>8. PICK q : q = [page EXCEPT !.text = text, !.start = from,
                                !.loadingPrev = FALSE]
  OBVIOUS
<1>9. IsPage(q) /\ StillFollows(page, q) /\ q.text = text /\ q.start = from
  BY <1>3, <1>7, <1>8 DEF IsPage, StillFollows, EmptyPage
<1>10. PICK p : p = RenderLogBuffer(q)
  OBVIOUS
<1>11. IsPage(p) /\ Keeps(q, p) /\ StillFollows(q, p)
  BY <1>9, <1>10, RenderLogBufferOK
<1>12. PICK to : to = Less(Len(p.shown), c.height)
  OBVIOUS
<1>13. to \in Nat
  <2>1. Len(p.shown) \in Nat /\ c.height \in Nat
    BY <1>3, <1>11 DEF IsPage, AsksBefore
  <2>2. QED
    BY <1>12, <2>1, Arithmetic
<1>14. PICK r : r = MovedTo(p, to)
  OBVIOUS
<1>15. IsPage(r) /\ MoveOK(r) /\ Keeps(p, r) /\ StillFollows(p, r)
  BY <1>11, <1>13, <1>14, MovedToOK
<1>16. Show(r)
  BY <1>4, <1>5, <1>6, <1>8, <1>10, <1>12, <1>14 DEF PrevChunkLoaded
<1>17. TextOK(r.text, r.start, known'[activeTabId]) /\ StillFollows(page, r)
  BY <1>1, <1>2, <1>7, <1>9, <1>11, <1>15, SameFilesOK
  DEF Keeps, StillFollows
<1>18. /\ activeTabId' = activeTabId /\ FileTypes'
       /\ \A t \in Tabs : t # activeTabId => known'[t] = known[t]
  BY <1>1, SameFilesOK DEF IInv, Types
<1>19. IInv'
  BY <1>1, <1>15, <1>16, <1>17, <1>18, PrevReturns, ShowOK
<1>20. QED
  BY <1>16, <1>17, <1>19, StillFollowsOK

LEMMA PrevChunkFailsStep ==
  ASSUME IInv, NEW c \in calls, PrevChunkFails(c)
  PROVE  IInv' /\ FollowStep
<1>1. /\ c.kind = "prev" /\ c.tab = activeTabId /\ Returns(c)
      /\ activeTabId' = activeTabId /\ FilesStay
  BY DEF PrevChunkFails, FilesStay
<1>2. /\ IsPage(page) /\ MoveOK(page)
      /\ TextOK(page.text, page.start, known[activeTabId])
  BY PageText
<1>3. PICK p : p = [page EXCEPT !.loadingPrev = FALSE]
  OBVIOUS
<1>4. /\ IsPage(p) /\ MoveOK(p) /\ StillFollows(page, p)
      /\ p.text = page.text /\ p.start = page.start
  BY <1>2, <1>3 DEF IsPage, MoveOK, StillFollows, EmptyPage
<1>5. Show(p)
  BY <1>3 DEF PrevChunkFails, FilesStay
<1>6. /\ activeTabId' = activeTabId /\ FileTypes'
      /\ \A t \in Tabs : t # activeTabId => known'[t] = known[t]
      /\ TextOK(p.text, p.start, known'[activeTabId])
  BY <1>1, <1>2, <1>4, SameFilesOK DEF IInv, Types
<1>7. IInv'
  BY <1>1, <1>4, <1>5, <1>6, PrevReturns, ShowOK
<1>8. QED
  BY <1>4, <1>5, <1>7, StillFollowsOK

LEMMA PrevChunkLoadedLateStep ==
  ASSUME IInv, NEW c \in calls, PrevChunkLoadedLate(c)
  PROVE  IInv' /\ FollowStep
<1>1. /\ c.kind = "prev" /\ c.tab # activeTabId /\ Returns(c)
      /\ saved' = [saved EXCEPT ![c.tab].loadingPrev = FALSE]
      /\ UNCHANGED <<activeTabId, page>> /\ FilesStay
  BY DEF PrevChunkLoadedLate, FilesStay
<1>2. PICK t : t = c.tab
  OBVIOUS
<1>3. t \in Tabs /\ DOMAIN saved = Tabs /\ FileTypes
      /\ CopyOK(saved[t], known[t])
  BY <1>1, <1>2, PrevReturns DEF IInv, Types, TabsOK
<1>4. PICK copy : copy = [saved[t] EXCEPT !.loadingPrev = FALSE]
  OBVIOUS
<1>5. saved' = [saved EXCEPT ![t] = copy]
  BY <1>1, <1>2, <1>3, <1>4
<1>6. CopyOK(copy, known'[t])
  BY <1>1, <1>3, <1>4, SameFilesOK DEF CopyOK, Copied
<1>7. PrevsOK(t, calls', copy, known'[t])
  BY <1>1, <1>2, PrevReturns DEF PrevsOK
<1>8. IsPage(page') /\ MoveOK(page') /\ Keeps(page, page')
  BY <1>1 DEF IInv, PageIsTheTab, Keeps
<1>9. /\ activeTabId' = activeTabId /\ FileTypes'
      /\ \A u \in Tabs : u # t => known'[u] = known[u]
  BY <1>1, <1>3, SameFilesOK
<1>10. IInv'
  BY <1>1, <1>2, <1>3, <1>5, <1>6, <1>7, <1>8, <1>9, PrevReturns, BackgroundOK
<1>11. QED
  BY <1>1, <1>10 DEF FollowStep

LEMMA PrevChunkFailsLateStep ==
  ASSUME IInv, NEW c \in calls, PrevChunkFailsLate(c)
  PROVE  IInv' /\ FollowStep
<1>1. /\ c.kind = "prev" /\ Returns(c)
      /\ UNCHANGED <<activeTabId, page, saved>> /\ FilesStay
  BY DEF PrevChunkFailsLate, FilesStay
<1>2. CallsOK(calls') /\ \A d \in calls' : d \in calls
  BY <1>1, PrevReturns
<1>3. Types' /\ PageIsTheTab'
  BY <1>1, SameFilesOK DEF IInv, Types, PageIsTheTab
<1>4. TabsOK'
  BY <1>1, <1>2, SameFilesOK DEF IInv, TabsOK, PrevsOK
<1>5. QED
  BY <1>1, <1>2, <1>3, <1>4 DEF IInv, FollowStep

-----------------------------------------------------------------------------
(* The user.                                                               *)
LEMMA UserScrollStep ==
  ASSUME IInv, NEW to \in Nat, UserScroll(to)
  PROVE  IInv' /\ FollowStep
<1>1. IsPage(page)
  BY DEF IInv, PageIsTheTab
<1>2. /\ page' = [page EXCEPT !.top = to, !.moved = "user"]
      /\ UNCHANGED <<activeTabId, saved, calls>> /\ FilesStay
  BY DEF UserScroll, FilesStay
<1>3. /\ IsPage(page') /\ MoveOK(page') /\ Keeps(page, page')
      /\ page'.follow = page.follow
  BY <1>1, <1>2 DEF IsPage, MoveOK, Keeps, EmptyPage
<1>4. QED
  BY <1>2, <1>3, SameTextOK DEF FollowStep

LEMMA BackToBottomStep ==
  ASSUME IInv, BackToBottom
  PROVE  IInv' /\ FollowStep
<1>1. IsPage(page)
  BY DEF IInv, PageIsTheTab
<1>2. PICK p : p = ScrollToBottom(page)
  OBVIOUS
<1>3. IsPage(p) /\ MoveOK(p) /\ Keeps(page, p) /\ StillFollows(page, p)
  BY <1>1, <1>2, ScrollToBottomOK
<1>4. Show(p) /\ UNCHANGED <<activeTabId, calls>> /\ FilesStay
  BY <1>2 DEF BackToBottom, FilesStay
<1>5. IInv'
  BY <1>3, <1>4, NoCallIsNew, ShowSameOK
<1>6. QED
  BY <1>3, <1>4, <1>5, StillFollowsOK

LEMMA ClearViewerStep ==
  ASSUME IInv, ClearViewer
  PROVE  IInv' /\ FollowStep
<1>1. /\ IsPage(page) /\ IsKnown(known[activeTabId])
      /\ \A c \in calls : c.kind = "prev" /\ c.tab = activeTabId =>
           AsksBefore(c, page.text, page.loadingPrev, known[activeTabId])
  BY PageText
<1>2. PICK q : q = [page EXCEPT !.text = << >>]
  OBVIOUS
<1>3. /\ IsPage(q) /\ q.text = << >> /\ q.loadingPrev = page.loadingPrev
      /\ StillFollows(page, q)
  BY <1>1, <1>2 DEF IsPage, StillFollows, EmptyPage
<1>4. PICK r : r = RenderLogBuffer(q)
  OBVIOUS
<1>5. IsPage(r) /\ MoveOK(r) /\ Keeps(q, r) /\ StillFollows(q, r)
  BY <1>3, <1>4, RenderLogBufferOK
<1>6. PICK p : p = [r EXCEPT !.start = 0]
  OBVIOUS
<1>7. /\ IsPage(p) /\ MoveOK(p) /\ StillFollows(page, p)
      /\ p.text = << >> /\ p.start = 0 /\ p.loadingPrev = page.loadingPrev
  BY <1>3, <1>5, <1>6 DEF IsPage, MoveOK, Keeps, StillFollows, EmptyPage
<1>8. Show(p) /\ UNCHANGED <<activeTabId, calls>> /\ FilesStay
  BY <1>2, <1>4, <1>6 DEF ClearViewer, FilesStay
<1>9. TextOK(p.text, p.start, known'[activeTabId]) /\ known' = known
  <2>1. /\ known[activeTabId].reach \in Nat /\ known[activeTabId].size \in Nat
        /\ 0 <= Less(known[activeTabId].size, Chunk)
    BY <1>1, KnownLess
  <2>2. TextOK(<< >>, 0, known[activeTabId])
    BY <2>1, EmptyOK DEF TextOK
  <2>3. QED
    BY <1>7, <1>8, <2>2, SameFilesOK
<1>10. \A c : AsksBefore(c, page.text, page.loadingPrev, known[activeTabId])
              => AsksBefore(c, << >>, page.loadingPrev, known[activeTabId])
  BY EmptyOK DEF AsksBefore
<1>11. /\ activeTabId' = activeTabId /\ FileTypes'
       /\ \A t \in Tabs : t # activeTabId => known'[t] = known[t]
       /\ CallsOK(calls')
       /\ \A c \in calls' : c \in calls
       /\ \A c \in calls' : c.kind = "prev" /\ c.tab = activeTabId =>
            AsksBefore(c, p.text, p.loadingPrev, known'[activeTabId])
  BY <1>1, <1>7, <1>8, <1>9, <1>10, SameFilesOK DEF IInv, Types
<1>12. IInv'
  BY <1>7, <1>8, <1>9, <1>11, ShowOK
<1>13. QED
  BY <1>7, <1>8, <1>12, StillFollowsOK

(* The copy of the tab that comes is as good as the page that goes.        *)
LEMMA ActivateTabStep ==
  ASSUME IInv, NEW t \in Tabs, ActivateTab(t)
  PROVE  IInv' /\ FollowStep
<1>1. /\ t # activeTabId /\ activeTabId' = t /\ page' = Loaded(t)
      /\ saved' = [saved EXCEPT ![activeTabId] = Copy(page)]
      /\ UNCHANGED calls /\ FilesStay
  BY DEF ActivateTab, FilesStay
<1>2. /\ activeTabId \in Tabs /\ IsPage(page)
      /\ TextOK(page.text, page.start, known[activeTabId])
      /\ \A c \in calls : c.kind = "prev" /\ c.tab = activeTabId =>
           AsksBefore(c, page.text, page.loadingPrev, known[activeTabId])
      /\ DOMAIN saved = Tabs /\ CopyOK(saved[t], known[t])
  BY PageText DEF IInv, Types, TabsOK
<1>3. PICK copy : copy = Copy(page)
  OBVIOUS
<1>4. /\ DOMAIN copy = Copied /\ copy.text = page.text
      /\ copy.start = page.start /\ copy.loadingPrev = page.loadingPrev
  BY <1>3 DEF Copy, Restrict, Copied
<1>5. /\ DOMAIN saved' = Tabs /\ saved'[activeTabId] = copy
      /\ \A u \in Tabs : u # activeTabId => saved'[u] = saved[u]
  BY <1>1, <1>2, <1>3
<1>6. PICK p : p =
        [f \in DOMAIN page |->
           CASE f \in Copied -> saved[t][f]
             [] f \in {"pendingLogRender", "pendingForce", "pendingFollow"}
                  -> FALSE
             [] f = "moved" /\ page.moved # None -> "page"
             [] OTHER -> page[f]]
  OBVIOUS
<1>7. IsPage(p) /\ Keeps(saved[t], p)
  <2>1. /\ DOMAIN p = DOMAIN page
        /\ \A f \in DOMAIN page : f \in Copied => p[f] = saved[t][f]
        /\ \A f \in {"rendered", "shown", "top", "lastTop"} :
             f \in DOMAIN page => p[f] = page[f]
    BY <1>6 DEF Copied
  <2>2. saved[t].text \in Seq(Nat) /\ saved[t].start \in Nat
    BY <1>2 DEF CopyOK, TextOK, IsText
  <2>3. QED
    BY <1>2, <2>1, <2>2 DEF IsPage, Keeps, EmptyPage, Copied
<1>8. page' = RenderLogBuffer(p)
  BY <1>1, <1>6 DEF Loaded
<1>9. IsPage(page') /\ MoveOK(page') /\ Keeps(p, page')
  BY <1>7, <1>8, RenderLogBufferOK
<1>10. Types' /\ known' = known
  BY <1>1, <1>5, SameFilesOK DEF IInv, Types
<1>11. PageIsTheTab'
  BY <1>1, <1>5, <1>7, <1>9 DEF PageIsTheTab, Keeps
<1>12. ASSUME NEW u \in Tabs
       PROVE  /\ CopyOK(saved'[u], known'[u])
              /\ PrevsOK(u, calls', saved'[u], known'[u])
  <2>1. CASE u = activeTabId
    BY <1>1, <1>2, <1>4, <1>5, <1>10, <2>1 DEF CopyOK, PrevsOK
  <2>2. CASE u # activeTabId
    BY <1>1, <1>5, <1>10, <2>2 DEF IInv, TabsOK
  <2>3. QED
    BY <2>1, <2>2
<1>13. TabsOK' /\ CallsOK(calls')
  BY <1>1, <1>12 DEF IInv, TabsOK
<1>14. QED
  BY <1>1, <1>10, <1>11, <1>13 DEF IInv, FollowStep

-----------------------------------------------------------------------------
(* The realtime stream and its keyword.                                    *)
LEMMA OpenLatestOK ==
  ASSUME IInv, NEW p, IsPage(p), MoveOK(p), Keeps(page, p), NEW kind,
         kind # "prev", OpenLatest(p, kind),
         activeTabId' = activeTabId /\ FilesStay
  PROVE  IInv'
<1>1. PICK new : new = [kind |-> kind, tab |-> activeTabId,
                        keyword |-> p.monitor, size |-> size[activeTabId]]
  OBVIOUS
<1>2. Show(p) /\ calls' = calls \cup {new}
  BY <1>1 DEF OpenLatest
<1>3. NoNewPrev
  BY <1>1, <1>2 DEF IInv, Types, CallsOK, NoNewPrev
<1>4. QED
  BY <1>2, <1>3, ShowSameOK

LEMMA OpenLatestRealtimeStep ==
  ASSUME IInv, OpenLatestRealtime
  PROVE  IInv' /\ FollowStep
<1>1. IsPage(page) /\ MoveOK(page) /\ Keeps(page, page)
      /\ StillFollows(page, page)
  BY DEF IInv, PageIsTheTab, Keeps, StillFollows
<1>2. OpenLatest(page, "open") /\ activeTabId' = activeTabId /\ FilesStay
  BY DEF OpenLatestRealtime, FilesStay
<1>3. IInv'
  BY <1>1, <1>2, OpenLatestOK
<1>4. QED
  BY <1>1, <1>2, <1>3, StillFollowsOK DEF OpenLatest

LEMMA MonitorOnlyOK ==
  ASSUME IInv, NEW p, IsPage(p), Keeps(page, p), StillFollows(page, p),
         MonitorOnly(p), activeTabId' = activeTabId /\ FilesStay
  PROVE  IInv' /\ FollowStep
<1>1. PICK q : q = RenderLogBuffer(p)
  OBVIOUS
<1>2. IsPage(q) /\ MoveOK(q) /\ Keeps(p, q) /\ StillFollows(p, q)
  BY <1>1, RenderLogBufferOK
<1>3. Keeps(page, q) /\ StillFollows(page, q)
  BY <1>2 DEF Keeps, StillFollows
<1>4. Show(q) /\ UNCHANGED calls
  BY <1>1 DEF MonitorOnly
<1>5. IInv'
  BY <1>2, <1>3, <1>4, NoCallIsNew, ShowSameOK
<1>6. QED
  BY <1>3, <1>4, <1>5, StillFollowsOK

LEMMA SetMonitorStep ==
  ASSUME IInv, NEW keyword, NEW resumes, SetMonitor(keyword, resumes)
  PROVE  IInv' /\ FollowStep
<1>1. IsPage(page) /\ MoveOK(page)
  BY DEF IInv, PageIsTheTab
<1>2. PICK p : p = [page EXCEPT !.monitor = keyword]
  OBVIOUS
<1>3. IsPage(p) /\ MoveOK(p) /\ Keeps(page, p) /\ StillFollows(page, p)
  BY <1>1, <1>2 DEF IsPage, MoveOK, Keeps, StillFollows, EmptyPage
<1>4. /\ activeTabId' = activeTabId /\ FilesStay
      /\ \/ OpenLatest(p, "monitor")
         \/ MonitorOnly(ScrollToBottom(p))
         \/ MonitorOnly(p)
  BY <1>2 DEF SetMonitor, FilesStay
<1>5. CASE OpenLatest(p, "monitor")
  <2>1. IInv'
    BY <1>3, <1>4, <1>5, OpenLatestOK
  <2>2. QED
    BY <1>3, <1>5, <2>1, StillFollowsOK DEF OpenLatest
<1>6. CASE MonitorOnly(ScrollToBottom(p))
  <2>1. PICK q : q = ScrollToBottom(p)
    OBVIOUS
  <2>2. IsPage(q) /\ Keeps(page, q) /\ StillFollows(page, q)
    BY <1>3, <2>1, ScrollToBottomOK DEF Keeps, StillFollows
  <2>3. QED
    BY <1>4, <1>6, <2>1, <2>2, MonitorOnlyOK
<1>7. CASE MonitorOnly(p)
  BY <1>3, <1>4, <1>7, MonitorOnlyOK
<1>8. QED
  BY <1>4, <1>5, <1>6, <1>7

(***************************************************************************)
(* The answer of a read.  What the tab knows of its file then (l) goes as  *)
(* far as the read, and the read begins after a part that is awaited, or   *)
(* the tab is mixed.                                                       *)
(***************************************************************************)
SnapshotKnown(c, n, k, l) ==
  /\ IsKnown(k) /\ IsKnown(l) /\ k.size <= l.size /\ n <= l.size
  /\ Good(l) => n <= l.reach
  /\ Good(l) /\ AwaitsPrev(c.tab) => c.keyword = None /\ k.size <= n

AsksOrNot(c) ==
  \/ asked' = [asked EXCEPT ![c.tab] =
                 Append(@, [keyword |-> c.keyword, size |-> size'[c.tab]])]
  \/ asked' = asked

LEMMA AskedMore ==
  ASSUME NEW q, AskedOK(q), NEW new, new.size \in Nat, NEW r, r = Append(q, new)
  PROVE  AskedOK(r) /\ r # << >> /\ Head(r) = IF q = << >> THEN new ELSE Head(q)
<1>1. PICK S : q \in Seq(S) /\ \A x \in S : x.size \in Nat
  BY DEF AskedOK
<1>2. PICK T : T = S \cup {new}
  OBVIOUS
<1>3. q \in Seq(T) /\ \A x \in T : x.size \in Nat
  BY <1>1, <1>2
<1>4. r \in Seq(T) /\ Len(r) = Len(q) + 1 /\ Len(q) \in Nat
      /\ r[Len(q) + 1] = new /\ \A i \in 1..Len(q) : r[i] = q[i]
  BY <1>2, <1>3
<1>5. r # << >> /\ Head(r) = r[1]
  BY <1>4
<1>6. CASE q = << >>
  BY <1>3, <1>4, <1>5, <1>6 DEF AskedOK
<1>7. CASE q # << >>
  <2>1. 1 \in 1..Len(q) /\ Head(q) = q[1]
    BY <1>3, <1>7
  <2>2. QED
    BY <1>3, <1>4, <1>5, <1>7, <2>1 DEF AskedOK
<1>8. QED
  BY <1>6, <1>7

LEMMA AnsweredOK ==
  ASSUME IInv, NEW c \in calls, NEW n \in Nat, Answered(c, n), AsksOrNot(c)
  PROVE  /\ FileTypes' /\ SnapshotKnown(c, n, known[c.tab], known'[c.tab])
         /\ \A u \in Tabs : u # c.tab => known'[u] = known[u]
<1>1. PICK t : t = c.tab
  OBVIOUS
<1>2. /\ t \in Tabs /\ FileTypes /\ sent[t] \in Nat /\ size[t] \in Nat
      /\ AskedOK(asked[t])
  BY <1>1 DEF IInv, Types, CallsOK, FileTypes
<1>3. /\ size' = [size EXCEPT ![t] = Larger(@, n)]
      /\ mixed' = IF Overlaps(c, n) THEN mixed \cup {t} ELSE mixed \ {t}
      /\ stream' = stream /\ sent' = sent
  BY <1>1 DEF Answered, Read
<1>4. /\ size'[t] = Larger(size[t], n) /\ DOMAIN size' = Tabs
      /\ \A u \in Tabs : u # t => size'[u] = size[u]
  BY <1>2, <1>3 DEF FileTypes
<1>5. size'[t] \in Nat /\ size[t] <= size'[t] /\ n <= size'[t]
  BY <1>2, <1>4, LargerOK
<1>6. PICK new : new = [keyword |-> c.keyword, size |-> size'[t]]
  OBVIOUS
<1>7. asked' = [asked EXCEPT ![t] = Append(@, new)] \/ asked' = asked
  BY <1>1, <1>6 DEF AsksOrNot
<1>8. /\ DOMAIN asked' = Tabs
      /\ asked'[t] = Append(asked[t], new) \/ asked'[t] = asked[t]
      /\ \A u \in Tabs : u # t => asked'[u] = asked[u]
  BY <1>2, <1>7 DEF FileTypes
<1>9. /\ AskedOK(asked'[t])
      /\ asked[t] # << >> => /\ asked'[t] # << >>
                             /\ Head(asked'[t]) = Head(asked[t])
      /\ asked[t] = << >> => \/ asked'[t] = << >>
                             \/ Head(asked'[t]).size = size'[t]
  <2>1. new.size = size'[t]
    BY <1>6
  <2>2. QED
    BY <1>2, <1>5, <1>8, <2>1, AskedMore
<1>10. FileTypes'
  <2>1. \A u \in Tabs : size'[u] \in Nat /\ AskedOK(asked'[u])
    BY <1>2, <1>4, <1>5, <1>8, <1>9 DEF FileTypes
  <2>2. size' \in [Tabs -> Nat]
    BY <1>2, <1>3, <1>4, <2>1 DEF FileTypes
  <2>3. QED
    BY <1>2, <1>3, <1>8, <2>1, <2>2 DEF FileTypes
<1>12. \A u \in Tabs : u # t => known'[u] = known[u]
  <2>1. \A u \in Tabs : u # t => Reach(u)' = Reach(u)
    BY <1>3, <1>4, <1>8 DEF Reach
  <2>2. \A u \in Tabs : u # t => mixed' \cap {u} = mixed \cap {u}
    BY <1>3
  <2>3. QED
    BY <1>4, <2>1, <2>2 DEF known
<1>13. /\ known'[t].size = size'[t] /\ known'[t].reach = Reach(t)'
       /\ known'[t].mixed = mixed' \cap {t} /\ known[t].size = size[t]
  BY <1>2, KnownFields, KnownNext
<1>14. IsKnown(known[t]) /\ Reach(t) \in Nat
  BY <1>2, KnownType, KnownFields DEF IsKnown
<1>15. Reach(t)' = IF asked[t] = << >> /\ stream[t] = Closed THEN size'[t]
                  ELSE Reach(t)
  BY <1>3, <1>9 DEF Reach
<1>16. Good(known'[t]) => ~Overlaps(c, n)
  BY <1>3, <1>13 DEF Good
<1>17. ~Overlaps(c, n) => n <= Reach(t)'
  <2>1. ~Overlaps(c, n) => ~StreamIsBehind(t, n)
    BY <1>1 DEF Overlaps
  <2>2. ~StreamIsBehind(t, n) =>
          n <= Reach(t) \/ (asked[t] = << >> /\ stream[t] = Closed)
    <3>1. CASE stream[t] # Closed
      BY <1>2, <3>1 DEF StreamIsBehind, Reach
    <3>2. CASE stream[t] = Closed /\ asked[t] # << >>
      <4>1. Reach(t) = Head(asked[t]).size
        BY <3>2 DEF Reach
      <4>2. QED
        BY <1>14, <3>2, <4>1 DEF StreamIsBehind
    <3>3. QED
      BY <3>1, <3>2
  <2>3. QED
    BY <1>5, <1>15, <2>1, <2>2
<1>18. ~Overlaps(c, n) /\ AwaitsPrev(t) => c.keyword = None /\ size[t] <= n
  BY <1>1, <1>2 DEF Overlaps
<1>19. IsKnown(known'[t])
  BY <1>5, <1>13, <1>14, <1>15 DEF IsKnown
<1>20. SnapshotKnown(c, n, known[t], known'[t])
  BY <1>1, <1>5, <1>13, <1>14, <1>16, <1>17, <1>18, <1>19 DEF SnapshotKnown
<1>21. QED
  BY <1>1, <1>10, <1>12, <1>20

(* A snapshot begins no earlier than the part that is awaited ends.        *)
LEMMA SnapshotAndPrev ==
  ASSUME NEW c, NEW n \in Nat, NEW k, NEW l, SnapshotKnown(c, n, k, l),
         NEW new, new = Snapshot(c, n)
  PROVE  /\ TextOK(new.text, new.start, l)
         /\ \A d \in calls : d.kind = "prev" /\ d.tab = c.tab =>
              \A text, loading : AsksBefore(d, text, loading, k)
                                   => AsksBefore(d, new.text, loading, l)
<1>1. /\ IsText(new.text) /\ new.start \in Nat
      /\ new.start <= Less(n, Chunk) /\ InOrder(new.text, new.start, n)
      /\ c.keyword = None =>
           \A m \in Nat : m <= Less(n, Chunk) => Above(new.text, m)
  BY SnapshotOK
<1>2. /\ k.size \in Nat /\ l.size \in Nat /\ l.reach \in Nat
      /\ k.size <= l.size /\ n <= l.size
      /\ Good(l) => n <= l.reach
      /\ Good(l) /\ AwaitsPrev(c.tab) => c.keyword = None /\ k.size <= n
  BY DEF SnapshotKnown, IsKnown
<1>3. /\ Less(n, Chunk) \in Nat /\ Less(n, Chunk) <= n
      /\ Less(k.size, Chunk) \in Nat /\ Less(l.size, Chunk) \in Nat
      /\ Less(k.size, Chunk) <= Less(l.size, Chunk)
      /\ Less(n, Chunk) <= Less(l.size, Chunk)
      /\ k.size <= n => Less(k.size, Chunk) <= Less(n, Chunk)
  BY <1>2, Arithmetic
<1>4. TextOK(new.text, new.start, l)
  <2>1. new.start <= Less(l.size, Chunk)
    BY <1>1, <1>3
  <2>2. Good(l) => InOrder(new.text, new.start, l.reach)
    BY <1>1, <1>2, InOrderMore
  <2>3. QED
    BY <1>1, <2>1, <2>2 DEF TextOK
<1>5. ASSUME NEW d \in calls, d.kind = "prev", d.tab = c.tab,
             NEW text, NEW loading, AsksBefore(d, text, loading, k)
      PROVE  AsksBefore(d, new.text, loading, l)
  <2>1. /\ d.before \in Nat /\ d.height \in Nat /\ loading = TRUE
        /\ d.before <= Less(k.size, Chunk)
    BY <1>5 DEF AsksBefore
  <2>2. AwaitsPrev(c.tab)
    BY <1>5 DEF AwaitsPrev
  <2>3. ASSUME Good(l)
        PROVE  Above(new.text, d.before) /\ d.before <= l.reach
    <3>1. c.keyword = None /\ k.size <= n /\ n <= l.reach
      BY <1>2, <2>2, <2>3
    <3>2. d.before <= Less(n, Chunk) /\ d.before <= l.reach
      BY <1>2, <1>3, <2>1, <3>1
    <3>3. QED
      BY <1>1, <2>1, <3>1, <3>2
  <2>4. d.before <= Less(l.size, Chunk)
    BY <1>3, <2>1
  <2>5. QED
    BY <2>1, <2>3, <2>4 DEF AsksBefore
<1>6. QED
  BY <1>4, <1>5

LEMMA CutOK ==
  ASSUME NEW text, NEW start, NEW k, IsKnown(k), TextOK(text, start, k),
         NEW r, r = KeepTail(text)
  PROVE  /\ TextOK(r, start, k)
         /\ \A c, loading : AsksBefore(c, text, loading, k)
                              => AsksBefore(c, r, loading, k)
<1>1. IsText(text) /\ text \in Seq(Nat) /\ start \in Nat /\ k.reach \in Nat
  BY DEF TextOK, IsText, IsKnown
<1>2. IsPart(r, text)
  BY <1>1, KeepOK
<1>3. IsText(r)
  BY <1>1, <1>2, PartIsText
<1>4. QED
  BY <1>1, <1>2, <1>3 DEF TextOK, AsksBefore, IsPart

LEMMA CallGone ==
  ASSUME IInv, NEW c \in calls, Returns(c)
  PROVE  /\ CallsOK(calls') /\ c.tab \in Tabs
         /\ \A d \in calls' : d \in calls
BY DEF IInv, CallsOK, Returns

LEMMA FileOpenedStep ==
  ASSUME IInv, NEW c \in calls, NEW n \in Nat, FileOpened(c, n)
  PROVE  IInv' /\ FollowStep
<1>1. PICK l : l = known'[activeTabId]
  OBVIOUS
<1>2. /\ IsPage(page)
      /\ \A d \in calls : d.kind = "prev" /\ d.tab = activeTabId =>
           AsksBefore(d, page.text, page.loadingPrev, known[activeTabId])
  BY PageText
<1>3. /\ c.tab = activeTabId /\ Answered(c, n) /\ Returns(c)
      /\ activeTabId' = activeTabId /\ AsksOrNot(c)
  BY DEF FileOpened, Answered, AsksOrNot
<1>4. PICK new : new = Snapshot(c, n)
  OBVIOUS
<1>5. /\ FileTypes' /\ IsKnown(l)
      /\ \A t \in Tabs : t # activeTabId => known'[t] = known[t]
      /\ SnapshotKnown(c, n, known[activeTabId], l)
  BY <1>1, <1>3, AnsweredOK DEF SnapshotKnown
<1>6. PICK text : text = KeepTail(new.text)
  OBVIOUS
<1>7. /\ TextOK(text, new.start, l)
      /\ text \in Seq(Nat) /\ new.start \in Nat
      /\ \A d \in calls : d.kind = "prev" /\ d.tab = activeTabId =>
           AsksBefore(d, text, page.loadingPrev, l)
  <2>1. /\ TextOK(new.text, new.start, l)
        /\ \A d \in calls : d.kind = "prev" /\ d.tab = activeTabId =>
             AsksBefore(d, new.text, page.loadingPrev, l)
    BY <1>2, <1>3, <1>4, <1>5, SnapshotAndPrev
  <2>2. /\ TextOK(text, new.start, l)
        /\ \A d \in calls : d.kind = "prev" /\ d.tab = activeTabId =>
             AsksBefore(d, text, page.loadingPrev, l)
    BY <1>5, <1>6, <2>1, CutOK
  <2>3. QED
    BY <2>2 DEF TextOK, IsText
<1>8. PICK q : q = [page EXCEPT !.text = text, !.start = new.start]
  OBVIOUS
<1>9. /\ IsPage(q) /\ q.text = text /\ q.start = new.start
      /\ q.loadingPrev = page.loadingPrev /\ StillFollows(page, q)
  BY <1>2, <1>7, <1>8 DEF IsPage, StillFollows, EmptyPage
<1>10. PICK r : r = RenderLogBuffer(q)
  OBVIOUS
<1>11. IsPage(r) /\ Keeps(q, r) /\ StillFollows(q, r)
  BY <1>9, <1>10, RenderLogBufferOK
<1>12. PICK p : p = ScrollToBottom(r)
  OBVIOUS
<1>13. IsPage(p) /\ MoveOK(p) /\ Keeps(r, p) /\ StillFollows(r, p)
  BY <1>11, <1>12, ScrollToBottomOK
<1>14. /\ p.text = text /\ p.start = new.start
       /\ p.loadingPrev = page.loadingPrev /\ StillFollows(page, p)
  BY <1>9, <1>11, <1>13 DEF Keeps, StillFollows
<1>15. Show(p)
  BY <1>4, <1>6, <1>8, <1>10, <1>12 DEF FileOpened
<1>16. TextOK(p.text, p.start, known'[activeTabId])
  BY <1>1, <1>7, <1>14
<1>17. CallsOK(calls') /\ \A d \in calls' : d \in calls
  BY <1>3, CallGone
<1>18. \A d \in calls' : d.kind = "prev" /\ d.tab = activeTabId =>
         AsksBefore(d, p.text, p.loadingPrev, known'[activeTabId])
  BY <1>1, <1>7, <1>14, <1>17
<1>19. IInv'
  BY <1>3, <1>5, <1>13, <1>15, <1>16, <1>17, <1>18, ShowOK
<1>20. QED
  BY <1>14, <1>15, <1>19, StillFollowsOK

LEMMA FileOpenedLateStep ==
  ASSUME IInv, NEW c \in calls, NEW n \in Nat, FileOpenedLate(c, n)
  PROVE  IInv' /\ FollowStep
<1>1. PICK t : t = c.tab
  OBVIOUS
<1>2. PICK l : l = known'[t]
  OBVIOUS
<1>3. /\ t # activeTabId /\ Answered(c, n) /\ Returns(c)
      /\ activeTabId' = activeTabId /\ AsksOrNot(c)
      /\ page' = IF c.kind = "monitor" THEN RenderLogBuffer(page) ELSE page
  BY <1>1 DEF FileOpenedLate, Answered, AsksOrNot
<1>4. CallsOK(calls') /\ t \in Tabs /\ \A d \in calls' : d \in calls
  BY <1>1, <1>3, CallGone
<1>5. /\ DOMAIN saved = Tabs
      /\ CopyOK(saved[t], known[t]) /\ PrevsOK(t, calls, saved[t], known[t])
  BY <1>4 DEF IInv, Types, TabsOK
<1>6. PICK new : new = Snapshot(c, n)
  OBVIOUS
<1>7. /\ FileTypes' /\ \A u \in Tabs : u # t => known'[u] = known[u]
      /\ SnapshotKnown(c, n, known[t], l)
  BY <1>1, <1>2, <1>3, AnsweredOK
<1>8. /\ TextOK(new.text, new.start, l)
      /\ \A d \in calls : d.kind = "prev" /\ d.tab = t =>
           AsksBefore(d, new.text, saved[t].loadingPrev, l)
  BY <1>1, <1>5, <1>6, <1>7, SnapshotAndPrev DEF PrevsOK
<1>9. PICK copy :
        copy = [saved[t] EXCEPT !.text = new.text, !.start = new.start]
  OBVIOUS
<1>10. saved' = [saved EXCEPT ![t].text = new.text, ![t].start = new.start]
  BY <1>1, <1>6 DEF FileOpenedLate
<1>11. saved' = [saved EXCEPT ![t] = copy]
  BY <1>4, <1>5, <1>9, <1>10
<1>12. /\ DOMAIN copy = Copied /\ copy.text = new.text
       /\ copy.start = new.start /\ copy.loadingPrev = saved[t].loadingPrev
  BY <1>5, <1>9 DEF CopyOK, Copied
<1>13. CopyOK(copy, known'[t])
  BY <1>2, <1>8, <1>12 DEF CopyOK
<1>14. PrevsOK(t, calls', copy, known'[t])
  BY <1>2, <1>4, <1>8, <1>12 DEF PrevsOK
<1>15. /\ IsPage(page') /\ MoveOK(page') /\ Keeps(page, page')
       /\ StillFollows(page, page')
  <2>1. IsPage(page) /\ MoveOK(page)
    BY DEF IInv, PageIsTheTab
  <2>2. CASE c.kind = "monitor"
    BY <1>3, <2>1, <2>2, RenderLogBufferOK
  <2>3. CASE c.kind # "monitor"
    BY <1>3, <2>1, <2>3 DEF Keeps, StillFollows
  <2>4. QED
    BY <2>2, <2>3
<1>16. IInv'
  BY <1>3, <1>4, <1>7, <1>11, <1>13, <1>14, <1>15, BackgroundOK
<1>17. QED
  BY <1>15, <1>16 DEF FollowStep, StillFollows

-----------------------------------------------------------------------------
LEMMA StutterStep ==
  ASSUME IInv, UNCHANGED vars
  PROVE  IInv' /\ FollowStep
<1>1. UNCHANGED <<activeTabId, page, saved, calls>> /\ FilesStay
  BY DEF vars, FilesStay
<1>2. QED
  BY <1>1, SameFilesOK
  DEF IInv, Types, PageIsTheTab, TabsOK, CallsOK, FollowStep

LEMMA NextStep ==
  ASSUME IInv, [Next]_vars
  PROVE  IInv' /\ FollowStep
<1>1. ASSUME User
      PROVE  IInv' /\ FollowStep
  <2>1. ASSUME NEW to \in 0..MaxText + MaxLines, UserScroll(to)
        PROVE  IInv' /\ FollowStep
    <3>1. to \in Nat
      BY LogViewAssumption
    <3>2. QED
      BY <2>1, <3>1, UserScrollStep
  <2>2. ASSUME StopRealtimeMonitor
        PROVE  IInv' /\ FollowStep
    BY <2>2, SetMonitorStep DEF StopRealtimeMonitor
  <2>3. ASSUME NEW k \in Keywords, ApplyRealtimeMonitor(k)
        PROVE  IInv' /\ FollowStep
    BY <2>3, SetMonitorStep DEF ApplyRealtimeMonitor
  <2>4. QED
    BY <1>1, <2>1, <2>2, <2>3, BackToBottomStep, ClearViewerStep,
       OpenLatestRealtimeStep, ActivateTabStep DEF User
<1>2. ASSUME Server
      PROVE  IInv' /\ FollowStep
  <2>1. ASSUME NEW c \in calls, NEW n \in 1..MaxLines,
               FileOpened(c, n) \/ FileOpenedLate(c, n)
        PROVE  IInv' /\ FollowStep
    <3>1. n \in Nat
      OBVIOUS
    <3>2. QED
      BY <2>1, <3>1, FileOpenedStep, FileOpenedLateStep
  <2>2. QED
    BY <1>2, <2>1, LogLinesStep, LogLinesInBackgroundStep, StreamOpenedStep,
       PrevChunkLoadedStep, PrevChunkFailsStep, PrevChunkLoadedLateStep,
       PrevChunkFailsLateStep DEF Server
<1>3. ASSUME Browser
      PROVE  IInv' /\ FollowStep
  BY <1>3, FrameStep, RenderFrameStep, SettleFrameStep, OnLogScrollStep,
     OnLogScrollLoadPrevChunkStep DEF Browser
<1>4. QED
  BY <1>1, <1>2, <1>3, StutterStep DEF Next

(* The inductive invariant holds in every state of the page: the texts are *)
(* lines of the files, and where no snapshot had lines that were still to  *)
(* come, the lines of a tab come after its start and up to where its       *)
(* stream goes on, and an earlier part that is awaited belongs before them *)
(* (app.js, loadPrevChunk).                                                *)
THEOREM LogViewInvariant == Spec => []IInv
<1>1. Init => IInv
  BY InitOK
<1>2. IInv /\ [Next]_vars => IInv'
  BY NextStep
<1>3. QED
  BY <1>1, <1>2, PTL DEF Spec

(* No text of a tab, on the page or in its copy, has a line twice or out   *)
(* of order, whatever the sizes of the reads, of the text and of the view, *)
(* and whatever was read and awaited in between, unless its snapshot had   *)
(* lines that were still to come (handleWsMessage, loadPrevChunk).         *)
THEOREM LinesInOrder == Spec => []LinesStayInOrder
<1>1. ASSUME IInv
      PROVE  LinesStayInOrder
  <2>1. ASSUME NEW t \in Tabs, t \notin mixed
        PROVE  /\ Increases(saved[t].text)
               /\ t = activeTabId => Increases(page.text)
    <3>1. Good(known[t])
      BY <2>1, KnownFields DEF Good
    <3>2. TextOK(saved[t].text, saved[t].start, known[t])
      BY <1>1 DEF IInv, TabsOK, CopyOK
    <3>3. t = activeTabId => page.text = saved[t].text
      BY <1>1, PageText
    <3>4. QED
      BY <3>1, <3>2, <3>3 DEF TextOK, InOrder
  <2>2. QED
    BY <2>1 DEF LinesStayInOrder, Texts
<1>2. QED
  BY <1>1, LogViewInvariant, PTL

(* What a tab has is of its file: the lines are none before the one where  *)
(* the text starts, and none that its stream has still to bring, unless    *)
(* its snapshot had some (openFile, loadPrevChunk).                        *)
TextsOfTheFiles ==
  \A t \in Tabs \ mixed :
    \A i \in DOMAIN saved[t].text :
      /\ saved[t].start < saved[t].text[i]
      /\ stream[t] # Closed => saved[t].text[i] <= sent[t]

THEOREM TextsFromTheFiles == Spec => []TextsOfTheFiles
<1>1. ASSUME IInv
      PROVE  TextsOfTheFiles
  <2>1. ASSUME NEW t \in Tabs, t \notin mixed
        PROVE  InOrder(saved[t].text, saved[t].start, Reach(t))
    <3>1. Good(known[t]) /\ known[t].reach = Reach(t)
      BY <2>1, KnownFields DEF Good
    <3>2. TextOK(saved[t].text, saved[t].start, known[t])
      BY <1>1 DEF IInv, TabsOK, CopyOK
    <3>3. QED
      BY <3>1, <3>2 DEF TextOK
  <2>2. QED
    BY <2>1 DEF TextsOfTheFiles, InOrder, Above, Reach
<1>2. QED
  BY <1>1, LogViewInvariant, PTL

(* Nothing the page does to the view makes it stop following (onLogScroll  *)
(* and lastViewerScrollTop), in whatever order the callbacks run.          *)
THEOREM FollowingEndsWithTheUser == Spec => OnlyTheUserStopsFollowing
<1>1. IInv /\ [Next]_vars =>
        [activeTabId' = activeTabId /\ page.follow /\ ~page'.follow
           => page.moved = "user"]_vars
  BY NextStep DEF FollowStep
<1>2. QED
  BY <1>1, LogViewInvariant, PTL DEF Spec, OnlyTheUserStopsFollowing

-----------------------------------------------------------------------------
(***************************************************************************)
(* The lines of the view.  Lines goes through them by a recursive          *)
(* function: that the function exists, and what it computes, is proved by  *)
(* induction over the numbers, for the sets of the numbers it holds for.   *)
(***************************************************************************)
LEMMA Induction ==
  ASSUME NEW T, 0 \in T, \A n \in Nat : n \in T => n + 1 \in T
  PROVE  Nat \subseteq T
<1> DEFINE R == Nat \ T
<1>1. SUFFICES ASSUME R # {} PROVE FALSE
  OBVIOUS
<1>2. R \subseteq Nat
  OBVIOUS
<1>3. PICK x \in R : \A y \in R : ~(<<y, x>> \in OpToRel(<, Nat))
  BY <1>1, <1>2, NatLessThanWellFounded, WFMin
<1>4. x \in Nat /\ x # 0 /\ x - 1 \in Nat
  OBVIOUS
<1>5. x - 1 \in T
  <2>1. <<x - 1, x>> \in OpToRel(<, Nat)
    BY <1>4 DEF OpToRel
  <2>2. QED BY <1>3, <1>4, <2>1
<1>6. QED BY <1>4, <1>5

(* f goes by steps from base as far as m.                                  *)
Goes(f, base, step, m) ==
  f[0] = base /\ \A i \in 1..m : f[i] = step[f[i - 1], i]

(* A function that is defined step by step exists.                         *)
LEMMA Recursion ==
  ASSUME NEW n \in Nat, NEW S, NEW base \in S,
         NEW step \in [S \X (1..n) -> S]
  PROVE  \E f \in [0..n -> S] : Goes(f, base, step, n)
<1> DEFINE P(m) == m <= n => \E f \in [0..m -> S] : Goes(f, base, step, m)
<1>1. P(0)
  <2>1. PICK f : f = [i \in 0..0 |-> base]
    OBVIOUS
  <2>2. f \in [0..0 -> S] /\ f[0] = base
    BY <2>1
  <2>3. QED BY <2>2 DEF Goes
<1>2. ASSUME NEW m \in Nat, P(m)
      PROVE  P(m + 1)
  <2>1. SUFFICES ASSUME m + 1 <= n
                 PROVE  \E f \in [0..(m + 1) -> S] : Goes(f, base, step, m + 1)
    OBVIOUS
  <2>2. PICK f \in [0..m -> S] : Goes(f, base, step, m)
    BY <1>2, <2>1
  <2>3. PICK last : last = step[f[m], m + 1]
    OBVIOUS
  <2>4. last \in S
    <3>1. f[m] \in S /\ m + 1 \in 1..n
      BY <2>1
    <3>2. QED BY <2>3, <3>1
  <2>5. PICK g : g = [i \in 0..(m + 1) |-> IF i = m + 1 THEN last ELSE f[i]]
    OBVIOUS
  <2>6. /\ DOMAIN g = 0..(m + 1) /\ g[m + 1] = last
        /\ \A i \in 0..m : g[i] = f[i]
    BY <2>5
  <2>7. \A i \in 0..(m + 1) : g[i] \in S
    <3>1. \A i \in 0..(m + 1) : i = m + 1 \/ i \in 0..m
      OBVIOUS
    <3>2. QED BY <2>4, <2>6, <3>1
  <2>8. g \in [0..(m + 1) -> S]
    BY <2>5, <2>7
  <2>9. ASSUME NEW i \in 1..(m + 1)
        PROVE  g[i] = step[g[i - 1], i]
    <3>1. i - 1 \in 0..m /\ g[i - 1] = f[i - 1]
      BY <2>6
    <3>2. CASE i = m + 1
      <4>1. i - 1 = m
        BY <3>2
      <4>2. QED BY <2>3, <2>6, <3>1, <3>2, <4>1
    <3>3. CASE i # m + 1
      <4>1. i \in 1..m /\ i \in 0..m
        BY <3>3
      <4>2. f[i] = step[f[i - 1], i]
        BY <2>2, <4>1 DEF Goes
      <4>3. QED BY <2>6, <3>1, <4>1, <4>2
    <3>4. QED BY <3>2, <3>3
  <2>10. g[0] = base
    <3>1. 0 \in 0..m
      OBVIOUS
    <3>2. QED BY <2>2, <2>6, <3>1 DEF Goes
  <2>11. Goes(g, base, step, m + 1)
    BY <2>9, <2>10 DEF Goes
  <2>12. QED BY <2>8, <2>11
<1> HIDE DEF P
<1>3. \A m \in Nat : P(m)
  <2> DEFINE T == {m \in Nat : P(m)}
  <2>1. 0 \in T
    BY <1>1
  <2>2. \A m \in Nat : m \in T => m + 1 \in T
    BY <1>2
  <2> HIDE DEF T
  <2>3. Nat \subseteq T
    BY <2>1, <2>2, Induction
  <2>4. QED BY <2>3 DEF T
<1>4. P(n)
  BY <1>3
<1>5. QED BY <1>4 DEF P

(* The function by which Lines goes through a view.                        *)
GoesThrough(f, s) ==
  f[0] = << >> /\ \A i \in 1..Len(s) :
                    f[i] = IF s[i] = Blank THEN f[i - 1]
                           ELSE Append(f[i - 1], s[i])

LEMMA LinesTrace ==
  ASSUME NEW s \in Seq(Nat)
  PROVE  \E f \in [0..Len(s) -> Seq(Nat)] :
           GoesThrough(f, s) /\ Lines(s) = f[Len(s)]
<1> DEFINE n == Len(s)
<1> DEFINE line(g, i) == IF i = 0 THEN << >>
                         ELSE IF s[i] = Blank THEN g[i - 1]
                         ELSE Append(g[i - 1], s[i])
<1> DEFINE step == [x \in Seq(Nat) \X (1..n) |->
                      IF s[x[2]] = Blank THEN x[1] ELSE Append(x[1], s[x[2]])]
<1>1. n \in Nat /\ << >> \in Seq(Nat)
  OBVIOUS
<1>2. step \in [Seq(Nat) \X (1..n) -> Seq(Nat)]
  <2>1. ASSUME NEW x \in Seq(Nat) \X (1..n)
        PROVE  (IF s[x[2]] = Blank THEN x[1] ELSE Append(x[1], s[x[2]]))
                 \in Seq(Nat)
    <3>1. x[1] \in Seq(Nat) /\ s[x[2]] \in Nat
      OBVIOUS
    <3>2. QED BY <3>1
  <2>2. QED BY <2>1
<1>3. PICK f \in [0..n -> Seq(Nat)] : Goes(f, << >>, step, n)
  <2> HIDE DEF step, n
  <2>1. QED BY <1>1, <1>2, Recursion
<1>4. ASSUME NEW i \in 1..n
      PROVE  f[i] = line(f, i)
  <2>1. f[i - 1] \in Seq(Nat) /\ i # 0
    OBVIOUS
  <2>2. step[f[i - 1], i] = line(f, i)
    BY <2>1
  <2>3. f[i] = step[f[i - 1], i]
    <3> HIDE DEF step
    <3>1. QED BY <1>3 DEF Goes
  <2>4. QED BY <2>2, <2>3
<1>5. f = [i \in 0..n |-> line(f, i)]
  <2>1. \A i \in 0..n : i = 0 \/ i \in 1..n
    OBVIOUS
  <2>2. line(f, 0) = << >>
    OBVIOUS
  <2> HIDE DEF line
  <2>3. f[0] = << >>
    BY <1>3 DEF Goes
  <2>4. \A i \in 0..n : f[i] = line(f, i)
    BY <1>4, <2>1, <2>2, <2>3
  <2>5. QED BY <2>4
<1> DEFINE g == CHOOSE h : h = [i \in 0..n |-> line(h, i)]
<1>6. g = [i \in 0..n |-> line(g, i)]
  BY <1>5
<1>7. Lines(s) = g[n]
  BY DEF Lines
<1>8. g[0] = << >> /\ \A i \in 1..n : g[i] = line(g, i)
  <2>1. 0 \in 0..n /\ \A i \in 1..n : i \in 0..n
    BY <1>1
  <2>2. line(g, 0) = << >>
    OBVIOUS
  <2> HIDE DEF line, g
  <2>3. QED BY <1>6, <2>1, <2>2
<1> HIDE DEF g
<1>9. GoesThrough(g, s)
  BY <1>8 DEF GoesThrough
<1> DEFINE P(i) == i <= n => g[i] \in Seq(Nat)
<1>10. P(0)
  BY <1>1, <1>8
<1>11. ASSUME NEW i \in Nat, P(i)
       PROVE  P(i + 1)
  <2>1. SUFFICES ASSUME i + 1 <= n PROVE g[i + 1] \in Seq(Nat)
    OBVIOUS
  <2>2. i + 1 \in 1..n /\ (i + 1) - 1 = i /\ g[i] \in Seq(Nat)
    BY <1>11, <2>1
  <2>3. s[i + 1] \in Nat
    BY <2>2
  <2>4. g[i + 1] = IF s[i + 1] = Blank THEN g[i] ELSE Append(g[i], s[i + 1])
    BY <1>8, <2>2
  <2>5. Append(g[i], s[i + 1]) \in Seq(Nat)
    BY <2>2, <2>3
  <2>6. QED BY <2>2, <2>4, <2>5
<1> HIDE DEF P
<1>12. \A i \in Nat : P(i)
  <2> DEFINE T == {i \in Nat : P(i)}
  <2>1. 0 \in T
    BY <1>10
  <2>2. \A i \in Nat : i \in T => i + 1 \in T
    BY <1>11
  <2> HIDE DEF T
  <2>3. Nat \subseteq T
    BY <2>1, <2>2, Induction
  <2>4. QED BY <2>3 DEF T
<1>13. g \in [0..n -> Seq(Nat)]
  <2>1. \A i \in 0..n : g[i] \in Seq(Nat)
    BY <1>1, <1>12 DEF P
  <2>2. DOMAIN g = 0..n
    <3> HIDE DEF line, n
    <3>1. QED BY <1>6
  <2>3. g = [i \in 0..n |-> g[i]]
    <3> HIDE DEF line, n
    <3>1. QED BY <1>6
  <2>4. QED BY <2>1, <2>3
<1>14. QED BY <1>7, <1>9, <1>13

(* Two that go through the same lines find the same.                       *)
SameUpTo(s, t, n) == \A i \in 1..n : s[i] = t[i]

LEMMA SameLines ==
  ASSUME NEW s \in Seq(Nat), NEW t \in Seq(Nat),
         NEW f, GoesThrough(f, s), NEW g, GoesThrough(g, t),
         NEW n \in Nat, n <= Len(s), n <= Len(t),
         SameUpTo(s, t, n)
  PROVE  f[n] = g[n]
<1> DEFINE T == {i \in Nat : i <= n => f[i] = g[i]}
<1>1. 0 \in T
  BY DEF GoesThrough
<1>2. ASSUME NEW i \in Nat, i \in T
      PROVE  i + 1 \in T
  <2>1. SUFFICES ASSUME i + 1 <= n PROVE f[i + 1] = g[i + 1]
    OBVIOUS
  <2>2. /\ i + 1 \in 1..n /\ i + 1 \in 1..Len(s) /\ i + 1 \in 1..Len(t)
        /\ (i + 1) - 1 = i /\ f[i] = g[i]
    BY <1>2, <2>1
  <2>3. s[i + 1] = t[i + 1]
    BY <2>2 DEF SameUpTo
  <2>4. QED BY <2>2, <2>3 DEF GoesThrough
<1>3. Nat \subseteq T
  <2> HIDE DEF T
  <2>1. QED BY <1>1, <1>2, Induction
<1>4. QED BY <1>3

LEMMA LinesAppend ==
  /\ Lines(<< >>) = << >>
  /\ \A s \in Seq(Nat) : Lines(s) \in Seq(Nat)
  /\ \A s \in Seq(Nat), x \in Nat :
       Lines(Append(s, x)) = IF x = Blank THEN Lines(s)
                             ELSE Append(Lines(s), x)
<1>1. Lines(<< >>) = << >>
  <2>1. << >> \in Seq(Nat) /\ Len(<< >>) = 0
    OBVIOUS
  <2>2. QED BY <2>1, LinesTrace DEF GoesThrough
<1>2. \A s \in Seq(Nat) : Lines(s) \in Seq(Nat)
  <2>1. ASSUME NEW s \in Seq(Nat)
        PROVE  Lines(s) \in Seq(Nat)
    <3>1. PICK f \in [0..Len(s) -> Seq(Nat)] : Lines(s) = f[Len(s)]
      BY LinesTrace
    <3>2. Len(s) \in 0..Len(s)
      OBVIOUS
    <3>3. QED BY <3>1, <3>2
  <2>2. QED BY <2>1
<1>3. ASSUME NEW s \in Seq(Nat), NEW x \in Nat
      PROVE  Lines(Append(s, x)) = IF x = Blank THEN Lines(s)
                                   ELSE Append(Lines(s), x)
  <2>1. PICK t : t = Append(s, x)
    OBVIOUS
  <2>2. /\ t \in Seq(Nat) /\ Len(t) = Len(s) + 1 /\ Len(s) \in Nat
        /\ t[Len(s) + 1] = x /\ \A i \in 1..Len(s) : s[i] = t[i]
    BY <2>1
  <2>3. PICK f : GoesThrough(f, s) /\ Lines(s) = f[Len(s)]
    BY LinesTrace
  <2>4. PICK g : GoesThrough(g, t) /\ Lines(t) = g[Len(t)]
    BY <2>2, LinesTrace
  <2>5. f[Len(s)] = g[Len(s)]
    <3>1. Len(s) <= Len(s) /\ Len(s) <= Len(t)
      BY <2>2
    <3>2. Len(s) \in Nat /\ SameUpTo(s, t, Len(s))
      BY <2>2 DEF SameUpTo
    <3>3. GoesThrough(f, s) /\ GoesThrough(g, t) /\ t \in Seq(Nat)
      BY <2>2, <2>3, <2>4
    <3>4. QED BY <3>1, <3>2, <3>3, SameLines
  <2>6. Len(s) + 1 \in 1..Len(t) /\ (Len(s) + 1) - 1 = Len(s)
    BY <2>2
  <2>7. QED BY <2>1, <2>2, <2>3, <2>4, <2>5, <2>6 DEF GoesThrough
<1>4. QED BY <1>1, <1>2, <1>3

(* What is shown below comes below.                                        *)
LEMMA LinesConcat ==
  ASSUME NEW s \in Seq(Nat), NEW t \in Seq(Nat)
  PROVE  Lines(s \o t) = Lines(s) \o Lines(t)
<1> DEFINE T == {n \in Nat : \A u \in Seq(Nat) :
                   Len(u) = n => Lines(s \o u) = Lines(s) \o Lines(u)}
<1>0. Lines(s) \in Seq(Nat)
  BY LinesAppend
<1>1. 0 \in T
  <2>1. \A u \in Seq(Nat) : Len(u) = 0 => u = << >>
    OBVIOUS
  <2>2. s \o << >> = s /\ Lines(s) \o << >> = Lines(s)
    BY <1>0
  <2>3. QED BY <2>1, <2>2, LinesAppend
<1>2. ASSUME NEW n \in Nat, n \in T
      PROVE  n + 1 \in T
  <2>1. SUFFICES ASSUME NEW u \in Seq(Nat), Len(u) = n + 1
                 PROVE  Lines(s \o u) = Lines(s) \o Lines(u)
    OBVIOUS
  <2>2. PICK v \in Seq(Nat), x \in Nat : u = Append(v, x)
    <3>1. u # << >>
      BY <2>1
    <3>2. QED BY <3>1, SequenceEmptyOrAppend
  <2>3. Len(v) = n
    BY <2>1, <2>2
  <2>4. Lines(s \o v) = Lines(s) \o Lines(v)
    BY <1>2, <2>3
  <2>5. s \o u = Append(s \o v, x) /\ s \o v \in Seq(Nat)
    BY <2>2
  <2>6. /\ Lines(u) = IF x = Blank THEN Lines(v) ELSE Append(Lines(v), x)
        /\ Lines(s \o u) = IF x = Blank THEN Lines(s \o v)
                           ELSE Append(Lines(s \o v), x)
    BY <2>2, <2>5, LinesAppend
  <2>7. Lines(v) \in Seq(Nat)
    BY LinesAppend
  <2>8. Lines(s) \o Append(Lines(v), x) = Append(Lines(s) \o Lines(v), x)
    BY <1>0, <2>7
  <2>9. QED BY <2>4, <2>6, <2>8
<1>3. Nat \subseteq T
  <2> HIDE DEF T
  <2>1. QED BY <1>1, <1>2, Induction
<1>4. Len(t) \in Nat
  OBVIOUS
<1>5. QED BY <1>3, <1>4

(* No line of a text is empty.                                             *)
LEMMA LinesOfText ==
  ASSUME NEW t \in Seq(Nat), Above(t, 0)
  PROVE  Lines(t) = t
<1> DEFINE T == {n \in Nat : \A u \in Seq(Nat) :
                   Len(u) = n /\ Above(u, 0) => Lines(u) = u}
<1>1. 0 \in T
  <2>1. \A u \in Seq(Nat) : Len(u) = 0 => u = << >>
    OBVIOUS
  <2>2. QED BY <2>1, LinesAppend
<1>2. ASSUME NEW n \in Nat, n \in T
      PROVE  n + 1 \in T
  <2>1. SUFFICES ASSUME NEW u \in Seq(Nat), Len(u) = n + 1, Above(u, 0)
                 PROVE  Lines(u) = u
    OBVIOUS
  <2>2. PICK v \in Seq(Nat), x \in Nat : u = Append(v, x)
    <3>1. u # << >>
      BY <2>1
    <3>2. QED BY <3>1, SequenceEmptyOrAppend
  <2>3. /\ Len(v) = n /\ DOMAIN v = 1..n /\ DOMAIN u = 1..(n + 1)
        /\ u[n + 1] = x /\ \A i \in 1..n : u[i] = v[i]
    BY <2>1, <2>2
  <2>4. Above(v, 0) /\ x # Blank
    <3>1. \A i \in 1..n : i \in 1..(n + 1)
      OBVIOUS
    <3>2. n + 1 \in 1..(n + 1)
      OBVIOUS
    <3>3. QED BY <2>1, <2>3, <3>1, <3>2 DEF Above, Blank
  <2>5. Lines(v) = v
    BY <1>2, <2>3, <2>4
  <2>6. QED BY <2>2, <2>4, <2>5, LinesAppend
<1>3. Nat \subseteq T
  <2> HIDE DEF T
  <2>1. QED BY <1>1, <1>2, Induction
<1>4. Len(t) \in Nat
  OBVIOUS
<1>5. QED BY <1>3, <1>4

-----------------------------------------------------------------------------
(***************************************************************************)
(* What the view shows.                                                    *)
(***************************************************************************)
(* p shows what it was drawn from.                                         *)
Faithful(p) == IsText(p.rendered) /\ Lines(p.shown) = p.rendered

(* p was drawn from its text.                                              *)
Redrawn(p) == Faithful(p) /\ p.rendered = p.text

SameView(p, q) ==
  /\ q.text = p.text /\ q.rendered = p.rendered /\ q.shown = p.shown
  /\ q.pendingLogRender = p.pendingLogRender

ViewInv ==
  Faithful(page) /\ (~page.pendingLogRender => page.rendered = page.text)

LEMMA LinesOfFormatted ==
  ASSUME NEW text, IsText(text)
  PROVE  Formatted(text) \in Seq(Nat) /\ Lines(Formatted(text)) = text
<1>1. text \in Seq(Nat) /\ Lines(text) = text
  BY LinesOfText DEF IsText
<1>2. CASE text = << >>
  BY <1>1, <1>2 DEF Formatted
<1>3. CASE text # << >>
  <2>1. Blank \in Nat
    BY DEF Blank
  <2>2. Formatted(text) = Append(text, Blank)
    BY <1>3 DEF Formatted
  <2>3. Append(text, Blank) \in Seq(Nat)
    BY <1>1, <2>1
  <2>4. Lines(Append(text, Blank)) = Lines(text)
    BY <1>1, <2>1, LinesAppend
  <2>5. QED BY <1>1, <2>2, <2>3, <2>4
<1>4. QED BY <1>2, <1>3

HasFields(p) == DOMAIN p = DOMAIN EmptyPage

(* p shows its text, as it is drawn from the beginning.                    *)
Fresh(p) ==
  HasFields(p) /\ p.rendered = p.text /\ p.shown = Formatted(p.text)

LEMMA MovedToView ==
  ASSUME NEW p, HasFields(p), NEW to, NEW q, q = MovedTo(p, to)
  PROVE  SameView(p, q) /\ HasFields(q)
<1>1. PICK at, m : q = [p EXCEPT !.top = at, !.lastTop = at, !.moved = m]
  BY DEF MovedTo
<1>2. QED BY <1>1 DEF SameView, HasFields, EmptyPage

LEMMA SameViewFresh ==
  ASSUME NEW p, NEW q, HasFields(q), SameView(p, q), Fresh(p)
  PROVE  Fresh(q)
BY DEF SameView, Fresh

LEMMA RenderLogBufferView ==
  ASSUME NEW p, HasFields(p), NEW q, q = RenderLogBuffer(p)
  PROVE  Fresh(q) /\ q.text = p.text
<1>1. PICK shown : shown = Formatted(p.text)
  OBVIOUS
<1>2. PICK r : r = [p EXCEPT !.shown = shown, !.rendered = p.text]
  OBVIOUS
<1>3. /\ HasFields(r) /\ r.shown = shown /\ r.rendered = p.text
      /\ r.text = p.text
  BY <1>2 DEF HasFields, EmptyPage
<1>4. q = MovedTo(r, p.top)
  BY <1>1, <1>2 DEF RenderLogBuffer
<1>5. SameView(r, q) /\ HasFields(q)
  BY <1>3, <1>4, MovedToView
<1>6. QED BY <1>1, <1>3, <1>5 DEF SameView, Fresh

LEMMA ScrollToBottomView ==
  ASSUME NEW p, HasFields(p), NEW q, q = ScrollToBottom(p)
  PROVE  SameView(p, q) /\ HasFields(q)
<1>1. PICK r : r = MovedTo(p, Bottom(p.shown))
  OBVIOUS
<1>2. SameView(p, r) /\ HasFields(r)
  BY <1>1, MovedToView
<1>3. PICK fs : q = [r EXCEPT !.follow = TRUE, !.frames = fs]
  BY <1>1 DEF ScrollToBottom
<1>4. QED BY <1>2, <1>3 DEF SameView, HasFields, EmptyPage

LEMMA FreshIsRedrawn ==
  ASSUME NEW p, Fresh(p), IsText(p.text)
  PROVE  Redrawn(p)
BY LinesOfFormatted DEF Fresh, Redrawn, Faithful

(* What was added to a text and the text before make the text.             *)
LEMMA AddedToRendered ==
  ASSUME NEW p, IsPage(p), IsText(p.text), CanAppend(p)
  PROVE  IsText(Added(p)) /\ p.rendered \o Added(p) = p.text
<1>1. PICK r, t, n, m : r = p.rendered /\ t = p.text /\ n = Len(r) /\ m = Len(t)
  OBVIOUS
<1>2. /\ r \in Seq(Nat) /\ t \in Seq(Nat) /\ n \in Nat /\ m \in Nat
      /\ DOMAIN t = 1..m /\ Above(t, 0)
  BY <1>1 DEF IsPage, IsText
<1>3. n <= m /\ \A i \in 1..n : r[i] = t[i]
  <2>1. IsPrefix(r, t)
    BY <1>1 DEF CanAppend
  <2>2. QED BY <1>1, <1>2, <2>1 DEF IsPrefix
<1>4. PICK a : a = SubSeq(t, n + 1, m)
  OBVIOUS
<1>5. a = Added(p)
  BY <1>1, <1>4 DEF Added
<1>6. /\ a \in Seq(Nat) /\ Len(a) = m - n /\ DOMAIN a = 1..(m - n)
      /\ \A i \in 1..(m - n) : a[i] = t[n + i]
  BY <1>2, <1>3, <1>4
<1>7. IsText(a)
  <2>1. \A i \in 1..(m - n) : n + i \in 1..m
    BY <1>2, <1>3
  <2>2. \A i \in 1..(m - n) : a[i] = t[n + i] /\ 0 < t[n + i]
    BY <1>2, <1>6, <2>1 DEF Above
  <2>3. QED BY <1>6, <2>2 DEF IsText, Above
<1>8. r \o a = t
  <2>1. PICK c : c = r \o a
    OBVIOUS
  <2>2. /\ c \in Seq(Nat) /\ Len(c) = m
        /\ \A i \in 1..m : c[i] = IF i <= n THEN r[i] ELSE a[i - n]
    BY <1>1, <1>2, <1>3, <1>6, <2>1
  <2>3. ASSUME NEW i \in 1..m
        PROVE  c[i] = t[i]
    <3>1. CASE i <= n
      <4>1. i \in 1..n
        BY <1>2, <3>1
      <4>2. QED BY <1>3, <2>2, <3>1, <4>1
    <3>2. CASE ~(i <= n)
      <4>1. i - n \in 1..(m - n) /\ n + (i - n) = i
        BY <1>2, <3>2
      <4>2. a[i - n] = t[i]
        BY <1>6, <4>1
      <4>3. QED BY <2>2, <3>2, <4>2
    <3>3. QED BY <3>1, <3>2
  <2>4. c = t
    BY <1>1, <1>2, <2>2, <2>3, SeqEqual
  <2>5. QED BY <2>1, <2>4
<1>9. QED BY <1>1, <1>5, <1>7, <1>8

LEMMA DrawnView ==
  ASSUME NEW p, IsPage(p), IsText(p.text), Faithful(p), NEW q, q = Drawn(p)
  PROVE  Redrawn(q)
<1>1. CASE CanAppend(p)
  <2>1. PICK added : added = Added(p)
    OBVIOUS
  <2>2. IsText(added) /\ p.rendered \o added = p.text
    BY <1>1, <2>1, AddedToRendered
  <2>3. PICK f : f = Formatted(added)
    OBVIOUS
  <2>4. f \in Seq(Nat) /\ Lines(f) = added
    BY <2>2, <2>3, LinesOfFormatted
  <2>5. PICK shown : shown = p.shown \o f
    OBVIOUS
  <2>6. Lines(shown) = p.text
    <3>1. p.shown \in Seq(Nat) /\ Lines(p.shown) = p.rendered
      BY DEF IsPage, Faithful
    <3>2. Lines(shown) = Lines(p.shown) \o Lines(f)
      BY <2>4, <2>5, <3>1, LinesConcat
    <3>3. QED BY <2>2, <2>4, <3>1, <3>2
  <2>7. q = [p EXCEPT !.shown = shown, !.rendered = p.text]
    BY <1>1, <2>1, <2>3, <2>5 DEF Drawn
  <2>8. q.shown = shown /\ q.rendered = p.text /\ q.text = p.text
    BY <2>7 DEF IsPage, EmptyPage
  <2>9. QED BY <2>6, <2>8 DEF Redrawn, Faithful
<1>2. CASE ~CanAppend(p)
  <2>1. q = RenderLogBuffer(p)
    BY <1>2 DEF Drawn
  <2>2. Fresh(q) /\ q.text = p.text
    BY <2>1, RenderLogBufferView DEF IsPage, HasFields
  <2>3. QED BY <2>2, FreshIsRedrawn
<1>3. QED BY <1>1, <1>2

(* The two ways in which a step of the page keeps the invariant.           *)
LEMMA SameViewOK ==
  ASSUME ViewInv, SameView(page, page')
  PROVE  ViewInv'
BY DEF ViewInv, SameView, Faithful

LEMMA RedrawnOK ==
  ASSUME Redrawn(page')
  PROVE  ViewInv'
BY DEF ViewInv, Redrawn

LEMMA SameThenRedrawn ==
  ASSUME NEW p, NEW q, SameView(p, q), Redrawn(p)
  PROVE  Redrawn(q)
BY DEF SameView, Redrawn, Faithful

LEMMA PageIsPage ==
  ASSUME IInv
  PROVE  IsPage(page) /\ IsText(page.text) /\ HasFields(page)
<1>1. IsPage(page) /\ TextOK(page.text, page.start, known[activeTabId])
  BY PageText
<1>2. QED BY <1>1 DEF TextOK, IsPage, HasFields

(* Every step keeps it.  Only LogLines changes the text and does not draw  *)
(* it: it asks for the callback that does.                                 *)
LEMMA LogLinesView ==
  ASSUME IInv, ViewInv, NEW t \in Tabs, LogLines(t)
  PROVE  ViewInv'
<1>1. IsPage(page) /\ HasFields(page)
  BY PageIsPage
<1>2. PICK text, force, follow, p :
        /\ p = ScheduleLogBufferRender([page EXCEPT !.text = text],
                                       force, follow)
        /\ page' = IF page.follow THEN p ELSE [p EXCEPT !.lastTop = p.top]
  BY DEF LogLines, Show
<1>3. /\ p.pendingLogRender = TRUE /\ p.rendered = page.rendered
      /\ p.shown = page.shown /\ DOMAIN p = DOMAIN EmptyPage
  BY <1>1, <1>2 DEF ScheduleLogBufferRender, IsPage, EmptyPage
<1>4. /\ page'.pendingLogRender = TRUE /\ page'.rendered = page.rendered
      /\ page'.shown = page.shown
  BY <1>2, <1>3 DEF EmptyPage
<1>5. QED BY <1>4 DEF ViewInv, Faithful

LEMMA RenderFrameView ==
  ASSUME IInv, ViewInv, RenderFrame
  PROVE  ViewInv'
<1>1. IsPage(page) /\ IsText(page.text) /\ MoveOK(page)
  BY PageIsPage DEF IInv, PageIsTheTab
<1>2. PICK d : d = Drawn(page)
  OBVIOUS
<1>3. Redrawn(d) /\ IsPage(d)
  BY <1>1, <1>2, DrawnView, DrawnOK DEF ViewInv
<1>4. PICK p : p = NothingIsPending(d)
  OBVIOUS
<1>5. /\ IsPage(p) /\ p.text = d.text /\ p.rendered = d.rendered
      /\ p.shown = d.shown
  BY <1>3, <1>4 DEF NothingIsPending, IsPage, EmptyPage
<1>6. Redrawn(p)
  BY <1>3, <1>5 DEF Redrawn, Faithful
<1>7. PICK q : q = IF page.pendingFollow THEN ScrollToBottom(p)
                                         ELSE [p EXCEPT !.lastTop = p.top]
  OBVIOUS
<1>8. SameView(p, q)
  <2>1. CASE page.pendingFollow
    BY <1>5, <1>7, <2>1, ScrollToBottomView DEF IsPage, HasFields
  <2>2. CASE ~page.pendingFollow
    BY <1>5, <1>7, <2>2 DEF SameView, IsPage, EmptyPage
  <2>3. QED BY <2>1, <2>2
<1>9. page' = q
  BY <1>2, <1>4, <1>7 DEF RenderFrame, Show
<1>10. QED BY <1>6, <1>8, <1>9, SameThenRedrawn, RedrawnOK

LEMMA ScrollFramesView ==
  ASSUME IInv, ViewInv,
         Frame \/ SettleFrame \/ OnLogScroll \/ OnLogScrollLoadPrevChunk
  PROVE  ViewInv'
<1>1. IsPage(page) /\ HasFields(page)
  BY PageIsPage
<1>2. SameView(page, Scrolled(page)) /\ DOMAIN Scrolled(page) = DOMAIN page
  BY <1>1 DEF Scrolled, SameView, IsPage, EmptyPage
<1>3. ASSUME Frame
      PROVE  SameView(page, page')
  BY <1>1, <1>3 DEF Frame, SameView, IsPage, EmptyPage
<1>4. ASSUME SettleFrame
      PROVE  SameView(page, page')
  BY <1>1, <1>4, MovedToView DEF SettleFrame, Show
<1>5. ASSUME OnLogScroll
      PROVE  SameView(page, page')
  BY <1>2, <1>5 DEF OnLogScroll, Show
<1>6. ASSUME OnLogScrollLoadPrevChunk
      PROVE  SameView(page, page')
  <2>1. PICK s : s = Scrolled(page)
    OBVIOUS
  <2>2. page' = [s EXCEPT !.loadingPrev = TRUE]
    BY <1>6, <2>1 DEF OnLogScrollLoadPrevChunk, Show
  <2>3. SameView(page, s) /\ DOMAIN s = DOMAIN EmptyPage
    BY <1>1, <1>2, <2>1 DEF IsPage
  <2>4. QED BY <2>2, <2>3 DEF SameView, EmptyPage
<1>7. QED BY <1>3, <1>4, <1>5, <1>6, SameViewOK

(* What changes the text otherwise draws it at once.                       *)
LEMMA FreshOK ==
  ASSUME IInv', Fresh(page')
  PROVE  ViewInv'
<1>1. IsText(page'.text)
  <2>1. activeTabId' \in Tabs
    BY DEF IInv, Types
  <2>2. /\ page'.text = saved'[activeTabId'].text
        /\ page'.start = saved'[activeTabId'].start
    BY DEF IInv, PageIsTheTab, Keeps
  <2>3. CopyOK(saved'[activeTabId'], known'[activeTabId'])
    BY <2>1 DEF IInv, TabsOK
  <2>4. QED BY <2>2, <2>3 DEF CopyOK, TextOK
<1>2. QED BY <1>1, FreshIsRedrawn, RedrawnOK

LEMMA PrevChunkLoadedView ==
  ASSUME IInv, IInv', NEW c \in calls, PrevChunkLoaded(c)
  PROVE  ViewInv'
<1>1. PICK text, from, to, p, q :
        /\ p = [page EXCEPT !.text = text, !.start = from,
                            !.loadingPrev = FALSE]
        /\ q = RenderLogBuffer(p) /\ page' = MovedTo(q, to)
  BY DEF PrevChunkLoaded, Show
<1>2. HasFields(p)
  BY <1>1, PageIsPage DEF HasFields
<1>3. Fresh(q)
  BY <1>1, <1>2, RenderLogBufferView
<1>4. SameView(q, page') /\ HasFields(page')
  BY <1>1, <1>3, MovedToView DEF Fresh
<1>5. QED BY <1>3, <1>4, SameViewFresh, FreshOK

LEMMA ClearViewerView ==
  ASSUME IInv, IInv', ClearViewer
  PROVE  ViewInv'
<1>1. PICK p, q : /\ p = [page EXCEPT !.text = << >>]
                  /\ q = RenderLogBuffer(p) /\ page' = [q EXCEPT !.start = 0]
  BY DEF ClearViewer, Show
<1>2. HasFields(p)
  BY <1>1, PageIsPage DEF HasFields
<1>3. Fresh(q)
  BY <1>1, <1>2, RenderLogBufferView
<1>4. SameView(q, page') /\ HasFields(page')
  BY <1>1, <1>3 DEF Fresh, SameView, HasFields, EmptyPage
<1>5. QED BY <1>3, <1>4, SameViewFresh, FreshOK

LEMMA ActivateTabView ==
  ASSUME IInv, IInv', NEW t \in Tabs, ActivateTab(t)
  PROVE  ViewInv'
<1>1. PICK p : DOMAIN p = DOMAIN page /\ page' = RenderLogBuffer(p)
  BY DEF ActivateTab, Loaded
<1>2. HasFields(p)
  BY <1>1, PageIsPage DEF HasFields
<1>3. QED BY <1>1, <1>2, RenderLogBufferView, FreshOK

LEMMA SetMonitorView ==
  ASSUME IInv, IInv', ViewInv, NEW k, NEW resumes, SetMonitor(k, resumes)
  PROVE  ViewInv'
<1>1. PICK p : p = [page EXCEPT !.monitor = k]
  OBVIOUS
<1>2. HasFields(p) /\ SameView(page, p)
  BY <1>1, PageIsPage DEF HasFields, SameView, EmptyPage
<1>3. \/ page' = p \/ page' = RenderLogBuffer(ScrollToBottom(p))
      \/ page' = RenderLogBuffer(p)
  BY <1>1 DEF SetMonitor, OpenLatest, MonitorOnly, Show
<1>4. CASE page' = p
  BY <1>2, <1>4, SameViewOK
<1>5. CASE page' = RenderLogBuffer(ScrollToBottom(p))
  <2>1. HasFields(ScrollToBottom(p))
    BY <1>2, ScrollToBottomView
  <2>2. QED BY <1>5, <2>1, RenderLogBufferView, FreshOK
<1>6. CASE page' = RenderLogBuffer(p)
  BY <1>2, <1>6, RenderLogBufferView, FreshOK
<1>7. QED BY <1>3, <1>4, <1>5, <1>6

LEMMA FileOpenedView ==
  ASSUME IInv, IInv', NEW c \in calls, NEW n, FileOpened(c, n)
  PROVE  ViewInv'
<1>1. PICK text, from, p, q :
        /\ p = [page EXCEPT !.text = text, !.start = from]
        /\ q = RenderLogBuffer(p) /\ page' = ScrollToBottom(q)
  BY DEF FileOpened, Show
<1>2. HasFields(p)
  BY <1>1, PageIsPage DEF HasFields
<1>3. Fresh(q)
  BY <1>1, <1>2, RenderLogBufferView
<1>4. SameView(q, page') /\ HasFields(page')
  BY <1>1, <1>3, ScrollToBottomView DEF Fresh
<1>5. QED BY <1>3, <1>4, SameViewFresh, FreshOK

LEMMA FileOpenedLateView ==
  ASSUME IInv, IInv', ViewInv, NEW c \in calls, NEW n,
         FileOpenedLate(c, n)
  PROVE  ViewInv'
<1>1. page' = page \/ page' = RenderLogBuffer(page)
  BY DEF FileOpenedLate
<1>2. CASE page' = page
  BY <1>2, SameViewOK DEF SameView
<1>3. CASE page' = RenderLogBuffer(page)
  BY <1>3, PageIsPage, RenderLogBufferView, FreshOK
<1>4. QED BY <1>1, <1>2, <1>3

(* The rest leaves what is shown, and the text, alone.                     *)
LEMMA UnchangedPageView ==
  ASSUME ViewInv, page' = page
  PROVE  ViewInv'
BY DEF ViewInv

LEMMA UserOnlyView ==
  ASSUME IInv, ViewInv,
         \/ \E to \in 0..MaxText + MaxLines : UserScroll(to)
         \/ BackToBottom \/ OpenLatestRealtime
         \/ \E c \in calls : PrevChunkFails(c)
  PROVE  ViewInv'
<1>1. HasFields(page)
  BY PageIsPage
<1>2. ASSUME NEW to, UserScroll(to)
      PROVE  SameView(page, page')
  BY <1>1, <1>2 DEF UserScroll, SameView, HasFields, EmptyPage
<1>3. ASSUME BackToBottom
      PROVE  SameView(page, page')
  BY <1>1, <1>3, ScrollToBottomView DEF BackToBottom, Show
<1>4. ASSUME OpenLatestRealtime
      PROVE  SameView(page, page')
  BY <1>4 DEF OpenLatestRealtime, OpenLatest, Show, SameView
<1>5. ASSUME NEW c \in calls, PrevChunkFails(c)
      PROVE  SameView(page, page')
  BY <1>1, <1>5 DEF PrevChunkFails, Show, SameView, HasFields, EmptyPage
<1>6. QED BY <1>2, <1>3, <1>4, <1>5, SameViewOK

LEMMA ViewStep ==
  ASSUME IInv, IInv', ViewInv, [Next]_vars
  PROVE  ViewInv'
<1>1. ASSUME User
      PROVE  ViewInv'
  <2>1. ASSUME StopRealtimeMonitor
        PROVE  ViewInv'
    BY <2>1, SetMonitorView DEF StopRealtimeMonitor
  <2>2. ASSUME NEW k \in Keywords, ApplyRealtimeMonitor(k)
        PROVE  ViewInv'
    BY <2>2, SetMonitorView DEF ApplyRealtimeMonitor
  <2>3. QED BY <1>1, <2>1, <2>2, UserOnlyView, ClearViewerView,
               ActivateTabView DEF User
<1>2. ASSUME Server
      PROVE  ViewInv'
  <2>1. ASSUME NEW t \in Tabs, LogLinesInBackground(t)
        PROVE  ViewInv'
    BY <2>1, UnchangedPageView DEF LogLinesInBackground
  <2>2. ASSUME NEW c \in calls, PrevChunkLoadedLate(c) \/ PrevChunkFailsLate(c)
        PROVE  ViewInv'
    BY <2>2, UnchangedPageView DEF PrevChunkLoadedLate, PrevChunkFailsLate
  <2>3. ASSUME NEW t \in Tabs, StreamOpened(t)
        PROVE  ViewInv'
    BY <2>3, UnchangedPageView DEF StreamOpened
  <2>4. QED BY <1>2, <2>1, <2>2, <2>3, LogLinesView, PrevChunkLoadedView,
               UserOnlyView, FileOpenedView, FileOpenedLateView DEF Server
<1>3. ASSUME Browser
      PROVE  ViewInv'
  BY <1>3, RenderFrameView, ScrollFramesView DEF Browser
<1>4. ASSUME UNCHANGED vars
      PROVE  ViewInv'
  BY <1>4, UnchangedPageView DEF vars
<1>5. QED BY <1>1, <1>2, <1>3, <1>4 DEF Next

(* The view shows the lines of the text it was drawn from, each of them    *)
(* once, whatever is added at either end, and of whichever tab; and this   *)
(* is the text of the tab unless a callback is awaited that draws it       *)
(* (scheduleLogBufferRender and renderLogBuffer).                          *)
THEOREM TheViewShowsTheText == Spec => []ViewShowsTheText
<1>1. Init => ViewInv
  <2>1. SUFFICES ASSUME Init PROVE ViewInv
    OBVIOUS
  <2>2. page.rendered = << >> /\ page.shown = << >> /\ page.text = << >>
    BY <2>1 DEF Init, EmptyPage
  <2>3. QED BY <2>2, EmptyOK, LinesAppend DEF ViewInv, Faithful
<1>2. IInv /\ IInv' /\ ViewInv /\ [Next]_vars => ViewInv'
  BY ViewStep
<1>3. ViewInv => ViewShowsTheText
  BY DEF ViewInv, Faithful, ViewShowsTheText
<1>4. QED
  BY <1>1, <1>2, <1>3, LogViewInvariant, PTL DEF Spec
=============================================================================
