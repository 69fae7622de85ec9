---------------------- MODULE RealtimeLineFilterProofs ----------------------
(***************************************************************************)
(* Proofs about RealtimeLineFilter, for every set of requested contexts    *)
(* and every number of lines.                                              *)
(*                                                                         *)
(* ShowsExactlyTheContext is not inductive: what one accept returns        *)
(* depends on the deque and on the two counters.  IInv says what they hold *)
(* in terms of the lines read and of the newest match m: the deque holds   *)
(* the last contextLines lines, lastEmittedSeq is the end of the context   *)
(* of m (or of the log, if that comes first) and pendingAfterLines is the  *)
(* part of the context of m that has not been read.                        *)
(***************************************************************************)
EXTENDS RealtimeLineFilter, SequenceTheorems, TLAPS

(* The filter's numbering counts the lines read, if there is a keyword. *)
CountersAgree ==
  IF options.hasKeyword THEN nextSeq = accepted + 1
                        ELSE nextSeq = 1 /\ options.contextLines = 0

(* The counters, while no line has matched and after the newest match m. *)
NothingOwed ==
  /\ matches = {}
  /\ pendingAfterLines = 0
  /\ lastEmittedSeq = 0

OwedAfter(m) ==
  /\ m \in matches
  /\ \A other \in matches : other <= m
  /\ pendingAfterLines = Larger(0, m + options.contextLines - accepted)
  /\ lastEmittedSeq = Smaller(accepted, m + options.contextLines)

OwedContext ==
  options.hasKeyword => NothingOwed \/ \E m \in 1..accepted : OwedAfter(m)

IInv ==
  /\ TypeOK
  /\ matches \subseteq 1..accepted
  /\ CountersAgree
  /\ RemembersTheContextOnly
  /\ OwedContext
  /\ ShowsExactlyTheContext

-----------------------------------------------------------------------------
LEMMA InitEstablishesIInv == Init => IInv
<1> SUFFICES ASSUME Init PROVE IInv
  OBVIOUS
<1> USE FilterAssumption DEF Init
<1>1. options \in [hasKeyword : BOOLEAN, contextLines : 0..20]
  BY DEF ResolveTailFilterOptions, Larger, Smaller, MaxContextLines
<1>2. ~options.hasKeyword => options.contextLines = 0
  BY DEF ResolveTailFilterOptions
<1>3. TypeOK
  BY <1>1 DEF TypeOK, MaxContextLines
<1>4. CountersAgree /\ OwedContext /\ matches \subseteq 1..accepted
  BY <1>2 DEF CountersAgree, OwedContext, NothingOwed
<1>5. RemembersTheContextOnly
  BY <1>1 DEF RemembersTheContextOnly, Smaller
<1>6. ShowsExactlyTheContext
  BY DEF ShowsExactlyTheContext, InContext
<1>7. QED
  BY <1>3, <1>4, <1>5, <1>6 DEF IInv

(***************************************************************************)
(* The deque after accept: the last contextLines lines, the one just read  *)
(* included.                                                               *)
(***************************************************************************)
LEMMA RememberKeepsTheLast ==
  ASSUME TypeOK, RemembersTheContextOnly, nextSeq <= MaxLines
  PROVE  /\ Remember(nextSeq) \in Seq(1..MaxLines)
         /\ Len(Remember(nextSeq)) = Smaller(options.contextLines, nextSeq)
         /\ \A i \in DOMAIN Remember(nextSeq) :
              Remember(nextSeq)[i] = nextSeq - Len(Remember(nextSeq)) + i
<1> DEFINE C == options.contextLines
           longer == Append(recentLines, nextSeq)
           first == Larger(1, Len(longer) - C + 1)
<1>1. /\ C \in 0..20
      /\ nextSeq \in 1..MaxLines
      /\ MaxLines \in Nat
      /\ recentLines \in Seq(1..MaxLines)
  BY FilterAssumption DEF TypeOK, MaxContextLines
<1>2. /\ Len(recentLines) = Smaller(C, nextSeq - 1)
      /\ \A i \in 1..Len(recentLines) :
           recentLines[i] = nextSeq - 1 - Len(recentLines) + i
  BY <1>1 DEF RemembersTheContextOnly
<1>3. /\ longer \in Seq(1..MaxLines)
      /\ Len(longer) = Len(recentLines) + 1
      /\ \A i \in 1..Len(longer) : longer[i] = nextSeq - Len(longer) + i
  BY <1>1, <1>2
<1> DEFINE L == Len(longer)
<1>4. /\ L \in Nat
      /\ L = Smaller(C, nextSeq - 1) + 1
  BY <1>1, <1>2, <1>3
<1> HIDE DEF longer
<1>5. CASE C = 0
  <2>1. Remember(nextSeq) = recentLines
    BY <1>5 DEF Remember
  <2>2. Len(recentLines) = 0 /\ Smaller(C, nextSeq) = 0
    BY <1>1, <1>2, <1>5 DEF Smaller
  <2>3. QED
    BY <1>1, <2>1, <2>2
<1>6. CASE C # 0
  <2>1. Remember(nextSeq) = SubSeq(longer, first, L)
    BY <1>6 DEF Remember, longer
  <2> HIDE DEF C, L
  <2>2. first \in 1..L /\ L - first + 1 = Smaller(C, nextSeq)
    <3>1. first = Larger(1, L - C + 1)
      BY DEF L
    <3> HIDE DEF first
    <3>2. QED
      BY <1>1, <1>4, <1>6, <3>1 DEF Larger, Smaller
  <2> HIDE DEF first
  <2>3. /\ SubSeq(longer, first, L) \in Seq(1..MaxLines)
        /\ Len(SubSeq(longer, first, L)) = L - first + 1
        /\ \A i \in 1..(L - first + 1) :
             SubSeq(longer, first, L)[i] = longer[first + i - 1]
    <3>0. \A i \in 1..L : longer[i] \in 1..MaxLines
      BY <1>3, ElementOfSeq DEF L
    <3>1. \A i \in first..L : longer[i] \in 1..MaxLines
      BY <1>4, <2>2, <3>0
    <3>2. first \in Int /\ L \in Int /\ first <= L
      BY <1>4, <2>2
    <3>3. QED
      BY <3>1, <3>2, SubSeqProperties
  <2>4. \A i \in 1..(L - first + 1) :
          longer[first + i - 1] = nextSeq - (L - first + 1) + i
    <3>1. \A k \in 1..L : longer[k] = nextSeq - L + k
      BY <1>3 DEF L
    <3>2. ASSUME NEW i \in 1..(L - first + 1)
          PROVE  first + i - 1 \in 1..L
      <4>1. L \in Nat /\ first \in Nat /\ 1 <= first /\ first <= L
        BY <1>4, <2>2
      <4>2. i \in Nat /\ 1 <= i /\ i <= L - first + 1
        BY <4>1
      <4>3. QED
        BY <4>1, <4>2
    <3>3. QED
      BY <1>1, <1>4, <2>2, <3>1, <3>2
  <2>5. DOMAIN SubSeq(longer, first, L) = 1..(L - first + 1)
    BY <2>3
  <2>6. Len(Remember(nextSeq)) = Smaller(C, nextSeq)
    BY <2>1, <2>2, <2>3
  <2>7. \A i \in DOMAIN Remember(nextSeq) :
          Remember(nextSeq)[i] = nextSeq - Len(Remember(nextSeq)) + i
    <3>1. Len(Remember(nextSeq)) = L - first + 1
      BY <2>1, <2>3
    <3>2. ASSUME NEW i \in 1..(L - first + 1)
          PROVE  SubSeq(longer, first, L)[i] = nextSeq - (L - first + 1) + i
      BY <2>3, <2>4
    <3>3. QED
      BY <2>1, <2>5, <3>1, <3>2
  <2>8. QED
    BY <2>1, <2>3, <2>6, <2>7 DEF C
<1>7. QED
  BY <1>5, <1>6

(***************************************************************************)
(* The lines an accept returns: for a match, the lines of its context that *)
(* have not been shown; for any other line, the line itself if an earlier  *)
(* match still owes it.                                                    *)
(***************************************************************************)
LEMMA ShownForIs ==
  ASSUME IInv, options.hasKeyword, accepted < MaxLines
  PROVE  /\ ShownFor(nextSeq, TRUE) =
              {s \in 1..nextSeq : s >= nextSeq - options.contextLines
                                  /\ s > lastEmittedSeq}
         /\ ShownFor(nextSeq, FALSE) =
              IF pendingAfterLines > 0 THEN {nextSeq} ELSE {}
<1> DEFINE C == options.contextLines
<1>1. /\ C \in 0..20
      /\ accepted \in 0..MaxLines
      /\ MaxLines \in Nat
      /\ nextSeq = accepted + 1
      /\ lastEmittedSeq \in 0..MaxLines
      /\ pendingAfterLines \in Int
      /\ recentLines \in Seq(1..MaxLines)
  BY FilterAssumption DEF IInv, TypeOK, CountersAgree, MaxContextLines
<1>2. /\ Len(recentLines) = Smaller(C, nextSeq - 1)
      /\ \A i \in 1..Len(recentLines) :
           recentLines[i] = nextSeq - 1 - Len(recentLines) + i
  BY <1>1 DEF IInv, RemembersTheContextOnly
<1>3. lastEmittedSeq < nextSeq
  BY <1>1 DEF IInv, OwedContext, NothingOwed, OwedAfter, Smaller
<1>4. UnshownContext = {s \in 1..accepted : s >= nextSeq - C
                                            /\ s > lastEmittedSeq}
  <2>1. ASSUME NEW s \in UnshownContext
        PROVE  s \in 1..accepted /\ s >= nextSeq - C /\ s > lastEmittedSeq
    <3>1. PICK k \in 1..Len(recentLines) :
            s = recentLines[k] /\ recentLines[k] > lastEmittedSeq
      BY <1>1, <2>1 DEF UnshownContext
    <3>2. s = nextSeq - 1 - Len(recentLines) + k
      BY <1>2, <3>1
    <3>4. Len(recentLines) \in Nat
      BY <1>1
    <3>0. Len(recentLines) = Smaller(C, nextSeq - 1)
      BY <1>2
    <3> HIDE DEF C
    <3>3. Len(recentLines) <= C /\ Len(recentLines) <= nextSeq - 1
      BY <1>1, <3>0 DEF Smaller
    <3>5. nextSeq \in Nat /\ C \in Nat /\ k >= 1 /\ k <= Len(recentLines)
      BY <1>1, <3>1, <3>4
    <3>6. s \in 1..accepted /\ s >= nextSeq - C
      BY <1>1, <3>2, <3>3, <3>4, <3>5
    <3>7. QED
      BY <3>1, <3>6
  <2>2. ASSUME NEW s \in 1..accepted, s >= nextSeq - C, s > lastEmittedSeq
        PROVE  s \in UnshownContext
    <3> DEFINE k == s - nextSeq + 1 + Len(recentLines)
    <3>0. k \in 1..Len(recentLines)
      <4> HIDE DEF C
      <4>1. Len(recentLines) = Smaller(C, nextSeq - 1)
        BY <1>2 DEF C
      <4>2. QED
        BY <1>1, <2>2, <4>1 DEF Smaller, k
    <3>1. k \in 1..Len(recentLines) /\ recentLines[k] = s
      BY <1>1, <1>2, <2>2, <3>0
    <3>2. \A j \in 1..(k - 1) : recentLines[j] < recentLines[k]
      BY <1>1, <1>2, <3>1
    <3> HIDE DEF k
    <3>3. QED
      BY <1>1, <2>2, <3>1, <3>2 DEF UnshownContext
  <2>3. QED
    BY <2>1, <2>2
<1>5. ShownFor(nextSeq, TRUE) = UnshownContext \cup {nextSeq}
  BY <1>3 DEF ShownFor
<1>6. ShownFor(nextSeq, FALSE) = IF pendingAfterLines > 0 THEN {nextSeq} ELSE {}
  BY <1>3 DEF ShownFor
<1>7. UnshownContext \cup {nextSeq} =
        {s \in 1..nextSeq : s >= nextSeq - C /\ s > lastEmittedSeq}
  BY <1>1, <1>3, <1>4
<1>8. QED
  BY <1>5, <1>6, <1>7

(***************************************************************************)
(* lastEmittedSeq separates: every line in the context of a match so far   *)
(* is at most lastEmittedSeq, and from the newest match on every line up   *)
(* to lastEmittedSeq is in its context.                                    *)
(***************************************************************************)
LEMMA ContextEndsAtLastEmitted ==
  ASSUME IInv, options.hasKeyword
  PROVE  /\ \A s \in InContext : s <= lastEmittedSeq
         /\ \A s \in 1..accepted :
              (s <= lastEmittedSeq /\ s >= accepted + 1 - options.contextLines)
                => s \in InContext
<1> DEFINE C == options.contextLines
<1>1. C \in Nat /\ accepted \in Nat /\ matches \subseteq 1..accepted
  BY DEF IInv, TypeOK, MaxContextLines
<1>2. CASE NothingOwed
  BY <1>1, <1>2 DEF NothingOwed, InContext
<1>3. ASSUME NEW m \in 1..accepted, OwedAfter(m)
      PROVE  /\ \A s \in InContext : s <= lastEmittedSeq
             /\ \A s \in 1..accepted :
                  (s <= lastEmittedSeq /\ s >= accepted + 1 - C)
                    => s \in InContext
  <2>1. /\ lastEmittedSeq = Smaller(accepted, m + C)
        /\ m \in matches
        /\ \A other \in matches : other <= m
    BY <1>3 DEF OwedAfter
  <2> HIDE DEF C
  <2>2. ASSUME NEW s \in InContext PROVE s <= lastEmittedSeq
    <3>1. s \in 1..accepted /\ \E other \in matches : s <= other + C
      BY <2>2 DEF InContext, C
    <3>2. QED
      BY <1>1, <2>1, <3>1 DEF Smaller
  <2>3. ASSUME NEW s \in 1..accepted, s <= lastEmittedSeq,
               s >= accepted + 1 - C
        PROVE  s \in InContext
    <3>1. m - C <= s /\ s <= m + C
      BY <1>1, <2>1, <2>3 DEF Smaller
    <3>2. QED
      BY <2>1, <2>3, <3>1 DEF InContext, C
  <2>4. QED
    BY <2>2, <2>3
<1>4. QED
  BY <1>2, <1>3 DEF IInv, OwedContext

(* What every accept of a stream with a keyword finds. *)
LEMMA AcceptFinds ==
  ASSUME IInv, NEW matched \in BOOLEAN, Accept(matched)
  PROVE  /\ options.hasKeyword /\ options' = options
         /\ options.contextLines \in 0..20
         /\ accepted \in Nat /\ MaxLines \in Nat /\ accepted < MaxLines
         /\ nextSeq = accepted + 1
         /\ accepted' = accepted + 1 /\ nextSeq' = nextSeq + 1
         /\ lastEmittedSeq \in 0..accepted
         /\ pendingAfterLines \in 0..options.contextLines
         /\ matches \subseteq 1..accepted
         /\ timesShown \in [1..MaxLines -> Nat]
         /\ timesShown' = CountShown(ShownFor(nextSeq, matched))
         /\ recentLines' = Remember(nextSeq)
<1>1. /\ options.contextLines \in 0..20
      /\ accepted \in Nat
      /\ MaxLines \in Nat
      /\ matches \subseteq 1..accepted
      /\ timesShown \in [1..MaxLines -> Nat]
  BY FilterAssumption DEF IInv, TypeOK, MaxContextLines
<1>2. /\ options.hasKeyword /\ options' = options
      /\ accepted < MaxLines
      /\ nextSeq = accepted + 1
      /\ accepted' = accepted + 1 /\ nextSeq' = nextSeq + 1
      /\ timesShown' = CountShown(ShownFor(nextSeq, matched))
      /\ recentLines' = Remember(nextSeq)
  BY DEF Accept, IInv, CountersAgree
<1>3. ASSUME NothingOwed
      PROVE  /\ lastEmittedSeq \in 0..accepted
             /\ pendingAfterLines \in 0..options.contextLines
  BY <1>1, <1>3 DEF NothingOwed
<1>4. ASSUME NEW m \in 1..accepted, OwedAfter(m)
      PROVE  /\ lastEmittedSeq \in 0..accepted
             /\ pendingAfterLines \in 0..options.contextLines
  <2> DEFINE C == options.contextLines
  <2>1. /\ lastEmittedSeq = Smaller(accepted, m + C)
        /\ pendingAfterLines = Larger(0, m + C - accepted)
        /\ C \in 0..20
    BY <1>1, <1>4 DEF OwedAfter
  <2> HIDE DEF C
  <2>2. /\ lastEmittedSeq \in 0..accepted
        /\ pendingAfterLines \in 0..C
    BY <1>1, <2>1 DEF Smaller, Larger
  <2>3. QED
    BY <2>2 DEF C
<1>5. QED
  BY <1>1, <1>2, <1>3, <1>4 DEF IInv, OwedContext

(* accept of a line with the keyword shows the rest of its context. *)
LEMMA MatchStep ==
  ASSUME IInv, Accept(TRUE), NEW n, n = accepted + 1
  PROVE  /\ OwedAfter(n)'
         /\ lastEmittedSeq' = n
         /\ pendingAfterLines' = options.contextLines
         /\ matches' = matches \cup {n}
         /\ ShowsExactlyTheContext'
<1> DEFINE C == options.contextLines
           shown == ShownFor(nextSeq, TRUE)
<1>1. /\ options.hasKeyword /\ options' = options
      /\ C \in 0..20
      /\ accepted \in Nat /\ MaxLines \in Nat /\ accepted < MaxLines
      /\ nextSeq = n /\ accepted' = n
      /\ lastEmittedSeq \in 0..accepted
      /\ pendingAfterLines \in 0..C
      /\ matches \subseteq 1..accepted
      /\ timesShown \in [1..MaxLines -> Nat]
      /\ timesShown' = CountShown(shown)
  BY AcceptFinds
<1>2. shown = {s \in 1..n : s >= n - C /\ s > lastEmittedSeq}
  BY <1>1, ShownForIs
<1>3. /\ matches' = matches \cup {n}
      /\ pendingAfterLines' = Larger(pendingAfterLines, C)
      /\ lastEmittedSeq' = IF shown = {} THEN lastEmittedSeq
                                        ELSE Newest(shown)
  BY <1>1 DEF Accept, PendingAfter
<1> HIDE DEF C, shown
<1>4. n \in shown /\ \A s \in shown : s <= n
  BY <1>1, <1>2
<1>5. Newest(shown) = n
  <2>1. \E s \in shown : \A t \in shown : t <= s
    BY <1>4
  <2>2. Newest(shown) \in shown /\ \A t \in shown : t <= Newest(shown)
    BY <2>1 DEF Newest
  <2>3. Newest(shown) \in 1..n
    BY <1>2, <2>2
  <2>4. QED
    BY <1>1, <1>4, <2>2, <2>3
<1>6. lastEmittedSeq' = n /\ pendingAfterLines' = C
  BY <1>1, <1>3, <1>4, <1>5 DEF Larger
<1>7. OwedAfter(n)'
  <2>1. Larger(0, n + C - n) = C /\ Smaller(n, n + C) = n
    BY <1>1 DEF Larger, Smaller
  <2>2. \A other \in matches' : other <= n
    BY <1>1, <1>3
  <2>3. n \in matches' /\ accepted' = n /\ options' = options
    BY <1>1, <1>3
  <2>4. QED
    BY <1>6, <2>1, <2>2, <2>3 DEF OwedAfter, C
<1>8. ASSUME NEW s \in 1..MaxLines
      PROVE  timesShown'[s] = IF s \in InContext' THEN 1 ELSE 0
  <2>1. timesShown'[s] = IF s \in shown THEN timesShown[s] + 1
                                       ELSE timesShown[s]
    BY <1>1 DEF CountShown
  <2>2. timesShown[s] = IF s \in InContext THEN 1 ELSE 0
    BY <1>1 DEF IInv, ShowsExactlyTheContext
  <2>3. s \in InContext' <=>
          s \in 1..n /\ \E m \in matches \cup {n} : m - C <= s /\ s <= m + C
    BY <1>1, <1>3 DEF InContext, C
  <2>4. s \in InContext <=>
          s \in 1..accepted /\ \E m \in matches : m - C <= s /\ s <= m + C
    BY DEF InContext, C
  <2>5. s \in InContext => s <= lastEmittedSeq
    BY <1>1, ContextEndsAtLastEmitted
  <2>6. (s \in 1..accepted /\ s <= lastEmittedSeq /\ s >= n - C)
          => s \in InContext
    <3>1. \A t \in 1..accepted :
            (t <= lastEmittedSeq /\ t >= accepted + 1 - C) => t \in InContext
      BY <1>1, ContextEndsAtLastEmitted DEF C
    <3>2. n \in Nat /\ accepted \in Nat /\ C \in Nat /\ n = accepted + 1
      BY <1>1
    <3>3. QED
      BY <3>1, <3>2
  <2>7. s \in InContext' <=> s \in InContext \/ s \in shown
    <3>1. s \in InContext => s \in InContext'
      BY <1>1, <2>3, <2>4
    <3>2. s \in shown => s \in InContext'
      BY <1>1, <1>2, <2>3
    <3>3. ASSUME s \in InContext', s \notin InContext PROVE s \in shown
      <4>1. s \in 1..n /\ n - C <= s
        BY <1>1, <2>3, <2>4, <3>3
      <4>2. CASE s = n
        BY <1>4, <4>2
      <4>3. CASE s \in 1..accepted
        BY <1>1, <1>2, <2>6, <3>3, <4>1, <4>3
      <4>4. QED
        BY <1>1, <4>1, <4>2, <4>3
    <3>4. QED
      BY <3>1, <3>2, <3>3
  <2>8. ~(s \in InContext /\ s \in shown)
    BY <1>1, <1>2, <2>5
  <2>9. QED
    BY <2>1, <2>2, <2>7, <2>8
<1>9. ShowsExactlyTheContext'
  BY <1>1, <1>8 DEF ShowsExactlyTheContext
<1>10. QED
  BY <1>3, <1>6, <1>7, <1>9 DEF C

(* accept of any other line shows it if a match owes it. *)
LEMMA OtherStep ==
  ASSUME IInv, Accept(FALSE)
  PROVE  OwedContext' /\ ShowsExactlyTheContext'
         /\ lastEmittedSeq' \in 0..(accepted + 1)
         /\ pendingAfterLines' \in 0..options.contextLines
         /\ matches' = matches
<1> DEFINE C == options.contextLines
           shown == ShownFor(nextSeq, FALSE)
<1> PICK n : n = accepted + 1
  OBVIOUS
<1>1. /\ options.hasKeyword /\ options' = options
      /\ C \in 0..20
      /\ accepted \in Nat /\ MaxLines \in Nat /\ accepted < MaxLines
      /\ nextSeq = n /\ accepted' = n
      /\ lastEmittedSeq \in 0..accepted
      /\ pendingAfterLines \in 0..C
      /\ matches \subseteq 1..accepted
      /\ timesShown \in [1..MaxLines -> Nat]
      /\ timesShown' = CountShown(shown)
  BY AcceptFinds
<1>2. shown = IF pendingAfterLines > 0 THEN {n} ELSE {}
  BY <1>1, ShownForIs
<1>3. /\ matches' = matches
      /\ pendingAfterLines' = IF shown # {} THEN pendingAfterLines - 1
                                           ELSE pendingAfterLines
      /\ lastEmittedSeq' = IF shown = {} THEN lastEmittedSeq
                                        ELSE Newest(shown)
  BY <1>1 DEF Accept, PendingAfter
<1> HIDE DEF C, shown
<1>4. Newest({n}) = n
  <2>1. \E s \in {n} : \A t \in {n} : t <= s
    BY <1>1
  <2>2. QED
    BY <2>1 DEF Newest
<1>5. /\ lastEmittedSeq' = IF pendingAfterLines > 0 THEN n ELSE lastEmittedSeq
      /\ pendingAfterLines' = IF pendingAfterLines > 0
                              THEN pendingAfterLines - 1 ELSE 0
  BY <1>1, <1>2, <1>3, <1>4
<1>6. lastEmittedSeq' \in 0..n /\ pendingAfterLines' \in 0..C
  BY <1>1, <1>5
<1>7. ASSUME NEW s \in 1..MaxLines
      PROVE  timesShown'[s] =
               IF s \in InContext \/ s \in shown THEN 1 ELSE 0
  <2>1. timesShown'[s] = IF s \in shown THEN timesShown[s] + 1
                                       ELSE timesShown[s]
    BY <1>1 DEF CountShown
  <2>2. timesShown[s] = IF s \in InContext THEN 1 ELSE 0
    BY <1>1 DEF IInv, ShowsExactlyTheContext
  <2>3. s \in shown => s \notin InContext
    BY <1>1, <1>2 DEF InContext
  <2>4. QED
    BY <2>1, <2>2, <2>3
<1>8. CASE NothingOwed
  <2>1. NothingOwed'
    BY <1>3, <1>5, <1>8 DEF NothingOwed
  <2>2. InContext = {} /\ InContext' = {} /\ shown = {}
    BY <1>2, <1>3, <1>8 DEF NothingOwed, InContext
  <2>3. QED
    BY <1>1, <1>3, <1>6, <1>7, <2>1, <2>2
       DEF OwedContext, ShowsExactlyTheContext, C
<1>9. ASSUME NEW m \in 1..accepted, OwedAfter(m)
      PROVE  OwedContext' /\ ShowsExactlyTheContext'
  <2>1. /\ lastEmittedSeq = Smaller(accepted, m + C)
        /\ pendingAfterLines = Larger(0, m + C - accepted)
        /\ m \in matches
        /\ \A other \in matches : other <= m
    BY <1>9 DEF OwedAfter, C
  <2>2. /\ lastEmittedSeq' = Smaller(n, m + C)
        /\ pendingAfterLines' = Larger(0, m + C - n)
    BY <1>1, <1>5, <2>1 DEF Larger, Smaller
  <2>3. OwedAfter(m)'
    BY <1>1, <1>3, <2>1, <2>2 DEF OwedAfter, C
  <2>4. m \in 1..accepted'
    BY <1>1
  <2>5. OwedContext'
    BY <2>3, <2>4 DEF OwedContext
  <2>6. n \in shown <=> n <= m + C
    BY <1>1, <1>2, <2>1 DEF Larger
  <2>7. ASSUME NEW s \in 1..MaxLines
        PROVE  s \in InContext' <=> s \in InContext \/ s \in shown
    <3>1. s \in InContext' <=>
            s \in 1..n /\ \E o \in matches : o - C <= s /\ s <= o + C
      BY <1>1, <1>3 DEF InContext, C
    <3>2. s \in InContext <=>
            s \in 1..accepted /\ \E o \in matches : o - C <= s /\ s <= o + C
      BY DEF InContext, C
    <3>3. CASE s = n
      <4>1. (\E o \in matches : o - C <= n /\ n <= o + C) <=> n <= m + C
        BY <1>1, <2>1
      <4>2. QED
        BY <1>1, <2>6, <3>1, <3>2, <3>3, <4>1
    <3>4. CASE s # n
      BY <1>1, <1>2, <3>1, <3>2, <3>4
    <3>5. QED
      BY <3>3, <3>4
  <2>8. ShowsExactlyTheContext'
    BY <1>1, <1>7, <2>7 DEF ShowsExactlyTheContext
  <2>9. QED
    BY <2>5, <2>8
<1>10. QED
  BY <1>1, <1>3, <1>6, <1>8, <1>9 DEF IInv, OwedContext, C

LEMMA AcceptPreservesIInv ==
  ASSUME IInv, NEW matched \in BOOLEAN, Accept(matched)
  PROVE  IInv'
<1>1. /\ options.hasKeyword /\ options' = options
      /\ options.contextLines \in 0..20
      /\ accepted \in Nat /\ MaxLines \in Nat /\ accepted < MaxLines
      /\ nextSeq = accepted + 1
      /\ accepted' = accepted + 1 /\ nextSeq' = nextSeq + 1
      /\ matches \subseteq 1..accepted
      /\ timesShown \in [1..MaxLines -> Nat]
      /\ timesShown' = CountShown(ShownFor(nextSeq, matched))
      /\ recentLines' = Remember(nextSeq)
  BY AcceptFinds
<1>2. /\ OwedContext' /\ ShowsExactlyTheContext'
      /\ lastEmittedSeq' \in 0..(accepted + 1)
      /\ pendingAfterLines' \in 0..20
      /\ matches' \subseteq 1..(accepted + 1)
  <2>1. CASE matched
    <3>1. PICK n : n = accepted + 1
      OBVIOUS
    <3>2. /\ OwedAfter(n)' /\ ShowsExactlyTheContext'
          /\ lastEmittedSeq' = n
          /\ pendingAfterLines' = options.contextLines
          /\ matches' = matches \cup {n}
      BY <2>1, <3>1, MatchStep
    <3>3. n \in 1..accepted'
      BY <1>1, <3>1
    <3>4. OwedContext'
      BY <3>2, <3>3 DEF OwedContext
    <3>5. QED
      BY <1>1, <3>1, <3>2, <3>4
  <2>2. CASE ~matched
    <3>1. /\ OwedContext' /\ ShowsExactlyTheContext'
          /\ lastEmittedSeq' \in 0..(accepted + 1)
          /\ pendingAfterLines' \in 0..options.contextLines
          /\ matches' = matches
      BY <2>2, OtherStep
    <3>2. pendingAfterLines' \in 0..20
      <4> DEFINE C == options.contextLines
      <4>1. C \in 0..20 /\ pendingAfterLines' \in 0..C
        BY <1>1, <3>1
      <4> HIDE DEF C
      <4>2. QED
        BY <4>1
    <3>3. matches' \subseteq 1..(accepted + 1)
      BY <1>1, <3>1
    <3>4. QED
      BY <3>1, <3>2, <3>3
  <2>3. QED
    BY <2>1, <2>2
<1>3. /\ Remember(nextSeq) \in Seq(1..MaxLines)
      /\ Len(Remember(nextSeq)) = Smaller(options.contextLines, nextSeq)
      /\ \A i \in DOMAIN Remember(nextSeq) :
           Remember(nextSeq)[i] = nextSeq - Len(Remember(nextSeq)) + i
  BY <1>1, RememberKeepsTheLast DEF IInv
<1>4. RemembersTheContextOnly'
  BY <1>1, <1>3 DEF RemembersTheContextOnly
<1>5. timesShown' \in [1..MaxLines -> Nat]
  BY <1>1 DEF CountShown
<1>6. TypeOK'
  <2>1. options' \in [hasKeyword : BOOLEAN, contextLines : 0..20]
    BY <1>1 DEF IInv, TypeOK, MaxContextLines
  <2>2. recentLines' \in Seq(1..MaxLines)
    BY <1>1, <1>3
  <2>3. /\ nextSeq' \in 1..(MaxLines + 1) /\ accepted' \in 0..MaxLines
        /\ lastEmittedSeq' \in 0..MaxLines /\ matches' \subseteq 1..MaxLines
    BY <1>1, <1>2
  <2>4. QED
    BY <1>2, <1>5, <2>1, <2>2, <2>3 DEF TypeOK, MaxContextLines
<1>7. CountersAgree' /\ matches' \subseteq 1..accepted'
  BY <1>1, <1>2 DEF CountersAgree
<1>8. QED
  BY <1>2, <1>4, <1>6, <1>7 DEF IInv

LEMMA NextPreservesIInv == IInv /\ [Next]_vars => IInv'
<1> SUFFICES ASSUME IInv, [Next]_vars PROVE IInv'
  OBVIOUS
<1>1. CASE PassThrough
  <2>1. /\ accepted \in Nat /\ MaxLines \in Nat /\ accepted < MaxLines
        /\ accepted' = accepted + 1
        /\ ~options.hasKeyword
        /\ timesShown \in [1..MaxLines -> Nat]
        /\ timesShown' = CountShown({accepted + 1})
        /\ matches \subseteq 1..accepted
    BY <1>1, FilterAssumption DEF IInv, TypeOK, PassThrough
  <2>2. UNCHANGED <<options, recentLines, nextSeq, lastEmittedSeq,
                    pendingAfterLines, matches>>
    BY <1>1 DEF PassThrough, filterVars
  <2>3. timesShown' \in [1..MaxLines -> Nat]
    BY <2>1 DEF CountShown
  <2>4. accepted' \in 0..MaxLines /\ matches' \subseteq 1..accepted'
    BY <2>1, <2>2
  <2>5. TypeOK'
    BY <2>2, <2>3, <2>4 DEF IInv, TypeOK
  <2>6. CountersAgree' /\ OwedContext' /\ RemembersTheContextOnly'
    BY <2>1, <2>2
       DEF IInv, CountersAgree, OwedContext, RemembersTheContextOnly
  <2>7. ShowsExactlyTheContext'
    <3>1. ASSUME NEW s \in 1..MaxLines
          PROVE  timesShown'[s] = IF s \in 1..accepted' THEN 1 ELSE 0
      <4>1. timesShown[s] = IF s \in 1..accepted THEN 1 ELSE 0
        BY <2>1 DEF IInv, ShowsExactlyTheContext
      <4>2. timesShown'[s] = IF s = accepted + 1 THEN timesShown[s] + 1
                                                 ELSE timesShown[s]
        BY <2>1 DEF CountShown
      <4>3. QED
        BY <2>1, <4>1, <4>2
    <3>2. QED
      BY <2>1, <2>2, <3>1 DEF ShowsExactlyTheContext
  <2>8. QED
    BY <2>4, <2>5, <2>6, <2>7 DEF IInv
<1>2. ASSUME NEW matched \in BOOLEAN, Accept(matched)
      PROVE  IInv'
  BY <1>2, AcceptPreservesIInv
<1>3. CASE Reset
  <2>1. /\ options' = options
        /\ options.contextLines \in 0..20
        /\ MaxLines \in Nat
        /\ recentLines' = << >> /\ nextSeq' = 1 /\ lastEmittedSeq' = 0
        /\ pendingAfterLines' = 0 /\ accepted' = 0 /\ matches' = {}
        /\ timesShown' = [s \in 1..MaxLines |-> 0]
    BY <1>3, FilterAssumption DEF Reset, IInv, TypeOK, MaxContextLines
  <2>2. TypeOK'
    BY <2>1 DEF IInv, TypeOK, MaxContextLines
  <2>3. CountersAgree' /\ OwedContext' /\ matches' \subseteq 1..accepted'
    BY <2>1 DEF IInv, CountersAgree, OwedContext, NothingOwed
  <2>4. RemembersTheContextOnly'
    <3>1. Smaller(options.contextLines, 0) = 0
      BY <2>1 DEF Smaller
    <3>2. QED
      BY <2>1, <3>1 DEF RemembersTheContextOnly
  <2>5. ShowsExactlyTheContext'
    BY <2>1 DEF ShowsExactlyTheContext, InContext
  <2>6. QED
    BY <2>2, <2>3, <2>4, <2>5 DEF IInv
<1>4. CASE UNCHANGED vars
  BY <1>4 DEF vars, filterVars, IInv, TypeOK, CountersAgree, OwedContext,
              NothingOwed, OwedAfter, RemembersTheContextOnly,
              ShowsExactlyTheContext, InContext
<1>5. QED
  BY <1>1, <1>2, <1>3, <1>4 DEF Next

LEMMA Inductive == Spec => []IInv
<1>1. QED
  BY InitEstablishesIInv, NextPreservesIInv, PTL DEF Spec

(***************************************************************************)
(* Type correctness: the counters stay in their ranges, the deque holds    *)
(* lines that were read (LogFollowService.RealtimeLineFilter).             *)
(***************************************************************************)
THEOREM FilterTypes == Spec => []TypeOK
<1>1. IInv => TypeOK
  BY DEF IInv
<1>2. QED
  BY <1>1, Inductive, PTL

(***************************************************************************)
(* Whatever the log, the context and the resets, what accept has returned  *)
(* is exactly the context of the matches, each line once.                  *)
(***************************************************************************)
THEOREM FilterShowsExactlyTheContext == Spec => []ShowsExactlyTheContext
<1>1. IInv => ShowsExactlyTheContext
  BY DEF IInv
<1>2. QED
  BY <1>1, Inductive, PTL

(***************************************************************************)
(* The deque never outgrows the requested context.                         *)
(***************************************************************************)
THEOREM FilterMemoryIsBounded == Spec => []RemembersTheContextOnly
<1>1. IInv => RemembersTheContextOnly
  BY DEF IInv
<1>2. QED
  BY <1>1, Inductive, PTL

(***************************************************************************)
(* No accept returns a line older than one already returned.               *)
(***************************************************************************)
THEOREM FilterNeverGoesBack == Spec => NeverGoesBack
<1> DEFINE Forward == \A s, t \in 1..MaxLines :
             (timesShown'[s] > timesShown[s] /\ timesShown[t] > 0) => t < s
<1>1. ASSUME IInv, [Next]_vars
      PROVE  [Forward]_vars
  <2> SUFFICES ASSUME NEW s \in 1..MaxLines, NEW t \in 1..MaxLines,
                      timesShown'[s] > timesShown[s], timesShown[t] > 0
               PROVE  t < s
    OBVIOUS
  <2>1. timesShown \in [1..MaxLines -> Nat] /\ MaxLines \in Nat
    BY <1>1, FilterAssumption DEF IInv, TypeOK
  <2>2. CASE PassThrough
    <3>1. timesShown[t] = IF t \in 1..accepted THEN 1 ELSE 0
      BY <1>1, <2>2 DEF IInv, ShowsExactlyTheContext, PassThrough
    <3>2. timesShown'[s] = IF s = accepted + 1 THEN timesShown[s] + 1
                                               ELSE timesShown[s]
      BY <2>2 DEF PassThrough, CountShown
    <3>3. accepted \in Nat
      BY <1>1 DEF IInv, TypeOK
    <3>4. QED
      BY <2>1, <3>1, <3>2, <3>3
  <2>3. ASSUME NEW matched \in BOOLEAN, Accept(matched)
        PROVE  t < s
    <3>1. /\ options.hasKeyword
          /\ accepted \in Nat /\ accepted < MaxLines
          /\ nextSeq = accepted + 1
          /\ lastEmittedSeq \in 0..accepted
          /\ timesShown' = CountShown(ShownFor(nextSeq, matched))
      BY <1>1, <2>3, AcceptFinds
    <3>2. t \in InContext
      BY <1>1, <3>1 DEF IInv, ShowsExactlyTheContext
    <3>3. t <= lastEmittedSeq
      BY <1>1, <3>1, <3>2, ContextEndsAtLastEmitted
    <3>4. s \in ShownFor(nextSeq, matched)
      BY <2>1, <3>1 DEF CountShown
    <3>5. s > lastEmittedSeq
      <4>1. CASE matched
        BY <1>1, <3>1, <3>4, <4>1, ShownForIs
      <4>2. CASE ~matched
        <5>1. ShownFor(nextSeq, FALSE) \subseteq {nextSeq}
          BY <1>1, <3>1, ShownForIs
        <5>2. s = nextSeq
          BY <3>4, <4>2, <5>1
        <5>3. QED
          BY <3>1, <5>2
      <4>3. QED
        BY <4>1, <4>2
    <3>6. QED
      BY <3>1, <3>3, <3>5
  <2>4. CASE Reset
    BY <2>1, <2>4 DEF Reset
  <2>5. CASE UNCHANGED vars
    BY <2>1, <2>5 DEF vars
  <2>6. QED
    BY <1>1, <2>2, <2>3, <2>4, <2>5 DEF Next
<1>2. QED
  BY <1>1, Inductive, PTL DEF Spec, NeverGoesBack

=============================================================================
