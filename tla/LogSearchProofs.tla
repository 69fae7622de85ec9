---------------------------- MODULE LogSearchProofs ----------------------------
(* What is proved of LogSearch, for every directory, every content of its files
   and every configuration: first what the two commands print and what the service
   makes of it, both folds over the lines of a file, by induction over the lines;
   then what the search of one file returns; then the search of all files. *)
EXTENDS LogSearch, TLAPS, FiniteSetTheorems, SequenceTheorems, WellFoundedInduction

-------------------------------------------------------------------------------
(* Recursive functions. What a fold computes is proved by induction over the
   numbers, for the set of the numbers that it holds for. *)
LEMMA Induction ==
  ASSUME NEW T, 0 \in T, \A n \in Nat : n \in T => n + 1 \in T
  PROVE  Nat \subseteq T
<1> DEFINE R == Nat \ T
<1>1. SUFFICES ASSUME R # {} PROVE FALSE
  OBVIOUS
<1>2. R \subseteq Nat
  OBVIOUS
<1>3. PICK x \in R : \A y \in R : ~(<<y, x>> \in OpToRel(<, Nat))
  BY <1>1, <1>2, NatLessThanWellFounded, WFMin
<1>4. x \in Nat /\ x # 0 /\ x - 1 \in Nat
  OBVIOUS
<1>5. x - 1 \in T
  <2>1. <<x - 1, x>> \in OpToRel(<, Nat)
    BY <1>4 DEF OpToRel
  <2>2. QED BY <1>3, <1>4, <2>1
<1>6. QED BY <1>4, <1>5

LEMMA MaxIn ==
  ASSUME NEW n \in Nat, NEW T \in SUBSET (1..n), T # {}
  PROVE  Max(T) \in T /\ \A x \in T : x <= Max(T)
<1> DEFINE P(m) == \A U \in SUBSET (1..m) :
                     U # {} => \E x \in U : \A y \in U : x >= y
<1>1. P(0)
  <2>1. 1..0 = {}
    OBVIOUS
  <2>2. QED BY <2>1
<1>2. ASSUME NEW m \in Nat, P(m)
      PROVE  P(m + 1)
  <2>1. SUFFICES ASSUME NEW U \in SUBSET (1..(m + 1)), U # {}
                 PROVE  \E x \in U : \A y \in U : x >= y
    OBVIOUS
  <2>2. CASE m + 1 \in U
    BY <2>2
  <2>3. CASE m + 1 \notin U
    <3>1. U \in SUBSET (1..m)
      BY <2>3
    <3>2. QED BY <1>2, <2>1, <3>1
  <2>4. QED BY <2>2, <2>3
<1> HIDE DEF P
<1>3. \A m \in Nat : P(m)
  <2> DEFINE W == {m \in Nat : P(m)}
  <2>1. 0 \in W
    BY <1>1
  <2>2. \A m \in Nat : m \in W => m + 1 \in W
    BY <1>2
  <2> HIDE DEF W
  <2>3. Nat \subseteq W
    BY <2>1, <2>2, Induction
  <2>4. QED BY <2>3 DEF W
<1>4. \E x \in T : \A y \in T : x >= y
  BY <1>3 DEF P
<1>5. Max(T) \in T /\ \A y \in T : Max(T) >= y
  BY <1>4 DEF Max
<1>6. QED BY <1>5

LEMMA MaxOfPrefix ==
  ASSUME NEW n \in Nat, NEW T \in SUBSET (1..(n + 1)), n + 1 \in T
  PROVE  Max(T) = n + 1
<1>1. n + 1 \in T /\ \A y \in T : n + 1 >= y
  OBVIOUS
<1>2. \A x \in T : (\A y \in T : x >= y) => x = n + 1
  OBVIOUS
<1>3. QED BY <1>1, <1>2 DEF Max

(* f goes through s, as far as its element m: step by step, from base. *)
Goes(f, base, step, s, m) ==
  f[0] = base /\ \A i \in 1..m : f[i] = step[<<f[i - 1], s[i]>>]

LEMMA GoesExists ==
  ASSUME NEW E, NEW s \in Seq(E), NEW S, NEW base \in S,
         NEW step \in [S \X E -> S]
  PROVE  \E f \in [0..Len(s) -> S] : Goes(f, base, step, s, Len(s))
<1> DEFINE P(m) == m <= Len(s) => \E f \in [0..m -> S] : Goes(f, base, step, s, m)
<1>1. P(0)
  <2>1. PICK f : f = [i \in 0..0 |-> base]
    OBVIOUS
  <2>2. f \in [0..0 -> S] /\ f[0] = base
    BY <2>1
  <2>3. QED BY <2>2 DEF Goes
<1>2. ASSUME NEW m \in Nat, P(m)
      PROVE  P(m + 1)
  <2>1. SUFFICES ASSUME m + 1 <= Len(s)
                 PROVE  \E f \in [0..(m + 1) -> S] : Goes(f, base, step, s, m + 1)
    OBVIOUS
  <2>2. PICK f \in [0..m -> S] : Goes(f, base, step, s, m)
    <3>1. m <= Len(s)
      BY <2>1
    <3>2. QED BY <1>2, <3>1, Zenon
  <2>3. PICK last : last = step[<<f[m], s[m + 1]>>]
    OBVIOUS
  <2>4. last \in S
    <3>1. f[m] \in S /\ m + 1 \in 1..Len(s)
      BY <2>1
    <3>2. s[m + 1] \in E
      BY <3>1
    <3>3. QED BY <2>3, <3>1, <3>2
  <2>5. PICK g : g = [i \in 0..(m + 1) |-> IF i = m + 1 THEN last ELSE f[i]]
    OBVIOUS
  <2>6. /\ DOMAIN g = 0..(m + 1) /\ g[m + 1] = last
        /\ \A i \in 0..m : g[i] = f[i]
    BY <2>5
  <2>7. \A i \in 0..(m + 1) : g[i] \in S
    <3>1. \A i \in 0..(m + 1) : i = m + 1 \/ i \in 0..m
      OBVIOUS
    <3>2. QED BY <2>4, <2>6, <3>1
  <2>8. g \in [0..(m + 1) -> S]
    BY <2>5, <2>7
  <2>9. ASSUME NEW i \in 1..(m + 1)
        PROVE  g[i] = step[<<g[i - 1], s[i]>>]
    <3>1. i - 1 \in 0..m /\ g[i - 1] = f[i - 1]
      BY <2>6
    <3>2. CASE i = m + 1
      <4>1. i - 1 = m
        BY <3>2
      <4>2. QED BY <2>3, <2>6, <3>1, <3>2, <4>1
    <3>3. CASE i # m + 1
      <4>1. i \in 1..m /\ i \in 0..m
        BY <3>3
      <4>2. f[i] = step[<<f[i - 1], s[i]>>]
        BY <2>2, <4>1 DEF Goes
      <4>3. QED BY <2>6, <3>1, <4>1, <4>2
    <3>4. QED BY <3>2, <3>3
  <2>10. g[0] = base
    <3>1. 0 \in 0..m
      OBVIOUS
    <3>2. QED BY <2>2, <2>6, <3>1 DEF Goes
  <2>11. Goes(g, base, step, s, m + 1)
    BY <2>9, <2>10 DEF Goes
  <2>12. QED BY <2>8, <2>11
<1> HIDE DEF P
<1>3. \A m \in Nat : P(m)
  <2> DEFINE T == {m \in Nat : P(m)}
  <2>1. 0 \in T
    BY <1>1
  <2>2. \A m \in Nat : m \in T => m + 1 \in T
    BY <1>2
  <2> HIDE DEF T
  <2>3. Nat \subseteq T
    BY <2>1, <2>2, Induction
  <2>4. QED BY <2>3 DEF T
<1>4. P(Len(s)) /\ Len(s) <= Len(s)
  BY <1>3
<1>5. QED BY <1>4, Zenon DEF P

(* The function that FoldLeft takes to the set of the indices of s. *)
Folds(iter, base, step, s, m) ==
  \A T \in SUBSET (1..m) :
    iter[T] = IF T = {} THEN base
              ELSE step[<<iter[T \ {Max(T)}], s[Max(T)]>>]

LEMMA FoldExists ==
  ASSUME NEW E, NEW s \in Seq(E), NEW S, NEW base \in S,
         NEW step \in [S \X E -> S]
  PROVE  \E iter \in [SUBSET (1..Len(s)) -> S] : Folds(iter, base, step, s, Len(s))
<1> DEFINE P(m) == m <= Len(s) => \E iter \in [SUBSET (1..m) -> S] :
                                    Folds(iter, base, step, s, m)
<1>1. P(0)
  <2>1. PICK f : f = [T \in SUBSET (1..0) |-> base]
    OBVIOUS
  <2>2. \A T \in SUBSET (1..0) : T = {}
    OBVIOUS
  <2>3. f \in [SUBSET (1..0) -> S] /\ \A T \in SUBSET (1..0) : f[T] = base
    BY <2>1
  <2>4. Folds(f, base, step, s, 0)
    BY <2>2, <2>3 DEF Folds
  <2>5. QED BY <2>3, <2>4
<1>2. ASSUME NEW m \in Nat, P(m)
      PROVE  P(m + 1)
  <2>1. SUFFICES ASSUME m + 1 <= Len(s)
                 PROVE  \E iter \in [SUBSET (1..(m + 1)) -> S] :
                          Folds(iter, base, step, s, m + 1)
    OBVIOUS
  <2>2. PICK f \in [SUBSET (1..m) -> S] : Folds(f, base, step, s, m)
    <3>1. m <= Len(s)
      BY <2>1
    <3>2. QED BY <1>2, <3>1, Zenon
  <2>3. PICK x \in E : x = s[m + 1]
    <3>1. m + 1 \in 1..Len(s)
      BY <2>1
    <3>2. QED BY <3>1
  <2>4. PICK g : g = [T \in SUBSET (1..(m + 1)) |->
                        IF m + 1 \in T THEN step[<<f[T \ {m + 1}], x>>]
                                       ELSE f[T]]
    OBVIOUS
  <2>5. \A T \in SUBSET (1..(m + 1)) :
          /\ T \ {m + 1} \in SUBSET (1..m)
          /\ m + 1 \notin T => T \in SUBSET (1..m)
    <3>1. \A i \in 1..(m + 1) : i \in 1..m \/ i = m + 1
      OBVIOUS
    <3>2. QED BY <3>1
  <2>6. \A T \in SUBSET (1..m) :
          T \in SUBSET (1..(m + 1)) /\ m + 1 \notin T
    OBVIOUS
  <2>7. \A T \in SUBSET (1..(m + 1)) :
          g[T] = IF m + 1 \in T THEN step[<<f[T \ {m + 1}], x>>] ELSE f[T]
    BY <2>4
  <2>8. g \in [SUBSET (1..(m + 1)) -> S]
    <3>1. \A T \in SUBSET (1..m) : f[T] \in S /\ step[<<f[T], x>>] \in S
      <4>1. \A v \in S : step[<<v, x>>] \in S
        OBVIOUS
      <4>2. QED BY <4>1
    <3>2. \A T \in SUBSET (1..(m + 1)) : g[T] \in S
      BY <2>5, <2>7, <3>1
    <3>3. QED BY <2>4, <3>2
  <2>9. ASSUME NEW T \in SUBSET (1..(m + 1))
        PROVE  g[T] = IF T = {} THEN base
                      ELSE step[<<g[T \ {Max(T)}], s[Max(T)]>>]
    <3>1. CASE m + 1 \in T
      <4>1. Max(T) = m + 1
        BY <3>1, MaxOfPrefix
      <4>2. PICK U : U = T \ {m + 1}
        OBVIOUS
      <4>3. g[U] = f[U]
        BY <2>5, <2>6, <2>7, <4>2
      <4>4. g[T] = step[<<f[U], x>>]
        BY <2>7, <3>1, <4>2
      <4>5. QED BY <2>3, <3>1, <4>1, <4>2, <4>3, <4>4
    <3>2. CASE m + 1 \notin T
      <4>1. T \in SUBSET (1..m) /\ g[T] = f[T]
        BY <2>5, <2>7, <3>2
      <4>2. f[T] = IF T = {} THEN base
                   ELSE step[<<f[T \ {Max(T)}], s[Max(T)]>>]
        BY <2>2, <4>1 DEF Folds
      <4>3. T \ {Max(T)} \in SUBSET (1..m)
        BY <4>1
      <4>4. g[T \ {Max(T)}] = f[T \ {Max(T)}]
        BY <2>6, <2>7, <4>3
      <4>5. QED BY <4>1, <4>2, <4>4
    <3>3. QED BY <3>1, <3>2
  <2>10. Folds(g, base, step, s, m + 1)
    BY <2>9 DEF Folds
  <2>11. QED BY <2>8, <2>10
<1> HIDE DEF P
<1>3. \A m \in Nat : P(m)
  <2> DEFINE T == {m \in Nat : P(m)}
  <2>1. 0 \in T
    BY <1>1
  <2>2. \A m \in Nat : m \in T => m + 1 \in T
    BY <1>2
  <2> HIDE DEF T
  <2>3. Nat \subseteq T
    BY <2>1, <2>2, Induction
  <2>4. QED BY <2>3 DEF T
<1>4. P(Len(s)) /\ Len(s) <= Len(s)
  BY <1>3
<1>5. QED BY <1>4, Zenon DEF P

(* Of the function that FoldLeft takes, only what it is for values of S is
   known; that is enough to go through s. *)
FoldsTyped(iter, S, base, step, s) ==
  /\ iter[{}] = base
  /\ \A T \in SUBSET (1..Len(s)) :
       T # {} /\ iter[T \ {Max(T)}] \in S =>
         iter[T] = step[<<iter[T \ {Max(T)}], s[Max(T)]>>]

FoldsTo(S, base, step, s, value) ==
  \E f \in [0..Len(s) -> S] : Goes(f, base, step, s, Len(s)) /\ value = f[Len(s)]

LEMMA FoldTrace ==
  ASSUME NEW E, NEW s \in Seq(E), NEW S, NEW base \in S,
         NEW step \in [S \X E -> S],
         NEW iter, FoldsTyped(iter, S, base, step, s)
  PROVE  FoldsTo(S, base, step, s, iter[1..Len(s)])
<1>1. PICK f \in [0..Len(s) -> S] : Goes(f, base, step, s, Len(s))
  BY GoesExists
<1> DEFINE P(m) == m <= Len(s) => iter[1..m] = f[m]
<1>2. P(0)
  <2>1. 1..0 = {}
    OBVIOUS
  <2>2. QED BY <1>1, <2>1 DEF FoldsTyped, Goes
<1>3. ASSUME NEW m \in Nat, P(m)
      PROVE  P(m + 1)
  <2>1. SUFFICES ASSUME m + 1 <= Len(s) PROVE iter[1..(m + 1)] = f[m + 1]
    OBVIOUS
  <2>2. PICK T : T = 1..(m + 1)
    OBVIOUS
  <2>3. /\ T \in SUBSET (1..Len(s)) /\ T \in SUBSET (1..(m + 1))
        /\ m + 1 \in T /\ T # {} /\ T \ {m + 1} = 1..m
    <3>1. \A i \in 1..(m + 1) : i \in 1..Len(s)
      BY <2>1
    <3>2. m + 1 \in T
      BY <2>2
    <3>3. T \ {m + 1} = 1..m
      BY <2>2
    <3>4. QED BY <2>2, <3>1, <3>2, <3>3
  <2>4. Max(T) = m + 1
    BY <2>3, MaxOfPrefix
  <2>5. iter[1..m] = f[m] /\ f[m] \in S
    BY <1>3, <2>1
  <2>6. iter[T] = step[<<iter[1..m], s[m + 1]>>]
    BY <2>3, <2>4, <2>5 DEF FoldsTyped
  <2>7. f[m + 1] = step[<<f[m], s[m + 1]>>]
    <3>1. m + 1 \in 1..Len(s) /\ (m + 1) - 1 = m
      BY <2>1
    <3>2. QED BY <1>1, <3>1 DEF Goes
  <2>8. QED BY <2>2, <2>5, <2>6, <2>7
<1> HIDE DEF P
<1>4. \A m \in Nat : P(m)
  <2> DEFINE T == {m \in Nat : P(m)}
  <2>1. 0 \in T
    BY <1>2
  <2>2. \A m \in Nat : m \in T => m + 1 \in T
    BY <1>3
  <2> HIDE DEF T
  <2>3. Nat \subseteq T
    BY <2>1, <2>2, Induction
  <2>4. QED BY <2>3 DEF T
<1>5. P(Len(s)) /\ Len(s) <= Len(s)
  BY <1>4
<1>6. QED BY <1>1, <1>5 DEF P, FoldsTo

(* A fold goes on with what is appended. *)
LEMMA FoldsAppend ==
  ASSUME NEW E, NEW s \in Seq(E), NEW x \in E, NEW S, NEW base, NEW step,
         NEW v, FoldsTo(S, base, step, s, v),
         NEW w, FoldsTo(S, base, step, Append(s, x), w)
  PROVE  v \in S /\ w \in S /\ w = step[<<v, x>>]
<1>1. PICK t : t = Append(s, x)
  OBVIOUS
<1>2. /\ t \in Seq(E) /\ Len(t) = Len(s) + 1 /\ Len(s) \in Nat
      /\ t[Len(s) + 1] = x
  BY <1>1
<1>3. \A i \in 1..Len(s) : s[i] = t[i]
  BY <1>1
<1>4. PICK f \in [0..Len(s) -> S] :
        Goes(f, base, step, s, Len(s)) /\ v = f[Len(s)]
  BY DEF FoldsTo
<1>5. PICK g \in [0..Len(t) -> S] :
        Goes(g, base, step, t, Len(t)) /\ w = g[Len(t)]
  BY <1>1 DEF FoldsTo
<1> DEFINE P(m) == m <= Len(s) => f[m] = g[m]
<1>6. P(0)
  BY <1>4, <1>5 DEF Goes
<1>7. ASSUME NEW m \in Nat, P(m)
      PROVE  P(m + 1)
  <2>1. SUFFICES ASSUME m + 1 <= Len(s) PROVE f[m + 1] = g[m + 1]
    OBVIOUS
  <2>2. /\ m + 1 \in 1..Len(s) /\ m + 1 \in 1..Len(t) /\ (m + 1) - 1 = m
        /\ f[m] = g[m]
    BY <1>2, <1>7, <2>1
  <2>3. s[m + 1] = t[m + 1]
    BY <1>3, <2>2
  <2>4. QED BY <1>4, <1>5, <2>2, <2>3 DEF Goes
<1> HIDE DEF P
<1>8. \A m \in Nat : P(m)
  <2> DEFINE T == {m \in Nat : P(m)}
  <2>1. 0 \in T
    BY <1>6
  <2>2. \A m \in Nat : m \in T => m + 1 \in T
    BY <1>7
  <2> HIDE DEF T
  <2>3. Nat \subseteq T
    BY <2>1, <2>2, Induction
  <2>4. QED BY <2>3 DEF T
<1>9. f[Len(s)] = g[Len(s)]
  BY <1>2, <1>8 DEF P
<1>10. /\ Len(s) \in 0..Len(s) /\ Len(t) \in 0..Len(t)
       /\ Len(s) + 1 \in 1..Len(t) /\ (Len(s) + 1) - 1 = Len(s)
  BY <1>2
<1>11. g[Len(s) + 1] = step[<<g[Len(s)], t[Len(s) + 1]>>]
  BY <1>5, <1>10 DEF Goes
<1>12. QED BY <1>2, <1>4, <1>5, <1>9, <1>10, <1>11

LEMMA FoldsEmpty ==
  ASSUME NEW S, NEW base, NEW step, NEW v, FoldsTo(S, base, step, <<>>, v)
  PROVE  v = base
<1>1. Len(<<>>) = 0
  OBVIOUS
<1>2. QED BY <1>1 DEF FoldsTo, Goes

-------------------------------------------------------------------------------
(* The elements that Only keeps. *)
OnlyStep(E, S) ==
  [p \in Seq(E) \X E |-> IF p[2] \in S THEN Append(p[1], p[2]) ELSE p[1]]

LEMMA OnlyFolds ==
  ASSUME NEW E, NEW s \in Seq(E), NEW S
  PROVE  /\ OnlyStep(E, S) \in [Seq(E) \X E -> Seq(E)]
         /\ FoldsTo(Seq(E), <<>>, OnlyStep(E, S), s, Only(s, S))
<1> DEFINE n == Len(s)
<1> DEFINE op(kept, x) == IF x \in S THEN Append(kept, x) ELSE kept
<1> DEFINE step == OnlyStep(E, S)
<1> DEFINE next(h, T) == IF T = {} THEN <<>>
                         ELSE op(h[T \ {Max(T)}], s[Max(T)])
<1> DEFINE iter == CHOOSE h : h = [T \in SUBSET (1..n) |-> next(h, T)]
<1>1. n \in Nat /\ <<>> \in Seq(E) /\ DOMAIN s = 1..n
  OBVIOUS
<1>2. step \in [Seq(E) \X E -> Seq(E)]
  BY DEF OnlyStep
<1>3. \A v \in Seq(E), x \in E : step[<<v, x>>] = op(v, x)
  BY DEF OnlyStep
<1>4. \A T \in SUBSET (1..n) : T # {} =>
        s[Max(T)] \in E /\ T \ {Max(T)} \in SUBSET (1..n)
  <2>1. ASSUME NEW T \in SUBSET (1..n), T # {}
        PROVE  s[Max(T)] \in E
    <3>1. Max(T) \in 1..n
      BY <1>1, <2>1, MaxIn
    <3>2. QED BY <3>1
  <2>2. QED BY <2>1
<1>5. Only(s, S) = iter[1..n]
  BY <1>1 DEF Only, FoldLeft, MapThenFoldSet
<1>6. PICK g \in [SUBSET (1..n) -> Seq(E)] : Folds(g, <<>>, step, s, n)
  <2> HIDE DEF step
  <2>1. QED BY <1>1, <1>2, FoldExists
<1> HIDE DEF step, n, op
<1>7. \A T \in SUBSET (1..n) : g[T] = next(g, T)
  BY <1>3, <1>4, <1>6 DEF Folds
<1>8. iter = [T \in SUBSET (1..n) |-> next(iter, T)]
  <2> HIDE DEF next
  <2>1. g = [T \in SUBSET (1..n) |-> next(g, T)]
    BY <1>7
  <2>2. QED BY <2>1
<1> HIDE DEF iter
<1>9. \A T \in SUBSET (1..n) : iter[T] = next(iter, T)
  <2> HIDE DEF next
  <2>1. QED BY <1>8
<1>10. FoldsTyped(iter, Seq(E), <<>>, step, s)
  <2>1. {} \in SUBSET (1..n)
    OBVIOUS
  <2>2. QED BY <1>3, <1>4, <1>9, <2>1 DEF FoldsTyped, n
<1>11. FoldsTo(Seq(E), <<>>, step, s, iter[1..n])
  BY <1>1, <1>2, <1>10, FoldTrace DEF n
<1>12. QED BY <1>2, <1>5, <1>11 DEF step

LEMMA OnlyEmpty ==
  ASSUME NEW S
  PROVE  Only(<<>>, S) = <<>>
<1>1. <<>> \in Seq({})
  OBVIOUS
<1>2. QED BY <1>1, OnlyFolds, FoldsEmpty

LEMMA OnlyAppend ==
  ASSUME NEW E, NEW S, NEW s \in Seq(E), NEW x \in E
  PROVE  /\ Only(s, S) \in Seq(E)
         /\ Only(Append(s, x), S) = IF x \in S THEN Append(Only(s, S), x)
                                    ELSE Only(s, S)
<1>1. PICK t \in Seq(E) : t = Append(s, x)
  BY AppendProperties
<1>2. PICK v, w : v = Only(s, S) /\ w = Only(t, S)
  OBVIOUS
<1>3. /\ FoldsTo(Seq(E), <<>>, OnlyStep(E, S), s, v)
      /\ FoldsTo(Seq(E), <<>>, OnlyStep(E, S), t, w)
  BY <1>2, OnlyFolds
<1>4. v \in Seq(E) /\ w = OnlyStep(E, S)[<<v, x>>]
  BY <1>1, <1>3, FoldsAppend
<1>5. w = IF x \in S THEN Append(v, x) ELSE v
  BY <1>4 DEF OnlyStep
<1>6. QED BY <1>1, <1>2, <1>4, <1>5

(* s has no element twice. *)
Once(s) == \A i, j \in DOMAIN s : s[i] = s[j] => i = j

LEMMA AppendElements ==
  ASSUME NEW E, NEW s \in Seq(E), NEW x \in E
  PROVE  /\ ToSet(Append(s, x)) = ToSet(s) \cup {x}
         /\ Once(Append(s, x)) <=> Once(s) /\ x \notin ToSet(s)
<1>1. PICK t, n : t = Append(s, x) /\ n = Len(s)
  OBVIOUS
<1>2. /\ n \in Nat /\ DOMAIN s = 1..n /\ DOMAIN t = 1..(n + 1)
      /\ t[n + 1] = x /\ \A i \in 1..n : t[i] = s[i]
  BY <1>1
<1>3. /\ \A i \in 1..n : i \in 1..(n + 1) /\ i # n + 1
      /\ n + 1 \in 1..(n + 1)
      /\ \A i \in 1..(n + 1) : i \in 1..n \/ i = n + 1
  BY <1>2
<1>4. ToSet(t) = ToSet(s) \cup {x}
  BY <1>2, <1>3 DEF ToSet
<1>5. Once(t) => Once(s) /\ x \notin ToSet(s)
  BY <1>2, <1>3 DEF ToSet, Once
<1>6. Once(s) /\ x \notin ToSet(s) => Once(t)
  BY <1>2, <1>3 DEF ToSet, Once
<1>7. QED BY <1>1, <1>4, <1>5, <1>6

(* Only keeps the elements in S, and none twice. *)
LEMMA OnlyElements ==
  ASSUME NEW E, NEW s \in Seq(E), NEW S
  PROVE  /\ Only(s, S) \in Seq(E)
         /\ ToSet(Only(s, S)) = ToSet(s) \cap S
         /\ Once(s) => Once(Only(s, S))
<1> DEFINE Q(t) == /\ Only(t, S) \in Seq(E)
                   /\ ToSet(Only(t, S)) = ToSet(t) \cap S
                   /\ Once(t) => Once(Only(t, S))
<1> DEFINE P(n) == \A t \in Seq(E) : Len(t) = n => Q(t)
<1>1. P(0)
  <2>1. \A t \in Seq(E) : Len(t) = 0 => t = <<>>
    OBVIOUS
  <2>2. Only(<<>>, S) = <<>> /\ <<>> \in Seq(E) /\ ToSet(<<>>) = {}
    BY OnlyEmpty DEF ToSet
  <2>3. QED BY <2>1, <2>2
<1>2. ASSUME NEW n \in Nat, P(n)
      PROVE  P(n + 1)
  <2>1. SUFFICES ASSUME NEW u \in Seq(E), Len(u) = n + 1
                 PROVE  Q(u)
    OBVIOUS
  <2>2. PICK t \in Seq(E), x \in E : u = Append(t, x)
    <3>1. u # <<>>
      BY <2>1
    <3>2. QED BY <3>1, SequenceEmptyOrAppend
  <2>3. Len(t) = n
    BY <2>1, <2>2
  <2>4. Q(t)
    BY <1>2, <2>3
  <2>5. Only(u, S) = IF x \in S THEN Append(Only(t, S), x) ELSE Only(t, S)
    <3>1. Only(Append(t, x), S) = IF x \in S THEN Append(Only(t, S), x)
                                 ELSE Only(t, S)
      BY OnlyAppend
    <3>2. QED BY <2>2, <3>1
  <2>6. /\ ToSet(u) = ToSet(t) \cup {x}
        /\ Once(u) <=> Once(t) /\ x \notin ToSet(t)
    <3>1. /\ ToSet(Append(t, x)) = ToSet(t) \cup {x}
          /\ Once(Append(t, x)) <=> Once(t) /\ x \notin ToSet(t)
      BY AppendElements
    <3>2. QED BY <2>2, <3>1
  <2>7. CASE x \in S
    <3>1. PICK v : v = Only(t, S) /\ Only(u, S) = Append(v, x)
      BY <2>5, <2>7
    <3>2. /\ v \in Seq(E) /\ ToSet(v) = ToSet(t) \cap S
          /\ Once(t) => Once(v)
      BY <2>4, <3>1
    <3>3. /\ ToSet(Append(v, x)) = ToSet(v) \cup {x}
          /\ Once(Append(v, x)) <=> Once(v) /\ x \notin ToSet(v)
      BY <3>2, AppendElements
    <3>4. Append(v, x) \in Seq(E)
      BY <3>2
    <3>5. QED BY <2>6, <2>7, <3>1, <3>2, <3>3, <3>4
  <2>8. CASE x \notin S
    BY <2>4, <2>5, <2>6, <2>8
  <2>9. QED BY <2>7, <2>8
<1> HIDE DEF P
<1>3. \A n \in Nat : P(n)
  <2> DEFINE T == {n \in Nat : P(n)}
  <2>1. 0 \in T
    BY <1>1
  <2>2. \A n \in Nat : n \in T => n + 1 \in T
    BY <1>2
  <2> HIDE DEF T
  <2>3. Nat \subseteq T
    BY <2>1, <2>2, Induction
  <2>4. QED BY <2>3 DEF T
<1>4. Len(s) \in Nat /\ P(Len(s))
  BY <1>3
<1>5. QED BY <1>4 DEF P

-------------------------------------------------------------------------------
(* The range of a request. The remainders of the reference are what they are for
   numbers less than a day apart. *)
LEMMA Remainders ==
  /\ \A a, d \in Nat : a < d => a % d = a
  /\ \A a \in Int, d \in Nat : a < 0 /\ a + d >= 0 => a % d = a + d
<1>1. \A a, d \in Nat : a < d => a % d = a
  OBVIOUS
<1>2. \A a \in Int, d \in Nat : a < 0 /\ a + d >= 0 => a % d = a + d
  OBVIOUS
<1>3. QED BY <1>1, <1>2

LEMMA ClockIsLinear ==
  ASSUME NEW day \in Nat, NEW rest \in Nat,
         NEW from \in 0..(day - 1), NEW to \in 0..(day - 1), to + rest < day,
         NEW at \in 0..(day - 1),
         NEW x, x = (at - from) % day, NEW y, y = (to - from) % day
  PROVE  x <= y + rest <=> IF to < from THEN at >= from \/ at <= to + rest
                           ELSE at >= from /\ at <= to + rest
<1>1. x = IF at >= from THEN at - from ELSE (at - from) + day
  BY Remainders
<1>2. y = IF to >= from THEN to - from ELSE (to - from) + day
  BY Remainders
<1>3. QED BY <1>1, <1>2

IsLine(line) == line.word \in BOOLEAN /\ line.at \in Times

LEMMA NoRange ==
  ASSUME NEW r \in Requests
  PROVE  TimeRange(r) = None <=> r.start = None /\ r.end = None
<1>1. r.start \in Times /\ r.end \in Times
  BY DataAssumption
<1>2. PICK start, end : /\ start = IF r.start = None THEN r.end ELSE r.start
                        /\ end = IF r.end = None THEN r.start ELSE r.end
  OBVIOUS
<1>3. CASE ~(r.start = None /\ r.end = None)
  <2>1. start \in Int /\ end \in Int
    BY <1>1, <1>2, <1>3 DEF Times
  <2>2. EndBound(end) \in Int
    BY <2>1, ConstantsAssumption DEF EndBound, ConstantsAssumption
  <2>3. TimeRange(r) = [start |-> start, end |-> EndBound(end),
                        wraps |-> end < start]
    BY <1>2, <1>3 DEF TimeRange
  <2>4. TimeRange(r) \in [start : Int, end : Int, wraps : BOOLEAN]
    BY <2>1, <2>2, <2>3
  <2>5. QED BY <1>3, <2>4, DataAssumption
<1>4. CASE r.start = None /\ r.end = None
  BY <1>4 DEF TimeRange
<1>5. QED BY <1>3, <1>4

(* The condition of the awk script selects the lines that a reader of the request
   wants: the lines from the one time to the other as the clock goes round, over
   midnight where the range does, and to the end of the last second
   (inTimeRange in the script, resolveRequestedTimeRange, normalizeEndBound). *)
THEOREM AwkSelectsWanted ==
  ASSUME NEW r \in Requests, TimeRange(r) # None, NEW line, IsLine(line)
  PROVE  AwkSelects(line, r) <=> Wanted(line, r)
<1>1. r.start \in Times /\ r.end \in Times /\ line.at \in Times
  BY DataAssumption DEF IsLine
<1>2. r.start # None \/ r.end # None
  BY NoRange
<1>3. PICK from, to, at : /\ from = IF r.start = None THEN r.end ELSE r.start
                          /\ to = IF r.end = None THEN r.start ELSE r.end
                          /\ at = line.at
  OBVIOUS
<1>4. PICK day, second : day = MillisPerDay /\ second = MillisPerSecond
  OBVIOUS
<1>5. day \in Nat /\ second \in Nat \ {0}
  BY <1>4, ConstantsAssumption DEF ConstantsAssumption
<1>6. from \in 0..(day - 1) /\ to \in 0..(day - 1)
  BY <1>1, <1>2, <1>3, <1>4 DEF Times
<1>7. PICK rest : rest = IF to % second = 0 THEN second - 1 ELSE 0
  OBVIOUS
<1>8. rest \in Nat /\ to + rest < day /\ EndBound(to) = to + rest
  <2>1. to % second = 0 => to + second - 1 < day
    BY <1>4, <1>6, DataAssumption
  <2>2. EndBound(to) = IF to % second = 0 THEN to + second - 1 ELSE to
    BY <1>4 DEF EndBound
  <2>3. QED BY <1>5, <1>6, <1>7, <2>1, <2>2
<1>9. TimeRange(r) = [start |-> from, end |-> to + rest, wraps |-> to < from]
  BY <1>2, <1>3, <1>8 DEF TimeRange
<1>10. InTimeRange(at, TimeRange(r)) <=>
         /\ at # None
         /\ IF to < from THEN at >= from \/ at <= to + rest
                         ELSE at >= from /\ at <= to + rest
  <2>1. PICK range : range = TimeRange(r)
    OBVIOUS
  <2>2. range.start = from /\ range.end = to + rest /\ range.wraps = (to < from)
    BY <1>9, <2>1
  <2>3. QED BY <2>1, <2>2 DEF InTimeRange
<1>11. to = IF r.end = None THEN from ELSE r.end
  BY <1>2, <1>3
<1>12. AroundTheClock(at, r) <=>
         at # None /\ (at - from) % day <= ((to - from) % day) + rest
  BY <1>3, <1>4, <1>7, <1>11 DEF AroundTheClock
<1>13. AroundTheClock(at, r) <=> InTimeRange(at, TimeRange(r))
  <2>1. CASE at = None
    BY <1>10, <1>12, <2>1
  <2>2. CASE at # None
    <3>1. at \in 0..(day - 1)
      BY <1>1, <1>3, <1>4, <2>2 DEF Times
    <3>2. PICK x, y : x = (at - from) % day /\ y = (to - from) % day
      OBVIOUS
    <3>3. x <= y + rest <=> IF to < from THEN at >= from \/ at <= to + rest
                            ELSE at >= from /\ at <= to + rest
      BY <1>5, <1>6, <1>8, <3>1, <3>2, ClockIsLinear
    <3>4. QED BY <1>10, <1>12, <2>2, <3>2, <3>3
  <2>3. QED BY <2>1, <2>2
<1>14. QED BY <1>2, <1>3, <1>13 DEF AwkSelects, Wanted

LEMMA GrepSelectsWanted ==
  ASSUME NEW r \in Requests, TimeRange(r) = None, r.keyword, NEW line,
         IsLine(line)
  PROVE  line.word <=> Wanted(line, r)
BY NoRange DEF Wanted, IsLine

-------------------------------------------------------------------------------
(* What grep prints, and what the service makes of it.                         *)
HitsOf(f) == [file : {f}, line : Nat, before : Seq(Nat), after : Seq(Nat)]

GrepStates(f) == [hits : Seq(HitsOf(f)), rolling : Seq(Nat), current : BOOLEAN]

Separators == [kind : {"--"}]

PrintedLines == [kind : {"match", "context"}, line : Nat]

Printed == Separators \cup PrintedLines

GrepParsed(f, ctx, out) ==
  FoldLeft(LAMBDA s, printed : ParseGrepLine(s, printed, f, ctx), GrepStart, out)

LEMMA TailIn ==
  ASSUME NEW E, NEW s \in Seq(E), s # <<>>
  PROVE  Tail(s) \in Seq(E)
  BY HeadTailProperties

(* One line more in the context after hit k. *)
Grown(new, old, k, i) ==
  /\ Len(new) = Len(old)
  /\ \A j \in DOMAIN old : j # k => new[j] = old[j]
  /\ new[k].line = old[k].line /\ new[k].before = old[k].before
  /\ new[k].after = Append(old[k].after, i)

WithAfter(hits_, k, i) == [hits_ EXCEPT ![k].after = Append(@, i)]

LEMMA AfterGrows ==
  ASSUME NEW f, NEW hits_ \in Seq(HitsOf(f)), NEW k \in DOMAIN hits_, NEW i \in Nat
  PROVE  /\ WithAfter(hits_, k, i) \in Seq(HitsOf(f))
         /\ Grown(WithAfter(hits_, k, i), hits_, k, i)
<1>0. PICK new : new = [hits_ EXCEPT ![k].after = Append(@, i)]
  OBVIOUS
<1>1. PICK h : h = hits_[k]
  OBVIOUS
<1>2. h \in HitsOf(f) /\ h.after \in Seq(Nat) /\ h.file = f
  <2>1. h \in HitsOf(f)
    <3> HIDE DEF HitsOf
    <3>1. QED BY <1>1
  <2>2. QED BY <2>1 DEF HitsOf
<1>3. PICK after \in Seq(Nat) : after = Append(h.after, i)
  BY <1>2, AppendProperties
<1>4. PICK g : g = [h EXCEPT !.after = after]
  OBVIOUS
<1>5. /\ g \in HitsOf(f) /\ g.file = f /\ g.line = h.line /\ g.before = h.before
      /\ g.after = after
  BY <1>2, <1>4 DEF HitsOf
<1>6. new = [hits_ EXCEPT ![k] = g]
  BY <1>0, <1>1, <1>3, <1>4
<1> HIDE DEF HitsOf
<1>7. new \in Seq(HitsOf(f)) /\ Len(new) = Len(hits_)
  <2>1. k \in 1..Len(hits_)
    OBVIOUS
  <2>2. PICK E : E = HitsOf(f)
    OBVIOUS
  <2>3. hits_ \in Seq(E) /\ g \in E
    BY <1>5, <2>2
  <2>4. [hits_ EXCEPT ![k] = g] \in Seq(E) /\ Len([hits_ EXCEPT ![k] = g]) = Len(hits_)
    BY <2>1, <2>3, ExceptSeq
  <2>5. QED BY <1>6, <2>2, <2>4
<1>8. new[k] = g /\ \A j \in DOMAIN hits_ : j # k => new[j] = hits_[j]
  BY <1>6
<1>9. QED BY <1>0, <1>1, <1>3, <1>5, <1>7, <1>8 DEF Grown, WithAfter

(* A state is kept as one, whatever line is printed. *)
LEMMA ParseGrepTyped ==
  ASSUME NEW f, NEW ctx \in Nat, NEW s \in GrepStates(f), NEW printed \in Printed
  PROVE  ParseGrepLine(s, printed, f, ctx) \in GrepStates(f)
<1>1. s.hits \in Seq(HitsOf(f)) /\ s.rolling \in Seq(Nat) /\ s.current \in BOOLEAN
  BY DEF GrepStates
<1>2. CASE printed \in Separators
  <2>1. ParseGrepLine(s, printed, f, ctx)
          = [s EXCEPT !.rolling = <<>>, !.current = FALSE]
    BY <1>2 DEF ParseGrepLine, Separators
  <2>2. <<>> \in Seq(Nat)
    OBVIOUS
  <2>3. QED BY <2>1, <2>2 DEF GrepStates
<1>3. CASE printed \in PrintedLines /\ printed.kind = "match"
  <2>1. printed.line \in Nat
    BY <1>3 DEF PrintedLines
  <2>2. PICK h : h = Hit(f, printed.line, s.rolling)
    OBVIOUS
  <2>3. h \in HitsOf(f)
    BY <1>1, <2>1, <2>2 DEF Hit, HitsOf
  <2>4. Append(s.hits, h) \in Seq(HitsOf(f))
    BY <1>1, <2>3
  <2>5. ParseGrepLine(s, printed, f, ctx)
          = [hits |-> Append(s.hits, h), rolling |-> <<>>, current |-> TRUE]
    BY <1>3, <2>2 DEF ParseGrepLine
  <2>6. QED BY <2>4, <2>5 DEF GrepStates
<1>4. CASE printed \in PrintedLines /\ printed.kind = "context"
  <2>1. PICK i \in Nat : printed.line = i
    BY <1>4 DEF PrintedLines
  <2>2. PICK last : last = Len(s.hits)
    OBVIOUS
  <2>3. PICK rolling : rolling = Append(IF Len(s.rolling) >= ctx THEN Tail(s.rolling)
                                        ELSE s.rolling, i)
    OBVIOUS
  <2>4. PICK gs : gs = IF s.current /\ Len(s.hits[last].after) < ctx
                       THEN [s.hits EXCEPT ![last].after = Append(@, i)]
                       ELSE s.hits
    OBVIOUS
  <2>5. ParseGrepLine(s, printed, f, ctx)
          = [s EXCEPT !.rolling = rolling, !.hits = gs]
    <3>1. printed.kind = "context" /\ printed.kind # "--" /\ printed.kind # "match"
      BY <1>4
    <3>2. ParseGrepLine(s, printed, f, ctx)
            = [s EXCEPT !.rolling = Append(IF Len(s.rolling) >= ctx THEN Tail(@)
                                           ELSE @, i),
                        !.hits = IF s.current /\ Len(@[last].after) < ctx
                                 THEN [s.hits EXCEPT ![last].after = Append(@, i)]
                                 ELSE @]
      BY <2>1, <2>2, <3>1, Zenon DEF ParseGrepLine
    <3>3. QED BY <2>3, <2>4, <3>2, Zenon
  <2>6. rolling \in Seq(Nat)
    <3>1. Tail(s.rolling) \in Seq(Nat)
      <4>1. CASE s.rolling = <<>>
        <5>1. Tail(<<>>) \in Seq(Nat)
          BY DEF Tail
        <5>2. QED BY <4>1, <5>1
      <4>2. CASE s.rolling # <<>>
        BY <1>1, <4>2, TailIn
      <4>3. QED BY <4>1, <4>2
    <3>2. QED BY <1>1, <2>3, <3>1
  <2>7. gs \in Seq(HitsOf(f))
    <3>1. PICK new : new = [s.hits EXCEPT ![last].after = Append(@, i)]
      OBVIOUS
    <3>2. CASE s.hits = <<>>
      <4>1. new = s.hits
        BY <2>2, <3>1, <3>2
      <4>2. QED BY <1>1, <2>4, <3>1, <4>1
    <3>3. CASE s.hits # <<>>
      <4>1. last \in DOMAIN s.hits
        BY <1>1, <2>2, <3>3
      <4>2. new \in Seq(HitsOf(f))
        BY <1>1, <3>1, <4>1, AfterGrows DEF WithAfter
      <4>3. QED BY <1>1, <2>4, <3>1, <4>2
    <3>4. QED BY <3>2, <3>3
  <2>8. QED BY <2>5, <2>6, <2>7 DEF GrepStates
<1>5. QED BY <1>2, <1>3, <1>4 DEF Printed, PrintedLines

GrepStep(f, ctx) ==
  [p \in GrepStates(f) \X Printed |-> ParseGrepLine(p[1], p[2], f, ctx)]

LEMMA GrepParsedFolds ==
  ASSUME NEW f, NEW ctx \in Nat, NEW out \in Seq(Printed)
  PROVE  /\ GrepStep(f, ctx) \in [GrepStates(f) \X Printed -> GrepStates(f)]
         /\ FoldsTo(GrepStates(f), GrepStart, GrepStep(f, ctx), out,
                    GrepParsed(f, ctx, out))
<1> DEFINE s == out
<1> DEFINE n == Len(s)
<1> DEFINE V == GrepStates(f)
<1> DEFINE base == GrepStart
<1> DEFINE op(v, x) == ParseGrepLine(v, x, f, ctx)
<1> DEFINE step == GrepStep(f, ctx)
<1> DEFINE next(h, T) == IF T = {} THEN base
                         ELSE op(h[T \ {Max(T)}], s[Max(T)])
<1> DEFINE iter == CHOOSE h : h = [T \in SUBSET (1..n) |-> next(h, T)]
<1>1. s \in Seq(Printed) /\ n \in Nat /\ DOMAIN s = 1..n
  OBVIOUS
<1>2. base \in V
  BY DEF GrepStart, GrepStates
<1>3. \A v \in V, x \in Printed : op(v, x) \in V
  BY ParseGrepTyped
<1>4. /\ step \in [V \X Printed -> V]
      /\ \A v \in V, x \in Printed : step[<<v, x>>] = op(v, x)
  <2> HIDE DEF op, V
  <2>1. step = [p \in V \X Printed |-> op(p[1], p[2])]
    BY DEF GrepStep, op, V
  <2> HIDE DEF step
  <2>2. QED BY <1>3, <2>1
<1>5. GrepParsed(f, ctx, out) = iter[1..n]
  BY <1>1 DEF GrepParsed, FoldLeft, MapThenFoldSet
<1> HIDE DEF op, step, V, base, n, s
<1>6. \A T \in SUBSET (1..n) : T # {} =>
        s[Max(T)] \in Printed /\ T \ {Max(T)} \in SUBSET (1..n)
  <2>1. ASSUME NEW T \in SUBSET (1..n), T # {}
        PROVE  s[Max(T)] \in Printed
    <3>1. Max(T) \in 1..n
      BY <1>1, <2>1, MaxIn
    <3>2. QED BY <1>1, <3>1
  <2>2. QED BY <2>1
<1>7. PICK g \in [SUBSET (1..n) -> V] : Folds(g, base, step, s, n)
  BY <1>1, <1>2, <1>4, FoldExists DEF n
<1>8. \A T \in SUBSET (1..n) : g[T] = next(g, T)
  BY <1>4, <1>6, <1>7 DEF Folds
<1>9. iter = [T \in SUBSET (1..n) |-> next(iter, T)]
  <2> HIDE DEF next
  <2>1. g = [T \in SUBSET (1..n) |-> next(g, T)]
    BY <1>8
  <2>2. QED BY <2>1
<1> HIDE DEF iter
<1>10. \A T \in SUBSET (1..n) : iter[T] = next(iter, T)
  <2> HIDE DEF next
  <2>1. QED BY <1>9
<1>11. FoldsTyped(iter, V, base, step, s)
  <2>1. {} \in SUBSET (1..n)
    OBVIOUS
  <2>2. QED BY <1>4, <1>6, <1>10, <2>1 DEF FoldsTyped, n
<1>12. FoldsTo(V, base, step, s, iter[1..n])
  BY <1>1, <1>2, <1>4, <1>11, FoldTrace DEF n
<1>13. QED BY <1>4, <1>5, <1>12 DEF step, V, base, s

LEMMA GrepParsedAppend ==
  ASSUME NEW f, NEW ctx \in Nat, NEW out \in Seq(Printed), NEW x \in Printed
  PROVE  /\ GrepParsed(f, ctx, out) \in GrepStates(f)
         /\ GrepParsed(f, ctx, Append(out, x))
              = ParseGrepLine(GrepParsed(f, ctx, out), x, f, ctx)
<1>1. PICK t \in Seq(Printed) : t = Append(out, x)
  BY AppendProperties
<1>2. PICK v, w : v = GrepParsed(f, ctx, out) /\ w = GrepParsed(f, ctx, t)
  OBVIOUS
<1>3. /\ FoldsTo(GrepStates(f), GrepStart, GrepStep(f, ctx), out, v)
      /\ FoldsTo(GrepStates(f), GrepStart, GrepStep(f, ctx), t, w)
  BY <1>2, GrepParsedFolds
<1>4. v \in GrepStates(f) /\ w = GrepStep(f, ctx)[<<v, x>>]
  BY <1>1, <1>3, FoldsAppend
<1>5. w = ParseGrepLine(v, x, f, ctx)
  BY <1>4 DEF GrepStep
<1>6. QED BY <1>1, <1>2, <1>4, <1>5

LEMMA GrepParsedEmpty ==
  ASSUME NEW f, NEW ctx \in Nat
  PROVE  GrepParsed(f, ctx, <<>>) = GrepStart
<1>1. <<>> \in Seq(Printed)
  OBVIOUS
<1>2. QED BY <1>1, GrepParsedFolds, FoldsEmpty

Words(content) == {i \in DOMAIN content : content[i].word}

(* The first limit of the lines in W. *)
Count(W, i) == Cardinality({j \in W : j <= i})

Firsts(W, limit) == {i \in W : Count(W, i) <= limit}

Matches(content, limit) == Firsts(Words(content), limit)

IsPrinted(content, ctx, limit, i) ==
  \/ i \in Matches(content, limit)
  \/ /\ i \in DOMAIN content \ Words(content)
     /\ \E m \in Matches(content, limit) : i \in (m - ctx)..(m + ctx)
     /\ \A j \in Words(content) \ Matches(content, limit) : i < j

Separated(content, ctx, limit, i) ==
  /\ ctx > 0
  /\ ~IsPrinted(content, ctx, limit, i - 1)
  /\ \E j \in 1..(i - 1) : IsPrinted(content, ctx, limit, j)

PrintedLine(content, limit, i) ==
  [kind |-> IF i \in Matches(content, limit) THEN "match" ELSE "context", line |-> i]

WithLine(out, content, ctx, limit, i) ==
  IF ~IsPrinted(content, ctx, limit, i) THEN out
  ELSE IF Separated(content, ctx, limit, i)
       THEN out \o << [kind |-> "--"], PrintedLine(content, limit, i) >>
       ELSE Append(out, PrintedLine(content, limit, i))

OutputStep(content, ctx, limit) ==
  [p \in Seq(Printed) \X Nat |-> WithLine(p[1], content, ctx, limit, p[2])]

(* The numbers of the lines, as FoldLeftDomain goes through them. *)
Numbers(content) == [i \in DOMAIN content |-> i]

LEMMA NumbersOfLines ==
  ASSUME NEW E, NEW content \in Seq(E)
  PROVE  /\ Numbers(content) \in Seq(Nat) /\ Len(Numbers(content)) = Len(content)
         /\ \A i \in 1..Len(content) : Numbers(content)[i] = i
<1>1. DOMAIN content = 1..Len(content) /\ Len(content) \in Nat
  OBVIOUS
<1>2. \A i \in 1..Len(content) : i \in Nat
  BY <1>1
<1>3. PICK n \in Nat : n = Len(content)
  BY <1>1
<1>4. PICK s : s = [i \in 1..n |-> i]
  OBVIOUS
<1>5. s \in [1..n -> Nat]
  BY <1>2, <1>3, <1>4
<1>6. s \in Seq(Nat) /\ Len(s) = n
  BY <1>5
<1>7. \A i \in 1..n : s[i] = i
  BY <1>4
<1>8. QED BY <1>1, <1>3, <1>4, <1>6, <1>7 DEF Numbers

LEMMA PrintedLineIn ==
  ASSUME NEW content, NEW limit, NEW i \in Nat
  PROVE  PrintedLine(content, limit, i) \in Printed
  BY DEF PrintedLine, Printed, PrintedLines

LEMMA WithLineTyped ==
  ASSUME NEW out \in Seq(Printed), NEW content, NEW ctx, NEW limit, NEW i \in Nat
  PROVE  WithLine(out, content, ctx, limit, i) \in Seq(Printed)
<1>1. PICK line \in Printed : line = PrintedLine(content, limit, i)
  BY PrintedLineIn
<1>2. PICK sep \in Printed : sep = [kind |-> "--"]
  BY DEF Printed, Separators
<1>3. <<sep, line>> \in Seq(Printed)
  OBVIOUS
<1>4. out \o <<sep, line>> \in Seq(Printed)
  BY <1>3, ConcatProperties
<1>5. Append(out, line) \in Seq(Printed)
  BY AppendProperties
<1>6. QED BY <1>1, <1>2, <1>4, <1>5 DEF WithLine

LEMMA GrepOutputFolds ==
  ASSUME NEW content \in Contents, NEW ctx, NEW limit
  PROVE  /\ OutputStep(content, ctx, limit) \in [Seq(Printed) \X Nat -> Seq(Printed)]
         /\ FoldsTo(Seq(Printed), <<>>, OutputStep(content, ctx, limit), Numbers(content),
                    GrepOutput(content, ctx, limit))
<1> DEFINE s == Numbers(content)
<1> DEFINE n == Len(s)
<1> DEFINE V == Seq(Printed)
<1> DEFINE base == <<>>
<1> DEFINE op(v, x) == WithLine(v, content, ctx, limit, x)
<1> DEFINE step == OutputStep(content, ctx, limit)
<1> DEFINE next(h, T) == IF T = {} THEN base
                         ELSE op(h[T \ {Max(T)}], s[Max(T)])
<1> DEFINE iter == CHOOSE h : h = [T \in SUBSET (1..n) |-> next(h, T)]
<1>1. s \in Seq(Nat) /\ n \in Nat /\ DOMAIN s = 1..n
  BY DataAssumption, NumbersOfLines
<1>2. base \in V
  OBVIOUS
<1>3. \A v \in V, x \in Nat : op(v, x) \in V
  BY WithLineTyped
<1>4. /\ step \in [V \X Nat -> V]
      /\ \A v \in V, x \in Nat : step[<<v, x>>] = op(v, x)
  <2> HIDE DEF op, V
  <2>1. step = [p \in V \X Nat |-> op(p[1], p[2])]
    BY DEF OutputStep, op, V
  <2> HIDE DEF step
  <2>2. QED BY <1>3, <2>1
<1>5. GrepOutput(content, ctx, limit) = iter[1..n]
  BY <1>1 DEF GrepOutput, FoldLeftDomain, FoldLeft, MapThenFoldSet,
         WithLine, PrintedLine, Separated, IsPrinted, Matches, Firsts, Count, Words,
         Numbers
<1> HIDE DEF op, step, V, base, n, s
<1>6. \A T \in SUBSET (1..n) : T # {} =>
        s[Max(T)] \in Nat /\ T \ {Max(T)} \in SUBSET (1..n)
  <2>1. ASSUME NEW T \in SUBSET (1..n), T # {}
        PROVE  s[Max(T)] \in Nat
    <3>1. Max(T) \in 1..n
      BY <1>1, <2>1, MaxIn
    <3>2. QED BY <1>1, <3>1
  <2>2. QED BY <2>1
<1>7. PICK g \in [SUBSET (1..n) -> V] : Folds(g, base, step, s, n)
  BY <1>1, <1>2, <1>4, FoldExists DEF n
<1>8. \A T \in SUBSET (1..n) : g[T] = next(g, T)
  BY <1>4, <1>6, <1>7 DEF Folds
<1>9. iter = [T \in SUBSET (1..n) |-> next(iter, T)]
  <2> HIDE DEF next
  <2>1. g = [T \in SUBSET (1..n) |-> next(g, T)]
    BY <1>8
  <2>2. QED BY <2>1
<1> HIDE DEF iter
<1>10. \A T \in SUBSET (1..n) : iter[T] = next(iter, T)
  <2> HIDE DEF next
  <2>1. QED BY <1>9
<1>11. FoldsTyped(iter, V, base, step, s)
  <2>1. {} \in SUBSET (1..n)
    OBVIOUS
  <2>2. QED BY <1>4, <1>6, <1>10, <2>1 DEF FoldsTyped, n
<1>12. FoldsTo(V, base, step, s, iter[1..n])
  BY <1>1, <1>2, <1>4, <1>11, FoldTrace DEF n
<1>13. QED BY <1>4, <1>5, <1>12 DEF step, V, base, s

-------------------------------------------------------------------------------
(* The first lines of a set, and the hits that are them.                       *)
LineSet(W, n) == \A w \in W : w \in 1..n

LEMMA CountNext ==
  ASSUME NEW n \in Nat, NEW W, LineSet(W, n), NEW i \in Nat
  PROVE  /\ Count(W, i) \in Nat /\ Count(W, 0) = 0
         /\ Count(W, i + 1) = IF i + 1 \in W THEN Count(W, i) + 1 ELSE Count(W, i)
<1>1. PICK A, B : A = {j \in W : j <= i} /\ B = {j \in W : j <= i + 1}
  OBVIOUS
<1>2. IsFiniteSet(A)
  <2>1. A \subseteq 1..n /\ IsFiniteSet(1..n)
    BY <1>1, FS_Interval DEF LineSet
  <2>2. QED BY <2>1, FS_Subset
<1>3. i + 1 \notin A /\ B = IF i + 1 \in W THEN A \cup {i + 1} ELSE A
  BY <1>1 DEF LineSet
<1>4. Cardinality(A \cup {i + 1}) = Cardinality(A) + 1
  BY <1>2, <1>3, FS_AddElement
<1>5. {j \in W : j <= 0} = {}
  BY DEF LineSet
<1>6. Cardinality(A) \in Nat /\ Cardinality({}) = 0
  BY <1>2, FS_CardinalityType, FS_EmptySet
<1>7. QED BY <1>1, <1>3, <1>4, <1>5, <1>6 DEF Count

LEMMA CountGrows ==
  ASSUME NEW n \in Nat, NEW W, LineSet(W, n), NEW i \in Nat, NEW j \in Nat, i <= j
  PROVE  Count(W, i) <= Count(W, j)
<1>1. PICK A, B : A = {k \in W : k <= i} /\ B = {k \in W : k <= j}
  OBVIOUS
<1>2. A \subseteq B /\ B \subseteq 1..n /\ IsFiniteSet(1..n)
  BY <1>1, FS_Interval DEF LineSet
<1>3. IsFiniteSet(B)
  BY <1>2, FS_Subset
<1>4. QED BY <1>1, <1>2, <1>3, FS_Subset DEF Count

LEMMA FirstsFirst ==
  ASSUME NEW n \in Nat, NEW W, LineSet(W, n), NEW limit \in Nat
  PROVE  /\ Firsts(W, limit) \subseteq W
         /\ \A m \in Firsts(W, limit), w \in W : w <= m => w \in Firsts(W, limit)
         /\ \A i \in Nat : Count(W, i) <= limit =>
              \A w \in W : w <= i => w \in Firsts(W, limit)
         /\ \A i \in Nat : i + 1 \in Firsts(W, limit) <=>
                             i + 1 \in W /\ Count(W, i) < limit
<1>1. \A m \in W : m \in Nat /\ Count(W, m) \in Nat
  BY CountNext DEF LineSet
<1>2. Firsts(W, limit) \subseteq W
  BY DEF Firsts
<1>3. ASSUME NEW m \in Firsts(W, limit), NEW w \in W, w <= m
      PROVE  w \in Firsts(W, limit)
  <2>1. Count(W, w) <= Count(W, m) /\ Count(W, m) <= limit
    BY <1>1, <1>3, CountGrows DEF Firsts
  <2>2. QED BY <1>1, <1>2, <2>1 DEF Firsts
<1>4. ASSUME NEW i \in Nat, Count(W, i) <= limit, NEW w \in W, w <= i
      PROVE  w \in Firsts(W, limit)
  <2>1. Count(W, w) <= Count(W, i) /\ Count(W, i) \in Nat
    BY <1>1, <1>4, CountGrows, CountNext
  <2>2. QED BY <1>1, <1>4, <2>1 DEF Firsts
<1>5. ASSUME NEW i \in Nat
      PROVE  i + 1 \in Firsts(W, limit) <=> i + 1 \in W /\ Count(W, i) < limit
  <2>1. Count(W, i) \in Nat /\ (i + 1 \in W => Count(W, i + 1) = Count(W, i) + 1)
    BY CountNext
  <2>2. QED BY <2>1 DEF Firsts
<1>6. QED BY <1>2, <1>3, <1>4, <1>5

LEMMA FirstsAreLines ==
  ASSUME NEW n \in Nat, NEW W, LineSet(W, n), NEW limit
  PROVE  \A m \in Firsts(W, limit) : m \in Nat /\ m >= 1 /\ m <= n
  BY DEF LineSet, Firsts

FirstHits(hits_, W, limit, i) ==
  /\ Len(hits_) = IF Count(W, i) <= limit THEN Count(W, i) ELSE limit
  /\ \A k \in DOMAIN hits_ : hits_[k].line \in Firsts(W, limit) /\ hits_[k].line <= i
  /\ \A j, k \in DOMAIN hits_ : j < k => hits_[j].line < hits_[k].line
  /\ \A m \in Firsts(W, limit) : m <= i => \E k \in DOMAIN hits_ : hits_[k].line = m

LEMMA FirstHitsNone ==
  ASSUME NEW n \in Nat, NEW W, LineSet(W, n), NEW limit \in Nat
  PROVE  FirstHits(<<>>, W, limit, 0)
<1>1. Count(W, 0) = 0 /\ Len(<<>>) = 0 /\ DOMAIN <<>> = {}
  BY CountNext
<1>2. \A m \in Firsts(W, limit) : ~(m <= 0)
  BY FirstsAreLines
<1>3. QED BY <1>1, <1>2 DEF FirstHits

LEMMA FirstHitsSame ==
  ASSUME NEW n \in Nat, NEW W, LineSet(W, n), NEW limit \in Nat, NEW i \in Nat,
         NEW E, NEW s \in Seq(E), FirstHits(s, W, limit, i),
         i + 1 \notin Firsts(W, limit),
         NEW new \in Seq(E), Len(new) = Len(s),
         \A k \in DOMAIN s : new[k].line = s[k].line
  PROVE  FirstHits(new, W, limit, i + 1)
<1>1. DOMAIN new = DOMAIN s
  OBVIOUS
<1>2. \A m \in Firsts(W, limit) : m \in Nat
  BY FirstsAreLines
<1>3. Len(new) = IF Count(W, i + 1) <= limit THEN Count(W, i + 1) ELSE limit
  <2>1. Len(s) = IF Count(W, i) <= limit THEN Count(W, i) ELSE limit
    BY DEF FirstHits
  <2>2. /\ Count(W, i) \in Nat
        /\ Count(W, i + 1) = IF i + 1 \in W THEN Count(W, i) + 1 ELSE Count(W, i)
    BY CountNext
  <2>3. i + 1 \in W => Count(W, i) >= limit
    <3>1. ~(i + 1 \in W /\ Count(W, i) < limit)
      BY FirstsFirst
    <3>2. QED BY <2>2, <3>1
  <2>4. QED BY <2>1, <2>2, <2>3
<1>4. \A k \in DOMAIN new : new[k].line \in Firsts(W, limit) /\ new[k].line <= i + 1
  BY <1>1, <1>2 DEF FirstHits
<1>5. \A j, k \in DOMAIN new : j < k => new[j].line < new[k].line
  BY <1>1 DEF FirstHits
<1>6. \A m \in Firsts(W, limit) : m <= i + 1 => \E k \in DOMAIN new : new[k].line = m
  <2>1. \A m \in Firsts(W, limit) : m <= i + 1 => m <= i
    BY <1>2
  <2>2. \A m \in Firsts(W, limit) : m <= i => \E k \in DOMAIN s : s[k].line = m
    BY DEF FirstHits
  <2>3. QED BY <1>1, <2>1, <2>2
<1>7. QED BY <1>3, <1>4, <1>5, <1>6 DEF FirstHits

LEMMA FirstHitsMore ==
  ASSUME NEW n \in Nat, NEW W, LineSet(W, n), NEW limit \in Nat, NEW i \in Nat,
         NEW E, NEW s \in Seq(E), FirstHits(s, W, limit, i),
         i + 1 \in Firsts(W, limit),
         NEW new \in Seq(E), Len(new) = Len(s) + 1, new[Len(s) + 1].line = i + 1,
         \A k \in DOMAIN s : new[k].line = s[k].line
  PROVE  FirstHits(new, W, limit, i + 1)
<1>1. PICK last \in Nat : last = Len(s)
  OBVIOUS
<1>2. /\ DOMAIN s = 1..last /\ DOMAIN new = 1..(last + 1)
      /\ last + 1 \in 1..(last + 1) /\ \A k \in 1..last : k \in 1..(last + 1)
      /\ \A k \in 1..(last + 1) : k \in 1..last \/ k = last + 1
  BY <1>1
<1>3. \A m \in Firsts(W, limit) : m \in Nat
  BY FirstsAreLines
<1>4. \A k \in 1..last : s[k].line \in Nat /\ s[k].line <= i
  BY <1>2, <1>3 DEF FirstHits
<1>5. Len(new) = IF Count(W, i + 1) <= limit THEN Count(W, i + 1) ELSE limit
  <2>1. Len(s) = IF Count(W, i) <= limit THEN Count(W, i) ELSE limit
    BY DEF FirstHits
  <2>2. i + 1 \in W /\ Count(W, i) < limit
    BY FirstsFirst
  <2>3. Count(W, i) \in Nat /\ Count(W, i + 1) = Count(W, i) + 1
    BY <2>2, CountNext
  <2>4. QED BY <2>1, <2>2, <2>3
<1>6. \A k \in DOMAIN new : new[k].line \in Firsts(W, limit) /\ new[k].line <= i + 1
  <2>1. \A k \in 1..last : new[k].line \in Firsts(W, limit) /\ new[k].line <= i + 1
    <3>1. \A k \in 1..last : s[k].line \in Firsts(W, limit)
      BY <1>2 DEF FirstHits
    <3>2. \A k \in 1..last : s[k].line <= i + 1
      BY <1>4
    <3>3. QED BY <1>2, <3>1, <3>2
  <2>2. QED BY <1>1, <1>2, <2>1
<1>7. \A j, k \in DOMAIN new : j < k => new[j].line < new[k].line
  <2>1. ASSUME NEW j \in 1..(last + 1), NEW k \in 1..(last + 1), j < k
        PROVE  new[j].line < new[k].line
    <3>1. j \in 1..last
      BY <2>1
    <3>2. CASE k \in 1..last
      BY <1>2, <2>1, <3>1, <3>2 DEF FirstHits
    <3>3. CASE k = last + 1
      BY <1>1, <1>2, <1>4, <3>1, <3>3
    <3>4. QED BY <1>2, <3>2, <3>3
  <2>2. QED BY <1>2, <2>1
<1>8. \A m \in Firsts(W, limit) : m <= i + 1 => \E k \in DOMAIN new : new[k].line = m
  <2>1. \A m \in Firsts(W, limit) : m <= i + 1 => m <= i \/ m = i + 1
    BY <1>3
  <2>2. \A m \in Firsts(W, limit) : m <= i => \E k \in DOMAIN s : s[k].line = m
    BY DEF FirstHits
  <2>3. \A m \in Firsts(W, limit) : m <= i => \E k \in DOMAIN new : new[k].line = m
    BY <1>2, <2>2
  <2>4. \E k \in DOMAIN new : new[k].line = i + 1
    BY <1>1, <1>2
  <2>5. QED BY <2>1, <2>3, <2>4
<1>9. QED BY <1>5, <1>6, <1>7, <1>8 DEF FirstHits

-------------------------------------------------------------------------------
(* A line that grep prints is parsed before the next one; so what the service
   has after a line says what it has parsed of the lines as far as that one.    *)
WordsAreLines(content, n) == DOMAIN content = 1..n /\ LineSet(Words(content), n)

LEMMA MatchesFirst ==
  ASSUME NEW n \in Nat, NEW content, WordsAreLines(content, n), NEW limit \in Nat
  PROVE  /\ Matches(content, limit) \subseteq Words(content)
         /\ \A w \in Words(content) : w \in Nat /\ w >= 1 /\ w <= n
         /\ \A m \in Matches(content, limit), w \in Words(content) :
              w <= m => w \in Matches(content, limit)
<1>1. LineSet(Words(content), n)
  BY DEF WordsAreLines
<1>2. \A w \in Words(content) : w \in Nat /\ w >= 1 /\ w <= n
  BY <1>1 DEF LineSet
<1>3. QED BY <1>1, <1>2, FirstsFirst DEF Matches

(* A line near a hit is printed, unless a line with the keyword lies between. *)
LEMMA NearIsPrinted ==
  ASSUME NEW n \in Nat, NEW content, WordsAreLines(content, n), NEW limit \in Nat,
         NEW ctx \in Nat, NEW m \in Matches(content, limit),
         NEW i \in 1..n, i \notin Words(content),
         \/ i < m /\ m <= i + ctx
         \/ /\ m < i /\ i <= m + ctx
            /\ \A w \in Words(content) : w <= m \/ w > i
  PROVE  IsPrinted(content, ctx, limit, i)
<1>1. i \in DOMAIN content /\ i \in Nat
  BY DEF WordsAreLines
<1>2. /\ \A w \in Words(content) : w \in Nat
      /\ \A w \in Words(content) : w <= m => w \in Matches(content, limit)
      /\ m \in Words(content)
  BY MatchesFirst
<1>3. m \in Nat
  BY <1>2
<1>4. i \in (m - ctx)..(m + ctx)
  BY <1>1, <1>3
<1>5. \A j \in Words(content) \ Matches(content, limit) : i < j
  BY <1>1, <1>2, <1>3
<1>6. QED BY <1>1, <1>4, <1>5 DEF IsPrinted

LEMMA ContextLinePrinted ==
  ASSUME NEW n \in Nat, NEW content, WordsAreLines(content, n), NEW limit \in Nat,
         NEW ctx \in Nat, NEW i \in Nat, IsPrinted(content, ctx, limit, i),
         i \notin Matches(content, limit)
  PROVE  /\ i \notin Words(content) /\ ctx > 0
         /\ \A w \in Words(content) : w <= i => w \in Matches(content, limit)
<1>1. PICK m \in Matches(content, limit) : i \in (m - ctx)..(m + ctx)
  BY DEF IsPrinted
<1>2. i \notin Words(content)
  BY DEF IsPrinted
<1>3. m # i /\ m \in Nat
  BY <1>1, MatchesFirst
<1>4. ctx > 0
  BY <1>1, <1>3
<1>5. \A j \in Words(content) \ Matches(content, limit) : i < j
  BY DEF IsPrinted
<1>6. \A w \in Words(content) : w \in Nat
  BY MatchesFirst
<1>7. QED BY <1>2, <1>4, <1>5, <1>6

(* The context before and after a hit: consecutive lines up to it and from it,
   none of them in W, and as many as there may be. *)
BeforeExact(h, W, ctx) ==
  /\ Len(h.before) <= ctx /\ Len(h.before) < h.line
  /\ \A x \in 1..Len(h.before) :
       h.before[x] = (h.line - 1 - Len(h.before)) + x
  /\ \A w \in W : w >= h.line \/ w < h.line - Len(h.before)
  /\ \/ Len(h.before) = ctx \/ h.line - Len(h.before) = 1
     \/ h.line - Len(h.before) - 1 \in W

AfterExact(h, W, ctx, e) ==
  /\ Len(h.after) <= ctx /\ h.line + Len(h.after) <= e
  /\ \A x \in 1..Len(h.after) : h.after[x] = h.line + x
  /\ \A w \in W : w <= h.line \/ w > h.line + Len(h.after)
  /\ \/ Len(h.after) = ctx \/ h.line + Len(h.after) = e
     \/ h.line + Len(h.after) + 1 \in W

(* The lines of rolling end with line i, and reach back to a line with the
   keyword or one that is not printed, if there are fewer than ctx of them. *)
RollingReady(rolling, content, ctx, limit, i) ==
  /\ Len(rolling) <= i /\ Len(rolling) <= ctx
  /\ \A x \in 1..Len(rolling) : rolling[x] = (i - Len(rolling)) + x
  /\ \A w \in Words(content) : w <= i - Len(rolling) \/ w > i
  /\ \/ Len(rolling) = ctx \/ i = Len(rolling)
     \/ i - Len(rolling) \in Words(content)
     \/ ~IsPrinted(content, ctx, limit, i - Len(rolling))

RollingExact(rolling, content, ctx, limit, i) ==
  /\ Len(rolling) <= ctx
  /\ (\A j \in 1..i : ~IsPrinted(content, ctx, limit, j)) => rolling = <<>>
  /\ i > 0 /\ IsPrinted(content, ctx, limit, i) =>
       RollingReady(rolling, content, ctx, limit, i)

(* The last hit is the current one as long as its context may go on. *)
CurrentExact(p, W, ctx, i) ==
  p.hits # <<>> =>
    LET a == p.hits[Len(p.hits)].line
    IN  (\A w \in W : w <= a \/ w > i) /\ i <= a + ctx => p.current

GrepInv(p, f, content, ctx, limit, i) ==
  /\ p \in GrepStates(f)
  /\ FirstHits(p.hits, Words(content), limit, i)
  /\ \A k \in DOMAIN p.hits : /\ BeforeExact(p.hits[k], Words(content), ctx)
                              /\ AfterExact(p.hits[k], Words(content), ctx, i)
  /\ CurrentExact(p, Words(content), ctx, i)
  /\ RollingExact(p.rolling, content, ctx, limit, i)

(* When the next line is printed, rolling is what it must be, once a line between
   groups has emptied it. *)
LEMMA RollingIsReady ==
  ASSUME NEW content, NEW ctx \in Nat, NEW limit \in Nat, NEW i \in Nat,
         NEW rolling \in Seq(Nat), RollingExact(rolling, content, ctx, limit, i),
         NEW r, r = IF Separated(content, ctx, limit, i + 1) THEN <<>> ELSE rolling,
         \A w \in Words(content) : w \in Nat /\ w >= 1
  PROVE  RollingReady(r, content, ctx, limit, i)
<1>1. (i + 1) - 1 = i /\ Len(rolling) \in Nat
  OBVIOUS
<1>2. CASE r = <<>> /\ (i = 0 \/ ctx = 0 \/ ~IsPrinted(content, ctx, limit, i))
  <2>1. Len(r) = 0 /\ 1..0 = {}
    BY <1>2
  <2>2. PICK j : j = i - Len(r)
    OBVIOUS
  <2>3. j = i
    BY <2>1, <2>2
  <2>4. \A w \in Words(content) : w <= j \/ w > i
    BY <2>3
  <2>5. Len(r) = ctx \/ i = Len(r) \/ ~IsPrinted(content, ctx, limit, j)
    BY <1>2, <2>1, <2>3
  <2>6. Len(r) <= i /\ Len(r) <= ctx /\ 1..Len(r) = {}
    BY <2>1
  <2>7. \/ Len(r) = ctx \/ i = Len(r)
        \/ ~IsPrinted(content, ctx, limit, i - Len(r))
    BY <2>2, <2>5
  <2>8. \A w \in Words(content) : w <= i - Len(r) \/ w > i
    BY <2>2, <2>4
  <2>9. QED BY <2>6, <2>7, <2>8 DEF RollingReady
<1>3. CASE i > 0 /\ IsPrinted(content, ctx, limit, i)
  <2>1. r = rolling
    BY <1>1, <1>3 DEF Separated
  <2>2. QED BY <1>3, <2>1 DEF RollingExact
<1>4. CASE ctx = 0
  <2>1. r = <<>>
    BY <1>1, <1>4 DEF RollingExact
  <2>2. QED BY <1>2, <1>4, <2>1
<1>5. CASE i = 0
  <2>1. 1..i = {}
    BY <1>5
  <2>2. r = <<>>
    BY <2>1 DEF RollingExact
  <2>3. QED BY <1>2, <1>5, <2>2
<1>6. CASE ctx > 0 /\ i > 0 /\ ~IsPrinted(content, ctx, limit, i)
  <2>1. r = <<>>
    BY <1>1, <1>6 DEF RollingExact, Separated
  <2>2. QED BY <1>2, <1>6, <2>1
<1>7. QED BY <1>3, <1>4, <1>5, <1>6

LEMMA BeforeIsExact ==
  ASSUME NEW n \in Nat, NEW content, WordsAreLines(content, n), NEW limit \in Nat,
         NEW ctx \in Nat, NEW i \in Nat, i + 1 <= n,
         i + 1 \in Matches(content, limit), NEW f,
         NEW r \in Seq(Nat), RollingReady(r, content, ctx, limit, i)
  PROVE  BeforeExact(Hit(f, i + 1, r), Words(content), ctx)
<1>1. PICK h : h = Hit(f, i + 1, r)
  OBVIOUS
<1>2. h.line = i + 1 /\ h.before = r
  BY <1>1 DEF Hit
<1>3. PICK L \in Nat : L = Len(r)
  OBVIOUS
<1>4. L <= i /\ L <= ctx
  BY <1>3 DEF RollingReady
<1>5. \A x \in 1..L : r[x] = ((i + 1) - 1 - L) + x
  BY <1>3 DEF RollingReady
<1>6. \A w \in Words(content) : w >= i + 1 \/ w < (i + 1) - L
  <2>1. \A w \in Words(content) : w \in Nat
    BY MatchesFirst
  <2>2. \A w \in Words(content) : w <= i - L \/ w > i
    BY <1>3 DEF RollingReady
  <2>3. QED BY <1>3, <2>1, <2>2
<1>7. L = ctx \/ (i + 1) - L = 1 \/ (i + 1) - L - 1 \in Words(content)
  <2>1. SUFFICES ASSUME L < ctx, L < i, i - L \notin Words(content) PROVE FALSE
    <3>1. (i + 1) - L - 1 = i - L
      BY <1>3
    <3>2. QED BY <1>3, <1>4, <3>1
  <2>2. /\ i - L \in 1..n /\ i - L < i + 1 /\ i + 1 <= (i - L) + ctx
    BY <1>3, <2>1
  <2>3. IsPrinted(content, ctx, limit, i - L)
    BY <2>1, <2>2, NearIsPrinted
  <2>4. QED BY <1>3, <2>1, <2>3 DEF RollingReady
<1>8. BeforeExact(h, Words(content), ctx)
  BY <1>2, <1>3, <1>4, <1>5, <1>6, <1>7 DEF BeforeExact
<1>9. QED BY <1>1, <1>8

LEMMA RollingSkips ==
  ASSUME NEW content, NEW ctx \in Nat, NEW limit \in Nat, NEW i \in Nat,
         NEW rolling, RollingExact(rolling, content, ctx, limit, i),
         ~IsPrinted(content, ctx, limit, i + 1)
  PROVE  RollingExact(rolling, content, ctx, limit, i + 1)
<1>1. \A j \in 1..i : j \in 1..(i + 1)
  OBVIOUS
<1>2. QED BY <1>1 DEF RollingExact

LEMMA RollingAtMatch ==
  ASSUME NEW content, NEW ctx \in Nat, NEW limit \in Nat, NEW i \in Nat,
         i + 1 \in Matches(content, limit), i + 1 \in Words(content),
         \A w \in Words(content) : w \in Nat
  PROVE  RollingExact(<<>>, content, ctx, limit, i + 1)
<1>1. Len(<<>>) = 0 /\ 1..0 = {} /\ (i + 1) - 0 = i + 1
  OBVIOUS
<1>2. i + 1 \in 1..(i + 1)
  OBVIOUS
<1>3. \A w \in Words(content) : w <= i + 1 \/ w > i + 1
  OBVIOUS
<1>4. RollingReady(<<>>, content, ctx, limit, i + 1)
  BY <1>1, <1>3 DEF RollingReady
<1>5. QED BY <1>1, <1>4 DEF RollingExact

LEMMA RollingAtContext ==
  ASSUME NEW content, NEW ctx \in Nat, NEW limit \in Nat, NEW i \in Nat,
         IsPrinted(content, ctx, limit, i + 1), i + 1 \notin Words(content), ctx > 0,
         \A w \in Words(content) : w \in Nat,
         NEW r \in Seq(Nat), RollingReady(r, content, ctx, limit, i),
         NEW new, new = Append(IF Len(r) >= ctx THEN Tail(r) ELSE r, i + 1)
  PROVE  RollingExact(new, content, ctx, limit, i + 1)
<1>1. PICK L \in Nat : L = Len(r)
  OBVIOUS
<1>2. /\ L <= i /\ L <= ctx
      /\ \A x \in 1..L : r[x] = (i - L) + x
      /\ \A w \in Words(content) : w <= i - L \/ w > i
      /\ \/ L = ctx \/ i = L \/ i - L \in Words(content)
         \/ ~IsPrinted(content, ctx, limit, i - L)
  BY <1>1 DEF RollingReady
<1>3. PICK K \in Nat : K = IF L = ctx THEN L ELSE L + 1
  OBVIOUS
<1>4. Len(new) = K /\ \A x \in 1..K : new[x] = ((i + 1) - K) + x
  <2>1. CASE L = ctx
    <3>1. r # <<>>
      <4>1. L # 0 /\ Len(<<>>) = 0
        BY <2>1
      <4>2. QED BY <1>1, <4>1
    <3>2. PICK t \in Seq(Nat) : t = Tail(r)
      BY <3>1, TailIn
    <3>3. Len(t) = L - 1 /\ \A x \in 1..(L - 1) : t[x] = r[x + 1]
      BY <1>1, <3>1, <3>2, HeadTailProperties
    <3>4. new = Append(t, i + 1)
      BY <1>1, <2>1, <3>2
    <3>5. Len(new) = L
      BY <1>1, <3>3, <3>4
    <3>6. ASSUME NEW x \in 1..L PROVE new[x] = ((i + 1) - L) + x
      <4>1. CASE x = L
        <5>1. new[(L - 1) + 1] = i + 1
          BY <3>3, <3>4
        <5>2. (L - 1) + 1 = L /\ ((i + 1) - L) + L = i + 1
          OBVIOUS
        <5>3. QED BY <4>1, <5>1, <5>2
      <4>2. CASE x # L
        <5>1. x \in 1..(L - 1) /\ x + 1 \in 1..L
          BY <4>2
        <5>2. new[x] = t[x]
          BY <3>3, <3>4, <5>1
        <5>3. r[x + 1] = (i - L) + (x + 1)
          BY <1>2, <5>1
        <5>4. (i - L) + (x + 1) = ((i + 1) - L) + x
          OBVIOUS
        <5>5. t[x] = r[x + 1]
          BY <3>3, <5>1
        <5>6. QED BY <5>2, <5>3, <5>4, <5>5
      <4>3. QED BY <4>1, <4>2
    <3>7. QED BY <1>3, <2>1, <3>5, <3>6
  <2>2. CASE L # ctx
    <3>1. new = Append(r, i + 1) /\ K = L + 1
      BY <1>1, <1>2, <1>3, <2>2
    <3>2. Len(new) = L + 1
      BY <1>1, <3>1
    <3>3. ASSUME NEW x \in 1..(L + 1) PROVE new[x] = ((i + 1) - (L + 1)) + x
      <4>1. CASE x = L + 1
        BY <1>1, <3>1, <4>1
      <4>2. CASE x # L + 1
        <5>1. x \in 1..L
          BY <4>2
        <5>2. new[x] = r[x]
          BY <1>1, <3>1, <5>1
        <5>3. QED BY <1>1, <1>2, <5>1, <5>2
      <4>3. QED BY <4>1, <4>2
    <3>4. QED BY <3>1, <3>2, <3>3
  <2>3. QED BY <2>1, <2>2
<1>5. K <= i + 1 /\ K <= ctx
  BY <1>2, <1>3
<1>6. \A w \in Words(content) : w <= (i + 1) - K \/ w > i + 1
  BY <1>2, <1>3
<1>7. \/ K = ctx \/ i + 1 = K \/ (i + 1) - K \in Words(content)
      \/ ~IsPrinted(content, ctx, limit, (i + 1) - K)
  <2>1. CASE L = ctx
    BY <1>3, <2>1
  <2>2. CASE L # ctx
    <3>1. (i + 1) - K = i - L
      BY <1>3, <2>2
    <3>2. i = L => i + 1 = K
      BY <1>3, <2>2
    <3>3. QED BY <1>2, <2>2, <3>1, <3>2
  <2>3. QED BY <2>1, <2>2
<1>8. RollingReady(new, content, ctx, limit, i + 1)
  BY <1>4, <1>5, <1>6, <1>7 DEF RollingReady
<1>9. i + 1 \in 1..(i + 1)
  OBVIOUS
<1>10. QED BY <1>4, <1>5, <1>8, <1>9 DEF RollingExact

LEMMA AfterStays ==
  ASSUME NEW h, NEW W, NEW ctx \in Nat, NEW i \in Nat, AfterExact(h, W, ctx, i),
         h.line \in Nat, h.after \in Seq(Nat),
         Len(h.after) = ctx \/ h.line + Len(h.after) # i \/ i + 1 \in W
  PROVE  AfterExact(h, W, ctx, i + 1)
<1>1. PICK e \in Nat, L \in Nat : L = Len(h.after) /\ e = h.line + L
  OBVIOUS
<1>2. /\ L <= ctx /\ e <= i
      /\ \A x \in 1..L : h.after[x] = h.line + x
      /\ \A w \in W : w <= h.line \/ w > e
      /\ L = ctx \/ e = i \/ e + 1 \in W
  BY <1>1 DEF AfterExact
<1>3. L = ctx \/ e # i \/ i + 1 \in W
  BY <1>1
<1>4. e <= i + 1 /\ (L = ctx \/ e = i + 1 \/ e + 1 \in W)
  BY <1>2, <1>3
<1>5. QED BY <1>1, <1>2, <1>4 DEF AfterExact

LEMMA AfterGoesOn ==
  ASSUME NEW h, NEW W, NEW ctx \in Nat, NEW i \in Nat, AfterExact(h, W, ctx, i),
         h.line \in Nat, h.after \in Seq(Nat), \A w \in W : w \in Nat,
         h.line + Len(h.after) = i, Len(h.after) < ctx, i + 1 \notin W,
         NEW g, g.line = h.line, g.after = Append(h.after, i + 1)
  PROVE  AfterExact(g, W, ctx, i + 1)
<1>1. PICK L \in Nat, a \in Nat, s \in Seq(Nat) : s = h.after /\ L = Len(s) /\ a = h.line
  OBVIOUS
<1>2. /\ \A x \in 1..L : s[x] = a + x
      /\ \A w \in W : w <= a \/ w > a + L
      /\ a + L = i /\ L < ctx
  BY <1>1 DEF AfterExact
<1>3. PICK t : t = Append(s, i + 1)
  OBVIOUS
<1>4. Len(t) = L + 1 /\ \A x \in 1..(L + 1) : t[x] = a + x
  <2>1. Len(t) = L + 1
    BY <1>1, <1>3
  <2>2. ASSUME NEW x \in 1..(L + 1) PROVE t[x] = a + x
    <3>1. CASE x = L + 1
      <4>1. t[L + 1] = i + 1
        BY <1>1, <1>3
      <4>2. a + (L + 1) = i + 1
        BY <1>2
      <4>3. QED BY <3>1, <4>1, <4>2
    <3>2. CASE x # L + 1
      <4>1. x \in 1..L
        BY <3>2
      <4>2. t[x] = s[x]
        BY <1>1, <1>3, <4>1
      <4>3. QED BY <1>2, <4>1, <4>2
    <3>3. QED BY <3>1, <3>2
  <2>3. QED BY <2>1, <2>2
<1>5. \A w \in W : w <= a \/ w > a + (L + 1)
  <2>1. \A w \in W : w \in Nat /\ w # i + 1
    OBVIOUS
  <2>2. \A w \in Nat : w > a + L /\ w # i + 1 => w > a + (L + 1)
    BY <1>2
  <2>3. QED BY <1>2, <2>1, <2>2
<1>6. g.line = a /\ g.after = t
  BY <1>1, <1>3
<1>7. a + (L + 1) = i + 1 /\ L + 1 <= ctx
  BY <1>2
<1>8. QED BY <1>4, <1>5, <1>6, <1>7 DEF AfterExact

LEMMA AfterNothing ==
  ASSUME NEW f, NEW i \in Nat, NEW r, NEW W, NEW ctx \in Nat, \A w \in W : w \in Nat
  PROVE  AfterExact(Hit(f, i, r), W, ctx, i)
<1>1. PICK h : h = Hit(f, i, r)
  OBVIOUS
<1>2. h.line = i /\ h.after = <<>>
  BY <1>1 DEF Hit
<1>3. Len(<<>>) = 0 /\ 1..0 = {} /\ i + 0 = i
  OBVIOUS
<1>4. \A w \in W : w <= i \/ w > i
  OBVIOUS
<1>5. AfterExact(h, W, ctx, i)
  BY <1>2, <1>3, <1>4 DEF AfterExact
<1>6. QED BY <1>1, <1>5

LEMMA BeforeStays ==
  ASSUME NEW h, NEW W, NEW ctx, BeforeExact(h, W, ctx),
         NEW g, g.line = h.line, g.before = h.before
  PROVE  BeforeExact(g, W, ctx)
  BY DEF BeforeExact

(* Only the last hit can have its context go on: the next hit ends that of the
   others. *)
LEMMA EarlierHitIsClosed ==
  ASSUME NEW n \in Nat, NEW W, LineSet(W, n), NEW limit \in Nat, NEW i \in Nat,
         NEW f, NEW s \in Seq(HitsOf(f)), FirstHits(s, W, limit, i),
         NEW ctx \in Nat, NEW k \in DOMAIN s, k # Len(s), AfterExact(s[k], W, ctx, i)
  PROVE  s[k].line + Len(s[k].after) # i
<1>1. k + 1 \in DOMAIN s /\ k < k + 1
  OBVIOUS
<1>2. PICK a, b : a = s[k].line /\ b = s[k + 1].line
  OBVIOUS
<1>3. a < b /\ b <= i /\ b \in Firsts(W, limit) /\ a \in Firsts(W, limit)
  BY <1>1, <1>2 DEF FirstHits
<1>4. a \in Nat /\ b \in Nat /\ b \in W
  BY <1>3, FirstsAreLines, FirstsFirst
<1>5. s[k] \in HitsOf(f)
  OBVIOUS
<1>6. PICK L \in Nat : L = Len(s[k].after)
  BY <1>5 DEF HitsOf
<1>7. b <= a \/ b > a + L
  BY <1>2, <1>4, <1>6 DEF AfterExact
<1>8. QED BY <1>2, <1>3, <1>4, <1>6, <1>7

LEMMA LastHitLast ==
  ASSUME NEW n \in Nat, NEW W, LineSet(W, n), NEW limit \in Nat, NEW i \in Nat,
         NEW E, NEW s \in Seq(E), FirstHits(s, W, limit, i), s # <<>>,
         NEW a, a = s[Len(s)].line
  PROVE  /\ a \in Firsts(W, limit) /\ a \in Nat /\ a <= i /\ Len(s) \in DOMAIN s
         /\ \A m \in Firsts(W, limit) : m <= i => m <= a
<1>1. Len(s) \in DOMAIN s
  OBVIOUS
<1>2. a \in Firsts(W, limit) /\ a <= i
  BY <1>1 DEF FirstHits
<1>3. a \in Nat /\ \A m \in Firsts(W, limit) : m \in Nat
  BY <1>2, FirstsAreLines
<1>4. ASSUME NEW m \in Firsts(W, limit), m <= i PROVE m <= a
  <2>1. PICK k \in DOMAIN s : s[k].line = m
    BY <1>4 DEF FirstHits
  <2>2. k = Len(s) \/ k < Len(s)
    OBVIOUS
  <2>3. k < Len(s) => m < a
    BY <1>1, <2>1 DEF FirstHits
  <2>4. QED BY <1>3, <2>1, <2>2, <2>3
<1>5. QED BY <1>1, <1>2, <1>3, <1>4

LEMMA GrepHitsTyped ==
  ASSUME NEW f, NEW s \in Seq(HitsOf(f)), NEW k \in DOMAIN s
  PROVE  /\ s[k] \in HitsOf(f) /\ s[k].file = f /\ s[k].line \in Nat
         /\ s[k].before \in Seq(Nat) /\ s[k].after \in Seq(Nat)
<1>1. s[k] \in HitsOf(f)
  OBVIOUS
<1>2. QED BY <1>1 DEF HitsOf

(* A line that is not printed changes nothing: it neither continues the context
   of the last hit nor is one. *)
LEMMA GrepSkips ==
  ASSUME NEW n \in Nat, NEW content, WordsAreLines(content, n), NEW limit \in Nat,
         NEW ctx \in Nat, NEW i \in Nat, i + 1 <= n, NEW f,
         NEW p, GrepInv(p, f, content, ctx, limit, i),
         ~IsPrinted(content, ctx, limit, i + 1)
  PROVE  GrepInv(p, f, content, ctx, limit, i + 1)
<1> DEFINE W == Words(content)
<1>1. p.hits \in Seq(HitsOf(f)) /\ LineSet(W, n)
  BY DEF GrepInv, GrepStates, WordsAreLines
<1>2. FirstHits(p.hits, W, limit, i)
  BY DEF GrepInv
<1>3. i + 1 \notin Matches(content, limit) /\ i + 1 \in 1..n
  BY DEF IsPrinted
<1>4. FirstHits(p.hits, W, limit, i + 1)
  BY <1>1, <1>2, <1>3, FirstHitsSame DEF Matches
<1>5. \A w \in W : w \in Nat
  BY MatchesFirst
<1>6. ASSUME NEW a \in Matches(content, limit), a \in Nat, a <= i, i + 1 <= a + ctx,
             \A w \in W : w <= a \/ w > i + 1
      PROVE  FALSE
  <2>1. i + 1 \notin W /\ a < i + 1
    BY <1>6
  <2>2. IsPrinted(content, ctx, limit, i + 1)
    BY <1>3, <1>6, <2>1, NearIsPrinted
  <2>3. QED BY <2>2
<1>7. ASSUME NEW k \in DOMAIN p.hits
      PROVE  AfterExact(p.hits[k], W, ctx, i + 1)
  <2>1. AfterExact(p.hits[k], W, ctx, i)
    BY DEF GrepInv
  <2>2. p.hits[k].line \in Nat /\ p.hits[k].after \in Seq(Nat)
    BY <1>1, GrepHitsTyped
  <2>3. PICK a \in Nat, L \in Nat : a = p.hits[k].line /\ L = Len(p.hits[k].after)
    BY <2>2
  <2>4. L <= ctx /\ a + L <= i /\ \A w \in W : w <= a \/ w > a + L
    BY <2>1, <2>3 DEF AfterExact
  <2>5. L = ctx \/ a + L # i \/ i + 1 \in W
    <3>1. SUFFICES ASSUME L < ctx, a + L = i, i + 1 \notin W PROVE FALSE
      BY <2>4
    <3>2. k = Len(p.hits)
      BY <1>1, <1>2, <2>1, <2>3, <3>1, EarlierHitIsClosed
    <3>3. p.hits # <<>>
      BY <1>1
    <3>4. a \in Matches(content, limit) /\ a <= i
      BY <1>1, <1>2, <2>3, <3>2, <3>3, LastHitLast DEF Matches
    <3>5. \A w \in W : w <= a \/ w > i + 1
      <4>1. \A w \in W : w # i + 1 /\ (w <= a \/ w > i)
        BY <2>4, <3>1
      <4>2. QED BY <1>5, <4>1
    <3>6. i + 1 <= a + ctx
      BY <3>1
    <3>7. QED BY <1>6, <3>4, <3>5, <3>6
  <2>6. QED BY <2>1, <2>2, <2>3, <2>5, AfterStays
<1>8. \A k \in DOMAIN p.hits : BeforeExact(p.hits[k], W, ctx)
  BY DEF GrepInv
<1>9. CurrentExact(p, W, ctx, i + 1)
  <2>1. SUFFICES ASSUME NEW a, a = p.hits[Len(p.hits)].line, p.hits # <<>>,
                        \A w \in W : w <= a \/ w > i + 1, i + 1 <= a + ctx
                 PROVE  FALSE
    BY DEF CurrentExact
  <2>2. a \in Matches(content, limit) /\ a \in Nat /\ a <= i
    BY <1>1, <1>2, <2>1, LastHitLast DEF Matches
  <2>3. QED BY <1>6, <2>1, <2>2
<1>10. RollingExact(p.rolling, content, ctx, limit, i + 1)
  BY RollingSkips DEF GrepInv
<1>11. p \in GrepStates(f)
  BY DEF GrepInv
<1>12. QED BY <1>4, <1>7, <1>8, <1>9, <1>10, <1>11 DEF GrepInv

(* A line with the keyword: it ends the context after the hit before it. *)
LEMMA GrepAtMatch ==
  ASSUME NEW n \in Nat, NEW content, WordsAreLines(content, n), NEW limit \in Nat,
         NEW ctx \in Nat, NEW i \in Nat, i + 1 <= n, NEW f,
         NEW p, GrepInv(p, f, content, ctx, limit, i),
         i + 1 \in Matches(content, limit),
         NEW r \in Seq(Nat), RollingReady(r, content, ctx, limit, i),
         NEW q, q \in GrepStates(f), q.hits = Append(p.hits, Hit(f, i + 1, r)),
         q.rolling = <<>>, q.current = TRUE
  PROVE  GrepInv(q, f, content, ctx, limit, i + 1)
<1> DEFINE W == Words(content)
<1>1. /\ p.hits \in Seq(HitsOf(f)) /\ q.hits \in Seq(HitsOf(f)) /\ LineSet(W, n)
  BY DEF GrepInv, GrepStates, WordsAreLines
<1>2. FirstHits(p.hits, W, limit, i)
  BY DEF GrepInv
<1>3. PICK h, last : h = Hit(f, i + 1, r) /\ last = Len(p.hits) /\ last \in Nat
  <2>1. PICK last \in Nat : last = Len(p.hits)
    BY <1>1
  <2>2. PICK h : h = Hit(f, i + 1, r)
    OBVIOUS
  <2>3. QED BY <2>1, <2>2
<1>4. h.line = i + 1 /\ h \in HitsOf(f)
  BY <1>3 DEF Hit, HitsOf
<1>5. /\ Len(q.hits) = last + 1 /\ q.hits[last + 1] = h
      /\ \A k \in 1..last : q.hits[k] = p.hits[k]
      /\ DOMAIN p.hits = 1..last /\ DOMAIN q.hits = 1..(last + 1)
      /\ \A k \in 1..(last + 1) : k \in 1..last \/ k = last + 1
  BY <1>1, <1>3, <1>4
<1>6. FirstHits(q.hits, W, limit, i + 1)
  <2>1. PICK E, s, new : E = HitsOf(f) /\ s = p.hits /\ new = q.hits
    OBVIOUS
  <2>2. /\ s \in Seq(E) /\ new \in Seq(E) /\ Len(new) = Len(s) + 1
        /\ new[Len(s) + 1].line = i + 1
        /\ \A k \in DOMAIN s : new[k].line = s[k].line
    BY <1>1, <1>3, <1>4, <1>5, <2>1
  <2>3. i + 1 \in Firsts(W, limit) /\ FirstHits(s, W, limit, i)
    BY <1>2, <2>1 DEF Matches
  <2>4. FirstHits(new, W, limit, i + 1)
    BY <1>1, <2>2, <2>3, FirstHitsMore
  <2>5. QED BY <2>1, <2>4
<1>7. i + 1 \in W /\ \A w \in W : w \in Nat
  BY MatchesFirst
<1>8. ASSUME NEW k \in DOMAIN q.hits
      PROVE  BeforeExact(q.hits[k], W, ctx) /\ AfterExact(q.hits[k], W, ctx, i + 1)
  <2>1. CASE k \in 1..last
    <3>1. /\ BeforeExact(p.hits[k], W, ctx) /\ AfterExact(p.hits[k], W, ctx, i)
          /\ p.hits[k].line \in Nat /\ p.hits[k].after \in Seq(Nat)
      BY <1>1, <1>5, <2>1, GrepHitsTyped DEF GrepInv
    <3>2. AfterExact(p.hits[k], W, ctx, i + 1)
      BY <1>7, <3>1, AfterStays
    <3>3. QED BY <1>5, <2>1, <3>1, <3>2
  <2>2. CASE k = last + 1
    <3>1. BeforeExact(h, W, ctx)
      BY <1>3, BeforeIsExact
    <3>2. AfterExact(h, W, ctx, i + 1)
      BY <1>3, <1>7, AfterNothing
    <3>3. QED BY <1>5, <2>2, <3>1, <3>2
  <2>3. QED BY <1>5, <2>1, <2>2
<1>9. CurrentExact(q, W, ctx, i + 1)
  BY DEF CurrentExact
<1>10. RollingExact(q.rolling, content, ctx, limit, i + 1)
  BY <1>7, RollingAtMatch
<1>11. QED BY <1>6, <1>8, <1>9, <1>10 DEF GrepInv

(* A line of context: it continues the context of the last hit, if that is not
   full; there is no line with the keyword between them. *)
LEMMA GrepAtContext ==
  ASSUME NEW n \in Nat, NEW content, WordsAreLines(content, n), NEW limit \in Nat,
         NEW ctx \in Nat, NEW i \in Nat, i + 1 <= n, NEW f,
         NEW p, GrepInv(p, f, content, ctx, limit, i),
         IsPrinted(content, ctx, limit, i + 1), i + 1 \notin Matches(content, limit),
         NEW r \in Seq(Nat), RollingReady(r, content, ctx, limit, i),
         NEW current \in BOOLEAN,
         IsPrinted(content, ctx, limit, i) => current = p.current,
         NEW last, last = Len(p.hits),
         NEW q, q \in GrepStates(f), q.current = current,
         q.rolling = Append(IF Len(r) >= ctx THEN Tail(r) ELSE r, i + 1),
         IF current /\ Len(p.hits[last].after) < ctx /\ p.hits # <<>>
         THEN Grown(q.hits, p.hits, last, i + 1) ELSE q.hits = p.hits
  PROVE  GrepInv(q, f, content, ctx, limit, i + 1)
<1> DEFINE W == Words(content)
<1>1. /\ p.hits \in Seq(HitsOf(f)) /\ q.hits \in Seq(HitsOf(f)) /\ LineSet(W, n)
  BY DEF GrepInv, GrepStates, WordsAreLines
<1>2. FirstHits(p.hits, W, limit, i)
  BY DEF GrepInv
<1>3. /\ i + 1 \notin W /\ ctx > 0
      /\ \A w \in W : w <= i + 1 => w \in Matches(content, limit)
  BY ContextLinePrinted
<1>4. \A w \in W : w \in Nat
  BY MatchesFirst
<1>5. RollingExact(q.rolling, content, ctx, limit, i + 1)
  BY <1>3, <1>4, RollingAtContext
<1>6. \A k \in DOMAIN p.hits : /\ BeforeExact(p.hits[k], W, ctx)
                               /\ AfterExact(p.hits[k], W, ctx, i)
                               /\ p.hits[k].line \in Nat /\ p.hits[k].after \in Seq(Nat)
  BY <1>1, GrepHitsTyped DEF GrepInv
<1>7. CASE p.hits = <<>>
  <2>1. Len(<<>>) = 0 /\ DOMAIN <<>> = {}
    OBVIOUS
  <2>3. q.hits = p.hits
    BY <1>7
  <2>4. FirstHits(q.hits, W, limit, i + 1)
    BY <1>1, <1>2, <1>7, <2>1, <2>3, FirstHitsSame DEF Matches
  <2>5. CurrentExact(q, W, ctx, i + 1)
    BY <1>7, <2>3 DEF CurrentExact
  <2>6. QED BY <1>5, <1>7, <2>1, <2>3, <2>4, <2>5 DEF GrepInv
<1>8. CASE p.hits # <<>>
  <2>1. PICK a : a = p.hits[last].line
    OBVIOUS
  <2>2. /\ a \in Matches(content, limit) /\ a \in Nat /\ a <= i
        /\ last \in DOMAIN p.hits
        /\ \A m \in Matches(content, limit) : m <= i => m <= a
    BY <1>1, <1>2, <1>8, <2>1, LastHitLast DEF Matches
  <2>3. \A w \in W : w <= a \/ w > i + 1
    <3>1. \A w \in W : w # i + 1
      BY <1>3
    <3>2. \A w \in W : w <= i \/ w = i + 1 \/ w > i + 1
      BY <1>4
    <3>3. \A w \in W : w <= i => w <= i + 1
      BY <1>4
    <3>4. QED BY <1>3, <2>2, <3>1, <3>2, <3>3
  <2>4. PICK L \in Nat : L = Len(p.hits[last].after)
    BY <1>6, <2>2
  <2>5. /\ L <= ctx /\ a + L <= i
        /\ L = ctx \/ a + L = i \/ a + L + 1 \in W
    BY <1>6, <2>1, <2>2, <2>4 DEF AfterExact
  <2>6. L = ctx \/ a + L = i
    <3>1. SUFFICES ASSUME a + L + 1 \in W, a + L # i PROVE FALSE
      BY <2>5
    <3>2. PICK w \in W : w = a + L + 1
      BY <3>1
    <3>3. w <= i /\ w > a /\ w \in Nat
      BY <2>2, <2>5, <3>1, <3>2
    <3>4. w <= a \/ w > i + 1
      BY <2>3
    <3>5. QED BY <2>2, <3>3, <3>4
  <2>7. i + 1 <= a + ctx => current
    <3>1. SUFFICES ASSUME i + 1 <= a + ctx PROVE current
      OBVIOUS
    <3>2. \A w \in W : w <= a \/ w > i
      BY <1>4, <2>3
    <3>3. p.current
      <4>1. i <= a + ctx
        BY <2>2, <3>1
      <4>2. CurrentExact(p, W, ctx, i)
        BY DEF GrepInv
      <4>3. QED BY <1>8, <2>1, <3>2, <4>1, <4>2 DEF CurrentExact
    <3>4. IsPrinted(content, ctx, limit, i)
      <4>1. CASE i = a
        BY <2>2, <4>1 DEF IsPrinted
      <4>2. CASE i # a
        <5>1. a < i /\ i <= a + ctx /\ i \in 1..n
          BY <2>2, <3>1, <4>2
        <5>2. i \notin W
          <6>1. SUFFICES ASSUME i \in W PROVE FALSE
            OBVIOUS
          <6>2. i <= a \/ i > i
            BY <3>2, <6>1
          <6>3. QED BY <2>2, <5>1, <6>2
        <5>3. QED BY <2>2, <3>2, <5>1, <5>2, NearIsPrinted
      <4>3. QED BY <4>1, <4>2
    <3>5. QED BY <3>3, <3>4
  <2>8. CASE i + 1 <= a + ctx
    <3>1. L < ctx /\ a + L = i
      BY <2>2, <2>4, <2>5, <2>6, <2>8
    <3>2. Grown(q.hits, p.hits, last, i + 1)
      BY <1>8, <2>4, <2>7, <2>8, <3>1
    <3>3. /\ Len(q.hits) = Len(p.hits)
          /\ \A k \in DOMAIN p.hits : k # last => q.hits[k] = p.hits[k]
          /\ q.hits[last].line = a
          /\ q.hits[last].before = p.hits[last].before
          /\ q.hits[last].after = Append(p.hits[last].after, i + 1)
      BY <1>1, <2>1, <3>2 DEF Grown
    <3>4. \A k \in DOMAIN p.hits : q.hits[k].line = p.hits[k].line
      BY <2>1, <3>3
    <3>5. FirstHits(q.hits, W, limit, i + 1)
      BY <1>1, <1>2, <3>3, <3>4, FirstHitsSame DEF Matches
    <3>6. ASSUME NEW k \in DOMAIN q.hits
          PROVE  BeforeExact(q.hits[k], W, ctx) /\ AfterExact(q.hits[k], W, ctx, i + 1)
      <4>1. k \in DOMAIN p.hits
        BY <1>1, <3>3
      <4>2. CASE k = last
        <5>1. BeforeExact(q.hits[last], W, ctx)
          BY <1>6, <2>1, <2>2, <3>3, BeforeStays
        <5>2. AfterExact(q.hits[last], W, ctx, i + 1)
          <6>1. PICK h, g : h = p.hits[last] /\ g = q.hits[last]
            OBVIOUS
          <6>2. /\ AfterExact(h, W, ctx, i) /\ h.line \in Nat /\ h.after \in Seq(Nat)
                /\ h.line + Len(h.after) = i /\ Len(h.after) < ctx
                /\ g.line = h.line /\ g.after = Append(h.after, i + 1)
            BY <1>6, <2>1, <2>2, <2>4, <3>1, <3>3, <6>1
          <6>3. AfterExact(g, W, ctx, i + 1)
            BY <1>3, <1>4, <6>2, AfterGoesOn
          <6>4. QED BY <6>1, <6>3
        <5>3. QED BY <4>2, <5>1, <5>2
      <4>3. CASE k # last
        <5>1. p.hits[k].line + Len(p.hits[k].after) # i
          BY <1>1, <1>2, <1>6, <4>1, <4>3, EarlierHitIsClosed
        <5>2. AfterExact(p.hits[k], W, ctx, i + 1)
          BY <1>6, <4>1, <5>1, AfterStays
        <5>3. QED BY <1>6, <3>3, <4>1, <4>3, <5>2
      <4>4. QED BY <4>2, <4>3
    <3>7. CurrentExact(q, W, ctx, i + 1)
      BY <2>7, <2>8 DEF CurrentExact
    <3>8. QED BY <1>5, <3>5, <3>6, <3>7 DEF GrepInv
  <2>9. CASE i + 1 > a + ctx
    <3>1. L = ctx
      BY <2>2, <2>4, <2>5, <2>6, <2>9
    <3>2. q.hits = p.hits
      BY <2>4, <3>1
    <3>3. FirstHits(q.hits, W, limit, i + 1)
      BY <1>1, <1>2, <3>2, FirstHitsSame DEF Matches
    <3>4. ASSUME NEW k \in DOMAIN q.hits
          PROVE  BeforeExact(q.hits[k], W, ctx) /\ AfterExact(q.hits[k], W, ctx, i + 1)
      <4>1. k \in DOMAIN p.hits
        BY <3>2
      <4>2. Len(p.hits[k].after) = ctx \/ p.hits[k].line + Len(p.hits[k].after) # i
        <5>1. CASE k = last
          BY <2>4, <3>1, <5>1
        <5>2. CASE k # last
          <6>1. p.hits[k].line + Len(p.hits[k].after) # i
            BY <1>1, <1>2, <1>6, <4>1, <5>2, EarlierHitIsClosed
          <6>2. QED BY <6>1
        <5>3. QED BY <5>1, <5>2
      <4>3. AfterExact(p.hits[k], W, ctx, i + 1)
        BY <1>6, <4>1, <4>2, AfterStays
      <4>4. QED BY <1>6, <3>2, <4>1, <4>3
    <3>5. CurrentExact(q, W, ctx, i + 1)
      <4>1. ~(i + 1 <= a + ctx)
        BY <2>2, <2>9
      <4>2. QED BY <2>1, <3>2, <4>1 DEF CurrentExact
    <3>6. QED BY <1>5, <3>3, <3>4, <3>5 DEF GrepInv
  <2>10. QED BY <2>2, <2>8, <2>9
<1>9. QED BY <1>7, <1>8

(* What one printed line does to the state of the parser. *)
IsSeparator(x) == x.kind = "--"

IsMatch(x, i) == x.kind = "match" /\ x.line = i

IsContext(x, i) == x.kind = "context" /\ x.line = i

Emptied(q, s) == q.hits = s.hits /\ q.rolling = <<>> /\ q.current = FALSE

WithHit(q, s, f, i) ==
  q.hits = Append(s.hits, Hit(f, i, s.rolling)) /\ q.rolling = <<>> /\ q.current = TRUE

WithContext(q, s, ctx, i) ==
  /\ q.current = s.current
  /\ q.rolling = Append(IF Len(s.rolling) >= ctx THEN Tail(s.rolling)
                        ELSE s.rolling, i)
  /\ IF s.current /\ Len(s.hits[Len(s.hits)].after) < ctx /\ s.hits # <<>>
     THEN Grown(q.hits, s.hits, Len(s.hits), i) ELSE q.hits = s.hits

LEMMA ParseSeparator ==
  ASSUME NEW f, NEW ctx, NEW s, s \in GrepStates(f), NEW sep, IsSeparator(sep)
  PROVE  Emptied(ParseGrepLine(s, sep, f, ctx), s)
<1>1. PICK q : q = ParseGrepLine(s, sep, f, ctx)
  OBVIOUS
<1>2. PICK new : new = [s EXCEPT !.rolling = <<>>, !.current = FALSE]
  OBVIOUS
<1>3. q = new
  BY <1>1, <1>2 DEF ParseGrepLine, IsSeparator
<1>4. new.hits = s.hits /\ new.rolling = <<>> /\ new.current = FALSE
  BY <1>2 DEF GrepStates
<1>5. QED BY <1>1, <1>3, <1>4 DEF Emptied

LEMMA ParseMatch ==
  ASSUME NEW f, NEW ctx, NEW s, s \in GrepStates(f), NEW i, NEW line, IsMatch(line, i)
  PROVE  WithHit(ParseGrepLine(s, line, f, ctx), s, f, i)
<1>1. line.kind = "match" /\ line.kind # "--" /\ line.line = i
  BY DEF IsMatch
<1>2. PICK new : new = Append(s.hits, Hit(f, i, s.rolling))
  OBVIOUS
<1>3. ParseGrepLine(s, line, f, ctx)
        = [hits |-> new, rolling |-> <<>>, current |-> TRUE]
  BY <1>1, <1>2 DEF ParseGrepLine
<1>4. QED BY <1>2, <1>3 DEF WithHit

LEMMA ParseContext ==
  ASSUME NEW f, NEW ctx \in Nat, NEW s, s \in GrepStates(f), NEW i \in Nat,
         NEW line, IsContext(line, i)
  PROVE  WithContext(ParseGrepLine(s, line, f, ctx), s, ctx, i)
<1>1. /\ line.kind = "context" /\ line.kind # "--" /\ line.kind # "match"
      /\ line.line = i
  BY DEF IsContext
<1>2. PICK rolling, grown, last, q :
        /\ rolling = Append(IF Len(s.rolling) >= ctx THEN Tail(s.rolling)
                            ELSE s.rolling, i)
        /\ last = Len(s.hits)
        /\ grown = WithAfter(s.hits, last, i)
        /\ q = ParseGrepLine(s, line, f, ctx)
  OBVIOUS
<1>3. PICK new : new = IF s.current /\ Len(s.hits[last].after) < ctx
                       THEN grown ELSE s.hits
  OBVIOUS
<1>4. q = [s EXCEPT !.rolling = rolling, !.hits = new]
  <2>1. q = [s EXCEPT !.rolling = Append(IF Len(s.rolling) >= ctx THEN Tail(@)
                                         ELSE @, i),
                      !.hits = IF s.current /\ Len(@[last].after) < ctx
                               THEN WithAfter(s.hits, last, i)
                               ELSE @]
    BY <1>1, <1>2, Zenon DEF ParseGrepLine, WithAfter
  <2>2. QED BY <1>2, <1>3, <2>1, Zenon
<1>5. q.hits = new /\ q.rolling = rolling /\ q.current = s.current
  BY <1>4 DEF GrepStates
<1>6. s.hits \in Seq(HitsOf(f))
  BY DEF GrepStates
<1>7. IF s.current /\ Len(s.hits[last].after) < ctx /\ s.hits # <<>>
      THEN Grown(q.hits, s.hits, last, i) ELSE q.hits = s.hits
  <2>1. CASE s.hits = <<>>
    <3>1. grown = s.hits
      BY <1>2, <2>1 DEF WithAfter
    <3>2. QED BY <1>3, <1>5, <2>1, <3>1
  <2>2. CASE s.hits # <<>>
    <3>1. last \in DOMAIN s.hits
      BY <1>2, <1>6, <2>2
    <3>2. Grown(grown, s.hits, last, i)
      BY <1>2, <1>6, <3>1, AfterGrows
    <3>3. QED BY <1>3, <1>5, <2>2, <3>2
  <2>3. QED BY <2>1, <2>2
<1>8. QED BY <1>2, <1>5, <1>7 DEF WithContext

LEMMA GrepGoesOn ==
  ASSUME NEW n \in Nat, NEW content, WordsAreLines(content, n), NEW limit \in Nat,
         NEW ctx \in Nat, NEW i \in Nat, i + 1 <= n, NEW f, NEW out \in Seq(Printed),
         GrepInv(GrepParsed(f, ctx, out), f, content, ctx, limit, i)
  PROVE  GrepInv(GrepParsed(f, ctx, WithLine(out, content, ctx, limit, i + 1)),
                 f, content, ctx, limit, i + 1)
<1> DEFINE printed == IsPrinted(content, ctx, limit, i + 1)
<1> DEFINE separated == Separated(content, ctx, limit, i + 1)
<1>1. PICK p : p = GrepParsed(f, ctx, out)
  OBVIOUS
<1>2. GrepInv(p, f, content, ctx, limit, i) /\ p \in GrepStates(f)
  BY <1>1 DEF GrepInv
<1>3. CASE ~printed
  <2>1. WithLine(out, content, ctx, limit, i + 1) = out
    BY <1>3 DEF WithLine
  <2>2. QED BY <1>1, <1>2, <1>3, <2>1, GrepSkips
<1>4. CASE printed
  <2>1. PICK sep \in Printed : sep = [kind |-> "--"]
    BY DEF Printed, Separators
  <2>2. PICK line \in Printed : line = PrintedLine(content, limit, i + 1)
    BY PrintedLineIn
  <2>3. PICK out1 \in Seq(Printed) : out1 = IF separated THEN Append(out, sep) ELSE out
    <3>1. Append(out, sep) \in Seq(Printed)
      BY AppendProperties
    <3>2. QED BY <3>1
  <2>4. WithLine(out, content, ctx, limit, i + 1) = Append(out1, line)
    <3>1. out \o <<sep, line>> = Append(Append(out, sep), line)
      OBVIOUS
    <3>2. QED BY <1>4, <2>1, <2>2, <2>3, <3>1 DEF WithLine
  <2>5. PICK p1 : p1 = GrepParsed(f, ctx, out1)
    OBVIOUS
  <2>6. p1 \in GrepStates(f)
    BY <2>2, <2>5, GrepParsedAppend
  <2>7. /\ p1.hits = p.hits
        /\ p1.rolling = IF separated THEN <<>> ELSE p.rolling
        /\ p1.current = IF separated THEN FALSE ELSE p.current
    <3>1. CASE separated
      <4>1. p1 = ParseGrepLine(p, sep, f, ctx)
        BY <1>1, <2>3, <2>5, <3>1, GrepParsedAppend
      <4>2. IsSeparator(sep)
        BY <2>1 DEF IsSeparator
      <4>3. Emptied(p1, p)
        BY <1>2, <4>1, <4>2, ParseSeparator
      <4>4. QED BY <3>1, <4>3 DEF Emptied
    <3>2. CASE ~separated
      BY <1>1, <2>3, <2>5, <3>2
    <3>3. QED BY <3>1, <3>2
  <2>8. PICK r \in Seq(Nat) : r = p1.rolling
    BY <2>6 DEF GrepStates
  <2>9. RollingReady(r, content, ctx, limit, i)
    <3>1. RollingExact(p.rolling, content, ctx, limit, i) /\ p.rolling \in Seq(Nat)
      BY <1>2 DEF GrepInv, GrepStates
    <3>2. \A w \in Words(content) : w \in Nat /\ w >= 1
      BY MatchesFirst
    <3>3. QED BY <2>7, <2>8, <3>1, <3>2, RollingIsReady
  <2>10. PICK q : q = GrepParsed(f, ctx, Append(out1, line))
    OBVIOUS
  <2>11. q = ParseGrepLine(p1, line, f, ctx)
    BY <2>5, <2>10, GrepParsedAppend
  <2>12. q \in GrepStates(f)
    BY <2>6, <2>11, ParseGrepTyped
  <2>13. CASE i + 1 \in Matches(content, limit)
    <3>1. IsMatch(line, i + 1)
      BY <2>2, <2>13 DEF PrintedLine, IsMatch
    <3>2. /\ q.hits = Append(p.hits, Hit(f, i + 1, r))
          /\ q.rolling = <<>> /\ q.current = TRUE
      <4>1. WithHit(q, p1, f, i + 1)
        BY <2>6, <2>11, <3>1, ParseMatch
      <4>2. QED BY <2>7, <2>8, <4>1 DEF WithHit
    <3>3. GrepInv(q, f, content, ctx, limit, i + 1)
      BY <1>2, <2>9, <2>12, <2>13, <3>2, GrepAtMatch
    <3>4. QED BY <2>4, <2>10, <3>3
  <2>14. CASE i + 1 \notin Matches(content, limit)
    <3>1. IsContext(line, i + 1)
      BY <2>2, <2>14 DEF PrintedLine, IsContext
    <3>2. PICK last : last = Len(p.hits)
      OBVIOUS
    <3>3. PICK current \in BOOLEAN : current = p1.current
      BY <2>6 DEF GrepStates
    <3>4. /\ q.current = current
          /\ q.rolling = Append(IF Len(r) >= ctx THEN Tail(r) ELSE r, i + 1)
          /\ IF current /\ Len(p.hits[last].after) < ctx /\ p.hits # <<>>
             THEN Grown(q.hits, p.hits, last, i + 1) ELSE q.hits = p.hits
      <4>1. WithContext(q, p1, ctx, i + 1)
        BY <2>6, <2>11, <3>1, ParseContext
      <4>2. p1.hits = p.hits
        BY <2>7
      <4>3. QED BY <2>8, <3>2, <3>3, <4>1, <4>2 DEF WithContext
    <3>5. IsPrinted(content, ctx, limit, i) => current = p.current
      <4>1. (i + 1) - 1 = i
        OBVIOUS
      <4>2. QED BY <2>7, <3>3, <4>1 DEF Separated
    <3>6. GrepInv(q, f, content, ctx, limit, i + 1)
      BY <1>2, <1>4, <2>9, <2>12, <2>14, <3>2, <3>4, <3>5, GrepAtContext
    <3>7. QED BY <2>4, <2>10, <3>6
  <2>15. QED BY <2>13, <2>14
<1>5. QED BY <1>3, <1>4

LEMMA GrepStarts ==
  ASSUME NEW n \in Nat, NEW content, WordsAreLines(content, n), NEW limit \in Nat,
         NEW ctx \in Nat, NEW f
  PROVE  GrepInv(GrepStart, f, content, ctx, limit, 0)
<1>1. GrepStart.hits = <<>> /\ GrepStart.rolling = <<>> /\ GrepStart \in GrepStates(f)
  BY DEF GrepStart, GrepStates
<1>2. FirstHits(<<>>, Words(content), limit, 0)
  BY FirstHitsNone DEF WordsAreLines
<1>3. Len(<<>>) = 0 /\ DOMAIN <<>> = {}
  OBVIOUS
<1>4. RollingExact(<<>>, content, ctx, limit, 0)
  BY <1>3 DEF RollingExact
<1>5. QED BY <1>1, <1>2, <1>3, <1>4 DEF GrepInv, CurrentExact

(* What grep's output is parsed to, when the whole file has been printed. *)
LEMMA GrepIsExact ==
  ASSUME NEW content \in Contents, NEW limit \in Nat, NEW ctx \in Nat, NEW f
  PROVE  GrepInv(GrepParsed(f, ctx, GrepOutput(content, ctx, limit)),
                 f, content, ctx, limit, Len(content))
<1> DEFINE s == Numbers(content)
<1> DEFINE step == OutputStep(content, ctx, limit)
<1>1. PICK n \in Nat : n = Len(content) /\ DOMAIN content = 1..n
  BY DataAssumption
<1>2. WordsAreLines(content, n)
  BY <1>1 DEF WordsAreLines, LineSet, Words
<1>3. /\ s \in Seq(Nat) /\ Len(s) = n /\ \A i \in 1..n : s[i] = i
  BY <1>1, DataAssumption, NumbersOfLines
<1>4. FoldsTo(Seq(Printed), <<>>, step, s, GrepOutput(content, ctx, limit))
  BY GrepOutputFolds
<1>5. PICK g \in [0..n -> Seq(Printed)] :
        Goes(g, <<>>, step, s, n) /\ GrepOutput(content, ctx, limit) = g[n]
  BY <1>3, <1>4 DEF FoldsTo
<1>6. \A out \in Seq(Printed), i \in Nat :
        step[<<out, i>>] = WithLine(out, content, ctx, limit, i)
  BY DEF OutputStep
<1> HIDE DEF step, s
<1> DEFINE P(m) == m <= n => GrepInv(GrepParsed(f, ctx, g[m]), f, content, ctx, limit, m)
<1>7. P(0)
  <2>1. g[0] = <<>>
    BY <1>5 DEF Goes
  <2>2. QED BY <1>2, <2>1, GrepParsedEmpty, GrepStarts
<1>8. ASSUME NEW m \in Nat, P(m)
      PROVE  P(m + 1)
  <2>1. SUFFICES ASSUME m + 1 <= n
                 PROVE  GrepInv(GrepParsed(f, ctx, g[m + 1]), f, content, ctx, limit, m + 1)
    OBVIOUS
  <2>2. m \in 0..n /\ m + 1 \in 1..n /\ (m + 1) - 1 = m
    BY <2>1
  <2>3. PICK out \in Seq(Printed) : out = g[m]
    BY <2>2
  <2>4. g[m + 1] = WithLine(out, content, ctx, limit, m + 1)
    <3>1. g[m + 1] = step[<<out, m + 1>>]
      BY <1>3, <1>5, <2>2, <2>3 DEF Goes
    <3>2. QED BY <1>6, <3>1
  <2>5. GrepInv(GrepParsed(f, ctx, out), f, content, ctx, limit, m)
    BY <1>8, <2>2, <2>3
  <2>6. QED BY <1>2, <2>1, <2>4, <2>5, GrepGoesOn
<1> HIDE DEF P
<1>9. \A m \in Nat : P(m)
  <2> DEFINE T == {m \in Nat : P(m)}
  <2>1. 0 \in T
    BY <1>7
  <2>2. \A m \in Nat : m \in T => m + 1 \in T
    BY <1>8
  <2> HIDE DEF T
  <2>3. Nat \subseteq T
    BY <2>1, <2>2, Induction
  <2>4. QED BY <2>3 DEF T
<1>10. P(n) /\ n <= n
  BY <1>9
<1>11. QED BY <1>1, <1>5, <1>10 DEF P

-------------------------------------------------------------------------------
(* What the script prints, and what the service makes of it.                   *)
AwkPrinted == [kind : {"H", "A", "B"}, hit : Nat, line : Nat] \cup [kind : {"P"}]

AwkStates == [before : Seq(Nat), afterRemaining : Seq(Nat), out : Seq(AwkPrinted),
              exited : BOOLEAN]

ParseStates(f) == [hits : Seq(HitsOf(f)), partial : BOOLEAN]

ParseStart == [hits |-> <<>>, partial |-> FALSE]

AwkParsed(f, out) ==
  FoldLeft(LAMBDA s, printed : ParseAwkLine(s, printed, f), ParseStart, out)

(* A hit with one line more in its context. *)
WithBefore(hits_, k, i) == [hits_ EXCEPT ![k].before = Append(@, i)]

GrownBefore(new, old, k, i) ==
  /\ Len(new) = Len(old)
  /\ \A j \in DOMAIN old : j # k => new[j] = old[j]
  /\ new[k].line = old[k].line /\ new[k].after = old[k].after
  /\ new[k].before = Append(old[k].before, i)

LEMMA BeforeGrows ==
  ASSUME NEW f, NEW hits_ \in Seq(HitsOf(f)), NEW k \in DOMAIN hits_, NEW i \in Nat
  PROVE  /\ WithBefore(hits_, k, i) \in Seq(HitsOf(f))
         /\ GrownBefore(WithBefore(hits_, k, i), hits_, k, i)
<1>0. PICK new : new = [hits_ EXCEPT ![k].before = Append(@, i)]
  OBVIOUS
<1>1. PICK h : h = hits_[k]
  OBVIOUS
<1>2. h \in HitsOf(f) /\ h.before \in Seq(Nat) /\ h.file = f
  <2>1. h \in HitsOf(f)
    <3> HIDE DEF HitsOf
    <3>1. QED BY <1>1
  <2>2. QED BY <2>1 DEF HitsOf
<1>3. PICK before \in Seq(Nat) : before = Append(h.before, i)
  BY <1>2, AppendProperties
<1>4. PICK g : g = [h EXCEPT !.before = before]
  OBVIOUS
<1>5. /\ g \in HitsOf(f) /\ g.file = f /\ g.line = h.line /\ g.after = h.after
      /\ g.before = before
  BY <1>2, <1>4 DEF HitsOf
<1>6. new = [hits_ EXCEPT ![k] = g]
  BY <1>0, <1>1, <1>3, <1>4
<1> HIDE DEF HitsOf
<1>7. new \in Seq(HitsOf(f)) /\ Len(new) = Len(hits_)
  <2>1. k \in 1..Len(hits_)
    OBVIOUS
  <2>2. PICK E : E = HitsOf(f)
    OBVIOUS
  <2>3. hits_ \in Seq(E) /\ g \in E
    BY <1>5, <2>2
  <2>4. [hits_ EXCEPT ![k] = g] \in Seq(E) /\ Len([hits_ EXCEPT ![k] = g]) = Len(hits_)
    BY <2>1, <2>3, ExceptSeq
  <2>5. QED BY <1>6, <2>2, <2>4
<1>8. new[k] = g /\ \A j \in DOMAIN hits_ : j # k => new[j] = hits_[j]
  BY <1>6
<1>9. QED BY <1>0, <1>1, <1>3, <1>5, <1>7, <1>8 DEF GrownBefore, WithBefore

(* What one printed line does to the hits. *)
IsP(x) == x.kind = "P"

IsH(x, i) == x.kind = "H" /\ x.line = i

IsB(x, k, i) == x.kind = "B" /\ x.hit = k /\ x.line = i

IsA(x, k, i) == x.kind = "A" /\ x.hit = k /\ x.line = i

Becomes(q, hits_, partial_) == q.hits = hits_ /\ q.partial = partial_

LEMMA ParseP ==
  ASSUME NEW f, NEW s, s \in ParseStates(f), NEW x, IsP(x)
  PROVE  Becomes(ParseAwkLine(s, x, f), s.hits, TRUE)
<1>1. ParseAwkLine(s, x, f) = [s EXCEPT !.partial = TRUE]
  BY DEF ParseAwkLine, IsP
<1>2. QED BY <1>1 DEF ParseStates, Becomes

LEMMA ParseH ==
  ASSUME NEW f, NEW s, s \in ParseStates(f), NEW x, NEW i, IsH(x, i)
  PROVE  Becomes(ParseAwkLine(s, x, f), Append(s.hits, Hit(f, i, <<>>)), s.partial)
<1>1. PICK new : new = Append(s.hits, Hit(f, i, <<>>))
  OBVIOUS
<1>2. ParseAwkLine(s, x, f) = [s EXCEPT !.hits = new]
  BY <1>1 DEF ParseAwkLine, IsH
<1>3. QED BY <1>1, <1>2 DEF ParseStates, Becomes

LEMMA ParseB ==
  ASSUME NEW f, NEW s, s \in ParseStates(f), NEW x, NEW k, NEW i, IsB(x, k, i)
  PROVE  Becomes(ParseAwkLine(s, x, f), WithBefore(s.hits, k, i), s.partial)
<1>1. PICK new : new = WithBefore(s.hits, k, i)
  OBVIOUS
<1>2. ParseAwkLine(s, x, f) = [s EXCEPT !.hits = new]
  <2>1. x.kind # "P" /\ x.kind # "H"
    BY DEF IsB
  <2>2. ParseAwkLine(s, x, f) = [s EXCEPT !.hits[x.hit].before = Append(@, x.line)]
    BY <2>1, Zenon DEF ParseAwkLine, IsB
  <2>3. x.hit = k /\ x.line = i
    BY DEF IsB
  <2>4. QED BY <1>1, <2>2, <2>3 DEF WithBefore
<1>3. QED BY <1>1, <1>2 DEF ParseStates, Becomes

LEMMA ParseA ==
  ASSUME NEW f, NEW s, s \in ParseStates(f), NEW x, NEW k, NEW i, IsA(x, k, i)
  PROVE  Becomes(ParseAwkLine(s, x, f), WithAfter(s.hits, k, i), s.partial)
<1>1. PICK new : new = WithAfter(s.hits, k, i)
  OBVIOUS
<1>2. ParseAwkLine(s, x, f) = [s EXCEPT !.hits = new]
  <2>1. x.kind # "P" /\ x.kind # "H" /\ x.kind # "B"
    BY DEF IsA
  <2>2. ParseAwkLine(s, x, f) = [s EXCEPT !.hits[x.hit].after = Append(@, x.line)]
    BY <2>1, Zenon DEF ParseAwkLine, IsA
  <2>3. x.hit = k /\ x.line = i
    BY DEF IsA
  <2>4. QED BY <1>1, <2>2, <2>3 DEF WithAfter
<1>3. QED BY <1>1, <1>2 DEF ParseStates, Becomes

LEMMA ParseAwkTyped ==
  ASSUME NEW f, NEW s \in ParseStates(f), NEW x \in AwkPrinted
  PROVE  ParseAwkLine(s, x, f) \in ParseStates(f)
<1>1. s.hits \in Seq(HitsOf(f)) /\ s.partial \in BOOLEAN
  BY DEF ParseStates
<1>2. CASE x \in [kind : {"P"}]
  <2>1. ParseAwkLine(s, x, f) = [s EXCEPT !.partial = TRUE]
    BY <1>2 DEF ParseAwkLine
  <2>2. QED BY <2>1 DEF ParseStates
<1>3. CASE x \in [kind : {"H", "A", "B"}, hit : Nat, line : Nat]
  <2>1. PICK k \in Nat, i \in Nat : x.hit = k /\ x.line = i
    BY <1>3
  <2>2. CASE x.kind = "H"
    <3>1. PICK h : h = Hit(f, i, <<>>)
      OBVIOUS
    <3>2. h \in HitsOf(f)
      BY <3>1 DEF Hit, HitsOf
    <3>3. PICK new \in Seq(HitsOf(f)) : new = Append(s.hits, h)
      BY <1>1, <3>2, AppendProperties
    <3>4. ParseAwkLine(s, x, f) = [s EXCEPT !.hits = new]
      BY <2>1, <2>2, <3>1, <3>3 DEF ParseAwkLine
    <3>5. QED BY <3>4 DEF ParseStates
  <2>3. CASE x.kind = "B"
    <3>1. PICK new : new = WithBefore(s.hits, k, i)
      OBVIOUS
    <3>2. ParseAwkLine(s, x, f) = [s EXCEPT !.hits = new]
      BY <2>1, <2>3, <3>1 DEF ParseAwkLine, WithBefore
    <3>3. new \in Seq(HitsOf(f))
      <4>1. CASE k \in DOMAIN s.hits
        BY <1>1, <3>1, <4>1, BeforeGrows
      <4>2. CASE k \notin DOMAIN s.hits
        <5>1. new = s.hits
          BY <1>1, <3>1, <4>2 DEF WithBefore
        <5>2. QED BY <1>1, <5>1
      <4>3. QED BY <4>1, <4>2
    <3>4. QED BY <3>2, <3>3 DEF ParseStates
  <2>4. CASE x.kind = "A"
    <3>1. PICK new : new = WithAfter(s.hits, k, i)
      OBVIOUS
    <3>2. ParseAwkLine(s, x, f) = [s EXCEPT !.hits = new]
      BY <2>1, <2>4, <3>1 DEF ParseAwkLine, WithAfter
    <3>3. new \in Seq(HitsOf(f))
      <4>1. CASE k \in DOMAIN s.hits
        BY <1>1, <3>1, <4>1, AfterGrows
      <4>2. CASE k \notin DOMAIN s.hits
        <5>1. new = s.hits
          BY <1>1, <3>1, <4>2 DEF WithAfter
        <5>2. QED BY <1>1, <5>1
      <4>3. QED BY <4>1, <4>2
    <3>4. QED BY <3>2, <3>3 DEF ParseStates
  <2>5. QED BY <1>3, <2>2, <2>3, <2>4
<1>4. QED BY <1>2, <1>3 DEF AwkPrinted

ParseStep(f) == [p \in ParseStates(f) \X AwkPrinted |-> ParseAwkLine(p[1], p[2], f)]

LEMMA AwkParsedFolds ==
  ASSUME NEW f, NEW out \in Seq(AwkPrinted)
  PROVE  /\ ParseStep(f) \in [ParseStates(f) \X AwkPrinted -> ParseStates(f)]
         /\ FoldsTo(ParseStates(f), ParseStart, ParseStep(f), out,
                    AwkParsed(f, out))
<1> DEFINE s == out
<1> DEFINE n == Len(s)
<1> DEFINE V == ParseStates(f)
<1> DEFINE base == ParseStart
<1> DEFINE op(v, x) == ParseAwkLine(v, x, f)
<1> DEFINE step == ParseStep(f)
<1> DEFINE next(h, T) == IF T = {} THEN base
                         ELSE op(h[T \ {Max(T)}], s[Max(T)])
<1> DEFINE iter == CHOOSE h : h = [T \in SUBSET (1..n) |-> next(h, T)]
<1>1. s \in Seq(AwkPrinted) /\ n \in Nat /\ DOMAIN s = 1..n
  OBVIOUS
<1>2. base \in V
  BY DEF ParseStart, ParseStates
<1>3. \A v \in V, x \in AwkPrinted : op(v, x) \in V
  BY ParseAwkTyped
<1>4. /\ step \in [V \X AwkPrinted -> V]
      /\ \A v \in V, x \in AwkPrinted : step[<<v, x>>] = op(v, x)
  <2> HIDE DEF op, V
  <2>1. step = [p \in V \X AwkPrinted |-> op(p[1], p[2])]
    BY DEF ParseStep, op, V
  <2> HIDE DEF step
  <2>2. QED BY <1>3, <2>1
<1>5. AwkParsed(f, out) = iter[1..n]
  BY <1>1 DEF AwkParsed, FoldLeft, MapThenFoldSet
<1> HIDE DEF op, step, V, base, n, s
<1>6. \A T \in SUBSET (1..n) : T # {} =>
        s[Max(T)] \in AwkPrinted /\ T \ {Max(T)} \in SUBSET (1..n)
  <2>1. ASSUME NEW T \in SUBSET (1..n), T # {}
        PROVE  s[Max(T)] \in AwkPrinted
    <3>1. Max(T) \in 1..n
      BY <1>1, <2>1, MaxIn
    <3>2. QED BY <1>1, <3>1
  <2>2. QED BY <2>1
<1>7. PICK g \in [SUBSET (1..n) -> V] : Folds(g, base, step, s, n)
  BY <1>1, <1>2, <1>4, FoldExists DEF n
<1>8. \A T \in SUBSET (1..n) : g[T] = next(g, T)
  BY <1>4, <1>6, <1>7 DEF Folds
<1>9. iter = [T \in SUBSET (1..n) |-> next(iter, T)]
  <2> HIDE DEF next
  <2>1. g = [T \in SUBSET (1..n) |-> next(g, T)]
    BY <1>8
  <2>2. QED BY <2>1
<1> HIDE DEF iter
<1>10. \A T \in SUBSET (1..n) : iter[T] = next(iter, T)
  <2> HIDE DEF next
  <2>1. QED BY <1>9
<1>11. FoldsTyped(iter, V, base, step, s)
  <2>1. {} \in SUBSET (1..n)
    OBVIOUS
  <2>2. QED BY <1>4, <1>6, <1>10, <2>1 DEF FoldsTyped, n
<1>12. FoldsTo(V, base, step, s, iter[1..n])
  BY <1>1, <1>2, <1>4, <1>11, FoldTrace DEF n
<1>13. QED BY <1>4, <1>5, <1>12 DEF step, V, base, s

LEMMA AwkParsedAppend ==
  ASSUME NEW f, NEW out \in Seq(AwkPrinted), NEW x \in AwkPrinted
  PROVE  /\ AwkParsed(f, out) \in ParseStates(f)
         /\ AwkParsed(f, Append(out, x)) = ParseAwkLine(AwkParsed(f, out), x, f)
<1>1. PICK t \in Seq(AwkPrinted) : t = Append(out, x)
  BY AppendProperties
<1>2. PICK v, w : v = AwkParsed(f, out) /\ w = AwkParsed(f, t)
  OBVIOUS
<1>3. /\ FoldsTo(ParseStates(f), ParseStart, ParseStep(f), out, v)
      /\ FoldsTo(ParseStates(f), ParseStart, ParseStep(f), t, w)
  BY <1>2, AwkParsedFolds
<1>4. v \in ParseStates(f) /\ w = ParseStep(f)[<<v, x>>]
  BY <1>1, <1>3, FoldsAppend
<1>5. w = ParseAwkLine(v, x, f)
  BY <1>4 DEF ParseStep
<1>6. QED BY <1>1, <1>2, <1>4, <1>5

LEMMA AwkParsedEmpty ==
  ASSUME NEW f
  PROVE  AwkParsed(f, <<>>) = ParseStart
<1>1. <<>> \in Seq(AwkPrinted)
  OBVIOUS
<1>2. QED BY <1>1, AwkParsedFolds, FoldsEmpty

(* The lines that the script prints one after the other: a line of context after
   every open hit, and the context before a new one.                            *)
ARecord(k, i) == [kind |-> "A", hit |-> k, line |-> i]

ARecords(open, i) == [j \in DOMAIN open |-> [kind |-> "A", hit |-> open[j], line |-> i]]

BRecord(k, i) == [kind |-> "B", hit |-> k, line |-> i]

BRecords(before, k) ==
  [j \in DOMAIN before |-> [kind |-> "B", hit |-> k, line |-> before[j]]]

LEMMA ConcatAppend ==
  ASSUME NEW E, NEW s \in Seq(E), NEW t \in Seq(E), NEW e \in E
  PROVE  s \o Append(t, e) = Append(s \o t, e)
  OBVIOUS

LEMMA ARecordIn ==
  ASSUME NEW i \in Nat, NEW x \in Nat
  PROVE  ARecord(x, i) \in AwkPrinted /\ IsA(ARecord(x, i), x, i)
  BY DEF ARecord, AwkPrinted, IsA

LEMMA ARecordsTyped ==
  ASSUME NEW i \in Nat, NEW s \in Seq(Nat)
  PROVE  /\ ARecords(s, i) \in Seq(AwkPrinted) /\ Len(ARecords(s, i)) = Len(s)
         /\ \A j \in 1..Len(s) :
              \E x \in Nat : x = s[j] /\ ARecords(s, i)[j] = ARecord(x, i)
<1>1. PICK n \in Nat : n = Len(s) /\ DOMAIN s = 1..n
  OBVIOUS
<1>2. PICK t : t = ARecords(s, i)
  OBVIOUS
<1>3. DOMAIN t = 1..n /\ \A j \in 1..n : \E x \in Nat : x = s[j] /\ t[j] = ARecord(x, i)
  BY <1>1, <1>2 DEF ARecords, ARecord
<1>4. t = [j \in 1..n |-> t[j]]
  BY <1>1, <1>2 DEF ARecords
<1>5. \A j \in 1..n : t[j] \in AwkPrinted
  BY <1>3, ARecordIn
<1> HIDE DEF AwkPrinted
<1>6. t \in Seq(AwkPrinted) /\ Len(t) = n
  BY <1>1, <1>4, <1>5
<1>7. QED BY <1>1, <1>2, <1>3, <1>6

LEMMA ARecordsAppend ==
  ASSUME NEW i \in Nat, NEW s \in Seq(Nat), NEW x \in Nat
  PROVE  ARecords(Append(s, x), i) = Append(ARecords(s, i), ARecord(x, i))
<1>1. PICK n \in Nat : n = Len(s)
  OBVIOUS
<1>2. PICK t \in Seq(Nat) : t = Append(s, x)
  BY AppendProperties
<1>3. /\ Len(t) = n + 1 /\ t[n + 1] = x
      /\ \A j \in 1..n : t[j] = s[j]
  BY <1>1, <1>2
<1>4. PICK u \in Seq(AwkPrinted), v \in Seq(AwkPrinted) :
        u = ARecords(t, i) /\ v = ARecords(s, i)
  BY ARecordsTyped
<1>5. /\ Len(u) = n + 1 /\ Len(v) = n
      /\ \A j \in 1..(n + 1) : \E y \in Nat : y = t[j] /\ u[j] = ARecord(y, i)
      /\ \A j \in 1..n : \E y \in Nat : y = s[j] /\ v[j] = ARecord(y, i)
  <2>1. /\ Len(u) = Len(t)
        /\ \A j \in 1..Len(t) : \E y \in Nat : y = t[j] /\ u[j] = ARecord(y, i)
    BY <1>4, ARecordsTyped
  <2>2. /\ Len(v) = Len(s)
        /\ \A j \in 1..Len(s) : \E y \in Nat : y = s[j] /\ v[j] = ARecord(y, i)
    BY <1>4, ARecordsTyped
  <2>3. QED BY <1>1, <1>3, <2>1, <2>2
<1>6. PICK e \in AwkPrinted : e = ARecord(x, i)
  BY ARecordIn
<1>7. PICK w \in Seq(AwkPrinted) : w = Append(v, e)
  BY AppendProperties
<1>8. Len(w) = n + 1 /\ w[n + 1] = e /\ \A j \in 1..n : w[j] = v[j]
  BY <1>5, <1>7
<1>9. ASSUME NEW j \in 1..(n + 1) PROVE u[j] = w[j]
  <2>1. CASE j = n + 1
    BY <1>3, <1>5, <1>6, <1>8, <2>1
  <2>2. CASE j # n + 1
    <3>1. j \in 1..n
      BY <2>2
    <3>2. w[j] = v[j] /\ t[j] = s[j] /\ j \in 1..(n + 1)
      BY <1>3, <1>8, <3>1
    <3>3. PICK y : y = t[j] /\ u[j] = ARecord(y, i)
      BY <1>5, <3>2
    <3>4. PICK z : z = s[j] /\ v[j] = ARecord(z, i)
      BY <1>5, <3>1
    <3>5. QED BY <3>2, <3>3, <3>4
  <2>3. QED BY <2>1, <2>2
<1>10. u = w
  BY <1>5, <1>8, <1>9, SeqEqual
<1>11. QED BY <1>2, <1>4, <1>6, <1>7, <1>10

LEMMA BRecordIn ==
  ASSUME NEW i \in Nat, NEW x \in Nat
  PROVE  BRecord(i, x) \in AwkPrinted /\ IsB(BRecord(i, x), i, x)
  BY DEF BRecord, AwkPrinted, IsB

LEMMA BRecordsTyped ==
  ASSUME NEW i \in Nat, NEW s \in Seq(Nat)
  PROVE  /\ BRecords(s, i) \in Seq(AwkPrinted) /\ Len(BRecords(s, i)) = Len(s)
         /\ \A j \in 1..Len(s) :
              \E x \in Nat : x = s[j] /\ BRecords(s, i)[j] = BRecord(i, x)
<1>1. PICK n \in Nat : n = Len(s) /\ DOMAIN s = 1..n
  OBVIOUS
<1>2. PICK t : t = BRecords(s, i)
  OBVIOUS
<1>3. DOMAIN t = 1..n /\ \A j \in 1..n : \E x \in Nat : x = s[j] /\ t[j] = BRecord(i, x)
  BY <1>1, <1>2 DEF BRecords, BRecord
<1>4. t = [j \in 1..n |-> t[j]]
  BY <1>1, <1>2 DEF BRecords
<1>5. \A j \in 1..n : t[j] \in AwkPrinted
  BY <1>3, BRecordIn
<1> HIDE DEF AwkPrinted
<1>6. t \in Seq(AwkPrinted) /\ Len(t) = n
  BY <1>1, <1>4, <1>5
<1>7. QED BY <1>1, <1>2, <1>3, <1>6

LEMMA BRecordsAppend ==
  ASSUME NEW i \in Nat, NEW s \in Seq(Nat), NEW x \in Nat
  PROVE  BRecords(Append(s, x), i) = Append(BRecords(s, i), BRecord(i, x))
<1>1. PICK n \in Nat : n = Len(s)
  OBVIOUS
<1>2. PICK t \in Seq(Nat) : t = Append(s, x)
  BY AppendProperties
<1>3. /\ Len(t) = n + 1 /\ t[n + 1] = x
      /\ \A j \in 1..n : t[j] = s[j]
  BY <1>1, <1>2
<1>4. PICK u \in Seq(AwkPrinted), v \in Seq(AwkPrinted) :
        u = BRecords(t, i) /\ v = BRecords(s, i)
  BY BRecordsTyped
<1>5. /\ Len(u) = n + 1 /\ Len(v) = n
      /\ \A j \in 1..(n + 1) : \E y \in Nat : y = t[j] /\ u[j] = BRecord(i, y)
      /\ \A j \in 1..n : \E y \in Nat : y = s[j] /\ v[j] = BRecord(i, y)
  <2>1. /\ Len(u) = Len(t)
        /\ \A j \in 1..Len(t) : \E y \in Nat : y = t[j] /\ u[j] = BRecord(i, y)
    BY <1>4, BRecordsTyped
  <2>2. /\ Len(v) = Len(s)
        /\ \A j \in 1..Len(s) : \E y \in Nat : y = s[j] /\ v[j] = BRecord(i, y)
    BY <1>4, BRecordsTyped
  <2>3. QED BY <1>1, <1>3, <2>1, <2>2
<1>6. PICK e \in AwkPrinted : e = BRecord(i, x)
  BY BRecordIn
<1>7. PICK w \in Seq(AwkPrinted) : w = Append(v, e)
  BY AppendProperties
<1>8. Len(w) = n + 1 /\ w[n + 1] = e /\ \A j \in 1..n : w[j] = v[j]
  BY <1>5, <1>7
<1>9. ASSUME NEW j \in 1..(n + 1) PROVE u[j] = w[j]
  <2>1. CASE j = n + 1
    BY <1>3, <1>5, <1>6, <1>8, <2>1
  <2>2. CASE j # n + 1
    <3>1. j \in 1..n
      BY <2>2
    <3>2. w[j] = v[j] /\ t[j] = s[j] /\ j \in 1..(n + 1)
      BY <1>3, <1>8, <3>1
    <3>3. PICK y : y = t[j] /\ u[j] = BRecord(i, y)
      BY <1>5, <3>2
    <3>4. PICK z : z = s[j] /\ v[j] = BRecord(i, z)
      BY <1>5, <3>1
    <3>5. QED BY <3>2, <3>3, <3>4
  <2>3. QED BY <2>1, <2>2
<1>10. u = w
  BY <1>5, <1>8, <1>9, SeqEqual
<1>11. QED BY <1>2, <1>4, <1>6, <1>7, <1>10

AllGrown(new, old, K, i) ==
  /\ Len(new) = Len(old)
  /\ \A k \in DOMAIN old :
       /\ new[k].line = old[k].line /\ new[k].before = old[k].before
       /\ new[k].after = IF k \in K THEN Append(old[k].after, i) ELSE old[k].after

Filled(new, old, k, before) ==
  /\ Len(new) = Len(old)
  /\ \A j \in DOMAIN old : j # k => new[j] = old[j]
  /\ new[k].line = old[k].line /\ new[k].after = old[k].after
  /\ new[k].before = before

LEMMA OpenHitsGrow ==
  ASSUME NEW f, NEW out \in Seq(AwkPrinted), NEW i \in Nat,
         NEW q, q = AwkParsed(f, out), NEW open \in Seq(Nat), Once(open),
         ToSet(open) \subseteq DOMAIN q.hits,
         NEW new, new = AwkParsed(f, out \o ARecords(open, i))
  PROVE  /\ new \in ParseStates(f) /\ new.partial = q.partial
         /\ AllGrown(new.hits, q.hits, ToSet(open), i)
<1> DEFINE After(s) == AwkParsed(f, out \o ARecords(s, i))
<1> DEFINE Q(s) == /\ After(s) \in ParseStates(f) /\ After(s).partial = q.partial
                   /\ AllGrown(After(s).hits, q.hits, ToSet(s), i)
<1> DEFINE P(n) == \A s \in Seq(Nat) :
                     Len(s) = n /\ Once(s) /\ ToSet(s) \subseteq DOMAIN q.hits => Q(s)
<1>0. q \in ParseStates(f)
  BY AwkParsedFolds, AwkParsedAppend, ARecordIn
<1>1. P(0)
  <2>1. \A s \in Seq(Nat) : Len(s) = 0 => s = <<>>
    OBVIOUS
  <2>2. ToSet(<<>>) = {} /\ ARecords(<<>>, i) = <<>>
    BY DEF ToSet, ARecords
  <2>3. out \o <<>> = out
    OBVIOUS
  <2>4. AllGrown(q.hits, q.hits, {}, i)
    BY DEF AllGrown
  <2>5. Q(<<>>)
    BY <1>0, <2>2, <2>3, <2>4
  <2>6. QED BY <2>1, <2>5
<1>2. ASSUME NEW n \in Nat, P(n)
      PROVE  P(n + 1)
  <2>1. SUFFICES ASSUME NEW u \in Seq(Nat), Len(u) = n + 1, Once(u),
                        ToSet(u) \subseteq DOMAIN q.hits
                 PROVE  Q(u)
    OBVIOUS
  <2>2. PICK t \in Seq(Nat), x \in Nat : u = Append(t, x)
    <3>1. u # <<>>
      BY <2>1
    <3>2. QED BY <3>1, SequenceEmptyOrAppend
  <2>3. Len(t) = n
    BY <2>1, <2>2
  <2>4. /\ ToSet(u) = ToSet(t) \cup {x}
        /\ Once(u) <=> Once(t) /\ x \notin ToSet(t)
    <3>1. /\ ToSet(Append(t, x)) = ToSet(t) \cup {x}
          /\ Once(Append(t, x)) <=> Once(t) /\ x \notin ToSet(t)
      BY AppendElements
    <3>2. QED BY <2>2, <3>1
  <2>5. Q(t)
    BY <1>2, <2>1, <2>3, <2>4
  <2>6. PICK a \in Seq(AwkPrinted), e \in AwkPrinted :
          a = ARecords(t, i) /\ e = ARecord(x, i) /\ IsA(e, x, i)
    BY ARecordsTyped, ARecordIn
  <2>7. PICK b \in Seq(AwkPrinted) : b = out \o a
    BY ConcatProperties
  <2>8. out \o ARecords(u, i) = Append(b, e)
    <3>1. ARecords(u, i) = Append(a, e)
      BY <2>2, <2>6, ARecordsAppend
    <3>2. out \o Append(a, e) = Append(out \o a, e)
      BY ConcatAppend
    <3>3. QED BY <2>7, <3>1, <3>2
  <2>9. PICK v, w : v = After(t) /\ w = After(u)
    OBVIOUS
  <2>10. v = AwkParsed(f, b) /\ w = AwkParsed(f, Append(b, e))
    BY <2>6, <2>7, <2>8, <2>9
  <2>11. v \in ParseStates(f) /\ w = ParseAwkLine(v, e, f) /\ w \in ParseStates(f)
    <3>1. v \in ParseStates(f) /\ w = ParseAwkLine(v, e, f)
      BY <2>10, AwkParsedAppend
    <3>2. QED BY <3>1, ParseAwkTyped
  <2>12. Becomes(w, WithAfter(v.hits, x, i), v.partial)
    BY <2>6, <2>11, ParseA
  <2>13. /\ v.partial = q.partial /\ AllGrown(v.hits, q.hits, ToSet(t), i)
         /\ v.hits \in Seq(HitsOf(f)) /\ q.hits \in Seq(HitsOf(f))
    BY <1>0, <2>5, <2>9, <2>11 DEF ParseStates
  <2>14. x \in DOMAIN v.hits /\ DOMAIN v.hits = DOMAIN q.hits
    BY <2>1, <2>4, <2>13 DEF AllGrown
  <2>15. Grown(w.hits, v.hits, x, i)
    BY <2>12, <2>13, <2>14, AfterGrows DEF Becomes
  <2>16. AllGrown(w.hits, q.hits, ToSet(u), i)
    <3>1. Len(w.hits) = Len(q.hits)
      BY <2>13, <2>15 DEF AllGrown, Grown
    <3>2. ASSUME NEW k \in DOMAIN q.hits
          PROVE  /\ w.hits[k].line = q.hits[k].line
                 /\ w.hits[k].before = q.hits[k].before
                 /\ w.hits[k].after = IF k \in ToSet(u) THEN Append(q.hits[k].after, i)
                                      ELSE q.hits[k].after
      <4>1. CASE k = x
        <5>1. v.hits[k].after = q.hits[k].after
          BY <2>1, <2>4, <2>13, <3>2, <4>1 DEF AllGrown
        <5>2. k \in ToSet(u)
          BY <2>4, <4>1
        <5>3. QED BY <2>13, <2>15, <3>2, <4>1, <5>1, <5>2 DEF AllGrown, Grown
      <4>2. CASE k # x
        <5>1. k \in ToSet(u) <=> k \in ToSet(t)
          BY <2>4, <4>2
        <5>2. w.hits[k] = v.hits[k]
          BY <2>14, <2>15, <3>2, <4>2 DEF Grown
        <5>3. QED BY <2>13, <3>2, <5>1, <5>2 DEF AllGrown
      <4>3. QED BY <4>1, <4>2
    <3>3. QED BY <3>1, <3>2 DEF AllGrown
  <2>17. QED BY <2>9, <2>11, <2>12, <2>13, <2>16 DEF Becomes
<1> HIDE DEF P
<1>3. \A n \in Nat : P(n)
  <2> DEFINE T == {n \in Nat : P(n)}
  <2>1. 0 \in T
    BY <1>1
  <2>2. \A n \in Nat : n \in T => n + 1 \in T
    BY <1>2
  <2> HIDE DEF T
  <2>3. Nat \subseteq T
    BY <2>1, <2>2, Induction
  <2>4. QED BY <2>3 DEF T
<1>4. Len(open) \in Nat /\ P(Len(open))
  BY <1>3
<1>5. QED BY <1>4 DEF P

LEMMA NewHitIsFilled ==
  ASSUME NEW f, NEW out \in Seq(AwkPrinted), NEW k \in Nat,
         NEW q, q = AwkParsed(f, out), k \in DOMAIN q.hits, q.hits[k].before = <<>>,
         NEW before \in Seq(Nat),
         NEW new, new = AwkParsed(f, out \o BRecords(before, k))
  PROVE  /\ new \in ParseStates(f) /\ new.partial = q.partial
         /\ Filled(new.hits, q.hits, k, before)
<1> DEFINE After(s) == AwkParsed(f, out \o BRecords(s, k))
<1> DEFINE Q(s) == /\ After(s) \in ParseStates(f) /\ After(s).partial = q.partial
                   /\ Filled(After(s).hits, q.hits, k, s)
<1> DEFINE P(n) == \A s \in Seq(Nat) : Len(s) = n => Q(s)
<1>0. q \in ParseStates(f)
  BY AwkParsedAppend, BRecordIn
<1>1. P(0)
  <2>1. \A s \in Seq(Nat) : Len(s) = 0 => s = <<>>
    OBVIOUS
  <2>2. BRecords(<<>>, k) = <<>>
    BY DEF BRecords
  <2>3. out \o <<>> = out
    OBVIOUS
  <2>4. Filled(q.hits, q.hits, k, <<>>)
    BY DEF Filled
  <2>5. Q(<<>>)
    BY <1>0, <2>2, <2>3, <2>4
  <2>6. QED BY <2>1, <2>5
<1>2. ASSUME NEW n \in Nat, P(n)
      PROVE  P(n + 1)
  <2>1. SUFFICES ASSUME NEW u \in Seq(Nat), Len(u) = n + 1
                 PROVE  Q(u)
    OBVIOUS
  <2>2. PICK t \in Seq(Nat), x \in Nat : u = Append(t, x)
    <3>1. u # <<>>
      BY <2>1
    <3>2. QED BY <3>1, SequenceEmptyOrAppend
  <2>3. Len(t) = n
    BY <2>1, <2>2
  <2>5. Q(t)
    BY <1>2, <2>1, <2>3
  <2>6. PICK a \in Seq(AwkPrinted), e \in AwkPrinted :
          a = BRecords(t, k) /\ e = BRecord(k, x) /\ IsB(e, k, x)
    BY BRecordsTyped, BRecordIn
  <2>7. PICK b \in Seq(AwkPrinted) : b = out \o a
    BY ConcatProperties
  <2>8. out \o BRecords(u, k) = Append(b, e)
    <3>1. BRecords(u, k) = Append(a, e)
      BY <2>2, <2>6, BRecordsAppend
    <3>2. out \o Append(a, e) = Append(out \o a, e)
      BY ConcatAppend
    <3>3. QED BY <2>7, <3>1, <3>2
  <2>9. PICK v, w : v = After(t) /\ w = After(u)
    OBVIOUS
  <2>10. v = AwkParsed(f, b) /\ w = AwkParsed(f, Append(b, e))
    BY <2>6, <2>7, <2>8, <2>9
  <2>11. v \in ParseStates(f) /\ w = ParseAwkLine(v, e, f) /\ w \in ParseStates(f)
    <3>1. v \in ParseStates(f) /\ w = ParseAwkLine(v, e, f)
      BY <2>10, AwkParsedAppend
    <3>2. QED BY <3>1, ParseAwkTyped
  <2>12. Becomes(w, WithBefore(v.hits, k, x), v.partial)
    BY <2>6, <2>11, ParseB
  <2>13. /\ v.partial = q.partial /\ Filled(v.hits, q.hits, k, t)
         /\ v.hits \in Seq(HitsOf(f)) /\ q.hits \in Seq(HitsOf(f))
    BY <1>0, <2>5, <2>9, <2>11 DEF ParseStates
  <2>14. k \in DOMAIN v.hits /\ DOMAIN v.hits = DOMAIN q.hits
    BY <2>13 DEF Filled
  <2>15. GrownBefore(w.hits, v.hits, k, x)
    BY <2>12, <2>13, <2>14, BeforeGrows DEF Becomes
  <2>16. Filled(w.hits, q.hits, k, u)
    BY <2>2, <2>13, <2>14, <2>15 DEF Filled, GrownBefore
  <2>17. QED BY <2>9, <2>11, <2>12, <2>13, <2>16 DEF Becomes
<1> HIDE DEF P
<1>3. \A n \in Nat : P(n)
  <2> DEFINE T == {n \in Nat : P(n)}
  <2>1. 0 \in T
    BY <1>1
  <2>2. \A n \in Nat : n \in T => n + 1 \in T
    BY <1>2
  <2> HIDE DEF T
  <2>3. Nat \subseteq T
    BY <2>1, <2>2, Induction
  <2>4. QED BY <2>3 DEF T
<1>4. Len(before) \in Nat /\ P(Len(before))
  BY <1>3
<1>5. QED BY <1>4 DEF P

-------------------------------------------------------------------------------
(* One line of the script.                                                     *)
LEMMA ContextLinesIn ==
  ASSUME NEW r \in Requests
  PROVE  ContextLines(r) \in Nat /\ ContextLines(r) <= MaxContextLines
<1>1. r.contextLines \in Int \cup {None} /\ MaxContextLines \in Nat
  BY ConstantsAssumption, DataAssumption DEF ConstantsAssumption
<1>2. QED BY <1>1 DEF ContextLines, Bounded

(* Hits that are to get more context, and how much less when they have got a line. *)
OpenHits(left) == Only(Numbers(left), {k \in DOMAIN left : left[k] > 0})

CountedDown(left) == [k \in DOMAIN left |-> IF left[k] > 0 THEN left[k] - 1 ELSE 0]

LEMMA OpenHitsOnce ==
  ASSUME NEW left \in Seq(Nat)
  PROVE  /\ OpenHits(left) \in Seq(Nat) /\ Once(OpenHits(left))
         /\ ToSet(OpenHits(left)) = {k \in DOMAIN left : left[k] > 0}
<1>1. PICK s : s = Numbers(left)
  OBVIOUS
<1>2. /\ s \in Seq(Nat) /\ Len(s) = Len(left)
      /\ \A i \in 1..Len(left) : s[i] = i
  BY <1>1, NumbersOfLines
<1>3. DOMAIN s = DOMAIN left /\ DOMAIN left = 1..Len(left)
  BY <1>2
<1>4. ToSet(s) = DOMAIN left /\ Once(s)
  BY <1>2, <1>3 DEF ToSet, Once
<1>5. PICK S : S = {k \in DOMAIN left : left[k] > 0}
  OBVIOUS
<1>6. /\ Only(s, S) \in Seq(Nat) /\ ToSet(Only(s, S)) = ToSet(s) \cap S
      /\ Once(s) => Once(Only(s, S))
  BY <1>2, OnlyElements
<1>7. ToSet(s) \cap S = S
  BY <1>4, <1>5
<1>8. QED BY <1>1, <1>4, <1>5, <1>6, <1>7 DEF OpenHits

LEMMA CountedDownTyped ==
  ASSUME NEW left \in Seq(Nat)
  PROVE  /\ CountedDown(left) \in Seq(Nat) /\ Len(CountedDown(left)) = Len(left)
         /\ \A k \in DOMAIN left :
              CountedDown(left)[k] = IF left[k] > 0 THEN left[k] - 1 ELSE 0
<1>1. PICK n \in Nat : n = Len(left) /\ DOMAIN left = 1..n
  OBVIOUS
<1>2. PICK new : new = CountedDown(left)
  OBVIOUS
<1>3. /\ new = [k \in 1..n |-> IF left[k] > 0 THEN left[k] - 1 ELSE 0]
      /\ \A k \in 1..n : new[k] = IF left[k] > 0 THEN left[k] - 1 ELSE 0
  BY <1>1, <1>2 DEF CountedDown
<1>4. \A k \in 1..n : new[k] \in Nat
  BY <1>1, <1>3
<1>5. new \in [1..n -> Nat]
  BY <1>3, <1>4
<1>6. new \in Seq(Nat) /\ Len(new) = n
  BY <1>5
<1>7. QED BY <1>1, <1>2, <1>3, <1>6

(* What the script does with a line before it is selected or not. *)
Flushed(t, s, i) ==
  /\ t.before = s.before /\ t.exited = s.exited
  /\ t.afterRemaining = CountedDown(s.afterRemaining)
  /\ t.out = s.out \o ARecords(OpenHits(s.afterRemaining), i)

LEMMA FlushFlushes ==
  ASSUME NEW s \in AwkStates, NEW i
  PROVE  Flushed(FlushOpenHits(s, i), s, i)
<1>1. PICK out, left : /\ out = s.out \o ARecords(OpenHits(s.afterRemaining), i)
                       /\ left = CountedDown(s.afterRemaining)
  OBVIOUS
<1>2. FlushOpenHits(s, i) = [s EXCEPT !.out = out, !.afterRemaining = left]
  BY <1>1 DEF FlushOpenHits, ARecords, OpenHits, CountedDown, Numbers
<1>3. QED BY <1>1, <1>2 DEF Flushed, AwkStates

LEMMA RememberTyped ==
  ASSUME NEW before \in Seq(Nat), NEW i \in Nat, NEW ctx
  PROVE  RememberBeforeContext(before, i, ctx) \in Seq(Nat)
<1>1. PICK t \in Seq(Nat) : t = Append(before, i) /\ t # <<>>
  BY AppendProperties
<1>2. Tail(t) \in Seq(Nat)
  BY <1>1, TailIn
<1>3. QED BY <1>1, <1>2 DEF RememberBeforeContext

HRecord(k, i) == [kind |-> "H", hit |-> k, line |-> i]

PRecord == [kind |-> "P"]

LEMMA HRecordIn ==
  ASSUME NEW k \in Nat, NEW i \in Nat
  PROVE  HRecord(k, i) \in AwkPrinted /\ IsH(HRecord(k, i), i)
  BY DEF HRecord, AwkPrinted, IsH

LEMMA PRecordIn == PRecord \in AwkPrinted /\ IsP(PRecord)
  BY DEF PRecord, AwkPrinted, IsP

(* What is printed for a hit that ends the script, and for one that does not. *)
HitPrinted(before, k, i, limit) ==
  << HRecord(k, i) >> \o BRecords(before, k) \o (IF k >= limit THEN << PRecord >> ELSE <<>>)

LEMMA SingletonIn ==
  ASSUME NEW E, NEW e \in E
  PROVE  <<e>> \in Seq(E)
  OBVIOUS

Joined(s, e, t) == s \o (<<e>> \o t) = Append(s, e) \o t

LEMMA AppendConcat ==
  ASSUME NEW E, NEW s \in Seq(E), NEW e \in E, NEW t \in Seq(E)
  PROVE  Joined(s, e, t)
<1>1. <<e>> \in Seq(E)
  OBVIOUS
<1>2. (s \o <<e>>) \o t = s \o (<<e>> \o t)
  BY <1>1, ConcatAssociative
<1>3. s \o <<e>> = Append(s, e)
  OBVIOUS
<1>4. QED BY <1>2, <1>3 DEF Joined

LEMMA HitPrintedIn ==
  ASSUME NEW before \in Seq(Nat), NEW k \in Nat, NEW i \in Nat, NEW limit
  PROVE  HitPrinted(before, k, i, limit) \in Seq(AwkPrinted)
<1>1. PICK h \in AwkPrinted, p \in AwkPrinted, u \in Seq(AwkPrinted) :
        h = HRecord(k, i) /\ p = PRecord /\ u = BRecords(before, k)
  BY HRecordIn, PRecordIn, BRecordsTyped
<1>2. PICK v, e : v = <<h>> /\ e = IF k >= limit THEN <<p>> ELSE <<>>
  OBVIOUS
<1>3. v \in Seq(AwkPrinted) /\ e \in Seq(AwkPrinted)
  BY <1>2, SingletonIn, EmptySeq
<1>4. PICK w \in Seq(AwkPrinted) : w = v \o u
  BY <1>3, ConcatProperties
<1>5. w \o e \in Seq(AwkPrinted)
  BY <1>3, ConcatProperties
<1>6. HitPrinted(before, k, i, limit) = w \o e
  BY <1>1, <1>2, <1>4 DEF HitPrinted
<1>7. QED BY <1>5, <1>6

PrintsHit(out, before, k, i, limit, b) ==
  out \o HitPrinted(before, k, i, limit) = IF k >= limit THEN Append(b, PRecord) ELSE b

LEMMA HitPrintedTyped ==
  ASSUME NEW before \in Seq(Nat), NEW k \in Nat, NEW i \in Nat, NEW limit,
         NEW out \in Seq(AwkPrinted),
         NEW b, b = Append(out, HRecord(k, i)) \o BRecords(before, k)
  PROVE  b \in Seq(AwkPrinted) /\ PrintsHit(out, before, k, i, limit, b)
<1>1. PICK h \in AwkPrinted, p \in AwkPrinted, u \in Seq(AwkPrinted) :
        h = HRecord(k, i) /\ p = PRecord /\ u = BRecords(before, k)
  BY HRecordIn, PRecordIn, BRecordsTyped
<1>2. PICK a \in Seq(AwkPrinted) : a = Append(out, h)
  BY AppendProperties
<1>3. b = a \o u /\ b \in Seq(AwkPrinted)
  BY <1>1, <1>2, ConcatProperties
<1>4. PICK v \in Seq(AwkPrinted) : v = <<h>>
  <2>1. <<h>> \in Seq(AwkPrinted)
    BY SingletonIn
  <2>2. QED BY <2>1
<1>5. PICK w \in Seq(AwkPrinted) : w = v \o u
  BY ConcatProperties
<1> HIDE DEF AwkPrinted
<1>6. out \o w = b
  <2>1. Joined(out, h, u)
    BY AppendConcat
  <2>2. out \o (<<h>> \o u) = Append(out, h) \o u
    BY <2>1 DEF Joined
  <2>3. QED BY <1>2, <1>3, <1>4, <1>5, <2>2
<1>7. CASE k >= limit
  <2>1. HitPrinted(before, k, i, limit) = w \o <<p>>
    BY <1>1, <1>4, <1>5, <1>7 DEF HitPrinted
  <2>2. w \o <<p>> = Append(w, p) /\ Append(w, p) \in Seq(AwkPrinted)
    BY AppendProperties
  <2>3. out \o Append(w, p) = Append(out \o w, p)
    BY ConcatAppend
  <2>4. QED BY <1>1, <1>3, <1>6, <1>7, <2>1, <2>2, <2>3 DEF PrintsHit
<1>8. CASE ~(k >= limit)
  <2>1. HitPrinted(before, k, i, limit) = w \o <<>>
    BY <1>1, <1>4, <1>5, <1>8 DEF HitPrinted
  <2>2. w \o <<>> = w
    OBVIOUS
  <2>3. QED BY <1>3, <1>6, <1>8, <2>1, <2>2 DEF PrintsHit
<1>9. QED BY <1>3, <1>7, <1>8 DEF PrintsHit

(* What a line does to the script, if it is not selected, and if it is. *)
PassesBy(t, s, i, ctx) ==
  /\ t.before = RememberBeforeContext(s.before, i, ctx)
  /\ t.afterRemaining = CountedDown(s.afterRemaining)
  /\ t.out = s.out \o ARecords(OpenHits(s.afterRemaining), i)
  /\ ~t.exited

BecomesHit(t, s, i, ctx, limit) ==
  LET k == Len(s.afterRemaining) + 1
  IN  /\ t.before = RememberBeforeContext(s.before, i, ctx)
      /\ t.afterRemaining = Append(CountedDown(s.afterRemaining), ctx)
      /\ t.out = (s.out \o ARecords(OpenHits(s.afterRemaining), i))
                   \o HitPrinted(s.before, k, i, limit)
      /\ t.exited <=> k >= limit

FlushedTo(s, before, left, out, exited) ==
  s = [before |-> before, afterRemaining |-> left, out |-> out, exited |-> exited]

LEMMA Remembers ==
  ASSUME NEW s, NEW before, NEW left, NEW out, NEW exited,
         FlushedTo(s, before, left, out, exited), NEW remembered
  PROVE  FlushedTo([s EXCEPT !.before = remembered], remembered, left, out, exited)
  BY DEF FlushedTo

LEMMA FlushedFields ==
  ASSUME NEW s, NEW before, NEW left, NEW out, NEW exited,
         FlushedTo(s, before, left, out, exited)
  PROVE  /\ s.before = before /\ s.afterRemaining = left /\ s.out = out
         /\ s.exited = exited
         /\ before \in Seq(Nat) /\ left \in Seq(Nat) /\ out \in Seq(AwkPrinted)
              /\ exited \in BOOLEAN => s \in AwkStates
  BY DEF FlushedTo, AwkStates

LEMMA AwkLineTyped ==
  ASSUME NEW s \in AwkStates, NEW i \in Nat, NEW content, NEW r \in Requests,
         NEW limit \in Nat
  PROVE  /\ AwkLine(s, i, content, r, limit) \in AwkStates
         /\ s.exited => AwkLine(s, i, content, r, limit) = s
         /\ ~s.exited /\ ~AwkSelects(content[i], r) =>
              PassesBy(AwkLine(s, i, content, r, limit), s, i, ContextLines(r))
         /\ ~s.exited /\ AwkSelects(content[i], r) =>
              BecomesHit(AwkLine(s, i, content, r, limit), s, i, ContextLines(r), limit)
<1>1. PICK ctx \in Nat : ctx = ContextLines(r)
  BY ContextLinesIn
<1>2. PICK before, left, out, exited :
        before = s.before /\ left = s.afterRemaining /\ out = s.out /\ exited = s.exited
  OBVIOUS
<1>3. /\ before \in Seq(Nat) /\ left \in Seq(Nat) /\ out \in Seq(AwkPrinted)
      /\ exited \in BOOLEAN
  BY <1>2 DEF AwkStates
<1>4. PICK k \in Nat : k = Len(left) + 1
  BY <1>3
<1>5. PICK remembered \in Seq(Nat) : remembered = RememberBeforeContext(before, i, ctx)
  BY <1>3, RememberTyped
<1>6. PICK down \in Seq(Nat) : down = CountedDown(left)
  BY <1>3, CountedDownTyped
<1>7. PICK a \in Seq(AwkPrinted) : a = ARecords(OpenHits(left), i)
  BY <1>3, OpenHitsOnce, ARecordsTyped
<1>8. PICK b \in Seq(AwkPrinted) : b = out \o a
  BY <1>3, ConcatProperties
<1>9. PICK c \in Seq(AwkPrinted) : c = HitPrinted(before, k, i, limit)
  <2>1. HitPrinted(before, k, i, limit) \in Seq(AwkPrinted)
    BY <1>3, HitPrintedIn
  <2>2. QED BY <2>1
<1>10. PICK d \in Seq(AwkPrinted) : d = b \o c
  BY ConcatProperties
<1>11. PICK e \in Seq(Nat) : e = Append(down, ctx)
  BY AppendProperties
<1>12. PICK flushed : flushed = FlushOpenHits(s, i)
  OBVIOUS
<1>13. /\ flushed.afterRemaining = down /\ flushed.out = b
       /\ FlushedTo(flushed, before, down, b, exited)
  <2>1. Flushed(flushed, s, i)
    BY <1>12, FlushFlushes
  <2>2. flushed = [s EXCEPT !.out = flushed.out,
                            !.afterRemaining = flushed.afterRemaining]
    <3>1. PICK x, y : flushed = [s EXCEPT !.out = x, !.afterRemaining = y]
      BY <1>12 DEF FlushOpenHits
    <3>2. flushed.out = x /\ flushed.afterRemaining = y
      BY <3>1 DEF AwkStates
    <3>3. QED BY <3>1, <3>2
  <2>3. flushed.afterRemaining = down /\ flushed.out = b
    BY <1>2, <1>6, <1>7, <1>8, <2>1 DEF Flushed
  <2>4. FlushedTo(flushed, before, down, b, exited)
    BY <1>2, <2>2, <2>3 DEF AwkStates, FlushedTo
  <2>5. QED BY <2>3, <2>4
<1>14. CASE exited
  <2>1. AwkLine(s, i, content, r, limit) = s
    BY <1>2, <1>14 DEF AwkLine
  <2>2. QED BY <1>2, <1>14, <2>1
<1>15. CASE ~exited /\ ~AwkSelects(content[i], r)
  <2>1. PICK t : t = AwkLine(s, i, content, r, limit)
    OBVIOUS
  <2>2. t = [flushed EXCEPT !.before = remembered]
    BY <1>1, <1>2, <1>5, <1>12, <1>15, <2>1 DEF AwkLine
  <2>3. FlushedTo(t, remembered, down, b, exited)
    BY <1>13, <2>2, Remembers
  <2>4. /\ t.before = remembered /\ t.afterRemaining = down /\ t.out = b
        /\ t.exited = exited /\ t \in AwkStates
    BY <1>3, <2>3, FlushedFields
  <2>5. PassesBy(t, s, i, ContextLines(r))
    <3>1. t.before = RememberBeforeContext(s.before, i, ContextLines(r))
      BY <1>1, <1>2, <1>5, <2>4
    <3>2. t.afterRemaining = CountedDown(s.afterRemaining)
      BY <1>2, <1>6, <2>4
    <3>3. t.out = s.out \o ARecords(OpenHits(s.afterRemaining), i)
      BY <1>2, <1>7, <1>8, <2>4
    <3>4. ~t.exited
      BY <1>15, <2>4
    <3>5. QED BY <3>1, <3>2, <3>3, <3>4 DEF PassesBy
  <2>6. QED BY <1>2, <1>15, <2>1, <2>4, <2>5
<1>16. CASE ~exited /\ AwkSelects(content[i], r)
  <2>1. PICK t : t = AwkLine(s, i, content, r, limit)
    OBVIOUS
  <2>2. c = << HRecord(k, i) >> \o BRecords(before, k)
              \o (IF k >= limit THEN << PRecord >> ELSE <<>>)
    BY <1>9 DEF HitPrinted
  <2>3. t = [before |-> remembered,
             afterRemaining |-> Append(flushed.afterRemaining, ctx),
             out |-> flushed.out \o c, exited |-> k >= limit]
    BY <1>1, <1>2, <1>4, <1>5, <1>12, <1>16, <2>1, <2>2
       DEF AwkLine, HRecord, BRecords, PRecord
  <2>4. t = [before |-> remembered, afterRemaining |-> e, out |-> d, exited |-> k >= limit]
    BY <1>10, <1>11, <1>13, <2>3
  <2>5. /\ t.before = remembered /\ t.afterRemaining = e /\ t.out = d
        /\ t.exited <=> k >= limit
        /\ t \in AwkStates
    <3>1. t \in AwkStates
      BY <2>4 DEF AwkStates
    <3>2. t.before = remembered /\ t.afterRemaining = e /\ t.out = d
      BY <2>4
    <3>3. t.exited <=> k >= limit
      BY <2>4
    <3>4. QED BY <3>1, <3>2, <3>3
  <2>6. BecomesHit(t, s, i, ContextLines(r), limit)
    <3>1. t.before = RememberBeforeContext(s.before, i, ContextLines(r))
      BY <1>1, <1>2, <1>5, <2>5
    <3>2. t.afterRemaining = Append(CountedDown(s.afterRemaining), ContextLines(r))
      BY <1>1, <1>2, <1>6, <1>11, <2>5
    <3>3. /\ b = s.out \o ARecords(OpenHits(s.afterRemaining), i)
          /\ k = Len(s.afterRemaining) + 1
      BY <1>2, <1>4, <1>7, <1>8
    <3>4. t.out = b \o HitPrinted(s.before, k, i, limit)
      BY <1>2, <1>9, <1>10, <2>5
    <3>5. t.exited <=> k >= limit
      BY <2>5
    <3>6. QED BY <3>1, <3>2, <3>3, <3>4, <3>5 DEF BecomesHit
  <2>7. QED BY <1>2, <1>16, <2>1, <2>5, <2>6
<1>17. QED BY <1>3, <1>14, <1>15, <1>16

AwkScript(content, r, limit) ==
  FoldLeftDomain(LAMBDA s, i : AwkLine(s, i, content, r, limit), AwkStart, content)

AwkStep(content, r, limit) ==
  [p \in AwkStates \X Nat |-> AwkLine(p[1], p[2], content, r, limit)]

LEMMA AwkStartTyped == AwkStart \in AwkStates
<1>1. <<>> \in Seq(AwkPrinted) /\ <<>> \in Seq(Nat)
  OBVIOUS
<1> HIDE DEF AwkPrinted
<1>2. QED BY <1>1 DEF AwkStart, AwkStates

LEMMA AwkScriptFolds ==
  ASSUME NEW content \in Contents, NEW r \in Requests, NEW limit \in Nat
  PROVE  /\ AwkStep(content, r, limit) \in [AwkStates \X Nat -> AwkStates]
         /\ FoldsTo(AwkStates, AwkStart, AwkStep(content, r, limit), Numbers(content),
                    AwkScript(content, r, limit))
<1> DEFINE s == Numbers(content)
<1> DEFINE n == Len(s)
<1> DEFINE V == AwkStates
<1> DEFINE base == AwkStart
<1> DEFINE op(v, x) == AwkLine(v, x, content, r, limit)
<1> DEFINE step == AwkStep(content, r, limit)
<1> DEFINE next(h, T) == IF T = {} THEN base
                         ELSE op(h[T \ {Max(T)}], s[Max(T)])
<1> DEFINE iter == CHOOSE h : h = [T \in SUBSET (1..n) |-> next(h, T)]
<1>1. s \in Seq(Nat) /\ n \in Nat /\ DOMAIN s = 1..n
  BY DataAssumption, NumbersOfLines
<1>2. base \in V
  BY AwkStartTyped
<1>3. \A v \in V, x \in Nat : op(v, x) \in V
  BY AwkLineTyped
<1>4. /\ step \in [V \X Nat -> V]
      /\ \A v \in V, x \in Nat : step[<<v, x>>] = op(v, x)
  <2> HIDE DEF op, V
  <2>1. step = [p \in V \X Nat |-> op(p[1], p[2])]
    BY DEF AwkStep, op, V
  <2> HIDE DEF step
  <2>2. QED BY <1>3, <2>1
<1>5. AwkScript(content, r, limit) = iter[1..n]
  BY <1>1 DEF AwkScript, FoldLeftDomain, FoldLeft, MapThenFoldSet, Numbers
<1> HIDE DEF op, step, V, base, n, s
<1>6. \A T \in SUBSET (1..n) : T # {} =>
        s[Max(T)] \in Nat /\ T \ {Max(T)} \in SUBSET (1..n)
  <2>1. ASSUME NEW T \in SUBSET (1..n), T # {}
        PROVE  s[Max(T)] \in Nat
    <3>1. Max(T) \in 1..n
      BY <1>1, <2>1, MaxIn
    <3>2. QED BY <1>1, <3>1
  <2>2. QED BY <2>1
<1>7. PICK g \in [SUBSET (1..n) -> V] : Folds(g, base, step, s, n)
  BY <1>1, <1>2, <1>4, FoldExists DEF n
<1>8. \A T \in SUBSET (1..n) : g[T] = next(g, T)
  BY <1>4, <1>6, <1>7 DEF Folds
<1>9. iter = [T \in SUBSET (1..n) |-> next(iter, T)]
  <2> HIDE DEF next
  <2>1. g = [T \in SUBSET (1..n) |-> next(g, T)]
    BY <1>8
  <2>2. QED BY <2>1
<1> HIDE DEF iter
<1>10. \A T \in SUBSET (1..n) : iter[T] = next(iter, T)
  <2> HIDE DEF next
  <2>1. QED BY <1>9
<1>11. FoldsTyped(iter, V, base, step, s)
  <2>1. {} \in SUBSET (1..n)
    OBVIOUS
  <2>2. QED BY <1>4, <1>6, <1>10, <2>1 DEF FoldsTyped, n
<1>12. FoldsTo(V, base, step, s, iter[1..n])
  BY <1>1, <1>2, <1>4, <1>11, FoldTrace DEF n
<1>13. QED BY <1>4, <1>5, <1>12 DEF step, V, base, s

-------------------------------------------------------------------------------
(* What the service has of the script's lines, after every line of the file.   *)
BeforeReady(before, ctx, i) ==
  /\ Len(before) <= i /\ Len(before) <= ctx /\ (Len(before) = ctx \/ Len(before) = i)
  /\ \A x \in 1..Len(before) : before[x] = (i - Len(before)) + x

LEMMA BeforeStaysReady ==
  ASSUME NEW before \in Seq(Nat), NEW ctx \in Nat, NEW i \in Nat,
         BeforeReady(before, ctx, i)
  PROVE  BeforeReady(RememberBeforeContext(before, i + 1, ctx), ctx, i + 1)
<1>0. PICK new : new = RememberBeforeContext(before, i + 1, ctx)
  OBVIOUS
<1>1. PICK L \in Nat, j \in Nat : L = Len(before) /\ j = i + 1
  OBVIOUS
<1>2. /\ L <= i /\ L <= ctx /\ (L = ctx \/ L = i)
      /\ \A x \in 1..L : before[x] = (i - L) + x
  BY <1>1 DEF BeforeReady
<1>3. PICK t \in Seq(Nat) : t = Append(before, j)
  BY AppendProperties
<1>4. Len(t) = L + 1 /\ \A x \in 1..(L + 1) : t[x] = (i - L) + x
  <2>1. Len(t) = L + 1 /\ t[L + 1] = j
    BY <1>1, <1>3
  <2>2. \A x \in 1..L : t[x] = before[x]
    BY <1>1, <1>3
  <2>3. \A x \in 1..(L + 1) : x = L + 1 \/ x \in 1..L
    BY <1>1
  <2>4. (i - L) + (L + 1) = j
    BY <1>1
  <2>5. QED BY <1>2, <2>1, <2>2, <2>3, <2>4
<1>5. CASE L < ctx
  <2>1. new = t
    BY <1>0, <1>1, <1>3, <1>5 DEF RememberBeforeContext
  <2>2. L = i /\ Len(t) = j
    BY <1>1, <1>2, <1>4, <1>5
  <2>3. \A x \in 1..Len(t) : t[x] = (j - Len(t)) + x
    BY <1>1, <1>4, <2>2
  <2>4. j <= ctx
    BY <1>1, <1>5, <2>2
  <2>5. BeforeReady(t, ctx, j)
    BY <2>2, <2>3, <2>4 DEF BeforeReady
  <2>6. QED BY <1>0, <1>1, <2>1, <2>5
<1>6. CASE ~(L < ctx)
  <2>1. new = Tail(t) /\ L = ctx
    BY <1>0, <1>1, <1>2, <1>3, <1>6 DEF RememberBeforeContext
  <2>2. t # <<>>
    BY <1>4
  <2>3. PICK u \in Seq(Nat) : u = Tail(t)
    BY <2>2, TailIn
  <2>4. Len(u) = L
    BY <1>4, <2>2, <2>3, HeadTailProperties
  <2>5. \A x \in 1..L : u[x] = t[x + 1]
    BY <1>4, <2>2, <2>3, <2>4, HeadTailProperties
  <2>6. \A x \in 1..L : x + 1 \in 1..(L + 1) /\ (i - L) + (x + 1) = (j - L) + x
    BY <1>1
  <2>7. \A x \in 1..L : u[x] = (j - L) + x
    BY <1>4, <2>5, <2>6
  <2>8. L <= j
    BY <1>1, <1>2
  <2>9. BeforeReady(u, ctx, j)
    BY <2>1, <2>4, <2>7, <2>8 DEF BeforeReady
  <2>10. QED BY <1>0, <1>1, <2>1, <2>3, <2>9
<1>7. QED BY <1>5, <1>6

LEMMA ReadyIsExact ==
  ASSUME NEW before \in Seq(Nat), NEW ctx \in Nat, NEW i \in Nat,
         BeforeReady(before, ctx, i), NEW h, h.line = i + 1, h.before = before
  PROVE  BeforeExact(h, {}, ctx)
<1>1. PICK L \in Nat : L = Len(before)
  OBVIOUS
<1>2. /\ L <= i /\ L <= ctx /\ (L = ctx \/ L = i)
      /\ \A x \in 1..L : before[x] = (i - L) + x
  BY <1>1 DEF BeforeReady
<1>3. (i + 1) - 1 - L = i - L /\ (L = i => (i + 1) - L = 1)
  BY <1>1
<1>4. L < i + 1
  BY <1>1, <1>2
<1>5. QED BY <1>1, <1>2, <1>3, <1>4 DEF BeforeExact

(* The context after the hits, and what each of them is still to get. *)
AllAfter(hits_, left, ctx, i) ==
  /\ Len(left) = Len(hits_)
  /\ \A k \in DOMAIN hits_ : /\ AfterExact(hits_[k], {}, ctx, i)
                             /\ left[k] = ctx - Len(hits_[k].after)

AllBefore(hits_, ctx) == \A k \in DOMAIN hits_ : BeforeExact(hits_[k], {}, ctx)

LEMMA AllAfterGoesOn ==
  ASSUME NEW f, NEW old \in Seq(HitsOf(f)), NEW new \in Seq(HitsOf(f)),
         NEW left \in Seq(Nat), NEW ctx \in Nat, NEW i \in Nat,
         AllAfter(old, left, ctx, i),
         AllGrown(new, old, ToSet(OpenHits(left)), i + 1)
  PROVE  AllAfter(new, CountedDown(left), ctx, i + 1)
<1>1. PICK down \in Seq(Nat) : down = CountedDown(left)
  BY CountedDownTyped
<1>2. /\ Len(down) = Len(left)
      /\ \A k \in DOMAIN left : down[k] = IF left[k] > 0 THEN left[k] - 1 ELSE 0
  BY <1>1, CountedDownTyped
<1>3. Len(left) = Len(old) /\ Len(new) = Len(old)
  BY DEF AllAfter, AllGrown
<1>4. DOMAIN left = DOMAIN old /\ DOMAIN new = DOMAIN old
  BY <1>3
<1>5. ASSUME NEW k \in DOMAIN old
      PROVE  /\ AfterExact(new[k], {}, ctx, i + 1)
             /\ down[k] = ctx - Len(new[k].after)
  <2>1. PICK h, g : h = old[k] /\ g = new[k]
    OBVIOUS
  <2>2. /\ h.line \in Nat /\ h.after \in Seq(Nat)
        /\ g.line \in Nat /\ g.after \in Seq(Nat)
    BY <1>4, <2>1, GrepHitsTyped
  <2>3. PICK a \in Nat, L \in Nat : a = h.line /\ L = Len(h.after)
    BY <2>2
  <2>4. AfterExact(h, {}, ctx, i) /\ left[k] = ctx - L
    BY <2>1, <2>3 DEF AllAfter
  <2>5. L <= ctx /\ (L = ctx \/ a + L = i)
    BY <2>3, <2>4 DEF AfterExact
  <2>6. /\ g.line = h.line
        /\ g.after = IF k \in ToSet(OpenHits(left)) THEN Append(h.after, i + 1)
                     ELSE h.after
    BY <2>1 DEF AllGrown
  <2>7. k \in ToSet(OpenHits(left)) <=> left[k] > 0
    BY <1>4, OpenHitsOnce
  <2>8. CASE L < ctx
    <3>1. g.after = Append(h.after, i + 1) /\ left[k] > 0
      BY <2>3, <2>4, <2>6, <2>7, <2>8
    <3>2. AfterExact(g, {}, ctx, i + 1)
      <4>1. a + L = i /\ (\A w \in {} : w \in Nat) /\ i + 1 \notin {}
        BY <2>5, <2>8
      <4>2. h.line + Len(h.after) = i /\ Len(h.after) < ctx
        BY <2>3, <2>8, <4>1
      <4>3. QED BY <2>2, <2>4, <2>6, <3>1, <4>1, <4>2, AfterGoesOn
    <3>3. Len(g.after) = L + 1
      BY <2>2, <2>3, <3>1
    <3>4. down[k] = left[k] - 1
      BY <1>2, <1>4, <3>1
    <3>5. QED BY <2>1, <2>3, <2>4, <3>2, <3>3, <3>4
  <2>9. CASE L = ctx
    <3>1. left[k] = 0 /\ g.after = h.after
      BY <2>3, <2>4, <2>6, <2>7, <2>9
    <3>2. AfterExact(h, {}, ctx, i + 1)
      BY <2>2, <2>3, <2>4, <2>9, AfterStays
    <3>3. AfterExact(g, {}, ctx, i + 1)
      BY <2>6, <3>1, <3>2 DEF AfterExact
    <3>4. down[k] = 0
      BY <1>2, <1>4, <3>1
    <3>5. ctx - Len(g.after) = 0
      <4>1. Len(g.after) = L
        BY <2>3, <3>1
      <4>2. ctx - L = 0
        BY <2>9
      <4>3. QED BY <4>1, <4>2
    <3>6. QED BY <2>1, <3>3, <3>4, <3>5
  <2>10. QED BY <2>3, <2>5, <2>8, <2>9
<1>6. QED BY <1>1, <1>2, <1>3, <1>4, <1>5 DEF AllAfter

LEMMA AllBeforeStays ==
  ASSUME NEW old, NEW new, NEW K, NEW i, NEW ctx, AllGrown(new, old, K, i),
         DOMAIN new = DOMAIN old, AllBefore(old, ctx)
  PROVE  AllBefore(new, ctx)
<1>1. ASSUME NEW k \in DOMAIN old PROVE BeforeExact(new[k], {}, ctx)
  <2>1. BeforeExact(old[k], {}, ctx)
    BY DEF AllBefore
  <2>2. new[k].line = old[k].line /\ new[k].before = old[k].before
    BY DEF AllGrown
  <2>3. QED BY <2>1, <2>2, BeforeStays
<1>2. QED BY <1>1 DEF AllBefore

(* One hit more, with the context before it. *)
Added(new, old, i, before) ==
  /\ Len(new) = Len(old) + 1
  /\ \A k \in DOMAIN old : new[k] = old[k]
  /\ new[Len(old) + 1].line = i
  /\ new[Len(old) + 1].before = before
  /\ new[Len(old) + 1].after = <<>>

LEMMA HitIsAdded ==
  ASSUME NEW f, NEW out \in Seq(AwkPrinted), NEW q, q = AwkParsed(f, out),
         NEW k \in Nat, k = Len(q.hits) + 1, NEW i \in Nat, NEW before \in Seq(Nat),
         NEW new, new = AwkParsed(f, Append(out, HRecord(k, i)) \o BRecords(before, k))
  PROVE  /\ new \in ParseStates(f) /\ new.partial = q.partial
         /\ Added(new.hits, q.hits, i, before)
<1>1. PICK x \in AwkPrinted : x = HRecord(k, i) /\ IsH(x, i)
  BY HRecordIn
<1>2. PICK t \in Seq(AwkPrinted) : t = Append(out, x)
  BY AppendProperties
<1>3. PICK p : p = AwkParsed(f, t)
  OBVIOUS
<1>4. q \in ParseStates(f) /\ p = ParseAwkLine(q, x, f) /\ p \in ParseStates(f)
  <2>1. q \in ParseStates(f) /\ p = ParseAwkLine(q, x, f)
    BY <1>2, <1>3, AwkParsedAppend
  <2>2. QED BY <2>1, ParseAwkTyped
<1>5. Becomes(p, Append(q.hits, Hit(f, i, <<>>)), q.partial)
  BY <1>1, <1>4, ParseH
<1>6. PICK old \in Seq(HitsOf(f)), h \in HitsOf(f) : old = q.hits /\ h = Hit(f, i, <<>>)
  <2>1. q.hits \in Seq(HitsOf(f))
    BY <1>4 DEF ParseStates
  <2>2. Hit(f, i, <<>>) \in HitsOf(f)
    BY DEF Hit, HitsOf
  <2>3. QED BY <2>1, <2>2
<1>7. p.hits = Append(old, h) /\ p.partial = q.partial
  BY <1>5, <1>6 DEF Becomes
<1>8. /\ Len(p.hits) = k /\ p.hits[k] = h /\ Len(old) = k - 1 /\ k \in DOMAIN p.hits
      /\ \A j \in DOMAIN old : p.hits[j] = old[j] /\ j \in DOMAIN p.hits /\ j # k
  BY <1>6, <1>7
<1>9. h.line = i /\ h.before = <<>> /\ h.after = <<>>
  BY <1>6 DEF Hit
<1>10. new = AwkParsed(f, t \o BRecords(before, k))
  BY <1>1, <1>2
<1>11. /\ new \in ParseStates(f) /\ new.partial = p.partial
       /\ Filled(new.hits, p.hits, k, before)
  BY <1>3, <1>8, <1>9, <1>10, NewHitIsFilled
<1>12. /\ Len(new.hits) = k
       /\ \A j \in DOMAIN old : new.hits[j] = old[j]
       /\ new.hits[k].line = i /\ new.hits[k].before = before /\ new.hits[k].after = <<>>
  BY <1>8, <1>9, <1>11 DEF Filled
<1>13. Added(new.hits, old, i, before)
  BY <1>6, <1>8, <1>12 DEF Added
<1>14. QED BY <1>6, <1>7, <1>11, <1>13

LEMMA HitsOfAdded ==
  ASSUME NEW f, NEW old \in Seq(HitsOf(f)), NEW new \in Seq(HitsOf(f)),
         NEW left \in Seq(Nat), NEW ctx \in Nat, NEW i \in Nat, NEW before \in Seq(Nat),
         AllAfter(old, left, ctx, i + 1), AllBefore(old, ctx),
         BeforeReady(before, ctx, i), Added(new, old, i + 1, before)
  PROVE  AllAfter(new, Append(left, ctx), ctx, i + 1) /\ AllBefore(new, ctx)
<1>0. PICK last \in Nat : last = Len(old)
  OBVIOUS
<1>1. PICK t \in Seq(Nat) : last = Len(old) /\ t = Append(left, ctx)
  BY <1>0, AppendProperties
<1>2. /\ Len(left) = last /\ DOMAIN old = 1..last
      /\ Len(new) = last + 1 /\ DOMAIN new = 1..(last + 1)
  BY <1>1 DEF AllAfter, Added
<1>3. /\ Len(t) = last + 1 /\ t[last + 1] = ctx
      /\ \A k \in 1..last : t[k] = left[k]
  BY <1>1, <1>2
<1>4. /\ \A k \in 1..last : new[k] = old[k]
      /\ new[last + 1].line = i + 1 /\ new[last + 1].before = before
      /\ new[last + 1].after = <<>>
  BY <1>1, <1>2 DEF Added
<1>5. BeforeExact(new[last + 1], {}, ctx)
  BY <1>4, ReadyIsExact
<1>6. AfterExact(new[last + 1], {}, ctx, i + 1)
  <2>1. Len(<<>>) = 0 /\ 1..0 = {} /\ (i + 1) + 0 = i + 1
    OBVIOUS
  <2>2. QED BY <1>4, <2>1 DEF AfterExact
<1>7. ctx - Len(new[last + 1].after) = ctx
  <2>1. Len(<<>>) = 0 /\ ctx - 0 = ctx
    OBVIOUS
  <2>2. QED BY <1>4, <2>1
<1>8. \A k \in 1..(last + 1) : k \in 1..last \/ k = last + 1
  BY <1>1
<1>9. ASSUME NEW k \in 1..(last + 1)
      PROVE  /\ AfterExact(new[k], {}, ctx, i + 1) /\ BeforeExact(new[k], {}, ctx)
             /\ t[k] = ctx - Len(new[k].after)
  <2>1. CASE k = last + 1
    BY <1>3, <1>5, <1>6, <1>7, <2>1
  <2>2. CASE k \in 1..last
    <3>1. new[k] = old[k] /\ t[k] = left[k]
      BY <1>3, <1>4, <2>2
    <3>2. /\ AfterExact(old[k], {}, ctx, i + 1) /\ BeforeExact(old[k], {}, ctx)
          /\ left[k] = ctx - Len(old[k].after)
      BY <1>2, <2>2 DEF AllAfter, AllBefore
    <3>3. QED BY <3>1, <3>2
  <2>3. QED BY <1>8, <2>1, <2>2
<1>10. QED BY <1>1, <1>2, <1>3, <1>9 DEF AllAfter, AllBefore

(* s is what the script has reached after line i, q what it has printed is
   parsed to. W are the lines that are wanted. *)
AwkInv(s, q, W, ctx, limit, i) ==
  /\ FirstHits(q.hits, W, limit, i)
  /\ AllBefore(q.hits, ctx)
  /\ s.exited <=> Len(q.hits) = limit
  /\ q.partial <=> s.exited
  /\ ~s.exited => /\ AllAfter(q.hits, s.afterRemaining, ctx, i)
                  /\ BeforeReady(s.before, ctx, i)
  /\ s.exited => \A k \in DOMAIN q.hits :
                   AfterExact(q.hits[k], {}, ctx, q.hits[limit].line)

(* After the hit that reaches the limit nothing changes. *)
LEMMA AwkHasExited ==
  ASSUME NEW n \in Nat, NEW W, LineSet(W, n), NEW limit \in Nat, NEW i \in Nat,
         NEW f, NEW s, NEW q \in ParseStates(f), NEW ctx,
         AwkInv(s, q, W, ctx, limit, i), s.exited
  PROVE  AwkInv(s, q, W, ctx, limit, i + 1)
<1>1. q.hits \in Seq(HitsOf(f))
  BY DEF ParseStates
<1>2. FirstHits(q.hits, W, limit, i) /\ Len(q.hits) = limit
  BY DEF AwkInv
<1>3. i + 1 \notin Firsts(W, limit)
  <2>1. Count(W, i) \in Nat
    BY CountNext
  <2>2. ~(Count(W, i) < limit)
    BY <1>2, <2>1 DEF FirstHits
  <2>3. QED BY <2>2, FirstsFirst
<1>4. FirstHits(q.hits, W, limit, i + 1)
  BY <1>1, <1>2, <1>3, FirstHitsSame
<1>5. QED BY <1>4 DEF AwkInv

LEMMA LinesOfGrown ==
  ASSUME NEW new, NEW old, NEW K, NEW i, AllGrown(new, old, K, i)
  PROVE  Len(new) = Len(old) /\ \A k \in DOMAIN old : new[k].line = old[k].line
  BY DEF AllGrown

OpenGrown(new, q, f, K, i) ==
  /\ new \in ParseStates(f) /\ new.partial = q.partial
  /\ AllGrown(new.hits, q.hits, K, i)

LEMMA OpenHitsAreGrown ==
  ASSUME NEW f, NEW out \in Seq(AwkPrinted), NEW i \in Nat,
         NEW q, q = AwkParsed(f, out), NEW open \in Seq(Nat), Once(open),
         ToSet(open) \subseteq DOMAIN q.hits,
         NEW new, new = AwkParsed(f, out \o ARecords(open, i))
  PROVE  OpenGrown(new, q, f, ToSet(open), i)
  BY OpenHitsGrow DEF OpenGrown

LEMMA AwkPassesBy ==
  ASSUME NEW n \in Nat, NEW W, LineSet(W, n), NEW limit \in Nat, NEW i \in Nat,
         i + 1 \notin W, NEW f, NEW ctx \in Nat,
         NEW s \in AwkStates, NEW q \in ParseStates(f), q = AwkParsed(f, s.out),
         AwkInv(s, q, W, ctx, limit, i), ~s.exited,
         NEW t, PassesBy(t, s, i + 1, ctx), NEW p, p = AwkParsed(f, t.out)
  PROVE  AwkInv(t, p, W, ctx, limit, i + 1)
<1>1. PICK out \in Seq(AwkPrinted), left \in Seq(Nat), before \in Seq(Nat) :
        out = s.out /\ left = s.afterRemaining /\ before = s.before
  BY DEF AwkStates
<1>2. PICK old \in Seq(HitsOf(f)) : old = q.hits
  BY DEF ParseStates
<1>3. PICK open \in Seq(Nat) : open = OpenHits(left)
  BY OpenHitsOnce
<1>4. /\ FirstHits(old, W, limit, i) /\ AllBefore(old, ctx)
      /\ AllAfter(old, left, ctx, i) /\ BeforeReady(before, ctx, i)
      /\ ~q.partial /\ Len(old) # limit
  BY <1>1, <1>2 DEF AwkInv
<1>5. Len(left) = Len(old) /\ DOMAIN left = DOMAIN old
  BY <1>4 DEF AllAfter
<1>6. Once(open) /\ ToSet(open) \subseteq DOMAIN q.hits
  BY <1>2, <1>3, <1>5, OpenHitsOnce
<1>7. /\ t.out = out \o ARecords(open, i + 1)
      /\ t.afterRemaining = CountedDown(left)
      /\ t.before = RememberBeforeContext(before, i + 1, ctx) /\ ~t.exited
  BY <1>1, <1>3 DEF PassesBy
<1>8. /\ p \in ParseStates(f) /\ p.partial = q.partial
      /\ AllGrown(p.hits, q.hits, ToSet(open), i + 1)
  <2>1. PICK j \in Nat : j = i + 1
    OBVIOUS
  <2>2. q = AwkParsed(f, out) /\ p = AwkParsed(f, out \o ARecords(open, j))
    BY <1>1, <1>7, <2>1
  <2>3. OpenGrown(p, q, f, ToSet(open), j)
    BY <1>6, <2>2, OpenHitsAreGrown
  <2>4. QED BY <2>1, <2>3 DEF OpenGrown
<1>9. PICK new \in Seq(HitsOf(f)) : new = p.hits
  BY <1>8 DEF ParseStates
<1>10. AllGrown(new, old, ToSet(open), i + 1)
  BY <1>2, <1>8, <1>9
<1>11. Len(new) = Len(old) /\ \A k \in DOMAIN old : new[k].line = old[k].line
  BY <1>10, LinesOfGrown
<1>12. FirstHits(new, W, limit, i + 1)
  <2>1. i + 1 \notin Firsts(W, limit)
    BY DEF Firsts
  <2>2. QED BY <1>4, <1>11, <2>1, FirstHitsSame
<1>13. AllAfter(new, CountedDown(left), ctx, i + 1)
  BY <1>3, <1>4, <1>10, AllAfterGoesOn
<1>14. AllBefore(new, ctx)
  <2>1. DOMAIN new = DOMAIN old
    BY <1>11
  <2>2. QED BY <1>4, <1>10, <2>1, AllBeforeStays
<1>15. BeforeReady(RememberBeforeContext(before, i + 1, ctx), ctx, i + 1)
  BY <1>4, BeforeStaysReady
<1>16. ~p.partial /\ Len(new) # limit
  BY <1>4, <1>8, <1>11
<1>17. QED BY <1>7, <1>9, <1>12, <1>13, <1>14, <1>15, <1>16 DEF AwkInv

LEMMA AddedExtends ==
  ASSUME NEW new, NEW old, NEW i, NEW before, Added(new, old, i, before)
  PROVE  /\ Len(new) = Len(old) + 1 /\ new[Len(old) + 1].line = i
         /\ \A k \in DOMAIN old : new[k].line = old[k].line
         /\ \A k \in DOMAIN old : new[k] = old[k]
  BY DEF Added

LEMMA AwkFindsHit ==
  ASSUME NEW n \in Nat, NEW W, LineSet(W, n), NEW limit \in Nat, NEW i \in Nat,
         i + 1 \in W, NEW f, NEW ctx \in Nat,
         NEW s \in AwkStates, NEW q \in ParseStates(f), q = AwkParsed(f, s.out),
         AwkInv(s, q, W, ctx, limit, i), ~s.exited,
         NEW t, BecomesHit(t, s, i + 1, ctx, limit), NEW p, p = AwkParsed(f, t.out)
  PROVE  AwkInv(t, p, W, ctx, limit, i + 1)
<1>1. PICK out \in Seq(AwkPrinted), left \in Seq(Nat), before \in Seq(Nat) :
        out = s.out /\ left = s.afterRemaining /\ before = s.before
  BY DEF AwkStates
<1>2. PICK old \in Seq(HitsOf(f)) : old = q.hits
  BY DEF ParseStates
<1>3. PICK open \in Seq(Nat) : open = OpenHits(left)
  BY OpenHitsOnce
<1>4. /\ FirstHits(old, W, limit, i) /\ AllBefore(old, ctx)
      /\ AllAfter(old, left, ctx, i) /\ BeforeReady(before, ctx, i)
      /\ ~q.partial /\ Len(old) # limit
  BY <1>1, <1>2 DEF AwkInv
<1>5. Len(left) = Len(old) /\ DOMAIN left = DOMAIN old
  BY <1>4 DEF AllAfter
<1>6. Once(open) /\ ToSet(open) \subseteq DOMAIN q.hits
  BY <1>2, <1>3, <1>5, OpenHitsOnce
<1>7. PICK k \in Nat, j \in Nat : k = Len(old) + 1 /\ j = i + 1
  OBVIOUS
<1>8. /\ t.out = (out \o ARecords(open, j)) \o HitPrinted(before, k, j, limit)
      /\ t.afterRemaining = Append(CountedDown(left), ctx)
      /\ t.before = RememberBeforeContext(before, j, ctx)
      /\ t.exited <=> k >= limit
  BY <1>1, <1>3, <1>5, <1>7 DEF BecomesHit
<1>9. PICK b \in Seq(AwkPrinted) : b = out \o ARecords(open, j)
  <2>1. ARecords(open, j) \in Seq(AwkPrinted)
    BY ARecordsTyped
  <2>2. QED BY <2>1, ConcatProperties
<1>10. PICK p1 : p1 = AwkParsed(f, b)
  OBVIOUS
<1>11. /\ p1 \in ParseStates(f) /\ p1.partial = q.partial
       /\ AllGrown(p1.hits, q.hits, ToSet(open), j)
  <2>1. q = AwkParsed(f, out) /\ p1 = AwkParsed(f, out \o ARecords(open, j))
    BY <1>1, <1>9, <1>10
  <2>2. OpenGrown(p1, q, f, ToSet(open), j)
    BY <1>6, <2>1, OpenHitsAreGrown
  <2>3. QED BY <2>2 DEF OpenGrown
<1>12. PICK mid \in Seq(HitsOf(f)) : mid = p1.hits
  BY <1>11 DEF ParseStates
<1>13. AllGrown(mid, old, ToSet(open), j)
  BY <1>2, <1>11, <1>12
<1>14. Len(mid) = Len(old) /\ \A x \in DOMAIN old : mid[x].line = old[x].line
  BY <1>13, LinesOfGrown
<1>15. PICK d : d = Append(b, HRecord(k, j)) \o BRecords(before, k)
  OBVIOUS
<1>16. /\ d \in Seq(AwkPrinted)
       /\ t.out = IF k >= limit THEN Append(d, PRecord) ELSE d
  <2>1. /\ d \in Seq(AwkPrinted)
        /\ PrintsHit(b, before, k, j, limit, d)
    BY <1>15, HitPrintedTyped
  <2>2. b \o HitPrinted(before, k, j, limit) =
          IF k >= limit THEN Append(d, PRecord) ELSE d
    BY <2>1 DEF PrintsHit
  <2>3. t.out = b \o HitPrinted(before, k, j, limit)
    BY <1>8, <1>9
  <2>4. QED BY <2>1, <2>2, <2>3
<1>17. PICK p2 : p2 = AwkParsed(f, d)
  OBVIOUS
<1>18. /\ p2 \in ParseStates(f) /\ p2.partial = p1.partial
       /\ Added(p2.hits, p1.hits, j, before)
  <2>1. k = Len(p1.hits) + 1
    BY <1>7, <1>12, <1>14
  <2>2. p2 = AwkParsed(f, Append(b, HRecord(k, j)) \o BRecords(before, k))
    BY <1>15, <1>17
  <2>3. QED BY <1>10, <2>1, <2>2, HitIsAdded
<1>19. PICK new \in Seq(HitsOf(f)) : new = p2.hits
  BY <1>18 DEF ParseStates
<1>20. Added(new, mid, j, before)
  BY <1>12, <1>18, <1>19
<1>21. p.hits = new /\ (p.partial <=> k >= limit)
  <2>1. CASE k >= limit
    <3>1. PICK x \in AwkPrinted : x = PRecord /\ IsP(x)
      BY PRecordIn
    <3>2. p = AwkParsed(f, Append(d, x))
      BY <1>16, <2>1, <3>1
    <3>3. p = ParseAwkLine(p2, x, f)
      BY <1>16, <1>17, <3>2, AwkParsedAppend
    <3>4. Becomes(p, p2.hits, TRUE)
      BY <1>18, <3>1, <3>3, ParseP
    <3>5. QED BY <1>19, <2>1, <3>4 DEF Becomes
  <2>2. CASE ~(k >= limit)
    <3>1. p = p2
      BY <1>16, <1>17, <2>2
    <3>2. ~p2.partial
      BY <1>4, <1>11, <1>18
    <3>3. QED BY <1>19, <2>2, <3>1, <3>2
  <2>3. QED BY <2>1, <2>2
<1>22. Len(new) = k /\ new[k].line = j
  BY <1>7, <1>14, <1>20, AddedExtends
<1>23. Len(old) < limit /\ i + 1 \in Firsts(W, limit)
  <2>1. Count(W, i) \in Nat
    BY CountNext
  <2>2. Len(old) = IF Count(W, i) <= limit THEN Count(W, i) ELSE limit
    BY <1>4 DEF FirstHits
  <2>3. Count(W, i) < limit /\ Len(old) < limit
    BY <1>4, <2>1, <2>2
  <2>4. QED BY <2>3, FirstsFirst
<1>24. FirstHits(new, W, limit, i + 1)
  <2>1. \A x \in DOMAIN old : x \in DOMAIN mid
    BY <1>14
  <2>2. \A x \in DOMAIN old : new[x].line = old[x].line
    <3>1. \A x \in DOMAIN mid : new[x].line = mid[x].line
      BY <1>20, AddedExtends
    <3>2. QED BY <1>14, <2>1, <3>1
  <2>3. Len(new) = Len(old) + 1 /\ new[Len(old) + 1].line = i + 1
    BY <1>7, <1>22
  <2>4. QED BY <1>4, <1>23, <2>2, <2>3, FirstHitsMore
<1>25. PICK down \in Seq(Nat) : down = CountedDown(left)
  BY CountedDownTyped
<1>26. AllAfter(mid, down, ctx, i + 1)
  BY <1>3, <1>4, <1>7, <1>13, <1>25, AllAfterGoesOn
<1>27. AllBefore(mid, ctx)
  <2>1. DOMAIN mid = DOMAIN old
    BY <1>14
  <2>2. QED BY <1>4, <1>13, <2>1, AllBeforeStays
<1>28. AllAfter(new, Append(down, ctx), ctx, i + 1) /\ AllBefore(new, ctx)
  BY <1>4, <1>7, <1>20, <1>26, <1>27, HitsOfAdded
<1>29. BeforeReady(RememberBeforeContext(before, i + 1, ctx), ctx, i + 1)
  BY <1>4, BeforeStaysReady
<1>30. t.exited <=> Len(new) = limit
  <2>1. k >= limit <=> k = limit
    BY <1>7, <1>23
  <2>2. t.exited <=> k >= limit
    BY <1>8
  <2>3. QED BY <1>22, <2>1, <2>2
<1>31. p.partial <=> t.exited
  BY <1>8, <1>21
<1>32. AllAfter(new, t.afterRemaining, ctx, i + 1) /\ BeforeReady(t.before, ctx, i + 1)
  BY <1>7, <1>8, <1>25, <1>28, <1>29
<1>33. t.exited => \A x \in DOMAIN new : AfterExact(new[x], {}, ctx, new[limit].line)
  <2>1. t.exited => new[limit].line = i + 1
    BY <1>7, <1>22, <1>30
  <2>2. \A x \in DOMAIN new : AfterExact(new[x], {}, ctx, i + 1)
    BY <1>28 DEF AllAfter
  <2>3. QED BY <2>1, <2>2
<1>34. QED BY <1>21, <1>24, <1>28, <1>30, <1>31, <1>32, <1>33 DEF AwkInv

LEMMA AwkStarts ==
  ASSUME NEW n \in Nat, NEW W, LineSet(W, n), NEW limit \in Nat \ {0}, NEW ctx \in Nat,
         NEW f
  PROVE  AwkInv(AwkStart, AwkParsed(f, AwkStart.out), W, ctx, limit, 0)
<1>1. /\ AwkStart.out = <<>> /\ AwkStart.before = <<>> /\ AwkStart.afterRemaining = <<>>
      /\ ~AwkStart.exited
  BY DEF AwkStart
<1>2. AwkParsed(f, AwkStart.out) = ParseStart
  BY <1>1, AwkParsedEmpty
<1>3. ParseStart.hits = <<>> /\ ~ParseStart.partial
  BY DEF ParseStart
<1>4. FirstHits(<<>>, W, limit, 0)
  BY FirstHitsNone
<1>5. Len(<<>>) = 0 /\ DOMAIN <<>> = {} /\ 1..0 = {}
  OBVIOUS
<1>6. AllAfter(<<>>, <<>>, ctx, 0) /\ AllBefore(<<>>, ctx)
  BY <1>5 DEF AllAfter, AllBefore
<1>7. BeforeReady(<<>>, ctx, 0)
  BY <1>5 DEF BeforeReady
<1>8. QED BY <1>1, <1>2, <1>3, <1>4, <1>5, <1>6, <1>7 DEF AwkInv

(* What the script's output is parsed to, when the script has ended. *)
LEMMA AwkIsExact ==
  ASSUME NEW content \in Contents, NEW r \in Requests, TimeRange(r) # None,
         NEW limit \in Nat \ {0}, NEW f,
         NEW t, t = AwkScript(content, r, limit)
  PROVE  /\ t \in AwkStates /\ AwkParsed(f, t.out) \in ParseStates(f)
         /\ AwkInv(t, AwkParsed(f, t.out), WantedLines(content, r), ContextLines(r),
                   limit, Len(content))
<1> DEFINE lines == Numbers(content)
<1> DEFINE W == WantedLines(content, r)
<1> DEFINE step == AwkStep(content, r, limit)
<1>1. PICK n \in Nat : n = Len(content) /\ DOMAIN content = 1..n
  BY DataAssumption
<1>2. LineSet(W, n)
  BY <1>1 DEF LineSet, WantedLines
<1>3. /\ lines \in Seq(Nat) /\ Len(lines) = n /\ \A i \in 1..n : lines[i] = i
  BY <1>1, DataAssumption, NumbersOfLines
<1>4. PICK ctx \in Nat : ctx = ContextLines(r)
  BY ContextLinesIn
<1>5. \A i \in 1..n : i \in W <=> AwkSelects(content[i], r)
  <2>1. ASSUME NEW i \in 1..n PROVE i \in W <=> AwkSelects(content[i], r)
    <3>1. content[i] \in [word : BOOLEAN, at : Times]
      <4>1. PICK E : E = [word : BOOLEAN, at : Times]
        OBVIOUS
      <4>2. content \in Seq(E)
        BY <4>1, DataAssumption
      <4>3. i \in 1..Len(content)
        BY <1>1
      <4>4. content[i] \in E
        BY <4>2, <4>3
      <4>5. QED BY <4>1, <4>4
    <3>2. IsLine(content[i])
      BY <3>1 DEF IsLine
    <3>3. QED BY <1>1, <3>2, AwkSelectsWanted DEF WantedLines
  <2>2. QED BY <2>1
<1>6. FoldsTo(AwkStates, AwkStart, step, lines, t)
  BY AwkScriptFolds
<1>7. PICK g \in [0..n -> AwkStates] : Goes(g, AwkStart, step, lines, n) /\ t = g[n]
  BY <1>3, <1>6 DEF FoldsTo
<1>8. \A s \in AwkStates, i \in Nat : step[<<s, i>>] = AwkLine(s, i, content, r, limit)
  BY DEF AwkStep
<1> HIDE DEF step, lines, W
<1> DEFINE P(m) == m <= n => AwkInv(g[m], AwkParsed(f, g[m].out), W, ctx, limit, m)
<1>9. P(0)
  <2>1. g[0] = AwkStart
    BY <1>7 DEF Goes
  <2>2. QED BY <1>2, <2>1, AwkStarts
<1>10. ASSUME NEW m \in Nat, P(m)
       PROVE  P(m + 1)
  <2>1. SUFFICES ASSUME m + 1 <= n
                 PROVE  AwkInv(g[m + 1], AwkParsed(f, g[m + 1].out), W, ctx, limit, m + 1)
    OBVIOUS
  <2>2. m \in 0..n /\ m + 1 \in 1..n /\ (m + 1) - 1 = m
    BY <2>1
  <2>3. PICK s \in AwkStates : s = g[m]
    BY <2>2
  <2>4. PICK u : u = g[m + 1]
    OBVIOUS
  <2>5. u = AwkLine(s, m + 1, content, r, limit)
    <3>1. u = step[<<s, m + 1>>]
      BY <1>3, <1>7, <2>2, <2>3, <2>4 DEF Goes
    <3>2. QED BY <1>8, <3>1
  <2>6. PICK q \in ParseStates(f) : q = AwkParsed(f, s.out)
    <3>1. s.out \in Seq(AwkPrinted)
      BY DEF AwkStates
    <3>2. QED BY <3>1, AwkParsedAppend, PRecordIn
  <2>7. AwkInv(s, q, W, ctx, limit, m)
    BY <1>10, <2>2, <2>3, <2>6
  <2>8. /\ s.exited => u = s
        /\ ~s.exited /\ m + 1 \notin W => PassesBy(u, s, m + 1, ctx)
        /\ ~s.exited /\ m + 1 \in W => BecomesHit(u, s, m + 1, ctx, limit)
    BY <1>4, <1>5, <2>2, <2>5, AwkLineTyped
  <2>9. PICK p : p = AwkParsed(f, u.out)
    OBVIOUS
  <2>10. AwkInv(u, p, W, ctx, limit, m + 1)
    <3>1. CASE s.exited
      <4>1. u = s /\ p = q
        BY <2>6, <2>8, <2>9, <3>1
      <4>2. AwkInv(s, q, W, ctx, limit, m + 1)
        BY <1>2, <2>7, <3>1, AwkHasExited
      <4>3. QED BY <4>1, <4>2
    <3>2. CASE ~s.exited /\ m + 1 \notin W
      BY <1>2, <2>6, <2>7, <2>8, <2>9, <3>2, AwkPassesBy
    <3>3. CASE ~s.exited /\ m + 1 \in W
      BY <1>2, <2>6, <2>7, <2>8, <2>9, <3>3, AwkFindsHit
    <3>4. QED BY <3>1, <3>2, <3>3
  <2>11. QED BY <2>4, <2>9, <2>10
<1> HIDE DEF P
<1>11. \A m \in Nat : P(m)
  <2> DEFINE T == {m \in Nat : P(m)}
  <2>1. 0 \in T
    BY <1>9
  <2>2. \A m \in Nat : m \in T => m + 1 \in T
    BY <1>10
  <2> HIDE DEF T
  <2>3. Nat \subseteq T
    BY <2>1, <2>2, Induction
  <2>4. QED BY <2>3 DEF T
<1>12. P(n) /\ n <= n /\ n \in 0..n
  BY <1>11
<1>13. t \in AwkStates
  BY <1>7, <1>12
<1>14. AwkParsed(f, t.out) \in ParseStates(f)
  <2>1. t.out \in Seq(AwkPrinted)
    BY <1>13 DEF AwkStates
  <2>2. QED BY <2>1, AwkParsedAppend, PRecordIn
<1>15. AwkInv(t, AwkParsed(f, t.out), W, ctx, limit, n)
  BY <1>7, <1>12 DEF P
<1>16. QED BY <1>1, <1>4, <1>13, <1>14, <1>15 DEF W

-------------------------------------------------------------------------------
(* What the search of one file returns.                                        *)
CtxExact(h, content, r, e) ==
  IF TimeRange(r) = None
  THEN /\ BeforeExact(h, Words(content), ContextLines(r))
       /\ AfterExact(h, Words(content), ContextLines(r), Len(content))
  ELSE /\ BeforeExact(h, {}, ContextLines(r))
       /\ AfterExact(h, {}, ContextLines(r), e)

FileSearched(hits_, partial_, f, content, r, limit) ==
  /\ hits_ \in Seq(HitsOf(f))
  /\ FirstHits(hits_, WantedLines(content, r), limit, Len(content))
  /\ partial_ => Len(hits_) = limit
  /\ \A k \in DOMAIN hits_ :
       CtxExact(hits_[k], content, r,
                IF Len(hits_) = limit THEN hits_[limit].line ELSE Len(content))

LEMMA LinesTyped ==
  ASSUME NEW content \in Contents
  PROVE  /\ Len(content) \in Nat /\ DOMAIN content = 1..Len(content)
         /\ \A i \in DOMAIN content : IsLine(content[i])
<1>1. PICK E : E = [word : BOOLEAN, at : Times]
  OBVIOUS
<1>2. content \in Seq(E)
  BY <1>1, DataAssumption
<1>3. \A i \in DOMAIN content : content[i] \in E
  BY <1>2
<1>4. \A i \in DOMAIN content : IsLine(content[i])
  BY <1>1, <1>3 DEF IsLine
<1>5. QED BY <1>2, <1>4

(* A file searched with grep gives the first wanted lines of the file as hits, in
   order, with the lines around them up to the next lines with the keyword, and is
   called partial only with as many hits as allowed (grepFile). *)
THEOREM GrepFileSearched ==
  ASSUME NEW f, NEW content \in Contents, NEW r \in Requests, NEW limit \in Nat \ {0},
         TimeRange(r) = None, r.keyword, NEW res, res = GrepFile(f, content, r, limit)
  PROVE  FileSearched(res.hits, res.partial, f, content, r, limit)
<1>1. PICK ctx \in Nat : ctx = ContextLines(r)
  BY ContextLinesIn
<1>2. PICK p : p = GrepParsed(f, ctx, GrepOutput(content, ctx, limit))
  OBVIOUS
<1>3. GrepInv(p, f, content, ctx, limit, Len(content))
  BY <1>2, GrepIsExact
<1>4. res.hits = p.hits /\ ~res.partial
  <2>1. p = GrepParsed(f, ContextLines(r), GrepOutput(content, ContextLines(r), limit))
    BY <1>1, <1>2
  <2>2. res = [hits |-> GrepParsed(f, ContextLines(r),
                                   GrepOutput(content, ContextLines(r), limit)).hits,
               partial |-> FALSE]
    BY DEF GrepFile, GrepParsed
  <2>3. QED BY <2>1, <2>2
<1>5. Words(content) = WantedLines(content, r)
  <2>1. \A i \in DOMAIN content : content[i].word <=> Wanted(content[i], r)
    BY LinesTyped, GrepSelectsWanted
  <2>2. QED BY <2>1 DEF Words, WantedLines
<1>6. p.hits \in Seq(HitsOf(f))
  BY <1>3 DEF GrepInv, GrepStates
<1>7. FirstHits(p.hits, WantedLines(content, r), limit, Len(content))
  BY <1>3, <1>5 DEF GrepInv
<1>8. \A k \in DOMAIN p.hits : /\ BeforeExact(p.hits[k], Words(content), ctx)
                               /\ AfterExact(p.hits[k], Words(content), ctx, Len(content))
  BY <1>3 DEF GrepInv
<1>9. QED BY <1>1, <1>4, <1>6, <1>7, <1>8 DEF FileSearched, CtxExact

(* A file searched with the script gives the same hits as its first wanted lines,
   each with its full context as far as the script has read, and is called partial
   only with as many hits as allowed (searchFileByLogTimestamp). *)
THEOREM AwkFileSearched ==
  ASSUME NEW f, NEW content \in Contents, NEW r \in Requests, NEW limit \in Nat \ {0},
         TimeRange(r) # None,
         NEW res, res = SearchFileByLogTimestamp(f, content, r, limit)
  PROVE  FileSearched(res.hits, res.partial, f, content, r, limit)
<1>1. PICK t : t = AwkScript(content, r, limit)
  OBVIOUS
<1>2. PICK p : p = AwkParsed(f, t.out)
  OBVIOUS
<1>3. PICK W, ctx : W = WantedLines(content, r) /\ ctx = ContextLines(r)
  OBVIOUS
<1>4. p \in ParseStates(f) /\ AwkInv(t, p, W, ctx, limit, Len(content))
  BY <1>1, <1>2, <1>3, AwkIsExact
<1>5. res = p
  BY <1>1, <1>2 DEF SearchFileByLogTimestamp, AwkScript, AwkParsed, ParseStart
<1>6. p.hits \in Seq(HitsOf(f))
  BY <1>4 DEF ParseStates
<1>7. /\ FirstHits(p.hits, W, limit, Len(content)) /\ AllBefore(p.hits, ctx)
      /\ p.partial => Len(p.hits) = limit
  BY <1>4 DEF AwkInv
<1>8. ASSUME NEW k \in DOMAIN p.hits
      PROVE  AfterExact(p.hits[k], {}, ctx,
                        IF Len(p.hits) = limit THEN p.hits[limit].line ELSE Len(content))
  <2>1. CASE Len(p.hits) = limit
    BY <1>4, <2>1 DEF AwkInv
  <2>2. CASE Len(p.hits) # limit
    <3>1. AllAfter(p.hits, t.afterRemaining, ctx, Len(content))
      BY <1>4, <2>2 DEF AwkInv
    <3>2. QED BY <2>2, <3>1 DEF AllAfter
  <2>3. QED BY <2>1, <2>2
<1>9. ASSUME NEW k \in DOMAIN p.hits
      PROVE  CtxExact(p.hits[k], content, r,
                      IF Len(p.hits) = limit THEN p.hits[limit].line ELSE Len(content))
  BY <1>3, <1>7, <1>8 DEF CtxExact, AllBefore
<1>10. QED BY <1>3, <1>5, <1>6, <1>7, <1>9 DEF FileSearched

-------------------------------------------------------------------------------
(* The hits of one file more.                                                  *)
AnyHit == [file : Names, line : Nat, before : Seq(Nat), after : Seq(Nat)]

Scans == [file : Names, content : Contents]

Precedes(l, x, m, y) == l < m \/ (l = m /\ x < y)

IsHit(hits_, f, i) == \E k \in DOMAIN hits_ : hits_[k].file = f /\ hits_[k].line = i

AllFound(hits_, read_, r) ==
  \A m \in DOMAIN read_ : \A i \in WantedLines(read_[m].content, r) :
    IsHit(hits_, read_[m].file, i)

(* Every hit is of a file that was read, *)
HitsRead(hits_, read_) ==
  \A k \in DOMAIN hits_ : \E m \in DOMAIN read_ : read_[m].file = hits_[k].file

(* and is a wanted line of it; *)
HitsWanted(hits_, read_, r) ==
  \A k \in DOMAIN hits_, m \in DOMAIN read_ :
    read_[m].file = hits_[k].file => hits_[k].line \in WantedLines(read_[m].content, r)

(* they are in order, *)
HitsOrdered(hits_, read_) ==
  \A j, k \in DOMAIN hits_, l, m \in DOMAIN read_ :
    j < k /\ read_[l].file = hits_[j].file /\ read_[m].file = hits_[k].file =>
      Precedes(l, hits_[j].line, m, hits_[k].line)

(* and come before all the wanted lines that are none. *)
HitsFirst(hits_, read_, r) ==
  \A m \in DOMAIN read_ : \A i \in WantedLines(read_[m].content, r) :
    ~IsHit(hits_, read_[m].file, i) =>
      \A k \in DOMAIN hits_, l \in DOMAIN read_ :
        read_[l].file = hits_[k].file => Precedes(l, hits_[k].line, m, i)

FilesDiffer(read_) ==
  \A l, m \in DOMAIN read_ : read_[l].file = read_[m].file => l = m

(* The next file is read: new are its hits. *)
NextFile(hits2, read2, hits_, read_, f, content, new) ==
  /\ Len(hits2) = Len(hits_) + Len(new)
  /\ \A k \in 1..Len(hits_) : hits2[k] = hits_[k]
  /\ \A k \in 1..Len(new) : hits2[Len(hits_) + k] = new[k]
  /\ Len(read2) = Len(read_) + 1
  /\ \A m \in 1..Len(read_) : read2[m] = read_[m] /\ read_[m].file # f
  /\ read2[Len(read_) + 1].file = f
  /\ read2[Len(read_) + 1].content = content

(* The hits before it are of the files before it, the new ones of the new file. *)
Joins(hits2, read2, hits_, read_, f, content, new, a, b, c) ==
  /\ a \in Nat /\ b \in Nat /\ c \in Nat
  /\ DOMAIN hits_ = 1..a /\ DOMAIN new = 1..b /\ DOMAIN read_ = 1..c
  /\ DOMAIN hits2 = 1..(a + b) /\ DOMAIN read2 = 1..(c + 1)
  /\ \A k \in 1..(a + b) : k \in 1..a \/ \E j \in 1..b : k = a + j
  /\ \A m \in 1..(c + 1) : m \in 1..c \/ m = c + 1
  /\ \A k \in 1..a : hits2[k] = hits_[k] /\ hits_[k].file # f
  /\ \A k \in 1..b : hits2[a + k] = new[k] /\ new[k].file = f
  /\ \A m \in 1..c : read2[m] = read_[m] /\ read_[m].file # f
  /\ read2[c + 1].file = f /\ read2[c + 1].content = content

LEMMA HitsKeepTheirFiles ==
  ASSUME NEW hits_ \in Seq(AnyHit), NEW hits2 \in Seq(AnyHit),
         NEW read_ \in Seq(Scans), NEW read2 \in Seq(Scans), NEW f,
         NEW new \in Seq(HitsOf(f)), NEW content,
         NextFile(hits2, read2, hits_, read_, f, content, new),
         HitsRead(hits_, read_),
         NEW a, a = Len(hits_), NEW b, b = Len(new), NEW c, c = Len(read_)
  PROVE  Joins(hits2, read2, hits_, read_, f, content, new, a, b, c)
<1>1. a \in Nat /\ b \in Nat /\ c \in Nat
  OBVIOUS
<1>2. /\ DOMAIN hits_ = 1..a /\ DOMAIN new = 1..b /\ DOMAIN read_ = 1..c
  OBVIOUS
<1>3. Len(hits2) = a + b /\ Len(read2) = c + 1
  BY DEF NextFile
<1>4. DOMAIN hits2 = 1..(a + b) /\ DOMAIN read2 = 1..(c + 1)
  BY <1>3
<1>5. ASSUME NEW k \in 1..(a + b), k \notin 1..a
      PROVE  \E j \in 1..b : k = a + j
  <2>1. k - a \in 1..b /\ k = a + (k - a)
    BY <1>1, <1>5
  <2>2. QED BY <2>1
<1>6. \A m \in 1..(c + 1) : m \in 1..c \/ m = c + 1
  BY <1>1
<1>7. /\ \A k \in 1..a : hits2[k] = hits_[k]
      /\ \A k \in 1..b : hits2[a + k] = new[k]
      /\ \A m \in 1..c : read2[m] = read_[m] /\ read_[m].file # f
      /\ read2[c + 1].file = f /\ read2[c + 1].content = content
  BY DEF NextFile
<1>8. \A k \in 1..a : hits_[k].file # f
  <2>1. ASSUME NEW k \in 1..a PROVE hits_[k].file # f
    <3>1. PICK m \in 1..c : read_[m].file = hits_[k].file
      BY <1>2 DEF HitsRead
    <3>2. read_[m].file # f
      BY <1>7
    <3>3. QED BY <3>1, <3>2
  <2>2. QED BY <2>1
<1>9. \A k \in 1..b : new[k].file = f
  <2>1. ASSUME NEW k \in 1..b PROVE new[k].file = f
    BY <1>2, GrepHitsTyped
  <2>2. QED BY <2>1
<1>10. QED BY <1>1, <1>2, <1>4, <1>5, <1>6, <1>7, <1>8, <1>9 DEF Joins

(* What holds of the hits once the new ones are added. *)
ScanAdds(hits2, read2, new, r, limit) ==
  /\ HitsRead(hits2, read2) /\ HitsWanted(hits2, read2, r)
  /\ HitsOrdered(hits2, read2) /\ HitsFirst(hits2, read2, r)
  /\ FilesDiffer(read2)
  /\ Len(new) < limit => AllFound(hits2, read2, r)
  /\ Len(new) <= limit

LEMMA ScanKeepsHits ==
  ASSUME NEW hits_ \in Seq(AnyHit), NEW hits2 \in Seq(AnyHit),
         NEW read_ \in Seq(Scans), NEW read2 \in Seq(Scans), NEW f,
         NEW new \in Seq(HitsOf(f)), NEW content \in Contents,
         NextFile(hits2, read2, hits_, read_, f, content, new),
         NEW r, NEW limit \in Nat \ {0},
         FirstHits(new, WantedLines(content, r), limit, Len(content)),
         HitsRead(hits_, read_), HitsWanted(hits_, read_, r),
         HitsOrdered(hits_, read_), AllFound(hits_, read_, r), FilesDiffer(read_)
  PROVE  ScanAdds(hits2, read2, new, r, limit)
<1> DEFINE W == WantedLines(content, r)
<1>1. PICK a, b, c : a = Len(hits_) /\ b = Len(new) /\ c = Len(read_)
  OBVIOUS
<1>0. Joins(hits2, read2, hits_, read_, f, content, new, a, b, c)
  BY <1>1, HitsKeepTheirFiles
<1>2. /\ a \in Nat /\ b \in Nat /\ c \in Nat
      /\ DOMAIN hits_ = 1..a /\ DOMAIN new = 1..b /\ DOMAIN read_ = 1..c
      /\ DOMAIN hits2 = 1..(a + b) /\ DOMAIN read2 = 1..(c + 1)
  BY <1>0 DEF Joins
<1>3. /\ \A k \in 1..(a + b) : k \in 1..a \/ \E j \in 1..b : k = a + j
      /\ \A m \in 1..(c + 1) : m \in 1..c \/ m = c + 1
  BY <1>0 DEF Joins
<1>4. /\ \A k \in 1..a : hits2[k] = hits_[k] /\ hits_[k].file # f
      /\ \A k \in 1..b : hits2[a + k] = new[k] /\ new[k].file = f
      /\ \A m \in 1..c : read2[m] = read_[m] /\ read_[m].file # f
      /\ read2[c + 1].file = f /\ read2[c + 1].content = content
  BY <1>0 DEF Joins
<1>5. /\ \A k \in 1..a : k \in 1..(a + b)
      /\ \A k \in 1..b : a + k \in 1..(a + b)
      /\ \A m \in 1..c : m \in 1..(c + 1) /\ m < c + 1
      /\ c + 1 \in 1..(c + 1)
  BY <1>2
<1>6. /\ Len(content) \in Nat /\ LineSet(W, Len(content))
  BY LinesTyped DEF LineSet, WantedLines
<1>7. \A k \in 1..b : new[k].line \in Firsts(W, limit) /\ new[k].line \in W
  BY <1>2, <1>6, FirstsFirst DEF FirstHits
<1>8. ASSUME NEW m \in Firsts(W, limit)
      PROVE  \E k \in 1..b : new[k].line = m
  <2>1. m <= Len(content)
    BY <1>6, FirstsAreLines
  <2>2. QED BY <1>2, <2>1 DEF FirstHits
<1>9. ASSUME NEW i \in W, i \notin Firsts(W, limit), NEW m \in Firsts(W, limit)
      PROVE  m < i
  <2>1. ~(i <= m)
    BY <1>6, <1>9, FirstsFirst
  <2>2. i \in Nat /\ m \in Nat
    BY <1>6, FirstsAreLines DEF LineSet
  <2>3. QED BY <2>1, <2>2
<1>10. Len(new) <= limit /\ (Len(new) < limit => \A i \in W : i \in Firsts(W, limit))
  <2>1. Count(W, Len(content)) \in Nat
    BY <1>6, CountNext
  <2>2. Len(new) = IF Count(W, Len(content)) <= limit THEN Count(W, Len(content)) ELSE limit
    BY DEF FirstHits
  <2>3. ASSUME Len(new) < limit, NEW i \in W PROVE i \in Firsts(W, limit)
    <3>1. Count(W, Len(content)) <= limit
      BY <2>1, <2>2, <2>3
    <3>2. i <= Len(content)
      BY <1>6 DEF LineSet
    <3>3. QED BY <1>6, <3>1, <3>2, FirstsFirst
  <2>4. QED BY <2>1, <2>2, <2>3
<1> HIDE DEF W
(* Where a hit of the longer list comes from. *)
<1>11. ASSUME NEW k \in 1..(a + b), NEW m \in 1..(c + 1), read2[m].file = hits2[k].file
       PROVE  \/ /\ k \in 1..a /\ m \in 1..c
                 /\ hits2[k] = hits_[k] /\ read2[m] = read_[m]
              \/ \E j \in 1..b : k = a + j /\ m = c + 1 /\ hits2[k] = new[j]
  <2>1. CASE k \in 1..a
    <3>1. hits2[k] = hits_[k] /\ hits_[k].file # f
      BY <1>4, <2>1
    <3>2. m # c + 1
      BY <1>4, <1>11, <3>1
    <3>3. m \in 1..c /\ read2[m] = read_[m]
      BY <1>3, <1>4, <3>2
    <3>4. QED BY <2>1, <3>1, <3>3
  <2>2. CASE k \notin 1..a
    <3>1. PICK j \in 1..b : k = a + j
      BY <1>3, <2>2
    <3>2. hits2[k] = new[j] /\ hits2[k].file = f
      BY <1>4, <3>1
    <3>3. m \notin 1..c
      BY <1>4, <1>11, <3>2
    <3>4. m = c + 1
      BY <1>3, <3>3
    <3>5. QED BY <3>1, <3>2, <3>4
  <2>3. QED BY <2>1, <2>2
<1>12. HitsRead(hits2, read2)
  <2>1. ASSUME NEW k \in 1..(a + b)
        PROVE  \E m \in 1..(c + 1) : read2[m].file = hits2[k].file
    <3>1. CASE k \in 1..a
      <4>1. PICK m \in 1..c : read_[m].file = hits_[k].file
        BY <1>2, <3>1 DEF HitsRead
      <4>2. read2[m].file = hits2[k].file /\ m \in 1..(c + 1)
        BY <1>4, <1>5, <3>1, <4>1
      <4>3. QED BY <4>2
    <3>2. CASE k \notin 1..a
      <4>1. PICK j \in 1..b : k = a + j
        BY <1>3, <3>2
      <4>2. hits2[k].file = f
        BY <1>4, <4>1
      <4>3. QED BY <1>4, <1>5, <4>2
    <3>3. QED BY <3>1, <3>2
  <2>2. QED BY <1>2, <2>1 DEF HitsRead
<1>13. HitsWanted(hits2, read2, r)
  <2>1. ASSUME NEW k \in 1..(a + b), NEW m \in 1..(c + 1), read2[m].file = hits2[k].file
        PROVE  hits2[k].line \in WantedLines(read2[m].content, r)
    <3>1. CASE /\ k \in 1..a /\ m \in 1..c
               /\ hits2[k] = hits_[k] /\ read2[m] = read_[m]
      <4>1. read_[m].file = hits_[k].file
        BY <2>1, <3>1
      <4>2. hits_[k].line \in WantedLines(read_[m].content, r)
        BY <1>2, <3>1, <4>1 DEF HitsWanted
      <4>3. QED BY <3>1, <4>2
    <3>2. CASE \E j \in 1..b : k = a + j /\ m = c + 1 /\ hits2[k] = new[j]
      <4>1. PICK j \in 1..b : k = a + j /\ m = c + 1 /\ hits2[k] = new[j]
        BY <3>2
      <4>2. new[j].line \in WantedLines(content, r)
        BY <1>7 DEF W
      <4>3. read2[m].content = content
        BY <1>4, <4>1
      <4>4. QED BY <4>1, <4>2, <4>3
    <3>3. QED BY <1>11, <2>1, <3>1, <3>2
  <2>2. QED BY <1>2, <2>1 DEF HitsWanted
<1>14. HitsOrdered(hits2, read2)
  <2>1. ASSUME NEW j \in 1..(a + b), NEW k \in 1..(a + b),
               NEW l \in 1..(c + 1), NEW m \in 1..(c + 1), j < k,
               read2[l].file = hits2[j].file, read2[m].file = hits2[k].file
        PROVE  Precedes(l, hits2[j].line, m, hits2[k].line)
    <3>1. CASE k \in 1..a
      <4>1. j \in 1..a
        BY <1>2, <2>1, <3>1
      <4>2. /\ m \in 1..c /\ hits2[k] = hits_[k] /\ read2[m] = read_[m]
        <5>1. \A y \in 1..b : k # a + y
          BY <1>2, <3>1
        <5>2. QED BY <1>11, <2>1, <5>1
      <4>3. /\ l \in 1..c /\ hits2[j] = hits_[j] /\ read2[l] = read_[l]
        <5>1. \A y \in 1..b : j # a + y
          BY <1>2, <4>1
        <5>2. QED BY <1>11, <2>1, <5>1
      <4>4. QED BY <1>2, <2>1, <3>1, <4>1, <4>2, <4>3 DEF HitsOrdered
    <3>2. CASE k \notin 1..a
      <4>1. PICK y \in 1..b : k = a + y /\ m = c + 1 /\ hits2[k] = new[y]
        BY <1>11, <2>1, <3>2
      <4>2. CASE j \in 1..a
        <5>1. \A x \in 1..b : j # a + x
          BY <1>2, <4>2
        <5>2. l \in 1..c
          BY <1>11, <2>1, <5>1
        <5>3. QED BY <1>5, <4>1, <5>2 DEF Precedes
      <4>3. CASE j \notin 1..a
        <5>1. PICK x \in 1..b : j = a + x /\ l = c + 1 /\ hits2[j] = new[x]
          BY <1>11, <2>1, <4>3
        <5>2. x < y
          BY <1>2, <2>1, <4>1, <5>1
        <5>3. new[x].line < new[y].line
          BY <1>2, <5>2 DEF FirstHits
        <5>4. QED BY <4>1, <5>1, <5>3 DEF Precedes
      <4>4. QED BY <4>2, <4>3
    <3>3. QED BY <3>1, <3>2
  <2>2. QED BY <1>2, <2>1 DEF HitsOrdered
<1>15. ASSUME NEW m \in 1..c, NEW i \in WantedLines(read2[m].content, r)
       PROVE  IsHit(hits2, read2[m].file, i)
  <2>1. read2[m] = read_[m]
    BY <1>4
  <2>2. IsHit(hits_, read_[m].file, i)
    BY <1>2, <2>1 DEF AllFound
  <2>3. PICK k \in 1..a : hits_[k].file = read_[m].file /\ hits_[k].line = i
    BY <1>2, <2>2 DEF IsHit
  <2>4. hits2[k] = hits_[k] /\ k \in 1..(a + b)
    BY <1>4, <1>5
  <2>5. QED BY <1>2, <2>1, <2>3, <2>4 DEF IsHit
<1>16. ASSUME NEW i \in Firsts(W, limit)
       PROVE  IsHit(hits2, f, i)
  <2>1. PICK k \in 1..b : new[k].line = i
    BY <1>8
  <2>2. hits2[a + k] = new[k] /\ new[k].file = f /\ a + k \in 1..(a + b)
    BY <1>4, <1>5
  <2>3. QED BY <1>2, <2>1, <2>2 DEF IsHit
<1>17. HitsFirst(hits2, read2, r)
  <2>1. ASSUME NEW m \in 1..(c + 1), NEW i \in WantedLines(read2[m].content, r),
               ~IsHit(hits2, read2[m].file, i),
               NEW k \in 1..(a + b), NEW l \in 1..(c + 1), read2[l].file = hits2[k].file
        PROVE  Precedes(l, hits2[k].line, m, i)
    <3>1. m = c + 1
      BY <1>3, <1>15, <2>1
    <3>2. i \in W /\ i \notin Firsts(W, limit)
      <4>1. read2[m].file = f /\ read2[m].content = content
        BY <1>4, <3>1
      <4>2. i \notin Firsts(W, limit)
        BY <1>16, <2>1, <4>1
      <4>3. QED BY <4>1, <4>2 DEF W
    <3>3. CASE l \in 1..c
      BY <1>5, <3>1, <3>3 DEF Precedes
    <3>4. CASE l \notin 1..c
      <4>1. PICK y \in 1..b : l = c + 1 /\ hits2[k] = new[y]
        BY <1>11, <2>1, <3>4
      <4>2. new[y].line < i
        BY <1>7, <1>9, <3>2
      <4>3. QED BY <3>1, <4>1, <4>2 DEF Precedes
    <3>5. QED BY <3>3, <3>4
  <2>2. QED BY <1>2, <2>1 DEF HitsFirst
<1>18. FilesDiffer(read2)
  <2>1. ASSUME NEW l \in 1..(c + 1), NEW m \in 1..(c + 1), read2[l].file = read2[m].file
        PROVE  l = m
    <3>1. CASE l \in 1..c /\ m \in 1..c
      BY <1>2, <1>4, <2>1, <3>1 DEF FilesDiffer
    <3>2. CASE l \notin 1..c \/ m \notin 1..c
      BY <1>3, <1>4, <2>1, <3>2
    <3>3. QED BY <3>1, <3>2
  <2>2. QED BY <1>2, <2>1 DEF FilesDiffer
<1>19. ASSUME Len(new) < limit
       PROVE  AllFound(hits2, read2, r)
  <2>1. ASSUME NEW m \in 1..(c + 1), NEW i \in WantedLines(read2[m].content, r)
        PROVE  IsHit(hits2, read2[m].file, i)
    <3>1. CASE m \in 1..c
      BY <1>15, <3>1
    <3>2. CASE m = c + 1
      <4>1. read2[m].file = f /\ read2[m].content = content
        BY <1>4, <3>2
      <4>2. i \in Firsts(W, limit)
        BY <1>10, <1>19, <4>1 DEF W
      <4>3. QED BY <1>16, <4>1, <4>2
    <3>3. QED BY <1>3, <3>1, <3>2
  <2>2. QED BY <1>2, <2>1 DEF AllFound
<1>20. QED BY <1>10, <1>12, <1>13, <1>14, <1>17, <1>18, <1>19 DEF ScanAdds

-------------------------------------------------------------------------------
(* The files of a search. Every listing has the files of the type, each once, and
   what is chosen of a listing depends on its files alone.                      *)
LEMMA ListingsListAll ==
  ASSUME NEW type, NEW files \in Listings(type)
  PROVE  /\ files \in Seq(Names) /\ Once(files)
         /\ ToSet(files) = {f \in Names : Meta[f].type = type}
<1>1. PICK S : S = {f \in Names : Meta[f].type = type}
  OBVIOUS
<1>2. IsFiniteSet(S) /\ Cardinality(S) \in Nat
  <2>1. S \in SUBSET Names /\ IsFiniteSet(Names)
    BY <1>1, DataAssumption
  <2>2. IsFiniteSet(S)
    BY <2>1, FS_Subset
  <2>3. QED BY <2>2, FS_CardinalityType
<1>3. PICK n \in Nat : n = Cardinality(S)
  BY <1>2
<1>4. /\ files \in [1..n -> S]
      /\ \A i, j \in 1..n : i < j => files[i] # files[j]
  BY <1>1, <1>3 DEF Listings
<1>5. \A i, j \in 1..n : files[i] = files[j] => i = j
  <2>1. \A i, j \in 1..n : i < j \/ j < i \/ i = j
    OBVIOUS
  <2>2. QED BY <1>4, <2>1
<1>6. files \in Injection(1..n, S)
  BY <1>4, <1>5 DEF Injection, IsInjective
<1>7. Cardinality(1..n) = n
  <2>1. Cardinality(1..n) = IF 1 > n THEN 0 ELSE n - 1 + 1
    BY FS_Interval
  <2>2. QED BY <2>1
<1>8. files \in Surjection(1..n, S)
  BY <1>2, <1>3, <1>6, <1>7, FS_Injection
<1>9. DOMAIN files = 1..n
  BY <1>4
<1>10. ToSet(files) = S
  BY <1>4, <1>8, <1>9 DEF Surjection, ToSet
<1>11. files \in Seq(Names)
  <2>1. S \subseteq Names
    BY <1>1
  <2>2. files \in [1..n -> Names]
    BY <1>4, <2>1
  <2>3. QED BY <2>2, SeqDef
<1>12. Once(files)
  BY <1>5, <1>9 DEF Once
<1>13. QED BY <1>1, <1>10, <1>11, <1>12

(* What is chosen of a listing is the whole of it or the part in some set, and
   that set is the same for every listing of the same files. *)
Recent(E, days) ==
  LET dated == {f \in E : Meta[f].date \notin NotDates}
  IN  IF dated = {} THEN E
      ELSE {f \in dated : \A g \in dated : Meta[f].date > Meta[g].date - days}

Chosen(r, E) ==
  CASE r.scope = "CURRENT_FILE" -> {r.file}
    [] r.scope = "DAY"          -> {f \in Names : Meta[f].date = r.date}
    [] r.scope = "LAST_3_DAYS"  -> Recent(E, 3)
    [] r.scope = "LAST_7_DAYS"  -> Recent(E, 7)
    [] OTHER                    -> E

LEMMA RecentChosen ==
  ASSUME NEW files, NEW days, NEW S, S = Recent(ToSet(files), days)
  PROVE  \/ FilterFilesByRecentDays(files, days) = files /\ S = ToSet(files)
         \/ FilterFilesByRecentDays(files, days) = Only(files, S)
  BY DEF FilterFilesByRecentDays, Recent

LEMMA SelectChooses ==
  ASSUME NEW files, NEW r
  PROVE  \/ /\ SelectTargetFiles(files, r) = files
            /\ Chosen(r, ToSet(files)) = ToSet(files)
         \/ SelectTargetFiles(files, r) = Only(files, Chosen(r, ToSet(files)))
<1>1. CASE r.scope = "CURRENT_FILE" \/ r.scope = "DAY"
  BY <1>1 DEF SelectTargetFiles, Chosen
<1>2. CASE r.scope = "LAST_3_DAYS"
  <2>1. SelectTargetFiles(files, r) = FilterFilesByRecentDays(files, 3)
    BY <1>2 DEF SelectTargetFiles
  <2>2. Chosen(r, ToSet(files)) = Recent(ToSet(files), 3)
    BY <1>2 DEF Chosen
  <2>3. QED BY <2>1, <2>2, RecentChosen
<1>3. CASE r.scope = "LAST_7_DAYS"
  <2>1. SelectTargetFiles(files, r) = FilterFilesByRecentDays(files, 7)
    BY <1>3 DEF SelectTargetFiles
  <2>2. Chosen(r, ToSet(files)) = Recent(ToSet(files), 7)
    BY <1>3 DEF Chosen
  <2>3. QED BY <2>1, <2>2, RecentChosen
<1>4. CASE r.scope \notin {"CURRENT_FILE", "DAY", "LAST_3_DAYS", "LAST_7_DAYS"}
  BY <1>4 DEF SelectTargetFiles, Chosen
<1>5. QED BY <1>1, <1>2, <1>3, <1>4

LEMMA SelectedFiles ==
  ASSUME NEW files \in Seq(Names), Once(files), NEW r,
         NEW chosen, chosen = SelectTargetFiles(files, r)
  PROVE  /\ chosen \in Seq(Names) /\ Once(chosen)
         /\ ToSet(chosen) = ToSet(files) \cap Chosen(r, ToSet(files))
<1>1. PICK E, S : E = ToSet(files) /\ S = Chosen(r, ToSet(files))
  OBVIOUS
<1>2. CASE chosen = files /\ S = E
  BY <1>1, <1>2
<1>3. CASE chosen = Only(files, S)
  <2>1. /\ Only(files, S) \in Seq(Names)
        /\ ToSet(Only(files, S)) = ToSet(files) \cap S
        /\ Once(Only(files, S))
    BY OnlyElements
  <2>2. QED BY <1>1, <1>3, <2>1
<1>4. QED BY <1>1, <1>2, <1>3, SelectChooses

(* All listings agree on the files in scope. *)
InScope(r) ==
  LET E == {f \in Names : Meta[f].type = r.type} IN E \cap Chosen(r, E)

LEMMA ScopeIsOne ==
  ASSUME NEW r, NEW files \in Listings(r.type),
         NEW chosen, chosen = SelectTargetFiles(files, r)
  PROVE  chosen \in Seq(Names) /\ Once(chosen) /\ ToSet(chosen) = InScope(r)
<1>1. /\ files \in Seq(Names) /\ Once(files)
      /\ ToSet(files) = {f \in Names : Meta[f].type = r.type}
  BY ListingsListAll
<1>2. /\ chosen \in Seq(Names) /\ Once(chosen)
      /\ ToSet(chosen) = ToSet(files) \cap Chosen(r, ToSet(files))
  BY <1>1, SelectedFiles
<1>3. QED BY <1>1, <1>2 DEF InScope

-------------------------------------------------------------------------------
(* The context of the hits of all files. The script read no further than the hit
   that reached the limit, which is the last of all.                            *)
ReadUntil(hits_, max, h, content) ==
  IF Len(hits_) = max /\ h.file = hits_[Len(hits_)].file
  THEN hits_[Len(hits_)].line
  ELSE Len(content)

HitsContext(hits_, read_, r, max) ==
  \A k \in DOMAIN hits_, m \in DOMAIN read_ :
    read_[m].file = hits_[k].file =>
      CtxExact(hits_[k], read_[m].content, r,
               ReadUntil(hits_, max, hits_[k], read_[m].content))

(* Where a hit of the longer list comes from. *)
LEMMA HitComesFrom ==
  ASSUME NEW hits2, NEW read2, NEW hits_, NEW read_, NEW f, NEW content, NEW new,
         NEW a, NEW b, NEW c,
         Joins(hits2, read2, hits_, read_, f, content, new, a, b, c),
         NEW k \in 1..(a + b), NEW m \in 1..(c + 1), read2[m].file = hits2[k].file
  PROVE  \/ /\ k \in 1..a /\ m \in 1..c
            /\ hits2[k] = hits_[k] /\ read2[m] = read_[m]
         \/ \E j \in 1..b : k = a + j /\ m = c + 1 /\ hits2[k] = new[j]
<1>1. CASE k \in 1..a
  <2>1. hits2[k] = hits_[k] /\ hits_[k].file # f
    BY <1>1 DEF Joins
  <2>2. m # c + 1
    BY <2>1 DEF Joins
  <2>3. m \in 1..c /\ read2[m] = read_[m]
    BY <2>2 DEF Joins
  <2>4. QED BY <1>1, <2>1, <2>3
<1>2. CASE k \notin 1..a
  <2>1. PICK j \in 1..b : k = a + j
    BY <1>2 DEF Joins
  <2>2. hits2[k] = new[j] /\ hits2[k].file = f
    BY <2>1 DEF Joins
  <2>3. m \notin 1..c
    BY <2>2 DEF Joins
  <2>4. m = c + 1
    BY <2>3 DEF Joins
  <2>5. QED BY <2>1, <2>2, <2>4
<1>3. QED BY <1>1, <1>2

LEMMA ScanKeepsContext ==
  ASSUME NEW hits_ \in Seq(AnyHit), NEW hits2 \in Seq(AnyHit),
         NEW read_ \in Seq(Scans), NEW read2 \in Seq(Scans), NEW f,
         NEW new \in Seq(HitsOf(f)), NEW content \in Contents,
         NextFile(hits2, read2, hits_, read_, f, content, new),
         HitsRead(hits_, read_),
         NEW r, NEW max \in Nat, Len(hits_) < max, NEW partial_,
         NEW limit, limit = max - Len(hits_),
         FileSearched(new, partial_, f, content, r, limit),
         HitsContext(hits_, read_, r, max)
  PROVE  HitsContext(hits2, read2, r, max)
<1>1. PICK a, b, c : a = Len(hits_) /\ b = Len(new) /\ c = Len(read_)
  OBVIOUS
<1>2. Joins(hits2, read2, hits_, read_, f, content, new, a, b, c)
  BY <1>1, HitsKeepTheirFiles
<1>3. /\ a \in Nat /\ b \in Nat /\ c \in Nat
      /\ DOMAIN hits_ = 1..a /\ DOMAIN new = 1..b /\ DOMAIN read_ = 1..c
      /\ DOMAIN hits2 = 1..(a + b) /\ DOMAIN read2 = 1..(c + 1)
  BY <1>2 DEF Joins
<1>4. Len(hits2) = a + b /\ a < max
  BY <1>1, <1>3
<1>5. \A k \in 1..b : hits2[a + k] = new[k] /\ new[k].file = f
  BY <1>2 DEF Joins
(* When the answer is full, the last hit is of the new file. *)
<1>6. ASSUME Len(hits2) = max
      PROVE  /\ b = max - a /\ b \in 1..b /\ hits2[Len(hits2)] = new[b]
             /\ hits2[Len(hits2)].file = f
  <2>1. b = max - a /\ b \in 1..b
    BY <1>3, <1>4, <1>6
  <2>2. Len(hits2) = a + b
    BY <1>4
  <2>3. QED BY <1>5, <2>1, <2>2
<1>7. ASSUME NEW k \in 1..a, NEW m \in 1..c, hits2[k] = hits_[k], read2[m] = read_[m],
             read2[m].file = hits2[k].file
      PROVE  CtxExact(hits2[k], read2[m].content, r,
                      ReadUntil(hits2, max, hits2[k], read2[m].content))
  <2>1. CtxExact(hits_[k], read_[m].content, r,
                 ReadUntil(hits_, max, hits_[k], read_[m].content))
    BY <1>3, <1>7 DEF HitsContext
  <2>2. ReadUntil(hits_, max, hits_[k], read_[m].content) = Len(read_[m].content)
    BY <1>1, <1>4 DEF ReadUntil
  <2>3. hits2[k].file # f
    BY <1>2, <1>7 DEF Joins
  <2>4. ReadUntil(hits2, max, hits2[k], read2[m].content) = Len(read2[m].content)
    BY <1>6, <2>3 DEF ReadUntil
  <2>5. QED BY <1>7, <2>1, <2>2, <2>4
<1>8. ASSUME NEW k \in 1..(a + b), NEW j \in 1..b, hits2[k] = new[j]
      PROVE  CtxExact(hits2[k], content, r, ReadUntil(hits2, max, hits2[k], content))
  <2>1. CtxExact(new[j], content, r,
                 IF Len(new) = max - a THEN new[max - a].line ELSE Len(content))
    BY <1>1, <1>3 DEF FileSearched
  <2>2. ReadUntil(hits2, max, hits2[k], content)
          = IF Len(new) = max - a THEN new[max - a].line ELSE Len(content)
    <3>1. CASE Len(hits2) = max
      <4>1. hits2[k].file = hits2[Len(hits2)].file
        BY <1>5, <1>6, <1>8, <3>1
      <4>2. Len(new) = max - a /\ hits2[Len(hits2)] = new[max - a]
        BY <1>1, <1>6, <3>1
      <4>3. QED BY <3>1, <4>1, <4>2 DEF ReadUntil
    <3>2. CASE Len(hits2) # max
      <4>1. Len(new) # max - a
        BY <1>1, <1>3, <1>4, <3>2
      <4>2. QED BY <3>2, <4>1 DEF ReadUntil
    <3>3. QED BY <3>1, <3>2
  <2>3. QED BY <1>8, <2>1, <2>2
<1>9. ASSUME NEW k \in 1..(a + b), NEW m \in 1..(c + 1), read2[m].file = hits2[k].file
      PROVE  CtxExact(hits2[k], read2[m].content, r,
                      ReadUntil(hits2, max, hits2[k], read2[m].content))
  <2>1. CASE /\ k \in 1..a /\ m \in 1..c
             /\ hits2[k] = hits_[k] /\ read2[m] = read_[m]
    BY <1>7, <1>9, <2>1
  <2>2. CASE \E j \in 1..b : k = a + j /\ m = c + 1 /\ hits2[k] = new[j]
    <3>1. PICK j \in 1..b : m = c + 1 /\ hits2[k] = new[j]
      BY <2>2
    <3>2. read2[m].content = content
      BY <1>2, <3>1 DEF Joins
    <3>3. QED BY <1>8, <3>1, <3>2
  <2>3. QED BY <1>2, <1>9, <2>1, <2>2, HitComesFrom
<1>10. QED BY <1>3, <1>9 DEF HitsContext

(* The context of a hit shows the lines that there are to show. *)
LEMMA SequenceShows ==
  ASSUME NEW s, NEW n \in Nat, Len(s) = n, DOMAIN s = 1..n, NEW a \in Int,
         \A x \in 1..n : s[x] = a + x
  PROVE  Shows(s, (a + 1)..(a + n))
<1>1. ToSet(s) = (a + 1)..(a + n)
  <2>1. \A x \in 1..n : s[x] \in (a + 1)..(a + n)
    OBVIOUS
  <2>2. \A y \in (a + 1)..(a + n) : y - a \in 1..n /\ s[y - a] = y
    OBVIOUS
  <2>3. QED BY <2>1, <2>2 DEF ToSet
<1>2. \A i \in 2..n : s[i - 1] < s[i]
  <2>1. \A i \in 2..n : i - 1 \in 1..n /\ i \in 1..n
    OBVIOUS
  <2>2. QED BY <2>1
<1>3. QED BY <1>1, <1>2 DEF Shows

BeforeShown(h, W, ctx) ==
  Shows(h.before, {i \in Greatest(1, h.line - ctx)..(h.line - 1) :
                     \A w \in W : w >= h.line \/ w < i})

AfterShown(h, W, ctx, e) ==
  Shows(h.after, {i \in (h.line + 1)..(h.line + ctx) :
                    i <= e /\ \A w \in W : w <= h.line \/ w > i})

LEMMA BeforeShows ==
  ASSUME NEW h \in AnyHit, NEW W, NEW n \in Nat, LineSet(W, n), NEW ctx \in Nat,
         BeforeExact(h, W, ctx)
  PROVE  BeforeShown(h, W, ctx)
<1>1. PICK a : a = h.line
  OBVIOUS
<1>2. PICK L : L = Len(h.before)
  OBVIOUS
<1>3. a \in Nat /\ L \in Nat /\ DOMAIN h.before = 1..L /\ \A w \in W : w \in Nat
  BY <1>1, <1>2 DEF AnyHit, LineSet
<1>4. /\ L <= ctx /\ L < a
      /\ \A x \in 1..L : h.before[x] = (a - 1 - L) + x
      /\ \A w \in W : w >= a \/ w < a - L
      /\ L = ctx \/ a - L = 1 \/ a - L - 1 \in W
  BY <1>1, <1>2 DEF BeforeExact
<1>5. Shows(h.before, ((a - 1 - L) + 1)..((a - 1 - L) + L))
  <2>1. a - 1 - L \in Int
    BY <1>3
  <2>2. QED BY <1>2, <1>3, <1>4, <2>1, SequenceShows
<1>6. (a - 1 - L) + 1 = a - L /\ (a - 1 - L) + L = a - 1
  BY <1>3
<1>7. PICK g : g = Greatest(1, a - ctx)
  OBVIOUS
<1>8. g \in Int /\ g >= 1 /\ g >= a - ctx /\ (g = 1 \/ g = a - ctx)
  <2>1. a - ctx \in Int
    BY <1>3
  <2>2. CASE 1 > a - ctx
    BY <1>7, <2>1, <2>2 DEF Greatest
  <2>3. CASE ~(1 > a - ctx)
    BY <1>7, <2>1, <2>3 DEF Greatest
  <2>4. QED BY <2>2, <2>3
<1>9. ASSUME NEW i \in (a - L)..(a - 1)
      PROVE  i \in g..(a - 1) /\ \A w \in W : w >= a \/ w < i
  BY <1>3, <1>4, <1>8
<1>10. ASSUME NEW i \in g..(a - 1), \A w \in W : w >= a \/ w < i
      PROVE  i \in (a - L)..(a - 1)
  <2>1. i \in Int /\ i >= g /\ i <= a - 1
    OBVIOUS
  <2>2. CASE L = ctx
    BY <1>3, <1>8, <2>1, <2>2
  <2>3. CASE a - L = 1
    BY <1>3, <1>8, <2>1, <2>3
  <2>4. CASE a - L - 1 \in W
    BY <1>3, <1>10, <2>1, <2>4
  <2>5. QED BY <1>4, <2>2, <2>3, <2>4
<1>11. (a - L)..(a - 1) = {i \in g..(a - 1) : \A w \in W : w >= a \/ w < i}
  BY <1>9, <1>10
<1>12. QED BY <1>1, <1>5, <1>6, <1>7, <1>11 DEF BeforeShown

LEMMA AfterShows ==
  ASSUME NEW h \in AnyHit, NEW W, NEW n \in Nat, LineSet(W, n), NEW ctx \in Nat,
         NEW e \in Nat, AfterExact(h, W, ctx, e)
  PROVE  AfterShown(h, W, ctx, e)
<1>1. PICK a : a = h.line
  OBVIOUS
<1>2. PICK L : L = Len(h.after)
  OBVIOUS
<1>3. a \in Nat /\ L \in Nat /\ DOMAIN h.after = 1..L /\ \A w \in W : w \in Nat
  BY <1>1, <1>2 DEF AnyHit, LineSet
<1>4. /\ L <= ctx /\ a + L <= e
      /\ \A x \in 1..L : h.after[x] = a + x
      /\ \A w \in W : w <= a \/ w > a + L
      /\ L = ctx \/ a + L = e \/ a + L + 1 \in W
  BY <1>1, <1>2 DEF AfterExact
<1>5. Shows(h.after, (a + 1)..(a + L))
  <2>1. a \in Int
    BY <1>3
  <2>2. QED BY <1>2, <1>3, <1>4, <2>1, SequenceShows
<1>6. ASSUME NEW i \in (a + 1)..(a + L)
      PROVE  i \in (a + 1)..(a + ctx) /\ i <= e /\ \A w \in W : w <= a \/ w > i
  BY <1>3, <1>4
<1>7. ASSUME NEW i \in (a + 1)..(a + ctx), i <= e, \A w \in W : w <= a \/ w > i
      PROVE  i \in (a + 1)..(a + L)
  <2>1. i \in Int /\ i >= a + 1 /\ i <= a + ctx
    BY <1>3
  <2>2. CASE L = ctx
    BY <1>3, <2>1, <2>2
  <2>3. CASE a + L = e
    BY <1>3, <1>7, <2>1, <2>3
  <2>4. CASE a + L + 1 \in W
    BY <1>3, <1>7, <2>1, <2>4
  <2>5. QED BY <1>4, <2>2, <2>3, <2>4
<1>8. (a + 1)..(a + L)
        = {i \in (a + 1)..(a + ctx) : i <= e /\ \A w \in W : w <= a \/ w > i}
  BY <1>6, <1>7
<1>9. QED BY <1>1, <1>5, <1>8 DEF AfterShown

-------------------------------------------------------------------------------
(* At least one hit is allowed, whatever the request asks for. *)
LEMMA MaxHitsPositive ==
  ASSUME NEW r \in Requests
  PROVE  MaxHits(r) \in Nat \ {0}
  BY ConstantsAssumption DEF MaxHits, Bounded, ConstantsAssumption

(* Before the first file is read there are no hits and the answer is not partial;
   so the only cap that could stop the search there is that of the bytes, which
   the code does not apply to the first file. *)
ScanInv ==
  /\ request \in Requests
  /\ scannedFiles \in Nat
  /\ scannedFiles = 0 => hits = <<>> /\ ~partial
  /\ FilesAndBytesCapped

LEMMA ScanInvInit == Init => ScanInv
  BY ConstantsAssumption DEF Init, ScanInv, FilesAndBytesCapped, ConstantsAssumption

LEMMA ScanInvNext ==
  ASSUME ScanInv, [Next]_vars
  PROVE  ScanInv'
<1> USE DEF FilesAndBytesCapped
<1>1. CASE UNCHANGED vars
  BY <1>1 DEF ScanInv, vars
<1>2. CASE Reject
  BY <1>2 DEF ScanInv, Reject
<1>3. CASE List
  BY <1>3 DEF ScanInv, List
<1>4. CASE StopAtCap
  <2>1. scannedFiles # 0
    <3>1. SUFFICES ASSUME scannedFiles = 0 PROVE WithinCaps
      BY <1>4 DEF StopAtCap
    <3>2. MaxHits(request) \in Nat \ {0}
      BY MaxHitsPositive DEF ScanInv
    <3>3. Len(hits) = 0
      BY <3>1 DEF ScanInv
    <3> QED
      BY <3>1, <3>2, <3>3, ConstantsAssumption DEF WithinCaps, ConstantsAssumption
  <2> QED
    BY <1>4, <2>1 DEF ScanInv, StopAtCap
<1>5. CASE ScanFile
  <2>1. request' \in Requests /\ scannedFiles' = scannedFiles + 1 /\ scannedFiles' \in Nat
    BY <1>5 DEF ScanInv, ScanFile
  <2>2. scannedFiles' <= MaxFilesPerSearch
    BY <1>5, <2>1, ConstantsAssumption DEF ScanInv, ScanFile, WithinCaps, ConstantsAssumption
  <2>3. scannedFiles' > 1 => scannedBytes' <= MaxScannedBytesPerSearch
    BY <1>5, <2>1 DEF ScanInv, ScanFile, WithinCaps
  <2> QED
    BY <2>1, <2>2, <2>3 DEF ScanInv
<1>6. CASE AllScanned
  BY <1>6 DEF ScanInv, AllScanned
<1>7. CASE CommandFails
  BY <1>7 DEF ScanInv, CommandFails
<1> QED
  BY <1>1, <1>2, <1>3, <1>4, <1>5, <1>6, <1>7 DEF Next

(* One file is read however large it is: an answer is partial only when a file was
   read, so no other cap undoes the exception of line 273. *)
THEOREM SearchReadsOneFile == Spec => []OneFileIsRead
<1>1. ScanInv => OneFileIsRead
  BY DEF ScanInv, OneFileIsRead
<1>2. ScanInv /\ [Next]_vars => ScanInv'
  BY ScanInvNext
<1> QED
  BY <1>1, <1>2, ScanInvInit, PTL DEF Spec

(* The caps on files and bytes hold for every search. *)
THEOREM SearchStaysWithinCaps == Spec => []FilesAndBytesCapped
<1>1. ScanInv => FilesAndBytesCapped
  BY DEF ScanInv
<1>2. ScanInv /\ [Next]_vars => ScanInv'
  BY ScanInvNext
<1> QED
  BY <1>1, <1>2, ScanInvInit, PTL DEF Spec

-------------------------------------------------------------------------------
(* The hits of a search. As long as it goes on it has all the hits of the files it
   has read; the files it has still to read are the others in scope.            *)
FilesOf(read_) == {scan.file : scan \in ToSet(read_)}

HitsKept(hits_, read_, r, max) ==
  /\ hits_ \in Seq(AnyHit) /\ Len(hits_) <= max
  /\ HitsRead(hits_, read_) /\ HitsWanted(hits_, read_, r)
  /\ HitsOrdered(hits_, read_) /\ HitsFirst(hits_, read_, r)
  /\ HitsContext(hits_, read_, r, max)

FilesInv ==
  /\ request \in Requests
  /\ read \in Seq(Scans) /\ todo \in Seq(Names)
  /\ Once(todo) /\ FilesDiffer(read) /\ FilesOf(read) \cap ToSet(todo) = {}
  /\ IsFiniteSet(FilesOf(read)) /\ scannedFiles = Cardinality(FilesOf(read))
  /\ phase = "start" => todo = <<>> /\ read = <<>>
  /\ phase \in {"scan", "done"} => FilesOf(read) \cup ToSet(todo) = InScope(request)

HitsInv ==
  /\ HitsKept(hits, read, request, MaxHits(request))
  /\ phase = "start" => hits = <<>> /\ ~partial
  /\ phase = "scan" => /\ ~NothingToSearch /\ ~partial /\ Len(hits) < MaxHits(request)
                       /\ AllFound(hits, read, request)
  /\ phase = "done" /\ ~partial => todo = <<>> /\ AllFound(hits, read, request)

LEMMA FilesOfMore ==
  ASSUME NEW read_ \in Seq(Scans), NEW scan \in Scans
  PROVE  /\ Append(read_, scan) \in Seq(Scans)
         /\ FilesOf(Append(read_, scan)) = FilesOf(read_) \cup {scan.file}
<1>1. ToSet(Append(read_, scan)) = ToSet(read_) \cup {scan}
  BY AppendElements
<1>2. QED BY <1>1 DEF FilesOf

LEMMA RestOfFiles ==
  ASSUME NEW s \in Seq(Names), s # <<>>, Once(s)
  PROVE  /\ Head(s) \in Names /\ Tail(s) \in Seq(Names) /\ Once(Tail(s))
         /\ ToSet(s) = {Head(s)} \cup ToSet(Tail(s)) /\ Head(s) \notin ToSet(Tail(s))
<1>1. PICK n \in Nat : n + 1 = Len(s)
  <2>1. Len(s) \in Nat \ {0}
    BY EmptySeq
  <2>2. Len(s) - 1 \in Nat /\ (Len(s) - 1) + 1 = Len(s)
    BY <2>1
  <2>3. QED BY <2>2
<1>2. PICK t \in Seq(Names) : t = Tail(s)
  BY HeadTailProperties
<1>3. /\ DOMAIN s = 1..(n + 1) /\ DOMAIN t = 1..n /\ Head(s) = s[1] /\ s[1] \in Names
      /\ \A i \in 1..n : t[i] = s[i + 1]
  <2>1. Len(t) = n /\ \A i \in 1..n : t[i] = s[i + 1]
    BY <1>1, <1>2, HeadTailProperties
  <2>2. QED BY <1>1, <2>1, HeadTailProperties
<1>4. /\ 1 \in 1..(n + 1) /\ \A i \in 1..n : i + 1 \in 1..(n + 1) /\ i + 1 # 1
      /\ \A i \in 1..(n + 1) : i = 1 \/ i - 1 \in 1..n
  OBVIOUS
<1>5. Once(t)
  <2>1. ASSUME NEW i \in 1..n, NEW j \in 1..n, t[i] = t[j] PROVE i = j
    <3>1. i + 1 = j + 1
      BY <1>3, <1>4, <2>1 DEF Once
    <3>2. QED BY <3>1
  <2>2. QED BY <1>3, <2>1 DEF Once
<1>6. ToSet(s) = {s[1]} \cup ToSet(t)
  <2>1. \A i \in 1..(n + 1) : i = 1 \/ s[i] = t[i - 1]
    <3>1. \A i \in 1..(n + 1) : (i - 1) + 1 = i
      OBVIOUS
    <3>2. QED BY <1>3, <1>4, <3>1
  <2>2. ASSUME NEW x \in ToSet(s) PROVE x \in {s[1]} \cup ToSet(t)
    BY <1>3, <1>4, <2>1 DEF ToSet
  <2>3. s[1] \in ToSet(s)
    BY <1>3, <1>4 DEF ToSet
  <2>4. ASSUME NEW x \in ToSet(t) PROVE x \in ToSet(s)
    <3>1. PICK i \in 1..n : x = t[i]
      BY <1>3 DEF ToSet
    <3>2. x = s[i + 1] /\ i + 1 \in 1..(n + 1)
      BY <1>3, <1>4, <3>1
    <3>3. QED BY <1>3, <3>2 DEF ToSet
  <2>5. QED BY <2>2, <2>3, <2>4
<1>7. s[1] \notin ToSet(t)
  BY <1>3, <1>4 DEF ToSet, Once
<1>8. QED BY <1>2, <1>3, <1>5, <1>6, <1>7

Search(f, content, r, limit) ==
  IF TimeRange(r) = None
  THEN GrepFile(f, content, r, limit)
  ELSE SearchFileByLogTimestamp(f, content, r, limit)

LEMMA FileIsSearched ==
  ASSUME NEW f, NEW content \in Contents, NEW r \in Requests, NEW limit \in Nat \ {0},
         r.keyword \/ TimeRange(r) # None,
         NEW result, result = Search(f, content, r, limit)
  PROVE  FileSearched(result.hits, result.partial, f, content, r, limit)
<1>1. CASE TimeRange(r) = None
  <2>1. result = GrepFile(f, content, r, limit)
    BY <1>1 DEF Search
  <2>2. QED BY <1>1, <2>1, GrepFileSearched
<1>2. CASE TimeRange(r) # None
  <2>1. result = SearchFileByLogTimestamp(f, content, r, limit)
    BY <1>2 DEF Search
  <2>2. QED BY <1>2, <2>1, AwkFileSearched
<1>3. QED BY <1>1, <1>2

(* What the next file adds. *)
FileAdded(hits2, read2, hits_, read_, f, content, new) ==
  /\ hits2 = hits_ \o new
  /\ read2 = Append(read_, [file |-> f, content |-> content])

IsNext(hits2, read2, hits_, read_, f, content, new) ==
  /\ hits2 \in Seq(AnyHit) /\ read2 \in Seq(Scans)
  /\ NextFile(hits2, read2, hits_, read_, f, content, new)

LEMMA NextFileAdds ==
  ASSUME NEW hits_ \in Seq(AnyHit), NEW f \in Names, NEW new \in Seq(HitsOf(f)),
         NEW read_ \in Seq(Scans), NEW content \in Contents, f \notin FilesOf(read_),
         NEW hits2, NEW read2,
         FileAdded(hits2, read2, hits_, read_, f, content, new)
  PROVE  IsNext(hits2, read2, hits_, read_, f, content, new)
<1>1. new \in Seq(AnyHit)
  <2>1. HitsOf(f) \subseteq AnyHit
    BY DEF HitsOf, AnyHit
  <2>2. QED BY <2>1, SeqMonotonic
<1>2. PICK a, b, c : a = Len(hits_) /\ b = Len(new) /\ c = Len(read_)
  OBVIOUS
<1>3. a \in Nat /\ b \in Nat /\ c \in Nat
  BY <1>2
<1>4. /\ hits2 \in Seq(AnyHit) /\ Len(hits2) = a + b
      /\ \A i \in 1..(a + b) : hits2[i] = IF i <= a THEN hits_[i] ELSE new[i - a]
  BY <1>1, <1>2, ConcatProperties DEF FileAdded
<1>5. \A k \in 1..a : hits2[k] = hits_[k]
  <2>1. \A k \in 1..a : k \in 1..(a + b) /\ k <= a
    BY <1>3
  <2>2. QED BY <1>4, <2>1
<1>6. \A k \in 1..b : hits2[a + k] = new[k]
  <2>1. \A k \in 1..b : a + k \in 1..(a + b) /\ ~(a + k <= a) /\ (a + k) - a = k
    BY <1>3
  <2>2. QED BY <1>4, <2>1
<1>7. PICK scan \in Scans : scan = [file |-> f, content |-> content]
  BY DEF Scans
<1>8. /\ read2 \in Seq(Scans) /\ Len(read2) = c + 1
      /\ read2[c + 1] = scan /\ \A m \in 1..c : read2[m] = read_[m]
  BY <1>2, <1>7, AppendProperties DEF FileAdded
<1>9. \A m \in 1..c : read_[m].file # f
  <2>1. DOMAIN read_ = 1..c
    BY <1>2
  <2>2. QED BY <2>1 DEF FilesOf, ToSet
<1>10. QED BY <1>2, <1>4, <1>5, <1>6, <1>7, <1>8, <1>9 DEF NextFile, IsNext

(* The search after one file more. *)
ScanGoesOn(hits2, read2, r, max) ==
  /\ HitsKept(hits2, read2, r, max) /\ FilesDiffer(read2)
  /\ Len(hits2) < max => AllFound(hits2, read2, r)

LEMMA OneFileMore ==
  ASSUME NEW r \in Requests, NEW max \in Nat, NEW hits_, NEW read_ \in Seq(Scans),
         HitsKept(hits_, read_, r, max), Len(hits_) < max, AllFound(hits_, read_, r),
         FilesDiffer(read_), r.keyword \/ TimeRange(r) # None,
         NEW f \in Names, f \notin FilesOf(read_), NEW content \in Contents,
         NEW limit, limit = max - Len(hits_),
         NEW result, result = Search(f, content, r, limit),
         NEW new, new = result.hits, NEW hits2, NEW read2,
         FileAdded(hits2, read2, hits_, read_, f, content, new)
  PROVE  ScanGoesOn(hits2, read2, r, max)
<1>1. hits_ \in Seq(AnyHit) /\ Len(hits_) \in Nat
  BY DEF HitsKept
<1>2. limit \in Nat \ {0} /\ limit = max - Len(hits_)
  BY <1>1
<1>3. PICK some : some = result.partial
  OBVIOUS
<1>4. FileSearched(new, some, f, content, r, limit)
  BY <1>2, <1>3, FileIsSearched
<1>5. new \in Seq(HitsOf(f)) /\ FirstHits(new, WantedLines(content, r), limit, Len(content))
  BY <1>4 DEF FileSearched
<1>6. IsNext(hits2, read2, hits_, read_, f, content, new)
  BY <1>1, <1>5, NextFileAdds
<1>7. hits2 \in Seq(AnyHit) /\ read2 \in Seq(Scans)
  BY <1>6 DEF IsNext
<1>8. NextFile(hits2, read2, hits_, read_, f, content, new)
  BY <1>6 DEF IsNext
<1>9. HitsRead(hits_, read_) /\ HitsWanted(hits_, read_, r) /\ HitsOrdered(hits_, read_)
  BY DEF HitsKept
<1>10. /\ HitsRead(hits2, read2) /\ HitsWanted(hits2, read2, r)
       /\ HitsOrdered(hits2, read2) /\ HitsFirst(hits2, read2, r)
       /\ FilesDiffer(read2)
       /\ Len(new) < limit => AllFound(hits2, read2, r)
       /\ Len(new) <= limit
  <2>1. AllFound(hits_, read_, r) /\ FilesDiffer(read_)
    OBVIOUS
  <2>2. ScanAdds(hits2, read2, new, r, limit)
    BY <1>1, <1>2, <1>5, <1>7, <1>8, <1>9, <2>1, ScanKeepsHits
  <2>3. QED BY <2>2 DEF ScanAdds
<1>11. HitsContext(hits2, read2, r, max)
  <2>1. HitsContext(hits_, read_, r, max)
    BY DEF HitsKept
  <2>2. QED BY <1>1, <1>2, <1>4, <1>5, <1>7, <1>8, <1>9, <2>1, ScanKeepsContext
<1>12. /\ Len(new) \in Nat /\ Len(hits2) = Len(hits_) + Len(new)
  BY <1>5, <1>8 DEF NextFile
<1>13. Len(hits2) <= max /\ (Len(hits2) < max => Len(new) < limit)
  BY <1>1, <1>2, <1>10, <1>12
<1>14. QED BY <1>7, <1>10, <1>11, <1>13 DEF HitsKept, ScanGoesOn

-------------------------------------------------------------------------------
(* The invariant of the search.                                                *)
LEMMA NothingRead ==
  ASSUME NEW r, NEW max \in Nat
  PROVE  /\ HitsKept(<<>>, <<>>, r, max) /\ AllFound(<<>>, <<>>, r)
         /\ FilesOf(<<>>) = {} /\ FilesDiffer(<<>>) /\ Once(<<>>) /\ ToSet(<<>>) = {}
         /\ <<>> \in Seq(Scans) /\ <<>> \in Seq(Names)
<1>1. DOMAIN <<>> = {} /\ Len(<<>>) = 0 /\ <<>> \in Seq(AnyHit)
  BY EmptySeq
<1>2. ToSet(<<>>) = {} /\ FilesOf(<<>>) = {}
  BY <1>1 DEF ToSet, FilesOf
<1>3. HitsKept(<<>>, <<>>, r, max)
  BY <1>1 DEF HitsKept, HitsRead, HitsWanted, HitsOrdered, HitsFirst, HitsContext
<1>4. AllFound(<<>>, <<>>, r) /\ FilesDiffer(<<>>) /\ Once(<<>>)
  BY <1>1 DEF AllFound, FilesDiffer, Once
<1>5. QED BY <1>2, <1>3, <1>4

LEMMA SearchInvInit == Init => FilesInv /\ HitsInv
<1>1. SUFFICES ASSUME Init PROVE FilesInv /\ HitsInv
  OBVIOUS
<1>2. MaxHits(request) \in Nat
  BY <1>1, MaxHitsPositive DEF Init
<1>3. FilesInv
  <2>1. IsFiniteSet({}) /\ Cardinality({}) = 0
    BY FS_EmptySet
  <2>2. /\ FilesOf(<<>>) = {} /\ FilesDiffer(<<>>) /\ Once(<<>>)
        /\ <<>> \in Seq(Scans) /\ <<>> \in Seq(Names)
    BY <1>2, NothingRead
  <2>3. QED BY <1>1, <2>1, <2>2 DEF Init, FilesInv
<1>4. HitsInv
  <2>1. HitsKept(<<>>, <<>>, request, MaxHits(request))
    BY <1>2, NothingRead
  <2>2. QED BY <1>1, <2>1 DEF Init, HitsInv
<1>5. QED BY <1>3, <1>4

(* The files of the listing in scope are the ones to read. *)
LEMMA ListKeeps ==
  ASSUME FilesInv, HitsInv, List
  PROVE  FilesInv' /\ HitsInv'
<1>1. PICK files \in Listings(request.type) : todo' = SelectTargetFiles(files, request)
  BY DEF List
<1>2. /\ phase = "start" /\ request' = request /\ read' = read /\ hits' = hits
      /\ partial' = partial /\ scannedFiles' = scannedFiles /\ ~NothingToSearch
      /\ phase' = IF todo' = <<>> THEN "done" ELSE "scan"
  BY DEF List
<1>3. read = <<>> /\ hits = <<>> /\ ~partial /\ request \in Requests
  BY <1>2 DEF FilesInv, HitsInv
<1>4. todo' \in Seq(Names) /\ Once(todo') /\ ToSet(todo') = InScope(request)
  BY <1>1, ScopeIsOne
<1>5. MaxHits(request) \in Nat \ {0} /\ Len(<<>>) = 0
  BY <1>3, MaxHitsPositive
<1>6. FilesOf(<<>>) = {} /\ FilesDiffer(<<>>) /\ AllFound(<<>>, <<>>, request)
  BY <1>5, NothingRead
<1>7. FilesInv'
  <2>1. IsFiniteSet(FilesOf(read)) /\ scannedFiles = Cardinality(FilesOf(read))
    BY DEF FilesInv
  <2>2. read \in Seq(Scans)
    BY DEF FilesInv
  <2>3. QED BY <1>2, <1>3, <1>4, <1>6, <2>1, <2>2 DEF FilesInv
<1>8. HitsInv'
  <2>1. HitsKept(hits, read, request, MaxHits(request))
    BY DEF HitsInv
  <2>2. MaxHits(request)' = MaxHits(request) /\ (~NothingToSearch)'
    BY <1>2 DEF NothingToSearch
  <2>3. QED BY <1>2, <1>3, <1>5, <1>6, <2>1, <2>2 DEF HitsInv
<1>9. QED BY <1>7, <1>8

(* One file is read. *)
LEMMA ScanFileKeeps ==
  ASSUME FilesInv, HitsInv, ScanFile
  PROVE  FilesInv' /\ HitsInv'
<1>1. PICK f, rest : f = Head(todo) /\ rest = Tail(todo)
  OBVIOUS
<1>2. PICK content \in Contents :
         /\ hits' = hits \o SearchFile(f, content).hits
         /\ partial' = \/ SearchFile(f, content).partial
                       \/ Len(hits') >= MaxHits(request)
         /\ read' = Append(read, [file |-> f, content |-> content])
  BY <1>1 DEF ScanFile
<1>3. /\ phase = "scan" /\ todo # <<>> /\ request' = request
      /\ scannedFiles' = scannedFiles + 1 /\ todo' = rest
      /\ phase' = IF partial' THEN "done" ELSE "scan"
  BY <1>1 DEF ScanFile
<1>4. /\ request \in Requests /\ read \in Seq(Scans) /\ todo \in Seq(Names)
      /\ Once(todo) /\ FilesDiffer(read) /\ FilesOf(read) \cap ToSet(todo) = {}
      /\ IsFiniteSet(FilesOf(read)) /\ scannedFiles = Cardinality(FilesOf(read))
      /\ FilesOf(read) \cup ToSet(todo) = InScope(request)
  BY <1>3 DEF FilesInv
<1>5. /\ f \in Names /\ rest \in Seq(Names) /\ Once(rest)
      /\ ToSet(todo) = {f} \cup ToSet(rest) /\ f \notin ToSet(rest)
  BY <1>1, <1>3, <1>4, RestOfFiles
<1>6. f \notin FilesOf(read)
  BY <1>4, <1>5
<1>7. PICK max \in Nat \ {0} : max = MaxHits(request)
  BY <1>4, MaxHitsPositive
<1>8. /\ HitsKept(hits, read, request, max) /\ Len(hits) < max
      /\ AllFound(hits, read, request) /\ ~NothingToSearch
  BY <1>3, <1>7 DEF HitsInv
<1>9. request.keyword \/ TimeRange(request) # None
  BY <1>8 DEF NothingToSearch
<1>10. PICK limit, result, new :
          /\ limit = max - Len(hits)
          /\ result = Search(f, content, request, limit)
          /\ new = result.hits
  OBVIOUS
<1>11. SearchFile(f, content) = result
  BY <1>7, <1>10 DEF SearchFile, Search, Limit
<1>12. PICK hits2, read2 : hits2 = hits' /\ read2 = read'
  OBVIOUS
<1>13. FileAdded(hits2, read2, hits, read, f, content, new)
  BY <1>2, <1>10, <1>11, <1>12 DEF FileAdded
<1>14. /\ HitsKept(hits2, read2, request, max) /\ FilesDiffer(read2)
       /\ Len(hits2) < max => AllFound(hits2, read2, request)
  <2>1. max \in Nat
    BY <1>7
  <2>2. limit = max - Len(hits) /\ result = Search(f, content, request, limit)
    BY <1>10
  <2>3. new = result.hits
    BY <1>10
  <2>4. ScanGoesOn(hits2, read2, request, max)
    BY <1>4, <1>5, <1>6, <1>8, <1>9, <1>13, <2>1, <2>2, <2>3, OneFileMore
  <2>5. QED BY <2>4 DEF ScanGoesOn
<1>15. read2 \in Seq(Scans) /\ FilesOf(read2) = FilesOf(read) \cup {f}
  <2>1. PICK scan \in Scans : scan = [file |-> f, content |-> content]
    BY <1>5 DEF Scans
  <2>2. read2 = Append(read, scan)
    BY <1>13, <2>1 DEF FileAdded
  <2>3. QED BY <1>4, <2>1, <2>2, FilesOfMore
<1>16. /\ IsFiniteSet(FilesOf(read2))
       /\ Cardinality(FilesOf(read2)) = Cardinality(FilesOf(read)) + 1
  BY <1>4, <1>6, <1>15, FS_AddElement
<1>17. FilesInv'
  <2>1. FilesOf(read2) \cap ToSet(rest) = {}
    BY <1>4, <1>5, <1>15
  <2>2. FilesOf(read2) \cup ToSet(rest) = InScope(request)
    BY <1>4, <1>5, <1>15
  <2>3. phase' \in {"scan", "done"}
    BY <1>3
  <2>4. QED BY <1>3, <1>4, <1>5, <1>12, <1>14, <1>15, <1>16, <2>1, <2>2, <2>3
            DEF FilesInv
<1>18. HitsInv'
  <2>1. Len(hits2) \in Nat
    BY <1>14 DEF HitsKept
  <2>2. ~partial' => Len(hits2) < max
    BY <1>2, <1>7, <1>12, <2>1
  <2>3. phase' = "scan" => ~partial'
    BY <1>3
  <2>4. phase' = "done" => partial'
    BY <1>3
  <2>5. phase' # "start"
    BY <1>3
  <2>6. MaxHits(request)' = max /\ (~NothingToSearch)'
    BY <1>3, <1>7, <1>8 DEF NothingToSearch
  <2>7. QED BY <1>3, <1>12, <1>14, <2>2, <2>3, <2>4, <2>5, <2>6 DEF HitsInv
<1>19. QED BY <1>17, <1>18

LEMMA SearchInvNext ==
  ASSUME FilesInv, HitsInv, [Next]_vars
  PROVE  FilesInv' /\ HitsInv'
<1>1. CASE UNCHANGED vars
  BY <1>1 DEF vars, FilesInv, HitsInv, NothingToSearch
<1>2. CASE Reject
  BY <1>2 DEF Reject, FilesInv, HitsInv
<1>3. CASE List
  BY <1>3, ListKeeps
<1>4. CASE StopAtCap
  BY <1>4 DEF StopAtCap, FilesInv, HitsInv
<1>5. CASE ScanFile
  BY <1>5, ScanFileKeeps
<1>6. CASE AllScanned
  BY <1>6 DEF AllScanned, FilesInv, HitsInv
<1>7. CASE CommandFails
  BY <1>7 DEF CommandFails, FilesInv, HitsInv
<1>8. QED BY <1>1, <1>2, <1>3, <1>4, <1>5, <1>6, <1>7 DEF Next

-------------------------------------------------------------------------------
(* The properties of an answer. A hit has one place, since no file is read twice. *)
LEMMA PlacesOfHits ==
  ASSUME FilesInv, HitsInv, NEW k \in DOMAIN hits
  PROVE  \E m \in DOMAIN read : /\ read[m].file = hits[k].file
                                /\ Place(hits[k]) = <<m, hits[k].line>>
<1>1. PICK m \in DOMAIN read : read[m].file = hits[k].file
  BY DEF HitsInv, HitsKept, HitsRead
<1>2. \A l \in DOMAIN read : read[l].file = hits[k].file => l = m
  BY <1>1 DEF FilesInv, FilesDiffer
<1>3. (CHOOSE l \in DOMAIN read : read[l].file = hits[k].file) = m
  BY <1>1, <1>2
<1>4. Place(hits[k]) = <<m, hits[k].line>>
  BY <1>3 DEF Place
<1>5. QED BY <1>1, <1>4

LEMMA WantedPlaces ==
  /\ \A m \in DOMAIN read : \A i \in WantedLines(read[m].content, request) :
       <<m, i>> \in AllWanted
  /\ \A q \in AllWanted : \E m \in DOMAIN read :
       \E i \in WantedLines(read[m].content, request) : q = <<m, i>>
BY DEF AllWanted

LEMMA EarlierPrecedes ==
  ASSUME NEW l, NEW x, NEW m, NEW y, Precedes(l, x, m, y)
  PROVE  Earlier(<<l, x>>, <<m, y>>)
BY DEF Precedes, Earlier

LEMMA FoundIsWanted ==
  ASSUME FilesInv, HitsInv
  PROVE  Found \subseteq AllWanted
<1>1. ASSUME NEW k \in DOMAIN hits PROVE Place(hits[k]) \in AllWanted
  <2>1. PICK m \in DOMAIN read : /\ read[m].file = hits[k].file
                                 /\ Place(hits[k]) = <<m, hits[k].line>>
    BY PlacesOfHits
  <2>2. hits[k].line \in WantedLines(read[m].content, request)
    BY <2>1 DEF HitsInv, HitsKept, HitsWanted
  <2>3. QED BY <2>1, <2>2, WantedPlaces
<1>2. QED BY <1>1 DEF Found

LEMMA FoundInOrder ==
  ASSUME FilesInv, HitsInv, NEW j \in DOMAIN hits, NEW k \in DOMAIN hits, j < k
  PROVE  Earlier(Place(hits[j]), Place(hits[k]))
<1>1. PICK l \in DOMAIN read : /\ read[l].file = hits[j].file
                               /\ Place(hits[j]) = <<l, hits[j].line>>
  BY PlacesOfHits
<1>2. PICK m \in DOMAIN read : /\ read[m].file = hits[k].file
                               /\ Place(hits[k]) = <<m, hits[k].line>>
  BY PlacesOfHits
<1>3. Precedes(l, hits[j].line, m, hits[k].line)
  BY <1>1, <1>2 DEF HitsInv, HitsKept, HitsOrdered
<1>4. QED BY <1>1, <1>2, <1>3, EarlierPrecedes

LEMMA HitIsFound ==
  ASSUME FilesInv, HitsInv, NEW m \in DOMAIN read, NEW i, IsHit(hits, read[m].file, i)
  PROVE  <<m, i>> \in Found
<1>1. PICK k \in DOMAIN hits : hits[k].file = read[m].file /\ hits[k].line = i
  BY DEF IsHit
<1>2. PICK l \in DOMAIN read : /\ read[l].file = hits[k].file
                               /\ Place(hits[k]) = <<l, hits[k].line>>
  BY PlacesOfHits
<1>3. l = m
  BY <1>1, <1>2 DEF FilesInv, FilesDiffer
<1>4. QED BY <1>1, <1>2, <1>3 DEF Found

LEMMA FoundComesFirst ==
  ASSUME FilesInv, HitsInv, NEW p \in Found, NEW q \in AllWanted, q \notin Found
  PROVE  Earlier(p, q)
<1>1. PICK k \in DOMAIN hits : p = Place(hits[k])
  BY DEF Found
<1>2. PICK l \in DOMAIN read : /\ read[l].file = hits[k].file
                               /\ Place(hits[k]) = <<l, hits[k].line>>
  BY PlacesOfHits
<1>3. PICK m \in DOMAIN read : \E i \in WantedLines(read[m].content, request) :
                                 q = <<m, i>>
  BY WantedPlaces
<1>4. PICK i \in WantedLines(read[m].content, request) : q = <<m, i>>
  BY <1>3
<1>5. ~IsHit(hits, read[m].file, i)
  BY <1>4, HitIsFound
<1>6. Precedes(l, hits[k].line, m, i)
  BY <1>2, <1>5 DEF HitsInv, HitsKept, HitsFirst
<1>7. QED BY <1>1, <1>2, <1>4, <1>6, EarlierPrecedes

LEMMA AllIsFound ==
  ASSUME FilesInv, HitsInv, AllFound(hits, read, request)
  PROVE  Found = AllWanted
<1>1. ASSUME NEW q \in AllWanted PROVE q \in Found
  <2>1. PICK m \in DOMAIN read : \E i \in WantedLines(read[m].content, request) :
                                   q = <<m, i>>
    BY WantedPlaces
  <2>2. PICK i \in WantedLines(read[m].content, request) : q = <<m, i>>
    BY <2>1
  <2>3. IsHit(hits, read[m].file, i)
    BY DEF AllFound
  <2>4. QED BY <2>2, <2>3, HitIsFound
<1>2. QED BY <1>1, FoundIsWanted

(* The sequences of a hit show what the property says of it. *)
ContextShown(h, ctx, content, grep, lastRead) ==
  LET words == {i \in DOMAIN content : content[i].word}
      inReach(i) == IF grep THEN \A w \in words : i > h.line => w <= h.line \/ w > i
                            ELSE i <= lastRead
      behind(i) == grep => \A w \in words : w >= h.line \/ w < i
  IN  /\ Shows(h.before, {i \in Greatest(1, h.line - ctx)..(h.line - 1) : behind(i)})
      /\ Shows(h.after, {i \in (h.line + 1)..(h.line + ctx) :
                           i \in DOMAIN content /\ inReach(i)})

LEMMA ExactIsShown ==
  ASSUME NEW h \in AnyHit, NEW content \in Contents, NEW r \in Requests,
         NEW lastRead \in Nat, lastRead <= Len(content),
         CtxExact(h, content, r, lastRead), h.line >= 1
  PROVE  ContextShown(h, ContextLines(r), content, TimeRange(r) = None, lastRead)
<1>1. PICK ctx : ctx = ContextLines(r)
  OBVIOUS
<1>2. PICK W : W = {i \in DOMAIN content : content[i].word}
  OBVIOUS
<1>3. PICK n : n = Len(content)
  OBVIOUS
<1>4. PICK a : a = h.line
  OBVIOUS
<1>5. ctx \in Nat /\ n \in Nat /\ DOMAIN content = 1..n
  BY <1>1, <1>3, ContextLinesIn, LinesTyped
<1>6. LineSet(W, n) /\ LineSet({}, n)
  BY <1>2, <1>5 DEF LineSet
<1>7. a \in Nat /\ a >= 1
  BY <1>4 DEF AnyHit
<1>8. CASE TimeRange(r) = None
  <2>1. BeforeExact(h, W, ctx) /\ AfterExact(h, W, ctx, n)
    BY <1>1, <1>2, <1>3, <1>8 DEF CtxExact, Words
  <2>2. Shows(h.before, {i \in Greatest(1, a - ctx)..(a - 1) :
                           \A w \in W : w >= a \/ w < i})
    <3>1. BeforeShown(h, W, ctx)
      BY <1>5, <1>6, <2>1, BeforeShows
    <3>2. QED BY <1>4, <3>1 DEF BeforeShown
  <2>3. Shows(h.after, {i \in (a + 1)..(a + ctx) :
                          i <= n /\ \A w \in W : w <= a \/ w > i})
    <3>1. AfterShown(h, W, ctx, n)
      BY <1>5, <1>6, <2>1, AfterShows
    <3>2. QED BY <1>4, <3>1 DEF AfterShown
  <2>4. {i \in (a + 1)..(a + ctx) : i <= n /\ \A w \in W : w <= a \/ w > i}
          = {i \in (a + 1)..(a + ctx) :
               i \in 1..n /\ \A w \in W : i > a => w <= a \/ w > i}
    BY <1>5, <1>7
  <2>5. Shows(h.after, {i \in (a + 1)..(a + ctx) :
                          i \in 1..n /\ \A w \in W : i > a => w <= a \/ w > i})
    BY <2>3, <2>4
  <2>6. QED BY <1>1, <1>2, <1>4, <1>5, <1>8, <2>2, <2>5 DEF ContextShown
<1>9. CASE TimeRange(r) # None
  <2>1. BeforeExact(h, {}, ctx) /\ AfterExact(h, {}, ctx, lastRead)
    BY <1>1, <1>9 DEF CtxExact
  <2>2. Shows(h.before, {i \in Greatest(1, a - ctx)..(a - 1) :
                           \A w \in {} : w >= a \/ w < i})
    <3>1. BeforeShown(h, {}, ctx)
      BY <1>5, <1>6, <2>1, BeforeShows
    <3>2. QED BY <1>4, <3>1 DEF BeforeShown
  <2>3. Shows(h.after, {i \in (a + 1)..(a + ctx) :
                          i <= lastRead /\ \A w \in {} : w <= a \/ w > i})
    <3>1. AfterShown(h, {}, ctx, lastRead)
      BY <1>5, <1>6, <2>1, AfterShows
    <3>2. QED BY <1>4, <3>1 DEF AfterShown
  <2>4. {i \in (a + 1)..(a + ctx) : i <= lastRead /\ \A w \in {} : w <= a \/ w > i}
          = {i \in (a + 1)..(a + ctx) : i \in 1..n /\ i <= lastRead}
    BY <1>3, <1>5, <1>7
  <2>5. {i \in Greatest(1, a - ctx)..(a - 1) : \A w \in {} : w >= a \/ w < i}
          = {i \in Greatest(1, a - ctx)..(a - 1) : TRUE}
    OBVIOUS
  <2>6. QED BY <1>1, <1>4, <1>5, <1>9, <2>2, <2>3, <2>4, <2>5 DEF ContextShown
<1>10. QED BY <1>8, <1>9

HitContent(h) == (CHOOSE scan \in ToSet(read) : scan.file = h.file).content

HitReadUntil(h) ==
  IF Len(hits) = MaxHits(request) /\ h.file = Last(hits).file
  THEN Last(hits).line ELSE Len(HitContent(h))

LEMMA ContextOfHit ==
  ASSUME FilesInv, HitsInv, NEW k \in DOMAIN hits
  PROVE  ContextShown(hits[k], ContextLines(request), HitContent(hits[k]),
                      TimeRange(request) = None, HitReadUntil(hits[k]))
<1>1. PICK h : h = hits[k]
  OBVIOUS
<1>2. PICK m \in DOMAIN read : read[m].file = h.file
  BY <1>1, PlacesOfHits
<1>3. PICK scan : scan = read[m]
  OBVIOUS
<1>4. read \in Seq(Scans) /\ hits \in Seq(AnyHit) /\ request \in Requests
  BY DEF FilesInv, HitsInv, HitsKept
<1>5. scan \in Scans /\ h \in AnyHit
  BY <1>1, <1>3, <1>4
<1>6. PICK content \in Contents : content = scan.content
  BY <1>5 DEF Scans
<1>7. (CHOOSE x \in ToSet(read) : x.file = h.file) = scan
  <2>1. scan \in ToSet(read) /\ scan.file = h.file
    BY <1>2, <1>3 DEF ToSet
  <2>2. ASSUME NEW x \in ToSet(read), x.file = h.file PROVE x = scan
    <3>1. PICK l \in DOMAIN read : x = read[l]
      BY DEF ToSet
    <3>2. l = m
      BY <1>2, <2>2, <3>1 DEF FilesInv, FilesDiffer
    <3>3. QED BY <1>3, <3>1, <3>2
  <2>3. QED BY <2>1, <2>2
<1>8. PICK lastRead : lastRead = ReadUntil(hits, MaxHits(request), h, content)
  OBVIOUS
<1>9. CtxExact(h, content, request, lastRead)
  BY <1>1, <1>2, <1>3, <1>6, <1>8 DEF HitsInv, HitsKept, HitsContext
<1>10. \A j \in DOMAIN hits : hits[j].file = h.file =>
         hits[j].line \in WantedLines(content, request)
  BY <1>2, <1>3, <1>6 DEF HitsInv, HitsKept, HitsWanted
<1>11. Len(content) \in Nat /\ DOMAIN content = 1..Len(content)
  BY LinesTyped
<1>12. \A i \in WantedLines(content, request) : i \in Nat /\ i >= 1 /\ i <= Len(content)
  BY <1>11 DEF WantedLines
<1>13. h.line >= 1
  BY <1>1, <1>10, <1>12
<1>14. Len(hits) \in DOMAIN hits
  BY <1>4
<1>15. lastRead \in Nat /\ lastRead <= Len(content)
  BY <1>8, <1>10, <1>11, <1>12, <1>14 DEF ReadUntil
<1>16. ContextShown(h, ContextLines(request), content, TimeRange(request) = None,
                    lastRead)
  BY <1>4, <1>5, <1>9, <1>13, <1>15, ExactIsShown
<1>17. HitContent(h) = content
  BY <1>6, <1>7 DEF HitContent
<1>18. HitReadUntil(h) = lastRead
  BY <1>8, <1>17 DEF HitReadUntil, ReadUntil, Last
<1>19. QED BY <1>1, <1>16, <1>17, <1>18

SearchInv == ScanInv /\ FilesInv /\ HitsInv

LEMMA SearchInvHolds == Spec => []SearchInv
<1>1. Init => SearchInv
  BY ScanInvInit, SearchInvInit DEF SearchInv
<1>2. SearchInv /\ [Next]_vars => SearchInv'
  BY ScanInvNext, SearchInvNext DEF SearchInv
<1>3. QED BY <1>1, <1>2, PTL DEF Spec

(* The caps hold for the search as a whole: searchFile is called with what is left
   of the hits, so the files together have no more than the request allows, and
   every file counted is another one. *)
THEOREM SearchHoldsItsCaps == Spec => []CapsHold
<1>1. SearchInv => CapsHold
  BY DEF SearchInv, ScanInv, FilesInv, HitsInv, HitsKept, CapsHold, FilesOf
<1>2. QED BY <1>1, SearchInvHolds, PTL

(* The hits are the first wanted lines, whatever the files hold, in the order of the
   files and their lines: neither command skips, doubles or misplaces a line, the
   parsers take what they print apart again, and the limit that is left from file to
   file cuts off the rest and nothing else. *)
THEOREM SearchFindsTheFirst == Spec => []HitsAreTheFirst
<1>1. SearchInv => HitsAreTheFirst
  <2>1. SUFFICES ASSUME FilesInv, HitsInv PROVE HitsAreTheFirst
    BY DEF SearchInv
  <2>2. Found \subseteq AllWanted
    BY <2>1, FoundIsWanted
  <2>3. \A j, k \in DOMAIN hits : j < k => Earlier(Place(hits[j]), Place(hits[k]))
    BY <2>1, FoundInOrder
  <2>4. \A p \in Found, q \in AllWanted \ Found : Earlier(p, q)
    BY <2>1, FoundComesFirst
  <2>5. phase = "scan" => Found = AllWanted
    <3>1. SUFFICES ASSUME phase = "scan" PROVE Found = AllWanted
      OBVIOUS
    <3>2. AllFound(hits, read, request)
      BY <2>1, <3>1 DEF HitsInv
    <3>3. QED BY <2>1, <3>2, AllIsFound
  <2>6. QED BY <2>2, <2>3, <2>4, <2>5 DEF HitsAreTheFirst
<1>2. QED BY <1>1, SearchInvHolds, PTL

(* An answer that is not marked as partial is complete: search sets partial whenever
   it leaves its loop before the last file or with as many hits as it may have. *)
THEOREM SearchSaysWhatItLeavesOut == Spec => []NothingIsLeftOutUnsaid
<1>1. SearchInv => NothingIsLeftOutUnsaid
  <2>1. SUFFICES ASSUME FilesInv, HitsInv, phase = "done", ~partial
                 PROVE  /\ Found = AllWanted
                        /\ todo = <<>>
                        /\ \A files \in Listings(request.type) :
                             ToSet(SelectTargetFiles(files, request))
                               = {scan.file : scan \in ToSet(read)}
    BY DEF SearchInv, NothingIsLeftOutUnsaid
  <2>2. todo = <<>> /\ AllFound(hits, read, request)
    BY <2>1 DEF HitsInv
  <2>3. Found = AllWanted
    BY <2>1, <2>2, AllIsFound
  <2>4. FilesOf(read) = InScope(request)
    <3>1. FilesOf(read) \cup ToSet(todo) = InScope(request)
      BY <2>1 DEF FilesInv
    <3>2. ToSet(todo) = {}
      BY <2>2 DEF ToSet
    <3>3. QED BY <3>1, <3>2
  <2>5. ASSUME NEW files \in Listings(request.type)
        PROVE  ToSet(SelectTargetFiles(files, request)) = FilesOf(read)
    BY <2>4, ScopeIsOne
  <2>6. QED BY <2>2, <2>3, <2>5 DEF FilesOf
<1>2. QED BY <1>1, SearchInvHolds, PTL

(* Every hit has exactly its context, whichever command found it and however the
   contexts of neighbouring hits overlap. *)
THEOREM SearchShowsTheContext == Spec => []ContextIsExact
<1>1. SearchInv => ContextIsExact
  <2>1. SUFFICES ASSUME FilesInv, HitsInv PROVE ContextIsExact
    BY DEF SearchInv
  <2>2. \A k \in DOMAIN hits :
          ContextShown(hits[k], ContextLines(request), HitContent(hits[k]),
                       TimeRange(request) = None, HitReadUntil(hits[k]))
    BY <2>1, ContextOfHit
  <2>3. QED BY <2>2 DEF ContextIsExact, ContextShown, HitContent, HitReadUntil
<1>2. QED BY <1>1, SearchInvHolds, PTL

(* The variables of a search keep their types, and no hit has more context than the
   configuration allows, whatever the request asks for and the files hold. *)
PlainTypes ==
  /\ phase \in {"start", "scan", "done", "rejected", "failed"}
  /\ scannedBytes \in Nat /\ partial \in BOOLEAN

LEMMA PlainTypesNext ==
  ASSUME SearchInv, PlainTypes, [Next]_vars
  PROVE  PlainTypes'
<1>1. CASE UNCHANGED vars
  BY <1>1 DEF vars, PlainTypes
<1>2. CASE Reject \/ List \/ StopAtCap \/ AllScanned \/ CommandFails
  BY <1>2 DEF Reject, List, StopAtCap, AllScanned, CommandFails, PlainTypes
<1>3. CASE ScanFile
  <2>1. PICK f \in Names : f = Head(todo)
    <3>1. todo \in Seq(Names) /\ todo # <<>> /\ Once(todo)
      BY <1>3 DEF SearchInv, FilesInv, ScanFile
    <3>2. QED BY <3>1, RestOfFiles
  <2>2. scannedBytes' = scannedBytes + Meta[f].size
    BY <1>3, <2>1 DEF ScanFile
  <2>3. Meta[f].size \in Nat
    BY DataAssumption
  <2>4. partial' \in BOOLEAN /\ phase' \in {"scan", "done"}
    BY <1>3 DEF ScanFile
  <2>5. QED BY <2>2, <2>3, <2>4 DEF PlainTypes
<1>4. QED BY <1>1, <1>2, <1>3 DEF Next

LEMMA HitTypes ==
  ASSUME FilesInv, HitsInv, NEW h \in ToSet(hits)
  PROVE  /\ h.file \in Names /\ h.line \in Nat \ {0}
         /\ Len(h.before) <= MaxContextLines /\ Len(h.after) <= MaxContextLines
<1>1. PICK k \in DOMAIN hits : h = hits[k]
  BY DEF ToSet
<1>2. hits \in Seq(AnyHit) /\ read \in Seq(Scans) /\ request \in Requests
  BY DEF FilesInv, HitsInv, HitsKept
<1>3. h \in AnyHit
  BY <1>1, <1>2
<1>4. PICK m \in DOMAIN read : read[m].file = h.file
  BY <1>1, PlacesOfHits
<1>5. PICK content \in Contents : content = read[m].content
  <2>1. read[m] \in Scans
    BY <1>2
  <2>2. QED BY <2>1 DEF Scans
<1>6. h.line \in WantedLines(content, request)
  BY <1>1, <1>4, <1>5 DEF HitsInv, HitsKept, HitsWanted
<1>7. h.line >= 1
  BY <1>6, LinesTyped DEF WantedLines
<1>8. PICK ctx : ctx = ContextLines(request)
  OBVIOUS
<1>9. ctx \in Nat /\ ctx <= MaxContextLines /\ MaxContextLines \in Nat
  BY <1>2, <1>8, ContextLinesIn, ConstantsAssumption DEF ConstantsAssumption
<1>10. CtxExact(h, content, request, ReadUntil(hits, MaxHits(request), h, content))
  BY <1>1, <1>4, <1>5 DEF HitsInv, HitsKept, HitsContext
<1>11. Len(h.before) <= ctx /\ Len(h.after) <= ctx
  BY <1>8, <1>10 DEF CtxExact, BeforeExact, AfterExact
<1>12. Len(h.before) \in Nat /\ Len(h.after) \in Nat
  BY <1>3 DEF AnyHit
<1>13. QED BY <1>3, <1>7, <1>9, <1>11, <1>12 DEF AnyHit

(* The type invariant of the search, for every directory, content, request and
   configuration: the context of a hit is bounded by MaxContextLines. *)
THEOREM SearchTypes == Spec => []TypeOK
<1>1. Init => PlainTypes
  <2>1. Init => phase \in {"start", "scan", "done", "rejected", "failed"}
    BY DEF Init
  <2>2. Init => scannedBytes \in Nat
    BY DEF Init
  <2>3. Init => partial \in BOOLEAN
    BY Zenon DEF Init
  <2>4. QED BY <2>1, <2>2, <2>3 DEF PlainTypes
<1>2. SearchInv /\ PlainTypes /\ [Next]_vars => PlainTypes'
  BY PlainTypesNext
<1>3. SearchInv /\ PlainTypes => TypeOK
  <2>1. SUFFICES ASSUME SearchInv, PlainTypes PROVE TypeOK
    OBVIOUS
  <2>2. FilesInv /\ HitsInv /\ scannedFiles \in Nat
    BY <2>1 DEF SearchInv, ScanInv
  <2>3. ToSet(todo) \subseteq Names
    BY <2>2 DEF FilesInv, ToSet
  <2>4. \A h \in ToSet(hits) :
          /\ h.file \in Names /\ h.line \in Nat \ {0}
          /\ Len(h.before) <= MaxContextLines /\ Len(h.after) <= MaxContextLines
    BY <2>2, HitTypes
  <2>5. request \in Requests
    BY <2>2 DEF FilesInv
  <2>6. QED BY <2>1, <2>2, <2>3, <2>4, <2>5 DEF TypeOK, PlainTypes
<1>4. QED BY <1>1, <1>2, <1>3, SearchInvHolds, PTL DEF Spec
===============================================================================
