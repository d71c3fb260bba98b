------------------------------ MODULE Induction ------------------------------
(***************************************************************************)
(* Induction over the natural numbers with a set in the place of the       *)
(* predicate, and what follows from it: that the induction principle of    *)
(* the library, which takes an operator, is not needed to reason about     *)
(* recursive functions.  The walk of the reader over the local entries,    *)
(* the level of a path and the fold over buffers are such functions.       *)
(***************************************************************************)
EXTENDS SequencesExt, SequenceTheorems, WellFoundedInduction, TLAPS

LEMMA Least ==
    ASSUME NEW T \in SUBSET Nat, T # {}
    PROVE  \E m \in T : \A k \in T : m <= k
<1>1. IsWellFoundedOn(OpToRel(<, Nat), Nat)
  BY NatLessThanWellFounded
<1>2. \E m \in T : \A k \in T : ~(<< k, m >> \in OpToRel(<, Nat))
  BY <1>1, WFMin
<1>3. PICK m \in T : \A k \in T : ~(<< k, m >> \in OpToRel(<, Nat))
  BY <1>2
<1>4. ASSUME NEW k \in T PROVE m <= k
  <2>1. ~(<< k, m >> \in OpToRel(<, Nat))
    BY <1>3
  <2>2. ~(k < m)
    BY <2>1 DEF OpToRel
  <2> QED
    BY <2>2
<1> QED
  BY <1>4

LEMMA NatInductionSet ==
    ASSUME NEW T, 0 \in T, \A n \in Nat : n \in T => n + 1 \in T
    PROVE  \A n \in Nat : n \in T
<1> SUFFICES ASSUME NEW n \in Nat, n \notin T PROVE FALSE
  OBVIOUS
<1> DEFINE Missing == {k \in Nat : k \notin T}
<1>1. PICK m \in Missing : \A k \in Missing : m <= k
  <2>1. Missing \in SUBSET Nat /\ Missing # {}
    OBVIOUS
  <2> HIDE DEF Missing
  <2> QED
    BY <2>1, Least
<1>2. m \in Nat /\ m # 0
  OBVIOUS
<1>3. m - 1 \in Nat /\ m - 1 \notin Missing
  BY <1>1, <1>2
<1>4. m - 1 \in T
  BY <1>3
<1>5. (m - 1) + 1 = m
  BY <1>2
<1> QED
  BY <1>2, <1>3, <1>4, <1>5

\* The same up to a bound, from 0 or from 1.
LEMMA BoundedInduction ==
    ASSUME NEW T, NEW m \in Nat, 0 \in T,
           \A n \in Nat : n < m /\ n \in T => n + 1 \in T
    PROVE  \A n \in 0..m : n \in T
<1> DEFINE U == {n \in Nat : n <= m => n \in T}
<1>1. 0 \in U
  OBVIOUS
<1>2. ASSUME NEW n \in Nat, n \in U PROVE n + 1 \in U
  <2> SUFFICES ASSUME n + 1 <= m PROVE n + 1 \in T
    OBVIOUS
  <2>1. n < m /\ n \in T
    BY <1>2
  <2> QED
    BY <2>1
<1>3. \A n \in Nat : n \in U
  <2> HIDE DEF U
  <2> QED
    BY <1>1, <1>2, NatInductionSet
<1> QED
  BY <1>3

LEMMA InductionFromOne ==
    ASSUME NEW T, NEW m \in Nat, 1 \in T,
           \A n \in Nat : 1 <= n /\ n < m /\ n \in T => n + 1 \in T
    PROVE  \A n \in 1..m : n \in T
<1> DEFINE U == {n \in Nat : 1 <= n => n \in T}
<1>1. 0 \in U
  OBVIOUS
<1>2. ASSUME NEW n \in Nat, n < m, n \in U PROVE n + 1 \in U
  <2>1. CASE n = 0
    BY <2>1
  <2>2. CASE n # 0
    <3>1. 1 <= n /\ n \in T
      BY <1>2, <2>2
    <3>2. n + 1 \in T
      BY <1>2, <3>1
    <3> QED
      BY <3>2
  <2> QED
    BY <2>1, <2>2
<1>3. \A n \in 0..m : n \in U
  <2> HIDE DEF U
  <2> QED
    BY <1>1, <1>2, BoundedInduction
<1>4. \A n \in 1..m : n \in 0..m
  OBVIOUS
<1> QED
  BY <1>3, <1>4

\* A function on 0..n may be defined by recursion over its argument: D is
\* the step from one value to the next.
Solutions(X, a, n, D) ==
    { g \in [0..n -> X] :
        g[0] = a /\ \A k \in 1..n : g[k] = D[<< g[k - 1], k >>] }

LEMMA Recursion ==
    ASSUME NEW X, NEW a \in X, NEW n \in Nat, NEW D \in [X \X (1..n) -> X]
    PROVE  Solutions(X, a, n, D) # {}
<1> DEFINE Is(g, m) == /\ g \in [0..m -> X]
                       /\ g[0] = a
                       /\ \A k \in 1..m : g[k] = D[<< g[k - 1], k >>]
           T == {m \in Nat : \E g : Is(g, m)}
<1>1. 0 \in T
  <2>1. Is([k \in 0..0 |-> a], 0)
    OBVIOUS
  <2> QED
    BY <2>1
<1>2. ASSUME NEW m \in Nat, m < n, m \in T PROVE m + 1 \in T
  <2>1. PICK g : Is(g, m)
    BY <1>2
  <2> DEFINE h == [k \in 0..(m + 1) |->
                     IF k = m + 1 THEN D[<< g[m], k >>] ELSE g[k]]
  <2>2. h[0] = a
    BY <2>1
  <2>3. h \in [0..(m + 1) -> X]
    <3>1. ASSUME NEW k \in 0..(m + 1)
          PROVE  (IF k = m + 1 THEN D[<< g[m], k >>] ELSE g[k]) \in X
      <4>1. CASE k = m + 1
        <5>1. g[m] \in X /\ k \in 1..n
          BY <1>2, <2>1, <4>1
        <5>2. D[<< g[m], k >>] \in X
          BY <5>1
        <5> QED
          BY <4>1, <5>2
      <4>2. CASE k # m + 1
        <5>1. k \in 0..m
          BY <3>1, <4>2
        <5> QED
          BY <2>1, <4>2, <5>1
      <4> QED
        BY <4>1, <4>2
    <3> QED
      BY <3>1
  <2>4. ASSUME NEW k \in 1..(m + 1) PROVE h[k] = D[<< h[k - 1], k >>]
    <3>1. CASE k = m + 1
      BY <2>1, <3>1
    <3>2. CASE k # m + 1
      <4>1. k \in 1..m /\ k - 1 \in 0..m
        BY <2>4, <3>2
      <4>2. h[k] = g[k] /\ h[k - 1] = g[k - 1]
        BY <4>1
      <4> QED
        BY <2>1, <4>1, <4>2
    <3> QED
      BY <3>1, <3>2
  <2>5. Is(h, m + 1)
    BY <2>2, <2>3, <2>4
  <2>6. m + 1 \in Nat
    OBVIOUS
  <2> HIDE DEF Is
  <2> QED
    BY <2>5, <2>6
<1>3. \A m \in 0..n : m \in T
  <2> HIDE DEF T
  <2> QED
    BY <1>1, <1>2, BoundedInduction
<1>4. n \in 0..n
  OBVIOUS
<1>5. n \in T
  BY <1>3, <1>4
<1>6. PICK g : Is(g, n)
  BY <1>5
<1>7. g \in Solutions(X, a, n, D)
  BY <1>6 DEF Solutions
<1> QED
  BY <1>7

(***************************************************************************)
(* FlattenSeq, the concatenation of a sequence of sequences, which the     *)
(* community modules define by such a recursion.                           *)
(***************************************************************************)
\* The concatenation of the first k of them.
LEMMA FlattenUpTo ==
    ASSUME NEW S, NEW ss \in Seq(Seq(S))
    PROVE  \E g \in [0..Len(ss) -> Seq(S)] :
              /\ g[0] = << >>
              /\ \A k \in 1..Len(ss) : g[k] = g[k - 1] \o ss[k]
              /\ FlattenSeq(ss) = g[Len(ss)]
<1> DEFINE n == Len(ss)
           D == [p \in Seq(S) \X (1..n) |-> p[1] \o ss[p[2]]]
           turn(f, k) == IF k = 1 THEN ss[k] ELSE f[k - 1] \o ss[k]
           Is(f) == f = [k \in 1..n |-> turn(f, k)]
           flatten == CHOOSE f : Is(f)
<1>1. n \in Nat /\ << >> \in Seq(S) /\ \A k \in 1..n : ss[k] \in Seq(S)
  OBVIOUS
<1>2. D \in [Seq(S) \X (1..n) -> Seq(S)]
  <2>1. ASSUME NEW p \in Seq(S) \X (1..n) PROVE p[1] \o ss[p[2]] \in Seq(S)
    <3>1. p[1] \in Seq(S) /\ ss[p[2]] \in Seq(S)
      BY <1>1, <2>1
    <3> QED
      BY <3>1
  <2> QED
    BY <2>1
<1>3. PICK g \in [0..n -> Seq(S)] :
         /\ g[0] = << >>
         /\ \A k \in 1..n : g[k] = D[<< g[k - 1], k >>]
  <2>1. n \in Nat /\ << >> \in Seq(S)
    BY <1>1
  <2> HIDE DEF D, n
  <2> DEFINE X == Seq(S)
             a == << >>
  <2>2. a \in X /\ D \in [X \X (1..n) -> X]
    BY <1>2, <2>1
  <2> HIDE DEF X, a
  <2>3. Solutions(X, a, n, D) # {}
    BY <2>1, <2>2, Recursion
  <2> QED
    BY <2>3 DEF X, a, Solutions
<1>4. \A k \in 1..n : g[k] = g[k - 1] \o ss[k]
  <2>1. \A k \in 1..n : k - 1 \in 0..n /\ g[k - 1] \in Seq(S)
    <3>1. n \in Nat
      BY <1>1
    <3> HIDE DEF n, D
    <3>2. \A k \in 1..n : k - 1 \in 0..n
      BY <3>1
    <3> QED
      BY <1>3, <3>2
  <2> HIDE DEF n
  <2>2. \A k \in 1..n : D[<< g[k - 1], k >>] = g[k - 1] \o ss[k]
    BY <2>1
  <2> HIDE DEF D
  <2> QED
    BY <1>3, <2>2
<1>5. CASE n = 0
  BY <1>3, <1>4, <1>5 DEF FlattenSeq
<1>6. CASE n # 0
  <2> DEFINE f1 == [k \in 1..n |-> g[k]]
  <2>1. \A k \in 1..n : turn(f1, k) = f1[k]
    <3> SUFFICES ASSUME NEW k \in 1..n PROVE turn(f1, k) = f1[k]
      OBVIOUS
    <3>1. CASE k = 1
      <4>1. g[0] = << >>
        BY <1>3
      <4>2. g[k] = g[k - 1] \o ss[k] /\ ss[k] \in Seq(S)
        BY <1>1, <1>4
      <4>3. k - 1 = 0
        BY <3>1
      <4>4. << >> \o ss[k] = ss[k]
        BY <4>2
      <4>5. g[k] = ss[k]
        BY <4>1, <4>2, <4>3, <4>4
      <4> QED
        BY <3>1, <4>5
    <3>2. CASE k # 1
      <4>1. k - 1 \in 1..n
        BY <1>1, <3>2
      <4> HIDE DEF n
      <4> QED
        BY <1>4, <3>2, <4>1
    <3> QED
      BY <3>1, <3>2
  <2>2. Is(f1)
    <3> HIDE DEF turn, n
    <3> QED
      BY <2>1
  <2>3. Is(flatten)
    <3> HIDE DEF Is
    <3> QED
      BY <2>2
  <2>4. FlattenSeq(ss) = flatten[n]
    BY <1>6 DEF FlattenSeq
  <2>5. \A k \in 1..n : flatten[k] = turn(flatten, k)
    <3> HIDE DEF flatten, turn, n
    <3> QED
      BY <2>3
  <2> HIDE DEF flatten
  <2> DEFINE T == {k \in 1..n : flatten[k] = g[k]}
  <2>6. 1 \in T
    <3>1. 1 \in 1..n
      BY <1>1, <1>6
    <3>2. g[1] = f1[1] /\ f1[1] = turn(f1, 1)
      BY <2>1, <3>1
    <3> QED
      BY <2>5, <3>1, <3>2
  <2>7. ASSUME NEW k \in Nat, 1 <= k, k < n, k \in T PROVE k + 1 \in T
    <3>1. k + 1 \in 1..n /\ k + 1 # 1 /\ (k + 1) - 1 = k
      BY <1>1, <2>7
    <3> HIDE DEF n
    <3>2. flatten[k + 1] = flatten[k] \o ss[k + 1]
      BY <2>5, <3>1
    <3>3. g[k + 1] = g[k] \o ss[k + 1]
      BY <1>4, <3>1
    <3> QED
      BY <2>7, <3>1, <3>2, <3>3
  <2>8. \A k \in 1..n : k \in T
    <3> HIDE DEF T, n
    <3> QED
      BY <1>1, <2>6, <2>7, InductionFromOne
  <2>9. flatten[n] = g[n]
    BY <1>1, <1>6, <2>8
  <2> QED
    BY <1>3, <1>4, <2>4, <2>9
<1> QED
  BY <1>5, <1>6

LEMMA FlattenType ==
    ASSUME NEW S, NEW ss \in Seq(Seq(S)) PROVE FlattenSeq(ss) \in Seq(S)
<1>1. \E g \in [0..Len(ss) -> Seq(S)] : FlattenSeq(ss) = g[Len(ss)]
  BY FlattenUpTo
<1>2. Len(ss) \in 0..Len(ss)
  OBVIOUS
<1> QED
  BY <1>1, <1>2

LEMMA FlattenEmpty == FlattenSeq(<< >>) = << >>
  BY DEF FlattenSeq

\* Two concatenations of the same sequences are the same.
LEMMA FlattenAppend ==
    ASSUME NEW S, NEW ss \in Seq(Seq(S)), NEW s \in Seq(S)
    PROVE  FlattenSeq(Append(ss, s)) = FlattenSeq(ss) \o s
<1> DEFINE tt == Append(ss, s)
           n == Len(ss)
<1>1. /\ tt \in Seq(Seq(S)) /\ Len(tt) = n + 1 /\ n \in Nat
      /\ tt[n + 1] = s /\ \A k \in 1..n : tt[k] = ss[k]
  OBVIOUS
<1> HIDE DEF tt, n
<1>2. PICK g \in [0..n -> Seq(S)] :
         /\ g[0] = << >>
         /\ \A k \in 1..n : g[k] = g[k - 1] \o ss[k]
         /\ FlattenSeq(ss) = g[n]
  BY FlattenUpTo DEF n
<1>3. PICK h \in [0..(n + 1) -> Seq(S)] :
         /\ h[0] = << >>
         /\ \A k \in 1..(n + 1) : h[k] = h[k - 1] \o tt[k]
         /\ FlattenSeq(tt) = h[n + 1]
  <2>1. \E h \in [0..Len(tt) -> Seq(S)] :
           /\ h[0] = << >>
           /\ \A k \in 1..Len(tt) : h[k] = h[k - 1] \o tt[k]
           /\ FlattenSeq(tt) = h[Len(tt)]
    BY <1>1, FlattenUpTo
  <2> QED
    BY <1>1, <2>1
<1> DEFINE T == {k \in 0..n : g[k] = h[k]}
<1>4. 0 \in T
  BY <1>1, <1>2, <1>3
<1>5. ASSUME NEW k \in Nat, k < n, k \in T PROVE k + 1 \in T
  <2>1. k + 1 \in 1..n /\ k + 1 \in 1..(n + 1) /\ (k + 1) - 1 = k
        /\ k + 1 \in 0..n
    BY <1>1, <1>5
  <2>2. g[k + 1] = g[k] \o ss[k + 1]
    BY <1>2, <2>1
  <2>3. h[k + 1] = h[k] \o tt[k + 1]
    BY <1>3, <2>1
  <2> QED
    BY <1>1, <1>5, <2>1, <2>2, <2>3
<1>6. \A k \in 0..n : k \in T
  <2> HIDE DEF T
  <2> QED
    BY <1>1, <1>4, <1>5, BoundedInduction
<1>7. h[n + 1] = h[n] \o s
  <2>1. n + 1 \in 1..(n + 1) /\ (n + 1) - 1 = n
    BY <1>1
  <2> QED
    BY <1>1, <1>3, <2>1
<1>8. g[n] = h[n]
  BY <1>1, <1>6
<1> QED
  BY <1>2, <1>3, <1>7, <1>8 DEF tt

\* FlattenSeq of a sequence that is put together from two is that of both.
LEMMA FlattenConcat ==
    ASSUME NEW S, NEW ss \in Seq(Seq(S)), NEW tt \in Seq(Seq(S))
    PROVE  FlattenSeq(ss \o tt) = FlattenSeq(ss) \o FlattenSeq(tt)
<1> DEFINE n == Len(tt)
           part(k) == SubSeq(tt, 1, k)
           T == {k \in 0..n : FlattenSeq(ss \o part(k))
                                = FlattenSeq(ss) \o FlattenSeq(part(k))}
<1>1. n \in Nat /\ FlattenSeq(ss) \in Seq(S)
  BY FlattenType
<1>2. 0 \in T
  <2>1. part(0) = << >> /\ ss \o << >> = ss
    OBVIOUS
  <2>2. FlattenSeq(ss) \o << >> = FlattenSeq(ss)
    BY <1>1
  <2>3. 0 \in 0..n
    BY <1>1
  <2> HIDE DEF part, n
  <2> QED
    BY <2>1, <2>2, <2>3, FlattenEmpty
<1>3. ASSUME NEW k \in Nat, k < n, k \in T PROVE k + 1 \in T
  <2>1. /\ part(k) \in Seq(Seq(S)) /\ tt[k + 1] \in Seq(S)
        /\ part(k + 1) = Append(part(k), tt[k + 1])
        /\ k + 1 \in 0..n
    BY <1>3
  <2> HIDE DEF part, n
  <2>2. ss \o part(k) \in Seq(Seq(S))
    BY <2>1
  <2>3. ss \o part(k + 1) = Append(ss \o part(k), tt[k + 1])
    <3>1. \A s \in Seq(S) : Append(part(k), s) = part(k) \o << s >>
      BY <2>1, AppendIsConcat
    <3>2. \A s \in Seq(S) : Append(ss \o part(k), s)
                              = (ss \o part(k)) \o << s >>
      BY <2>2, AppendIsConcat
    <3> DEFINE X == Seq(S)
               p == part(k)
               last == << tt[k + 1] >>
    <3>3. ss \in Seq(X) /\ p \in Seq(X) /\ last \in Seq(X)
      BY <2>1
    <3> HIDE DEF X, p, last
    <3>4. (ss \o p) \o last = ss \o (p \o last)
      BY <3>3, ConcatAssociative
    <3> USE DEF p, last
    <3> QED
      BY <2>1, <3>1, <3>2, <3>4
  <2>4. FlattenSeq(ss \o part(k + 1))
          = FlattenSeq(ss \o part(k)) \o tt[k + 1]
    BY <2>1, <2>2, <2>3, FlattenAppend
  <2>5. FlattenSeq(part(k + 1)) = FlattenSeq(part(k)) \o tt[k + 1]
    BY <2>1, FlattenAppend
  <2>6. FlattenSeq(ss \o part(k))
          = FlattenSeq(ss) \o FlattenSeq(part(k))
    BY <1>3
  <2>7. FlattenSeq(part(k)) \in Seq(S)
    BY <2>1, FlattenType
  <2>8. (FlattenSeq(ss) \o FlattenSeq(part(k))) \o tt[k + 1]
          = FlattenSeq(ss) \o (FlattenSeq(part(k)) \o tt[k + 1])
    <3> DEFINE a == FlattenSeq(ss)
               b == FlattenSeq(part(k))
               c == tt[k + 1]
    <3>1. a \in Seq(S) /\ b \in Seq(S) /\ c \in Seq(S)
      BY <1>1, <2>1, <2>7
    <3> HIDE DEF a, b, c
    <3>2. (a \o b) \o c = a \o (b \o c)
      BY <3>1, ConcatAssociative
    <3> QED
      BY <3>2 DEF a, b, c
  <2> QED
    BY <2>1, <2>4, <2>5, <2>6, <2>8
<1>4. n \in T
  <2>1. \A k \in 0..n : k \in T
    <3> HIDE DEF T, n
    <3> QED
      BY <1>1, <1>2, <1>3, BoundedInduction
  <2>2. n \in 0..n
    BY <1>1
  <2> QED
    BY <2>1, <2>2
<1>5. part(n) = tt
  BY SubSeqFull
<1> HIDE DEF part, n
<1> QED
  BY <1>4, <1>5

\* A sequence of sequences may be cut anywhere.
LEMMA FlattenCut ==
    ASSUME NEW S, NEW ss \in Seq(Seq(S)), NEW k \in 0..Len(ss)
    PROVE  FlattenSeq(ss) = FlattenSeq(SubSeq(ss, 1, k))
                              \o FlattenSeq(SubSeq(ss, k + 1, Len(ss)))
<1>1. /\ SubSeq(ss, 1, k) \in Seq(Seq(S))
      /\ SubSeq(ss, k + 1, Len(ss)) \in Seq(Seq(S))
  OBVIOUS
<1>2. ss = SubSeq(ss, 1, k) \o SubSeq(ss, k + 1, Len(ss))
  <2> DEFINE X == Seq(S)
  <2>1. /\ ss \in Seq(X) /\ 1 \in 1..(Len(ss) + 1)
        /\ k \in (1 - 1)..Len(ss) /\ Len(ss) \in k..Len(ss)
    OBVIOUS
  <2> HIDE DEF X
  <2>2. SubSeq(ss, 1, k) \o SubSeq(ss, k + 1, Len(ss))
          = SubSeq(ss, 1, Len(ss))
    BY <2>1, ConcatAdjacentSubSeq
  <2> QED
    BY <2>1, <2>2, SubSeqFull
<1> QED
  BY <1>1, <1>2, FlattenConcat

LEMMA FlattenOne ==
    ASSUME NEW S, NEW s \in Seq(S) PROVE FlattenSeq(<< s >>) = s
<1>1. << >> \in Seq(Seq(S)) /\ Append(<< >>, s) = << s >> /\ << >> \o s = s
  OBVIOUS
<1> QED
  BY <1>1, FlattenEmpty, FlattenAppend

\* The largest of some numbers up to m.
LEMMA Largest ==
    ASSUME NEW m \in Nat, NEW T \in SUBSET (0..m), T # {}
    PROVE  Max(T) \in T /\ \A k \in T : k <= Max(T)
<1> DEFINE U == {k \in Nat : \A j \in T : j <= k}
<1>1. U \in SUBSET Nat /\ m \in U
  OBVIOUS
<1>2. PICK k \in U : \A j \in U : k <= j
  <2> HIDE DEF U
  <2> QED
    BY <1>1, Least
<1>3. k \in T
  <2> SUFFICES ASSUME k \notin T PROVE FALSE
    OBVIOUS
  <2>1. \A j \in T : j <= k /\ j # k /\ j \in Nat
    BY <1>2
  <2>2. k # 0
    <3>1. PICK j \in T : TRUE
      OBVIOUS
    <3>2. j \in 0..m /\ j <= k /\ j # k /\ k \in Nat
      BY <2>1, <3>1
    <3> QED
      BY <3>2
  <2>3. k - 1 \in Nat /\ \A j \in T : j <= k - 1
    BY <1>2, <2>1, <2>2
  <2>4. k - 1 \in U
    BY <2>3
  <2> QED
    BY <1>2, <2>3, <2>4
<1>4. \E x \in T : \A j \in T : x >= j
  BY <1>2, <1>3
<1>5. Max(T) \in T /\ \A j \in T : Max(T) >= j
  BY <1>4 DEF Max
<1> QED
  BY <1>5
=============================================================================
