-------------------------- MODULE FieldParserProofs --------------------------
(***************************************************************************)
(* The parser of extra fields undoes the layout of a writer: for fields of *)
(* every kind with any numbers, any number of tags and any text, and for   *)
(* headers of any length, cut anywhere.                                    *)
(*                                                                         *)
(* Numbers come first, then parts of concatenations, then one lemma for    *)
(* each kind of field, then a whole field and one that is cut off, and at  *)
(* last the invariant of the loop over the fields.                         *)
(***************************************************************************)
EXTENDS FieldParser, Induction

\* The values of a byte.
Octet == 0..(Base - 1)

(***************************************************************************)
(* Numbers.                                                                *)
(***************************************************************************)
LEMMA BaseFacts == Base \in Nat /\ Base > 1 /\ Base # 0
  BY ParserAssumption

\* Dividing by the number of values of a byte.
LEMMA Split ==
    ASSUME NEW n \in Nat
    PROVE  /\ n \div Base \in Nat /\ n % Base \in Octet
           /\ n = (n % Base) + Base * (n \div Base)
<1>1. Base \in Nat /\ Base > 1
  BY BaseFacts
<1>2. n % Base \in Octet
  BY <1>1 DEF Octet
<1>3. n = (n % Base) + Base * (n \div Base)
  BY <1>1, Z3
<1>4. n \div Base \in Nat
  BY <1>1, Z3
<1> QED
  BY <1>2, <1>3, <1>4

\* Without drops one byte after the other.
LEMMA WithoutIs ==
    ASSUME NEW n \in Nat, NEW w \in Nat
    PROVE  LET r == Without(n, w)
           IN  /\ r[0] = n
               /\ \A k \in 0..w : r[k] \in Nat
               /\ \A k \in 1..w : r[k] = r[k - 1] \div Base
<1> DEFINE D == [p \in Nat \X (1..w) |-> p[1] \div Base]
           Turn(g) == [k \in 0..w |-> IF k = 0 THEN n ELSE g[k - 1] \div Base]
           L == Without(n, w)
<1>1. D \in [Nat \X (1..w) -> Nat]
  BY Split
<1>2. PICK g : g \in Solutions(Nat, n, w, D)
  <2> HIDE DEF D
  <2> QED
    BY <1>1, Recursion
<1>3. /\ g \in [0..w -> Nat] /\ g[0] = n
      /\ \A k \in 1..w : g[k] = g[k - 1] \div Base
  <2>1. /\ g \in [0..w -> Nat] /\ g[0] = n
        /\ \A k \in 1..w : g[k] = D[<< g[k - 1], k >>]
    BY <1>2 DEF Solutions
  <2>2. \A k \in 1..w : k - 1 \in 0..w
    OBVIOUS
  <2> QED
    BY <2>1, <2>2
<1>4. g = Turn(g)
  <2>1. \A k \in 0..w : Turn(g)[k] = g[k]
    BY <1>3
  <2>2. g = [k \in 0..w |-> g[k]] /\ Turn(g) = [k \in 0..w |-> Turn(g)[k]]
    BY <1>3
  <2> HIDE DEF Turn
  <2> QED
    BY <2>1, <2>2
<1>5. L = Turn(L)
  <2>1. L = CHOOSE h : h = Turn(h)
    BY DEF Without
  <2> HIDE DEF L, Turn
  <2> QED
    BY <1>4, <2>1
<1>6. L[0] = n /\ \A k \in 1..w : L[k] = L[k - 1] \div Base
  <2> DEFINE G == Turn(L)
  <2>1. G[0] = n /\ \A k \in 1..w : G[k] = L[k - 1] \div Base
    OBVIOUS
  <2> HIDE DEF G
  <2>2. L = G
    BY <1>5 DEF G
  <2> QED
    BY <2>1, <2>2
<1> HIDE DEF L
<1> DEFINE T == {k \in 0..w : L[k] \in Nat}
<1>7. 0 \in T
  BY <1>6
<1>8. ASSUME NEW k \in Nat, k < w, k \in T PROVE k + 1 \in T
  <2>1. k + 1 \in 1..w /\ k + 1 \in 0..w /\ (k + 1) - 1 = k
    BY <1>8
  <2>2. L[k + 1] = L[k] \div Base
    BY <1>6, <2>1
  <2>3. L[k] \in Nat
    BY <1>8
  <2>4. L[k] \div Base \in Nat
    BY <2>3, Split
  <2> QED
    BY <2>1, <2>2, <2>4
<1>9. \A k \in 0..w : k \in T
  <2> HIDE DEF T
  <2> QED
    BY <1>7, <1>8, BoundedInduction
<1> QED
  BY <1>6, <1>9 DEF L

LEMMA BytesType ==
    ASSUME NEW n \in Nat, NEW w \in Nat
    PROVE  /\ Bytes(n, w) \in Seq(Octet) /\ Len(Bytes(n, w)) = w
           /\ \A k \in 1..w : Bytes(n, w)[k] = Without(n, w)[k - 1] % Base
<1> DEFINE r == Without(n, w)
<1>1. \A k \in 0..w : r[k] \in Nat
  BY WithoutIs
<1>2. \A k \in 1..w : r[k - 1] % Base \in Octet
  <2> SUFFICES ASSUME NEW k \in 1..w PROVE r[k - 1] % Base \in Octet
    OBVIOUS
  <2>1. k - 1 \in 0..w
    OBVIOUS
  <2>2. r[k - 1] \in Nat
    BY <1>1, <2>1
  <2> QED
    BY <2>2, Split
<1>3. Bytes(n, w) = [k \in 1..w |-> r[k - 1] % Base]
  BY DEF Bytes
<1> HIDE DEF r
<1> QED
  BY <1>2, <1>3 DEF r

\* What Num computes, from the last byte on.
LEMMA NumIs ==
    ASSUME NEW bytes \in Seq(Octet)
    PROVE  \E h \in [0..Len(bytes) -> Nat] :
              /\ h[0] = 0
              /\ \A k \in 1..Len(bytes) :
                    h[k] = bytes[Len(bytes) - k + 1] + Base * h[k - 1]
              /\ Num(bytes) = h[Len(bytes)]
<1> DEFINE w == Len(bytes)
           D == [p \in Nat \X (1..w) |-> bytes[w - p[2] + 1] + Base * p[1]]
           Turn(g) == [k \in 0..w |-> IF k = 0 THEN 0
                           ELSE bytes[w - k + 1] + Base * g[k - 1]]
           L == CHOOSE g : g = Turn(g)
<1>1. Num(bytes) = L[w]
  BY DEF Num
<1>2. /\ w \in Nat
      /\ \A k \in 1..w : w - k + 1 \in 1..w
      /\ \A k \in 1..w : bytes[w - k + 1] \in Nat
  <2>1. w \in Nat /\ \A k \in 1..w : bytes[k] \in Nat
    BY BaseFacts DEF Octet
  <2>2. \A k \in 1..w : w - k + 1 \in 1..w
    BY <2>1
  <2> HIDE DEF w
  <2> QED
    BY <2>1, <2>2
<1> HIDE DEF w
<1>3. D \in [Nat \X (1..w) -> Nat]
  <2>1. \A a \in Nat, k \in 1..w : bytes[w - k + 1] + Base * a \in Nat
    <3> SUFFICES ASSUME NEW a \in Nat, NEW k \in 1..w
                 PROVE  bytes[w - k + 1] + Base * a \in Nat
      OBVIOUS
    <3>1. Base * a \in Nat
      BY BaseFacts, Z3
    <3> QED
      BY <1>2, <3>1
  <2> QED
    BY <2>1
<1>4. PICK g : g \in Solutions(Nat, 0, w, D)
  <2> HIDE DEF D
  <2> QED
    BY <1>2, <1>3, Recursion
<1>5. /\ g \in [0..w -> Nat] /\ g[0] = 0
      /\ \A k \in 1..w : g[k] = bytes[w - k + 1] + Base * g[k - 1]
  <2>1. /\ g \in [0..w -> Nat] /\ g[0] = 0
        /\ \A k \in 1..w : g[k] = D[<< g[k - 1], k >>]
    BY <1>4 DEF Solutions
  <2>2. \A k \in 1..w : k - 1 \in 0..w
    BY <1>2
  <2> QED
    BY <2>1, <2>2
<1>6. g = Turn(g)
  <2>1. \A k \in 0..w : Turn(g)[k] = g[k]
    BY <1>5
  <2>2. g = [k \in 0..w |-> g[k]] /\ Turn(g) = [k \in 0..w |-> Turn(g)[k]]
    BY <1>5
  <2> HIDE DEF Turn
  <2> QED
    BY <2>1, <2>2
<1>7. L = Turn(L)
  <2> HIDE DEF Turn
  <2> QED
    BY <1>6
<1> HIDE DEF L
<1>8. /\ L[0] = 0
      /\ \A k \in 1..w : L[k] = bytes[w - k + 1] + Base * L[k - 1]
  <2> DEFINE G == Turn(L)
  <2>1. /\ G[0] = 0
        /\ \A k \in 1..w : G[k] = bytes[w - k + 1] + Base * L[k - 1]
    BY <1>2
  <2> HIDE DEF G
  <2>2. L = G
    BY <1>7 DEF G
  <2> QED
    BY <2>1, <2>2
<1> DEFINE T == {k \in 0..w : L[k] = g[k]}
<1>9. 0 \in T
  BY <1>2, <1>5, <1>8
<1>10. ASSUME NEW k \in Nat, k < w, k \in T PROVE k + 1 \in T
  <2>1. k + 1 \in 1..w /\ k + 1 \in 0..w /\ (k + 1) - 1 = k
    BY <1>2, <1>10
  <2>2. L[k + 1] = bytes[w - (k + 1) + 1] + Base * L[k]
    BY <1>8, <2>1
  <2>3. g[k + 1] = bytes[w - (k + 1) + 1] + Base * g[k]
    BY <1>5, <2>1
  <2>4. L[k] = g[k]
    BY <1>10
  <2> QED
    BY <2>1, <2>2, <2>3, <2>4
<1>11. \A k \in 0..w : k \in T
  <2> HIDE DEF T
  <2> QED
    BY <1>2, <1>9, <1>10, BoundedInduction
<1>12. L[w] = g[w]
  BY <1>2, <1>11
<1> QED
  BY <1>1, <1>5, <1>12 DEF w

\* A number is read as it was laid out.
LEMMA NumBytes ==
    ASSUME NEW n, NEW w \in Nat, IsNum(n, w)
    PROVE  Num(Bytes(n, w)) = n
<1> DEFINE r == Without(n, w)
           b == Bytes(n, w)
<1>1. /\ n \in Nat /\ r[0] = n /\ r[w] = 0
      /\ \A k \in 0..w : r[k] \in Nat
      /\ \A k \in 1..w : r[k] = r[k - 1] \div Base
  BY WithoutIs DEF IsNum
<1>2. /\ b \in Seq(Octet) /\ Len(b) = w
      /\ \A k \in 1..w : b[k] = r[k - 1] % Base
  BY <1>1, BytesType
<1> HIDE DEF r, b
<1>3. PICK h \in [0..w -> Nat] :
         /\ h[0] = 0
         /\ \A k \in 1..w : h[k] = b[w - k + 1] + Base * h[k - 1]
         /\ Num(b) = h[w]
  BY <1>2, NumIs
<1> DEFINE T == {k \in 0..w : h[k] = r[w - k]}
<1>4. 0 \in T
  BY <1>1, <1>3
<1>5. ASSUME NEW k \in Nat, k < w, k \in T PROVE k + 1 \in T
  <2> DEFINE j == w - (k + 1)
  <2>1. /\ k + 1 \in 1..w /\ k + 1 \in 0..w /\ (k + 1) - 1 = k
        /\ w - (k + 1) + 1 = j + 1 /\ j + 1 \in 1..w /\ j \in 0..w
        /\ (j + 1) - 1 = j /\ w - k = j + 1
    BY <1>5
  <2> HIDE DEF j
  <2>2. h[k + 1] = b[j + 1] + Base * h[k]
    BY <1>3, <2>1
  <2>3. h[k] = r[j + 1]
    BY <1>5, <2>1
  <2>4. r[j + 1] = r[j] \div Base /\ b[j + 1] = r[j] % Base
    BY <1>1, <1>2, <2>1
  <2>5. r[j] = (r[j] % Base) + Base * (r[j] \div Base)
    BY <1>1, <2>1, Split
  <2>6. h[k + 1] = r[j]
    BY <2>2, <2>3, <2>4, <2>5
  <2> QED
    BY <2>1, <2>6 DEF j
<1>6. \A k \in 0..w : k \in T
  <2> HIDE DEF T
  <2> QED
    BY <1>4, <1>5, BoundedInduction
<1>7. h[w] = r[w - w] /\ w - w = 0
  BY <1>6
<1> QED
  BY <1>1, <1>3, <1>7 DEF b

(***************************************************************************)
(* Parts of a concatenation.                                               *)
(***************************************************************************)
\* The n bytes after the first m.
Slice(d, m, n) == SubSeq(d, m + 1, m + n)

LEMMA SliceMiddle ==
    ASSUME NEW S, NEW a \in Seq(S), NEW b \in Seq(S), NEW c \in Seq(S)
    PROVE  Slice(a \o (b \o c), Len(a), Len(b)) = b
<1> DEFINE d == a \o (b \o c)
           m == Len(a)
           n == Len(b)
           s == SubSeq(d, m + 1, m + n)
<1>1. /\ b \o c \in Seq(S) /\ Len(b \o c) = Len(b) + Len(c)
      /\ \A k \in 1..Len(b) : (b \o c)[k] = b[k]
  BY ConcatProperties
<1>2. /\ d \in Seq(S) /\ Len(d) = Len(a) + (Len(b) + Len(c))
      /\ \A k \in 1..(Len(b) + Len(c)) : d[Len(a) + k] = (b \o c)[k]
  <2> DEFINE e == b \o c
  <2>1. e \in Seq(S) /\ Len(e) = Len(b) + Len(c)
    BY <1>1
  <2> HIDE DEF e
  <2>2. /\ a \o e \in Seq(S) /\ Len(a \o e) = Len(a) + Len(e)
        /\ \A k \in 1..Len(e) : (a \o e)[Len(a) + k] = e[k]
    <3>1. a \o e \in Seq(S) /\ Len(a \o e) = Len(a) + Len(e)
      BY <2>1, ConcatProperties
    <3>2. \A k \in 1..Len(e) : (a \o e)[Len(a) + k] = e[k]
      BY <2>1
    <3> QED
      BY <3>1, <3>2
  <2> QED
    BY <2>1, <2>2 DEF e
<1>3. m \in Nat /\ n \in Nat /\ Len(c) \in Nat
  OBVIOUS
<1> HIDE DEF d
<1>4. m + n \in Nat /\ m + n <= Len(d) /\ m + 1 \in Nat
  BY <1>2, <1>3
<1>5. /\ s \in Seq(S) /\ Len(s) = n
      /\ \A k \in 1..n : s[k] = d[m + k]
  <2> DEFINE i == m + 1
             j == m + n
  <2>1. /\ i \in Int /\ j \in Int /\ \A k \in i..j : k \in 1..Len(d)
        /\ j - i + 1 = n
        /\ \A k \in 1..n : i + k - 1 = m + k
        /\ (IF i <= j THEN j - i + 1 ELSE 0) = n
    <3>1. m \in Nat /\ n \in Nat /\ m + n <= Len(d) /\ Len(d) \in Nat
      BY <1>2, <1>3, <1>4
    <3> HIDE DEF m, n
    <3> QED
      BY ONLY <3>1 DEF i, j
  <2>2. \A k \in i..j : d[k] \in S
    BY <1>2, <2>1
  <2> HIDE DEF i, j
  <2>3. /\ SubSeq(d, i, j) \in Seq(S) /\ Len(SubSeq(d, i, j)) = n
        /\ \A k \in 1..n : SubSeq(d, i, j)[k] = d[i + k - 1]
    <3> HIDE DEF m, n
    <3> QED
      BY <2>1, <2>2, SubSeqProperties
  <2> QED
    BY <2>1, <2>3 DEF i, j
<1>6. \A k \in 1..n : s[k] = b[k]
  <2> SUFFICES ASSUME NEW k \in 1..n PROVE s[k] = b[k]
    OBVIOUS
  <2>1. k \in 1..(Len(b) + Len(c))
    BY <1>3
  <2> HIDE DEF s
  <2> QED
    BY <1>1, <1>2, <1>5, <2>1 DEF s
<1> HIDE DEF s
<1>7. s = b
  BY <1>5, <1>6, SeqEqual
<1> QED
  BY <1>7 DEF s, d, Slice

LEMMA SliceFront ==
    ASSUME NEW S, NEW b \in Seq(S), NEW c \in Seq(S)
    PROVE  Slice(b \o c, 0, Len(b)) = b
<1> DEFINE a == << >>
<1>1. a \in Seq(S) /\ Len(a) = 0
  OBVIOUS
<1>2. a \o (b \o c) = b \o c
  <2>1. b \o c \in Seq(S)
    OBVIOUS
  <2> QED
    BY <2>1
<1> HIDE DEF a
<1>3. Slice(a \o (b \o c), Len(a), Len(b)) = b
  BY <1>1, SliceMiddle
<1> QED
  BY <1>1, <1>2, <1>3

LEMMA SliceBack ==
    ASSUME NEW S, NEW a \in Seq(S), NEW b \in Seq(S)
    PROVE  /\ Slice(a \o b, Len(a), Len(b)) = b
           /\ From(a \o b, Len(a) + 1) = b
<1> DEFINE c == << >>
<1>1. c \in Seq(S)
  OBVIOUS
<1>2. b \o c = b
  OBVIOUS
<1> HIDE DEF c
<1>3. Slice(a \o (b \o c), Len(a), Len(b)) = b
  BY <1>1, SliceMiddle
<1>4. Len(a \o b) = Len(a) + Len(b)
  OBVIOUS
<1> QED
  BY <1>2, <1>3, <1>4 DEF Slice, From

LEMMA Concat ==
    ASSUME NEW S, NEW a \in Seq(S), NEW b \in Seq(S)
    PROVE  /\ a \o b \in Seq(S) /\ Len(a \o b) = Len(a) + Len(b)
           /\ Len(a) \in Nat /\ Len(b) \in Nat
           /\ \A k \in 1..Len(a) : (a \o b)[k] = a[k]
           /\ \A k \in 1..Len(b) : (a \o b)[Len(a) + k] = b[k]
<1>1. a \o b \in Seq(S) /\ Len(a \o b) = Len(a) + Len(b)
  BY ConcatProperties
<1>2. Len(a) \in Nat /\ Len(b) \in Nat
  OBVIOUS
<1>3. \A k \in 1..Len(a) : (a \o b)[k] = a[k]
  OBVIOUS
<1>4. \A k \in 1..Len(b) : (a \o b)[Len(a) + k] = b[k]
  OBVIOUS
<1> QED
  BY <1>1, <1>2, <1>3, <1>4

\* A concatenation around its k-th part.
LEMMA FlattenAt ==
    ASSUME NEW S, NEW ss \in Seq(Seq(S)), NEW k \in 1..Len(ss)
    PROVE  LET u == FlattenSeq(SubSeq(ss, 1, k - 1))
               w == FlattenSeq(SubSeq(ss, k + 1, Len(ss)))
           IN  /\ u \in Seq(S) /\ ss[k] \in Seq(S) /\ w \in Seq(S)
               /\ FlattenSeq(SubSeq(ss, 1, k)) = u \o ss[k]
               /\ FlattenSeq(SubSeq(ss, k, Len(ss))) = ss[k] \o w
               /\ FlattenSeq(ss) = u \o (ss[k] \o w)
<1> DEFINE a == SubSeq(ss, 1, k - 1)
           b == SubSeq(ss, k + 1, Len(ss))
           c == SubSeq(ss, k, Len(ss))
           u == FlattenSeq(a)
           w == FlattenSeq(b)
<1>1. /\ a \in Seq(Seq(S)) /\ b \in Seq(Seq(S)) /\ c \in Seq(Seq(S))
      /\ ss[k] \in Seq(S) /\ k \in 0..Len(ss) /\ k \in Nat
      /\ Len(ss) \in Nat /\ k >= 1 /\ k <= Len(ss)
  OBVIOUS
<1>2. SubSeq(ss, 1, k) = Append(a, ss[k])
  OBVIOUS
<1>3. u \in Seq(S) /\ w \in Seq(S)
  BY <1>1, FlattenType
<1>4. FlattenSeq(Append(a, ss[k])) = u \o ss[k]
  <2> HIDE DEF a
  <2> QED
    BY <1>1, FlattenAppend DEF a
<1>5. FlattenSeq(ss) = FlattenSeq(SubSeq(ss, 1, k)) \o w
  BY <1>1, FlattenCut
<1>6. FlattenSeq(c) = ss[k] \o w
  <2>1. SubSeq(c, 1, 1) = << ss[k] >> /\ SubSeq(c, 2, Len(c)) = b
    <3>1. /\ Len(c) = Len(ss) - k + 1
          /\ \A i \in 1..(Len(ss) - k + 1) : c[i] = ss[k + i - 1]
      BY <1>1
    <3>2. /\ b \in Seq(Seq(S)) /\ Len(b) = Len(ss) - k
          /\ \A i \in 1..(Len(ss) - k) : b[i] = ss[k + i]
      <4> DEFINE j == k + 1
                 n == Len(ss)
      <4>1. /\ j \in Int /\ n \in Int /\ \A i \in j..n : ss[i] \in Seq(S)
            /\ (IF j <= n THEN n - j + 1 ELSE 0) = n - k /\ n - j + 1 = n - k
            /\ \A i \in 1..(n - k) : j + i - 1 = k + i
        BY <1>1
      <4> HIDE DEF j, n
      <4>2. /\ SubSeq(ss, j, n) \in Seq(Seq(S)) /\ Len(SubSeq(ss, j, n)) = n - k
            /\ \A i \in 1..(n - k) : SubSeq(ss, j, n)[i] = ss[j + i - 1]
        BY <4>1, SubSeqProperties
      <4> QED
        BY <4>1, <4>2 DEF j, n
    <3> HIDE DEF b, c
    <3>3. SubSeq(c, 1, 1) = << ss[k] >>
      <4> DEFINE X == Seq(S)
                 p == SubSeq(c, 1, 1)
      <4>1. 1 \in 1..(Len(ss) - k + 1) /\ k + 1 - 1 = k
        BY <1>1
      <4>2. c[1] = ss[k] /\ Len(c) >= 1 /\ c \in Seq(X) /\ ss[k] \in X
        BY <1>1, <3>1, <4>1
      <4> HIDE DEF X
      <4>3. p \in Seq(X) /\ Len(p) = 1 /\ p[1] = c[1]
        BY <4>2
      <4> DEFINE x == ss[k]
                 q == << x >>
      <4>4. q \in Seq(X) /\ Len(q) = 1 /\ q[1] = x
        BY <4>2
      <4> HIDE DEF p, q
      <4>5. \A i \in 1..Len(p) : p[i] = q[i]
        BY <4>2, <4>3, <4>4
      <4>6. p = q
        BY <4>3, <4>4, <4>5, SeqEqual
      <4> QED
        BY <4>6 DEF p, q
    <3>4. SubSeq(c, 2, Len(c)) = b
      <4> DEFINE q == SubSeq(c, 2, Len(c))
      <4>1. /\ q \in Seq(Seq(S)) /\ Len(q) = Len(c) - 1
            /\ \A i \in 1..(Len(c) - 1) : q[i] = c[i + 1]
        BY <1>1, <3>1
      <4> HIDE DEF q
      <4>2. \A i \in 1..(Len(ss) - k) : q[i] = b[i]
        <5> SUFFICES ASSUME NEW i \in 1..(Len(ss) - k) PROVE q[i] = b[i]
          OBVIOUS
        <5>1. /\ i + 1 \in 1..(Len(ss) - k + 1) /\ k + (i + 1) - 1 = k + i
              /\ i \in 1..(Len(c) - 1)
          BY <1>1, <3>1
        <5> QED
          BY <3>1, <3>2, <4>1, <5>1
      <4>3. Len(q) = Len(ss) - k
        BY <1>1, <3>1, <4>1
      <4> QED
        BY <3>2, <4>1, <4>2, <4>3, SeqEqual DEF q
    <3> QED
      BY <3>3, <3>4
  <2>2. 1 \in 0..Len(c)
    BY <1>1
  <2> HIDE DEF b, c
  <2>3. FlattenSeq(c) = FlattenSeq(SubSeq(c, 1, 1))
                          \o FlattenSeq(SubSeq(c, 1 + 1, Len(c)))
    BY <1>1, <2>2, FlattenCut
  <2>4. FlattenSeq(<< ss[k] >>) = ss[k] /\ 1 + 1 = 2
    BY <1>1, FlattenOne
  <2> QED
    BY <2>1, <2>3, <2>4
<1>7. (u \o ss[k]) \o w = u \o (ss[k] \o w)
  <2> DEFINE v == ss[k]
  <2>1. v \in Seq(S)
    BY <1>1
  <2> HIDE DEF u, w, v
  <2>2. (u \o v) \o w = u \o (v \o w)
    BY <1>3, <2>1
  <2> QED
    BY <2>2 DEF v
<1> QED
  BY <1>1, <1>2, <1>3, <1>4, <1>5, <1>6, <1>7

\* Numbers of one width are read as they were laid out.
LEMMA WordsOf ==
    ASSUME NEW w \in Nat \ {0}, NEW ns, AreNums(ns, w)
    PROVE  /\ BytesOf(ns, w) \in Seq(Octet)
           /\ Len(BytesOf(ns, w)) = Len(ns) * w
           /\ Words(BytesOf(ns, w), w) = ns
<1> DEFINE n == Len(ns)
           P == [k \in DOMAIN ns |-> Bytes(ns[k], w)]
           d == FlattenSeq(P)
           front(k) == FlattenSeq(SubSeq(P, 1, k))
<1>1. /\ n \in Nat /\ DOMAIN ns = 1..n /\ ns \in Seq(Nat)
      /\ \A k \in 1..n : ns[k] \in Nat /\ IsNum(ns[k], w)
  BY DEF AreNums
<1>2. /\ P \in Seq(Seq(Octet)) /\ Len(P) = n
      /\ \A k \in 1..n : P[k] = Bytes(ns[k], w) /\ Len(P[k]) = w
  <2>1. \A k \in 1..n : /\ Bytes(ns[k], w) \in Seq(Octet)
                        /\ Len(Bytes(ns[k], w)) = w
    BY <1>1, BytesType
  <2>2. P = [k \in 1..n |-> Bytes(ns[k], w)]
    BY <1>1
  <2> HIDE DEF n, P
  <2> QED
    BY <1>1, <2>1, <2>2
<1>3. BytesOf(ns, w) = d
  BY DEF BytesOf
<1>4. d \in Seq(Octet)
  <2> HIDE DEF P
  <2> QED
    BY <1>2, FlattenType
<1> HIDE DEF n, P
<1> DEFINE T == {k \in 0..n : Len(front(k)) = k * w}
<1>5. 0 \in T
  <2>1. SubSeq(P, 1, 0) = << >>
    BY <1>2
  <2>2. Len(<< >>) = 0
    OBVIOUS
  <2>3. Len(front(0)) = 0
    BY <2>1, <2>2, FlattenEmpty
  <2>4. 0 * w = 0
    OBVIOUS
  <2> HIDE DEF front
  <2> QED
    BY <1>1, <2>3, <2>4
<1>6. ASSUME NEW k \in Nat, k < n, k \in T PROVE k + 1 \in T
  <2> DEFINE j == k + 1
  <2>1. j \in 1..n /\ j \in 0..n /\ j - 1 = k
    BY <1>1, <1>6
  <2> HIDE DEF j
  <2>2. /\ front(j - 1) \in Seq(Octet) /\ P[j] \in Seq(Octet)
        /\ front(j) = front(j - 1) \o P[j]
    BY <1>2, <2>1, FlattenAt
  <2>3. Len(front(j - 1)) = k * w /\ Len(P[j]) = w
    BY <1>2, <1>6, <2>1
  <2> HIDE DEF front
  <2>4. Len(front(j)) = k * w + w
    <3> DEFINE a == front(j - 1)
               b == P[j]
    <3>1. a \in Seq(Octet) /\ b \in Seq(Octet)
      BY <2>2
    <3> HIDE DEF a, b
    <3>2. Len(a \o b) = Len(a) + Len(b)
      BY <3>1
    <3> QED
      BY <2>2, <2>3, <3>2 DEF a, b
  <2>5. k * w + w = (k + 1) * w
    BY Z3
  <2> QED
    BY <2>1, <2>4, <2>5 DEF j
<1>7. \A k \in 0..n : Len(front(k)) = k * w
  <2>1. \A k \in 0..n : k \in T
    <3> HIDE DEF T
    <3> QED
      BY <1>1, <1>5, <1>6, BoundedInduction
  <2> QED
    BY <2>1
<1>8. Len(d) = n * w
  <2>1. SubSeq(P, 1, n) = P
    BY <1>1, <1>2
  <2>2. front(n) = d
    BY <2>1
  <2>3. n \in 0..n
    BY <1>1
  <2> HIDE DEF d, front
  <2> QED
    BY <1>7, <2>2, <2>3
<1>9. Len(d) \div w = n
  <2>1. (n * w) \div w = n
    BY <1>1, Z3
  <2> HIDE DEF d
  <2> QED
    BY <1>8, <2>1
<1>10. ASSUME NEW k \in 1..n
       PROVE  Num(SubSeq(d, (k - 1) * w + 1, k * w)) = ns[k]
  <2> DEFINE u == front(k - 1)
             z == FlattenSeq(SubSeq(P, k + 1, n))
             v == P[k]
  <2>1. /\ u \in Seq(Octet) /\ v \in Seq(Octet) /\ z \in Seq(Octet)
        /\ d = u \o (v \o z)
    BY <1>2, FlattenAt
  <2>2. Len(u) = (k - 1) * w /\ Len(v) = w
    BY <1>1, <1>2, <1>7
  <2> HIDE DEF u, v, z, d
  <2>3. Slice(d, Len(u), Len(v)) = v
    BY <2>1, SliceMiddle
  <2>4. (k - 1) * w + w = k * w
    BY <1>1, Z3
  <2>5. SubSeq(d, (k - 1) * w + 1, k * w) = v
    BY <2>2, <2>3, <2>4 DEF Slice
  <2>6. v = Bytes(ns[k], w)
    BY <1>2 DEF v
  <2>7. IsNum(ns[k], w) /\ w \in Nat
    BY <1>1
  <2> QED
    BY <2>5, <2>6, <2>7, NumBytes
<1>11. Words(d, w) = ns
  <2> HIDE DEF d
  <2>1. Words(d, w) = [k \in 1..n |->
                          Num(SubSeq(d, (k - 1) * w + 1, k * w))]
    BY <1>9 DEF Words
  <2>2. Words(d, w) = [k \in 1..n |-> ns[k]]
    BY <1>10, <2>1
  <2>3. ns = [k \in 1..n |-> ns[k]]
    BY <1>1
  <2> QED
    BY <2>2, <2>3
<1> QED
  BY <1>3, <1>4, <1>8, <1>11 DEF n

COROLLARY WideWords ==
    ASSUME NEW ns
    PROVE  /\ AreNums(ns, 8) =>
                /\ BytesOf(ns, 8) \in Seq(Octet)
                /\ Len(BytesOf(ns, 8)) = Len(ns) * 8
                /\ Words(BytesOf(ns, 8), 8) = ns
           /\ AreNums(ns, 4) =>
                /\ BytesOf(ns, 4) \in Seq(Octet)
                /\ Len(BytesOf(ns, 4)) = Len(ns) * 4
                /\ Words(BytesOf(ns, 4), 4) = ns
<1>1. \A w \in Nat \ {0} : AreNums(ns, w) =>
         /\ BytesOf(ns, w) \in Seq(Octet)
         /\ Len(BytesOf(ns, w)) = Len(ns) * w
         /\ Words(BytesOf(ns, w), w) = ns
  BY WordsOf
<1>2. 4 \in Nat \ {0} /\ 8 \in Nat \ {0}
  OBVIOUS
<1> QED
  BY <1>1, <1>2

(***************************************************************************)
(* Each parser reads what was laid out for it.                             *)
(***************************************************************************)
LEMMA Zip64Read ==
    ASSUME NEW f, CanBeLaidOut(f), f.id = "Zip64"
    PROVE  Layout(f) \in Seq(Octet) /\ ParseZip64(Layout(f)) = f
<1>1. f = [id |-> "Zip64", values |-> f.values] /\ AreNums(f.values, 8)
  BY DEF CanBeLaidOut
<1> DEFINE d == BytesOf(f.values, 8)
<1>2. Layout(f) = d
  BY DEF Layout
<1>3. /\ d \in Seq(Octet) /\ Len(d) = Len(f.values) * 8
      /\ Words(d, 8) = f.values
  BY <1>1, WideWords
<1>4. Len(f.values) \in Nat
  BY <1>1 DEF AreNums
<1> HIDE DEF d
<1>5. Len(d) % 8 = 0
  <2>1. \A n \in Nat : (n * 8) % 8 = 0
    OBVIOUS
  <2> QED
    BY <1>3, <1>4, <2>1
<1>6. ParseZip64(d) = [id |-> "Zip64", values |-> f.values]
  BY <1>3, <1>5 DEF ParseZip64, Valid
<1> QED
  BY <1>1, <1>2, <1>3, <1>6

LEMMA TimestampRead ==
    ASSUME NEW f, CanBeLaidOut(f), f.id = "Timestamp"
    PROVE  Layout(f) \in Seq(Octet) /\ ParseTimestamp(Layout(f)) = f
<1>1. /\ f = [id |-> "Timestamp", bits |-> f.bits, times |-> f.times]
      /\ \E byte \in 0..(Base - 1) : BitsOf(byte) = f.bits
      /\ AreNums(f.times, 4) /\ ExtendedTimes(f) # {}
  BY DEF CanBeLaidOut
<1> DEFINE x == CHOOSE byte \in 0..(Base - 1) : BitsOf(byte) = f.bits
           a == << x >>
           b == BytesOf(f.times, 4)
           d == a \o b
<1>2. Layout(f) = d
  BY DEF Layout
<1>3. x \in Octet /\ BitsOf(x) = f.bits
  BY <1>1 DEF Octet
<1> HIDE DEF x
<1>4. a \in Seq(Octet) /\ Len(a) = 1 /\ a[1] = x
  BY <1>3
<1>5. /\ b \in Seq(Octet) /\ Len(b) = Len(f.times) * 4
      /\ Words(b, 4) = f.times /\ Len(f.times) \in Nat
  BY <1>1, WideWords DEF AreNums
<1> HIDE DEF a, b
<1>6. d \in Seq(Octet) /\ Len(d) = 1 + Len(f.times) * 4 /\ d[1] = x
  <2>1. 1 \in 1..Len(a)
    BY <1>4
  <2> QED
    BY <1>4, <1>5, <2>1, Concat
<1>7. From(d, 2) = b
  <2>1. From(d, Len(a) + 1) = b
    BY <1>4, <1>5, SliceBack
  <2> QED
    BY <1>4, <2>1
<1> HIDE DEF d
<1>8. Len(d) % 4 = 1
  <2>1. \A n \in Nat : (1 + n * 4) % 4 = 1
    OBVIOUS
  <2> QED
    BY <1>5, <1>6, <2>1
<1>9. [id |-> "Timestamp", bits |-> BitsOf(d[1]),
       times |-> Words(From(d, 2), 4)] = f
  BY <1>1, <1>3, <1>5, <1>6, <1>7
<1>10. ParseTimestamp(d) = f
  BY <1>1, <1>8, <1>9 DEF ParseTimestamp, Valid
<1> QED
  BY <1>2, <1>6, <1>10

LEMMA UnicodeRead ==
    ASSUME NEW f, CanBeLaidOut(f), f.id \in {"UnicodeComment", "UnicodeName"}
    PROVE  Layout(f) \in Seq(Octet) /\ ParseUnicode(f.id, Layout(f)) = f
<1>1. /\ f = [id |-> f.id, crc |-> f.crc, text |-> f.text]
      /\ IsNum(f.crc, 4) /\ f.text \in Seq(Octet)
      /\ NotUtf8 \notin {f.text[k] : k \in DOMAIN f.text}
  BY DEF CanBeLaidOut, Octet
<1> DEFINE a == << 1 >>
           b == Bytes(f.crc, 4)
           t == f.text
           d == a \o (b \o t)
<1>2. /\ a \in Seq(Octet) /\ Len(a) = 1 /\ a[1] = 1
  BY BaseFacts DEF Octet
<1>3. b \in Seq(Octet) /\ Len(b) = 4 /\ Num(b) = f.crc /\ t \in Seq(Octet)
  BY <1>1, BytesType, NumBytes DEF IsNum
<1>4. Layout(f) = (a \o b) \o t
  BY DEF Layout
<1> HIDE DEF a, b
<1> DEFINE e == b \o t
<1>5. /\ e \in Seq(Octet) /\ Len(e) = 4 + Len(t) /\ Len(t) \in Nat
      /\ \A k \in 1..Len(t) : e[4 + k] = t[k]
  <2> HIDE DEF t, d, e
  <2>1. b \in Seq(Octet) /\ t \in Seq(Octet)
    BY <1>3
  <2>2. b \o t \in Seq(Octet) /\ Len(b \o t) = Len(b) + Len(t)
    BY <2>1, Concat
  <2>3. Len(t) \in Nat
    BY <2>1, Concat
  <2>4. \A k \in 1..Len(t) : (b \o t)[Len(b) + k] = t[k]
    BY <2>1, Concat
  <2> QED
    BY <1>3, <2>2, <2>3, <2>4 DEF e
<1>6. /\ d \in Seq(Octet) /\ Len(d) = 5 + Len(t) /\ d[1] = 1
      /\ \A k \in 1..(4 + Len(t)) : d[1 + k] = e[k]
  <2> HIDE DEF e
  <2>1. /\ a \o e \in Seq(Octet) /\ Len(a \o e) = Len(a) + Len(e)
        /\ \A k \in 1..Len(a) : (a \o e)[k] = a[k]
        /\ \A k \in 1..Len(e) : (a \o e)[Len(a) + k] = e[k]
    BY <1>2, <1>5, Concat
  <2>2. 1 \in 1..Len(a)
    BY <1>2
  <2> QED
    BY <1>2, <1>5, <2>1, <2>2 DEF e
<1>7. Layout(f) = d
  <2> HIDE DEF t
  <2>1. (a \o b) \o t = a \o (b \o t)
    BY <1>2, <1>3, ConcatAssociative
  <2> QED
    BY <1>4, <2>1
<1>8. SubSeq(d, 2, 5) = b
  <2>1. Slice(a \o (b \o t), Len(a), Len(b)) = b
    BY <1>2, <1>3, SliceMiddle
  <2>2. Len(a) + 1 = 2 /\ Len(a) + Len(b) = 5
    BY <1>2, <1>3
  <2> QED
    BY <2>1, <2>2 DEF Slice
<1>9. From(d, 6) = t
  <2> DEFINE c == a \o b
  <2>1. c \in Seq(Octet) /\ Len(c) = 5
    <3>1. a \o b \in Seq(Octet) /\ Len(a \o b) = Len(a) + Len(b)
      BY <1>2, <1>3, Concat
    <3> QED
      BY <1>2, <1>3, <3>1
  <2>2. d = c \o t
    BY <1>4, <1>7
  <2> HIDE DEF c
  <2>3. From(c \o t, Len(c) + 1) = t
    BY <1>3, <2>1, SliceBack
  <2> QED
    BY <2>1, <2>2, <2>3
<1> HIDE DEF d, e
<1>10. NotUtf8 \notin {d[k] : k \in 6..Len(d)}
  <2> SUFFICES ASSUME NEW k \in 6..Len(d) PROVE d[k] # NotUtf8
    OBVIOUS
  <2> DEFINE j == k - 5
  <2>1. /\ j \in 1..Len(t) /\ 4 + j \in 1..(4 + Len(t)) /\ 1 + (4 + j) = k
    BY <1>6
  <2> HIDE DEF j
  <2>2. d[k] = t[j]
    BY <1>5, <1>6, <2>1
  <2>3. j \in DOMAIN f.text
    BY <1>1, <2>1
  <2> QED
    BY <1>1, <2>2, <2>3
<1>11. Len(d) >= 5
  BY <1>6
<1>12. ParseUnicode(f.id, d) = [id |-> f.id, crc |-> f.crc, text |-> f.text]
  BY <1>3, <1>6, <1>8, <1>9, <1>10, <1>11 DEF ParseUnicode, Valid
<1> QED
  BY <1>1, <1>6, <1>7, <1>12

\* A concatenation of three parts with something before and after it.
LEMMA ThreeParts ==
    ASSUME NEW S, NEW h \in Seq(S), NEW a \in Seq(S), NEW b \in Seq(S),
           NEW c \in Seq(S), NEW w \in Seq(S)
    PROVE  LET d == h \o (((a \o b) \o c) \o w)
           IN  /\ d \in Seq(S) /\ (a \o b) \o c \in Seq(S)
               /\ Len((a \o b) \o c) = Len(a) + Len(b) + Len(c)
               /\ Len(d) = Len(h) + Len(a) + Len(b) + Len(c) + Len(w)
               /\ Slice(d, Len(h), Len(a)) = a
               /\ Slice(d, Len(h) + Len(a), Len(b)) = b
               /\ Slice(d, Len(h) + Len(a) + Len(b), Len(c)) = c
<1> DEFINE ab == a \o b
           abc == ab \o c
           cw == c \o w
           bcw == b \o cw
           ha == h \o a
           hab == ha \o b
           d == h \o (abc \o w)
<1>1. /\ Len(h) \in Nat /\ Len(a) \in Nat /\ Len(b) \in Nat
      /\ Len(c) \in Nat /\ Len(w) \in Nat
  OBVIOUS
<1>2. ab \in Seq(S) /\ Len(ab) = Len(a) + Len(b)
  BY Concat
<1>3. cw \in Seq(S) /\ Len(cw) = Len(c) + Len(w)
  BY Concat
<1>4. ha \in Seq(S) /\ Len(ha) = Len(h) + Len(a)
  BY Concat
<1> HIDE DEF ab, cw, ha
<1>0. /\ ab \in Seq(S) /\ cw \in Seq(S) /\ ha \in Seq(S)
      /\ a \in Seq(S) /\ b \in Seq(S) /\ c \in Seq(S) /\ w \in Seq(S)
      /\ h \in Seq(S)
  BY <1>2, <1>3, <1>4
<1>5. abc \in Seq(S) /\ Len(abc) = Len(a) + Len(b) + Len(c)
  <2>1. ab \o c \in Seq(S) /\ Len(ab \o c) = Len(ab) + Len(c)
    BY <1>2, Concat
  <2> QED
    BY <1>1, <1>2, <2>1
<1>6. bcw \in Seq(S)
  BY <1>3, Concat
<1>7. hab \in Seq(S) /\ Len(hab) = Len(h) + Len(a) + Len(b)
  <2>1. ha \o b \in Seq(S) /\ Len(ha \o b) = Len(ha) + Len(b)
    BY <1>4, Concat
  <2> QED
    BY <1>1, <1>4, <2>1
<1> HIDE DEF abc, bcw, hab
<1>8. /\ abc \o w \in Seq(S)
      /\ Len(abc \o w) = Len(a) + Len(b) + Len(c) + Len(w)
  BY <1>1, <1>5, Concat
<1> DEFINE x == abc \o w
<1>9. x \in Seq(S) /\ Len(x) = Len(a) + Len(b) + Len(c) + Len(w)
  BY <1>8
<1>10. x = a \o bcw
  <2>1. (ab \o c) \o w = ab \o (c \o w)
    BY <1>0, Z3
  <2>2. (a \o b) \o cw = a \o (b \o cw)
    BY <1>0, Z3
  <2> QED
    BY <2>1, <2>2 DEF ab, abc, cw, bcw
<1> HIDE DEF x
<1>11. d = h \o x
  BY DEF x
<1>12. d \in Seq(S) /\ Len(d) = Len(h) + Len(a) + Len(b) + Len(c) + Len(w)
  <2>1. h \o x \in Seq(S) /\ Len(h \o x) = Len(h) + Len(x)
    BY <1>9, Concat
  <2> QED
    BY <1>1, <1>9, <1>11, <2>1
<1>13. d = h \o (a \o bcw)
  BY <1>10, <1>11
<1>14. d = ha \o (b \o cw)
  <2>1. (h \o a) \o bcw = h \o (a \o bcw)
    BY <1>0, <1>6, Z3
  <2> QED
    BY <1>13, <2>1 DEF ha, bcw
<1>15. d = hab \o (c \o w)
  <2>1. (ha \o b) \o cw = ha \o (b \o cw)
    BY <1>0, Z3
  <2> QED
    BY <1>14, <2>1 DEF hab, cw
<1> HIDE DEF d
<1>16. Slice(d, Len(h), Len(a)) = a
  BY <1>6, <1>13, SliceMiddle
<1>17. Slice(d, Len(h) + Len(a), Len(b)) = b
  BY <1>3, <1>4, <1>14, SliceMiddle
<1>18. Slice(d, Len(h) + Len(a) + Len(b), Len(c)) = c
  BY <1>7, <1>15, SliceMiddle
<1> QED
  BY <1>2, <1>5, <1>12, <1>16, <1>17, <1>18 DEF d, x, abc, ab

\* The numbers of two bytes.
LEMMA TwoBytes ==
    ASSUME NEW n \in 0..(Base * Base - 1) PROVE IsNum(n, 2)
<1> DEFINE r == Without(n, 2)
<1>1. /\ r[0] = n /\ r[0 + 1] = r[0] \div Base
      /\ r[1 + 1] = r[1] \div Base
  <2>1. /\ r[0] = n /\ \A k \in 1..2 : r[k] = r[k - 1] \div Base
    BY WithoutIs
  <2>2. 1 \in 1..2 /\ 2 \in 1..2 /\ 1 - 1 = 0 /\ 2 - 1 = 1
    OBVIOUS
  <2> HIDE DEF r
  <2> QED
    BY <2>1, <2>2
<1> HIDE DEF r
<1>2. r[2] = (n \div Base) \div Base
  BY <1>1
<1>3. (n \div Base) \div Base = 0
  <2> DEFINE m == n \div Base
  <2>1. m \in 0..(Base - 1)
    <3>1. /\ Base \in Nat /\ Base > 1 /\ Base * Base \in Nat
      BY BaseFacts, Z3
    <3>2. m \in Nat /\ n = (n % Base) + Base * m /\ n % Base \in Octet
      BY <3>1, Split
    <3>3. Base * m <= n /\ n < Base * Base
      BY <3>1, <3>2, Z3 DEF Octet
    <3> HIDE DEF m
    <3>4. m < Base
      BY <3>1, <3>2, <3>3, Z3
    <3> QED
      BY <3>1, <3>2, <3>4
  <2> HIDE DEF m
  <2>2. m \div Base = 0
    BY <2>1, BaseFacts, Z3
  <2> QED
    BY <2>2 DEF m
<1> QED
  BY <1>2, <1>3 DEF IsNum, r

LEMMA AesRead ==
    ASSUME NEW f, CanBeLaidOut(f), f.id = "Aes"
    PROVE  Layout(f) \in Seq(Octet) /\ ParseAes(Layout(f)) = f
<1>1. /\ f = [id |-> "Aes", check_crc32 |-> f.check_crc32,
              method |-> f.method]
      /\ f.check_crc32 \in BOOLEAN /\ IsNum(f.method, 2)
  BY DEF CanBeLaidOut
<1> DEFINE v == IF f.check_crc32 THEN 1 ELSE 2
           a == Bytes(v, 2)
           b == Bytes(Vendor, 2)
           c == << 1 >>
           w == Bytes(f.method, 2)
           h == << >>
           d == ((a \o b) \o c) \o w
<1>2. Layout(f) = d
  BY DEF Layout
<1>3. IsNum(v, 2) /\ IsNum(Vendor, 2)
  <2>1. v \in 0..(Base * Base - 1)
    <3>1. Base * Base - 1 \in Nat /\ Base * Base - 1 >= 2
      BY BaseFacts, Z3
    <3> QED
      BY <3>1
  <2>2. Vendor \in 0..(Base * Base - 1)
    BY ParserAssumption
  <2> HIDE DEF v
  <2> QED
    BY <2>1, <2>2, TwoBytes
<1>4. /\ a \in Seq(Octet) /\ Len(a) = 2 /\ Num(a) = v
      /\ b \in Seq(Octet) /\ Len(b) = 2 /\ Num(b) = Vendor
      /\ w \in Seq(Octet) /\ Len(w) = 2 /\ Num(w) = f.method
  <2> HIDE DEF v
  <2>1. \A n : IsNum(n, 2) => /\ Bytes(n, 2) \in Seq(Octet)
                              /\ Len(Bytes(n, 2)) = 2
                              /\ Num(Bytes(n, 2)) = n
    BY BytesType, NumBytes DEF IsNum
  <2> QED
    BY <1>1, <1>3, <2>1
<1>5. c \in Seq(Octet) /\ Len(c) = 1 /\ c[1] = 1
  BY BaseFacts DEF Octet
<1>6. h \in Seq(Octet) /\ Len(h) = 0
  OBVIOUS
<1> HIDE DEF v, a, b, c, w, h
<1> DEFINE e == (a \o b) \o c
<1>7. /\ d \in Seq(Octet) /\ e \in Seq(Octet) /\ Len(e) = 5 /\ Len(d) = 7
      /\ SubSeq(d, 1, 2) = a /\ SubSeq(d, 3, 4) = b /\ SubSeq(d, 5, 5) = c
  <2> DEFINE whole == h \o d
  <2>0. /\ h \in Seq(Octet) /\ a \in Seq(Octet) /\ b \in Seq(Octet)
        /\ c \in Seq(Octet) /\ w \in Seq(Octet)
    BY <1>4, <1>5, <1>6
  <2>1. LET g == h \o (((a \o b) \o c) \o w)
        IN  /\ g \in Seq(Octet) /\ (a \o b) \o c \in Seq(Octet)
            /\ Len((a \o b) \o c) = Len(a) + Len(b) + Len(c)
            /\ Len(g) = Len(h) + Len(a) + Len(b) + Len(c) + Len(w)
            /\ Slice(g, Len(h), Len(a)) = a
            /\ Slice(g, Len(h) + Len(a), Len(b)) = b
            /\ Slice(g, Len(h) + Len(a) + Len(b), Len(c)) = c
    BY <2>0, ThreeParts
  <2>2. whole = d
    <3>1. d \in Seq(Octet)
      BY <1>4, <2>1, Concat
    <3> HIDE DEF d
    <3> QED
      BY <3>1 DEF h
  <2>3. /\ d \in Seq(Octet) /\ e \in Seq(Octet)
        /\ Len(e) = Len(a) + Len(b) + Len(c)
        /\ Len(d) = Len(h) + Len(a) + Len(b) + Len(c) + Len(w)
        /\ Slice(d, Len(h), Len(a)) = a
        /\ Slice(d, Len(h) + Len(a), Len(b)) = b
        /\ Slice(d, Len(h) + Len(a) + Len(b), Len(c)) = c
    BY <2>1, <2>2
  <2>4. /\ Len(h) = 0 /\ Len(a) = 2 /\ Len(b) = 2 /\ Len(c) = 1 /\ Len(w) = 2
    BY <1>4, <1>5, <1>6
  <2> HIDE DEF d, e, whole
  <2> QED
    BY <2>3, <2>4 DEF Slice
<1>8. SubSeq(d, 6, 7) = w
  <2> HIDE DEF e
  <2>1. Slice(e \o w, Len(e), Len(w)) = w
    BY <1>4, <1>7, SliceBack
  <2>2. Len(e) + 1 = 6 /\ Len(e) + Len(w) = 7
    BY <1>4, <1>7
  <2> QED
    BY <2>1, <2>2 DEF Slice, e
<1> HIDE DEF d, e
<1>9. d[5] = 1
  <2>1. SubSeq(d, 5, 5)[1] = d[5]
    BY <1>7
  <2> QED
    BY <1>5, <1>7, <2>1
<1>10. ParseAes(d) = [id |-> "Aes", check_crc32 |-> (v = 1),
                      method |-> f.method]
  <2>1. v \in {1, 2}
    BY DEF v
  <2> QED
    BY <1>4, <1>7, <1>8, <1>9, <2>1 DEF ParseAes, Valid
<1>11. (v = 1) = f.check_crc32
  BY <1>1 DEF v
<1> QED
  BY <1>1, <1>2, <1>7, <1>10, <1>11

\* A tag is read from the place where it stands.
LEMMA TagRead ==
    ASSUME NEW h \in Seq(Octet), NEW t \in [typ: Nat, times: Seq(Nat)],
           NEW w \in Seq(Octet), NEW tags,
           IsNum(t.typ, 2), AreNums(t.times, 8), IsNum(8 * Len(t.times), 2)
    PROVE  LET s == LayoutTag(t)
               d == h \o (s \o w)
               end == Len(h) + Len(s) + 1
           IN  /\ s \in Seq(Octet) /\ Len(s) >= 4
               /\ ReadTag(d, [at |-> Len(h) + 1, tags |-> tags])
                    = [at |-> end, tags |-> Append(tags, t)]
<1> DEFINE n == 8 * Len(t.times)
           a == Bytes(t.typ, 2)
           b == Bytes(n, 2)
           c == BytesOf(t.times, 8)
           s == LayoutTag(t)
           d == h \o (s \o w)
           at == Len(h) + 1
           end == Len(h) + Len(s) + 1
<1>1. s = (a \o b) \o c
  BY DEF LayoutTag
<1>2. /\ a \in Seq(Octet) /\ Len(a) = 2 /\ Num(a) = t.typ
      /\ b \in Seq(Octet) /\ Len(b) = 2 /\ Num(b) = n
  <2> HIDE DEF n
  <2>1. \A m : IsNum(m, 2) => /\ Bytes(m, 2) \in Seq(Octet)
                              /\ Len(Bytes(m, 2)) = 2
                              /\ Num(Bytes(m, 2)) = m
    BY BytesType, NumBytes DEF IsNum
  <2> QED
    BY <2>1 DEF n
<1>3. /\ c \in Seq(Octet) /\ Len(c) = Len(t.times) * 8
      /\ Words(c, 8) = t.times /\ Len(t.times) \in Nat
  BY WideWords
<1>4. Len(c) = n /\ n \in Nat
  BY <1>3
<1> HIDE DEF n, a, b, c, s
<1>5. /\ d \in Seq(Octet) /\ s \in Seq(Octet) /\ Len(s) = 4 + n
      /\ Len(d) = Len(h) + 4 + n + Len(w)
      /\ SubSeq(d, at, at + 1) = a
      /\ SubSeq(d, at + 2, at + 3) = b
      /\ SubSeq(d, at + 4, at + 3 + n) = c
  <2>0. /\ h \in Seq(Octet) /\ a \in Seq(Octet) /\ b \in Seq(Octet)
        /\ c \in Seq(Octet) /\ w \in Seq(Octet)
    BY <1>2, <1>3
  <2>1. LET g == h \o (((a \o b) \o c) \o w)
        IN  /\ g \in Seq(Octet) /\ (a \o b) \o c \in Seq(Octet)
            /\ Len((a \o b) \o c) = Len(a) + Len(b) + Len(c)
            /\ Len(g) = Len(h) + Len(a) + Len(b) + Len(c) + Len(w)
            /\ Slice(g, Len(h), Len(a)) = a
            /\ Slice(g, Len(h) + Len(a), Len(b)) = b
            /\ Slice(g, Len(h) + Len(a) + Len(b), Len(c)) = c
    BY <2>0, ThreeParts
  <2>2. /\ Len(h) \in Nat
        /\ Len(h) + Len(a) = at + 1 /\ Len(h) + Len(a) + 1 = at + 2
        /\ Len(h) + Len(a) + Len(b) = at + 3
        /\ Len(h) + Len(a) + Len(b) + 1 = at + 4
        /\ Len(h) + Len(a) + Len(b) + Len(c) = at + 3 + n
        /\ Len(a) + Len(b) + Len(c) = 4 + n
        /\ Len(h) + Len(a) + Len(b) + Len(c) + Len(w)
             = Len(h) + 4 + n + Len(w)
    <3>1. Len(h) \in Nat /\ Len(w) \in Nat
      OBVIOUS
    <3> QED
      BY <1>2, <1>4, <3>1
  <2>3. d = h \o (((a \o b) \o c) \o w)
    BY <1>1
  <2> HIDE DEF d
  <2> QED
    BY <1>1, <2>1, <2>2, <2>3 DEF Slice
<1>6. Len(h) \in Nat /\ Len(w) \in Nat
  OBVIOUS
<1> DEFINE r == [at |-> at, tags |-> tags]
           next == at + 4 + n
<1> HIDE DEF d
<1>7. /\ at + 3 <= Len(d) /\ next <= Len(d) + 1 /\ next - 1 = at + 3 + n
      /\ next = end
  BY <1>4, <1>5, <1>6
<1>8. [typ |-> t.typ, times |-> t.times] = t
  OBVIOUS
<1>9. ReadTag(d, r) = [at |-> next, tags |-> Append(tags, t)]
  <2>1. /\ Num(SubSeq(d, at + 2, at + 3)) = n
        /\ Num(SubSeq(d, at, at + 1)) = t.typ
        /\ Words(SubSeq(d, at + 4, next - 1), 8) = t.times
    BY <1>2, <1>3, <1>5, <1>7
  <2>2. ~(at + 3 > Len(d) \/ next > Len(d) + 1)
    BY <1>4, <1>5, <1>6, <1>7
  <2>3. r.at = at /\ r.tags = tags
    OBVIOUS
  <2> HIDE DEF at, r, next
  <2> QED
    BY <1>8, <2>1, <2>2, <2>3 DEF ReadTag, next
<1>10. Len(s) >= 4
  BY <1>4, <1>5
<1> QED
  BY <1>5, <1>7, <1>9, <1>10 DEF d, s

\* The loop over the tags of a field reads one after the other.
LEMMA TagsRead ==
    ASSUME NEW z \in Seq(Octet), Len(z) = 4,
           NEW tags \in Seq([typ: Nat, times: Seq(Nat)]),
           \A k \in DOMAIN tags :
              /\ IsNum(tags[k].typ, 2) /\ AreNums(tags[k].times, 8)
              /\ IsNum(8 * Len(tags[k].times), 2)
    PROVE  LET P == [k \in DOMAIN tags |-> LayoutTag(tags[k])]
               d == z \o FlattenSeq(P)
           IN  /\ d \in Seq(Octet) /\ Len(d) >= 4
               /\ ReadTags(d) = [at |-> Len(d) + 1, tags |-> tags]
<1> DEFINE n == Len(tags)
           P == [k \in DOMAIN tags |-> LayoutTag(tags[k])]
           front(k) == FlattenSeq(SubSeq(P, 1, k))
           d == z \o FlattenSeq(P)
           m == Len(d)
           g(k) == [at |-> 5 + Len(front(k)), tags |-> SubSeq(tags, 1, k)]
           R == [typ: Nat, times: Seq(Nat)]
<1>0. tags \in Seq(R)
  OBVIOUS
<1> HIDE DEF R
<1>1. /\ n \in Nat /\ DOMAIN tags = 1..n /\ tags \in Seq(R)
      /\ \A k \in 1..n : tags[k] \in R
  BY <1>0
<1>2. \A k \in 1..n : LayoutTag(tags[k]) \in Seq(Octet)
                        /\ Len(LayoutTag(tags[k])) >= 4
  <2> SUFFICES ASSUME NEW k \in 1..n
               PROVE  /\ LayoutTag(tags[k]) \in Seq(Octet)
                      /\ Len(LayoutTag(tags[k])) >= 4
    OBVIOUS
  <2> DEFINE t == tags[k]
  <2>1. /\ t \in [typ: Nat, times: Seq(Nat)] /\ IsNum(t.typ, 2)
        /\ AreNums(t.times, 8) /\ IsNum(8 * Len(t.times), 2)
    BY <1>1 DEF R
  <2> HIDE DEF t
  <2>2. LayoutTag(t) \in Seq(Octet) /\ Len(LayoutTag(t)) >= 4
    BY <2>1, TagRead
  <2> QED
    BY <2>2 DEF t
<1>3. /\ P \in Seq(Seq(Octet)) /\ Len(P) = n
      /\ \A k \in 1..n : P[k] = LayoutTag(tags[k]) /\ Len(P[k]) >= 4
  <2>1. P = [k \in 1..n |-> LayoutTag(tags[k])]
    BY <1>1
  <2> HIDE DEF P, n
  <2> QED
    BY <1>1, <1>2, <2>1
<1> HIDE DEF P, n
<1>4. front(0) = << >> /\ front(n) = FlattenSeq(P)
  <2>1. SubSeq(P, 1, 0) = << >> /\ SubSeq(P, 1, n) = P
    BY <1>1, <1>3
  <2> QED
    BY <2>1, FlattenEmpty
<1>5. ASSUME NEW k \in 1..n
      PROVE  /\ front(k - 1) \in Seq(Octet) /\ P[k] \in Seq(Octet)
             /\ front(k) = front(k - 1) \o P[k]
             /\ Len(front(k)) = Len(front(k - 1)) + Len(P[k])
             /\ \E w \in Seq(Octet) :
                   FlattenSeq(P) = front(k - 1) \o (P[k] \o w)
  <2> DEFINE u == front(k - 1)
             s == P[k]
             w == FlattenSeq(SubSeq(P, k + 1, Len(P)))
  <2>1. /\ u \in Seq(Octet) /\ s \in Seq(Octet) /\ w \in Seq(Octet)
        /\ front(k) = u \o s /\ FlattenSeq(P) = u \o (s \o w)
    BY <1>3, FlattenAt
  <2> HIDE DEF u, s, w
  <2>2. Len(u \o s) = Len(u) + Len(s)
    BY <2>1, Concat
  <2> HIDE DEF front
  <2> QED
    BY <2>1, <2>2 DEF u, s
<1>6. FlattenSeq(P) \in Seq(Octet)
  BY <1>3, FlattenType
<1>7. d \in Seq(Octet) /\ m = 4 + Len(FlattenSeq(P)) /\ m \in Nat
  <2> DEFINE e == FlattenSeq(P)
  <2>1. e \in Seq(Octet)
    BY <1>6
  <2> HIDE DEF e
  <2>2. /\ z \o e \in Seq(Octet) /\ Len(z \o e) = Len(z) + Len(e)
        /\ Len(e) \in Nat
    BY <2>1, Concat
  <2> QED
    BY <2>2 DEF e
<1> HIDE DEF front, d, m
<1>8. \A k \in 0..n : Len(front(k)) \in Nat /\ Len(front(k)) >= k
  <2> DEFINE T == {k \in 0..n : Len(front(k)) \in Nat /\ Len(front(k)) >= k}
  <2>1. 0 \in T
    BY <1>1, <1>4
  <2>2. ASSUME NEW k \in Nat, k < n, k \in T PROVE k + 1 \in T
    <3>1. k + 1 \in 1..n /\ k + 1 \in 0..n /\ (k + 1) - 1 = k
      BY <1>1, <2>2
    <3>2. Len(front(k + 1)) = Len(front(k)) + Len(P[k + 1])
      BY <1>5, <3>1
    <3>3. Len(P[k + 1]) >= 4 /\ Len(P[k + 1]) \in Nat
      BY <1>3, <1>5, <3>1
    <3>4. Len(front(k)) \in Nat /\ Len(front(k)) >= k
      BY <2>2
    <3> QED
      BY <3>1, <3>2, <3>3, <3>4
  <2>3. \A k \in 0..n : k \in T
    <3> HIDE DEF T
    <3> QED
      BY <1>1, <2>1, <2>2, BoundedInduction
  <2> QED
    BY <2>3
<1>9. n <= m /\ m + 1 = 5 + Len(front(n))
  <2>1. n \in 0..n
    BY <1>1
  <2> QED
    BY <1>1, <1>4, <1>7, <1>8, <2>1
\* A turn of the loop.
<1>10. ASSUME NEW k \in 1..n PROVE ReadTag(d, g(k - 1)) = g(k)
  <2> DEFINE u == front(k - 1)
             s == P[k]
             t == tags[k]
             h == z \o u
             got == SubSeq(tags, 1, k - 1)
  <2>1. /\ u \in Seq(Octet) /\ s \in Seq(Octet)
        /\ Len(front(k)) = Len(u) + Len(s) /\ s = LayoutTag(t)
    BY <1>3, <1>5
  <2>2. PICK w \in Seq(Octet) : FlattenSeq(P) = u \o (s \o w)
    BY <1>5
  <2>3. /\ t \in [typ: Nat, times: Seq(Nat)] /\ IsNum(t.typ, 2)
        /\ AreNums(t.times, 8) /\ IsNum(8 * Len(t.times), 2)
    BY <1>1 DEF R
  <2>4. Append(got, t) = SubSeq(tags, 1, k)
    BY <1>1 DEF n
  <2> HIDE DEF u, s, t, got
  <2>5. /\ h \in Seq(Octet) /\ Len(h) = 4 + Len(u)
        /\ Len(u) \in Nat /\ Len(s) \in Nat
    <3>1. /\ z \o u \in Seq(Octet) /\ Len(z \o u) = Len(z) + Len(u)
          /\ Len(u) \in Nat
      BY <2>1, Concat
    <3> QED
      BY <2>1, <3>1
  <2> DEFINE sw == s \o w
  <2>6. sw \in Seq(Octet)
    BY <2>1, Concat
  <2> HIDE DEF sw
  <2>7. d = h \o sw
    <3>0. z \in Seq(Octet) /\ u \in Seq(Octet) /\ sw \in Seq(Octet)
      BY <2>1, <2>6
    <3>1. (z \o u) \o sw = z \o (u \o sw)
      BY ONLY <3>0, ConcatAssociative, SMTT(30)
    <3> QED
      BY <2>2, <3>1 DEF d, sw
  <2> HIDE DEF h
  <2>8. ReadTag(h \o (LayoutTag(t) \o w), [at |-> Len(h) + 1, tags |-> got])
          = [at |-> Len(h) + Len(LayoutTag(t)) + 1, tags |-> Append(got, t)]
    <3>1. h \in Seq(Octet)
      BY <2>5
    <3>2. LET v == LayoutTag(t)
              e == h \o (v \o w)
              end == Len(h) + Len(v) + 1
          IN  /\ v \in Seq(Octet) /\ Len(v) >= 4
              /\ ReadTag(e, [at |-> Len(h) + 1, tags |-> got])
                   = [at |-> end, tags |-> Append(got, t)]
      BY <2>3, <3>1, TagRead
    <3> QED
      BY <3>2
  <2>9. /\ Len(h) + 1 = 5 + Len(u)
        /\ Len(h) + Len(s) + 1 = 5 + Len(front(k))
    BY <2>1, <2>5
  <2> QED
    BY <2>1, <2>4, <2>7, <2>8, <2>9 DEF sw, u, got
\* And after the last one.
<1>11. ReadTag(d, g(n)) = g(n)
  <2> DEFINE r == g(n)
  <2>1. r.at + 3 > Len(d)
    BY <1>7, <1>9 DEF m
  <2> HIDE DEF r
  <2>2. ReadTag(d, r) = r
    BY <2>1 DEF ReadTag
  <2> QED
    BY <2>2 DEF r
<1> DEFINE turn(r, k) == IF k = 0 THEN [at |-> 5, tags |-> << >>]
                         ELSE ReadTag(d, r[k - 1])
           Is(r) == r = [k \in 0..m |-> turn(r, k)]
           read == CHOOSE r : Is(r)
           i(k) == IF k <= n THEN k ELSE n
           all == [k \in 0..m |-> g(i(k))]
<1>12. ReadTags(d) = read[m]
  BY DEF ReadTags, m
<1>13. \A k \in 0..m : turn(all, k) = all[k]
  <2> SUFFICES ASSUME NEW k \in 0..m PROVE turn(all, k) = all[k]
    OBVIOUS
  <2>1. CASE k = 0
    <3>1. i(k) = 0 /\ all[k] = g(0)
      BY <1>1, <2>1
    <3>2. SubSeq(tags, 1, 0) = << >> /\ Len(<< >>) = 0
      OBVIOUS
    <3>3. g(0) = [at |-> 5, tags |-> << >>]
      BY <1>4, <3>2
    <3> QED
      BY <2>1, <3>1, <3>3
  <2>2. CASE k # 0
    <3>1. k - 1 \in 0..m /\ turn(all, k) = ReadTag(d, all[k - 1])
      BY <1>7, <2>2
    <3>2. all[k - 1] = g(i(k - 1)) /\ all[k] = g(i(k))
      BY <3>1
    <3>3. CASE k <= n
      <4>1. k \in 1..n /\ i(k) = k /\ i(k - 1) = k - 1
        BY <1>1, <1>7, <2>2, <3>3
      <4> HIDE DEF g, i, all, turn
      <4> QED
        BY <1>10, <3>1, <3>2, <4>1
    <3>4. CASE ~(k <= n)
      <4>1. i(k) = n /\ i(k - 1) = n
        BY <1>1, <1>7, <3>4
      <4> HIDE DEF g, i, all, turn
      <4> QED
        BY <1>11, <3>1, <3>2, <4>1
    <3> QED
      BY <3>3, <3>4
  <2> QED
    BY <2>1, <2>2
<1>14. Is(all)
  <2> HIDE DEF turn, g, i
  <2> QED
    BY <1>13
<1>15. Is(read)
  <2> HIDE DEF Is
  <2> QED
    BY <1>14
<1>16. \A k \in 0..m : read[k] = turn(read, k)
  <2> HIDE DEF read, turn
  <2> QED
    BY <1>15
<1> HIDE DEF read, all
<1> DEFINE T == {k \in 0..m : read[k] = all[k]}
<1>17. 0 \in T
  <2>1. 0 \in 0..m /\ turn(read, 0) = turn(all, 0)
    BY <1>7
  <2> HIDE DEF turn
  <2> QED
    BY <1>13, <1>16, <2>1
<1>18. ASSUME NEW k \in Nat, k < m, k \in T PROVE k + 1 \in T
  <2>1. k + 1 \in 0..m /\ k + 1 # 0 /\ (k + 1) - 1 = k
    BY <1>7, <1>18
  <2>2. read[k] = all[k]
    BY <1>18
  <2>3. turn(read, k + 1) = turn(all, k + 1)
    BY <2>1, <2>2
  <2> HIDE DEF turn
  <2> QED
    BY <1>13, <1>16, <2>1, <2>3
<1>19. read[m] = all[m]
  <2>1. \A k \in 0..m : k \in T
    <3> HIDE DEF T
    <3> QED
      BY <1>7, <1>17, <1>18, BoundedInduction
  <2>2. m \in 0..m
    BY <1>7
  <2> QED
    BY <2>1, <2>2
<1>20. all[m] = g(n)
  <2>1. m \in 0..m /\ i(m) = n
    BY <1>1, <1>7, <1>9
  <2> QED
    BY <2>1 DEF all
<1>21. SubSeq(tags, 1, n) = tags
  BY <1>1 DEF n
<1>22. ReadTags(d) = [at |-> m + 1, tags |-> tags]
  BY <1>9, <1>12, <1>19, <1>20, <1>21
<1>23. m >= 4
  BY <1>6, <1>7
<1> QED
  BY <1>7, <1>22, <1>23 DEF d, m, P

LEMMA NtfsRead ==
    ASSUME NEW f, CanBeLaidOut(f), f.id = "Ntfs"
    PROVE  Layout(f) \in Seq(Octet) /\ ParseNtfs(Layout(f)) = f
<1>1. /\ f = [id |-> "Ntfs", tags |-> f.tags]
      /\ f.tags \in Seq([typ: Nat, times: Seq(Nat)])
      /\ \A k \in DOMAIN f.tags :
            /\ IsNum(f.tags[k].typ, 2) /\ AreNums(f.tags[k].times, 8)
            /\ IsNum(8 * Len(f.tags[k].times), 2)
      /\ NtfsTimes(f) # {}
  <2>1. f = [id |-> "Ntfs", tags |-> f.tags]
    BY DEF CanBeLaidOut
  <2>2. NtfsTimes(f) # {}
    BY DEF CanBeLaidOut
  <2>3. f.tags \in Seq([typ: Nat, times: Seq(Nat)])
    BY DEF CanBeLaidOut
  <2>4. \A k \in DOMAIN f.tags :
           /\ IsNum(f.tags[k].typ, 2) /\ AreNums(f.tags[k].times, 8)
           /\ IsNum(8 * Len(f.tags[k].times), 2)
    BY DEF CanBeLaidOut
  <2> QED
    BY <2>1, <2>2, <2>3, <2>4
<1> DEFINE tags == f.tags
           z == Bytes(0, 4)
           d == z \o FlattenSeq([k \in DOMAIN tags |-> LayoutTag(tags[k])])
<1>2. Layout(f) = d
  BY DEF Layout
<1>3. z \in Seq(Octet) /\ Len(z) = 4
  BY BytesType
<1> HIDE DEF z, tags
<1>4. /\ d \in Seq(Octet) /\ Len(d) >= 4
      /\ ReadTags(d) = [at |-> Len(d) + 1, tags |-> tags]
  BY <1>1, <1>3, TagsRead DEF tags
<1> HIDE DEF d
<1>5. ParseNtfs(d) = f
  BY <1>1, <1>4 DEF ParseNtfs, Valid, tags
<1> QED
  BY <1>2, <1>4, <1>5

LEMMA ParserOf ==
    ASSUME NEW d
    PROVE  /\ ParseData(IdOf["Zip64"], d) = ParseZip64(d)
           /\ ParseData(IdOf["Ntfs"], d) = ParseNtfs(d)
           /\ ParseData(IdOf["Timestamp"], d) = ParseTimestamp(d)
           /\ \A k \in {"UnicodeComment", "UnicodeName"} :
                 ParseData(IdOf[k], d) = ParseUnicode(k, d)
           /\ ParseData(IdOf["Aes"], d) = ParseAes(d)
<1>1. \A j, k \in Kinds : IdOf[j] = IdOf[k] => j = k
  BY ParserAssumption
<1> QED
  BY <1>1 DEF ParseData, Kinds

\* What was laid out for a field is read as what it means.
LEMMA FieldRead ==
    ASSUME NEW f, CanBeLaidOut(f)
    PROVE  /\ Layout(f) \in Seq(Octet) /\ IsNum(Len(Layout(f)), 2)
           /\ IsNum(NumberOf(f), 2)
           /\ ParseData(NumberOf(f), Layout(f)) = Meaning(f)
<1>1. f.id \in (Kinds \ {"UnixNew"}) \cup {"Raw"} /\ IsNum(Len(Layout(f)), 2)
  BY DEF CanBeLaidOut
<1>2. CASE f.id = "Raw"
  <2>1. /\ IsNum(f.number, 2) /\ f.bytes \in Seq(Octet)
        /\ ParseData(f.number, f.bytes) = IF f.good THEN Ignored ELSE Cut
    BY <1>2 DEF CanBeLaidOut, Octet
  <2>2. Layout(f) = f.bytes /\ NumberOf(f) = f.number
    BY <1>2 DEF Layout, NumberOf
  <2>3. Meaning(f) = IF f.good THEN Ignored ELSE Cut
    BY <1>2 DEF Meaning
  <2> QED
    BY <1>1, <2>1, <2>2, <2>3
<1>3. CASE f.id # "Raw"
  <2>1. f.id \in Kinds /\ NumberOf(f) = IdOf[f.id] /\ Meaning(f) = f
    BY <1>1, <1>3 DEF NumberOf, Meaning
  <2>2. IsNum(NumberOf(f), 2)
    <3>1. IdOf[f.id] \in 1..(Base * Base - 1)
      BY <2>1, ParserAssumption
    <3>2. Base * Base \in Nat
      BY BaseFacts, Z3
    <3>3. IdOf[f.id] \in 0..(Base * Base - 1)
      BY <3>1, <3>2
    <3> QED
      BY <2>1, <3>3, TwoBytes
  <2>3. Layout(f) \in Seq(Octet) /\ ParseData(IdOf[f.id], Layout(f)) = f
    <3>1. CASE f.id = "Zip64"
      BY <3>1, Zip64Read, ParserOf
    <3>2. CASE f.id = "Ntfs"
      BY <3>2, NtfsRead, ParserOf
    <3>3. CASE f.id = "Timestamp"
      BY <3>3, TimestampRead, ParserOf
    <3>4. CASE f.id \in {"UnicodeComment", "UnicodeName"}
      BY <3>4, UnicodeRead, ParserOf
    <3>5. CASE f.id = "Aes"
      BY <3>5, AesRead, ParserOf
    <3> QED
      BY <1>1, <1>3, <3>1, <3>2, <3>3, <3>4, <3>5 DEF Kinds
  <2> QED
    BY <1>1, <2>1, <2>2, <2>3
<1> QED
  BY <1>2, <1>3

(***************************************************************************)
(* A turn of the loop of parse_extra_fields.                               *)
(***************************************************************************)
LEMMA EncodeIs ==
    ASSUME NEW f, CanBeLaidOut(f)
    PROVE  LET a == Bytes(NumberOf(f), 2)
               b == Bytes(Len(Layout(f)), 2)
               c == Layout(f)
           IN  /\ Encode(f) = (a \o b) \o c /\ Encode(f) \in Seq(Octet)
               /\ a \in Seq(Octet) /\ Len(a) = 2 /\ Num(a) = NumberOf(f)
               /\ b \in Seq(Octet) /\ Len(b) = 2 /\ Num(b) = Len(c)
               /\ c \in Seq(Octet) /\ Len(c) \in Nat
               /\ Len(Encode(f)) = 4 + Len(c)
<1> DEFINE n == NumberOf(f)
           c == Layout(f)
           m == Len(c)
           a == Bytes(n, 2)
           b == Bytes(m, 2)
<1>1. Encode(f) = (a \o b) \o c
  BY DEF Encode
<1>2. c \in Seq(Octet) /\ IsNum(n, 2) /\ IsNum(m, 2)
  BY FieldRead
<1>3. m \in Nat
  BY <1>2
<1> HIDE DEF n, m
<1>4. /\ a \in Seq(Octet) /\ Len(a) = 2 /\ Num(a) = n
      /\ b \in Seq(Octet) /\ Len(b) = 2 /\ Num(b) = m
  <2>1. \A k : IsNum(k, 2) => /\ Bytes(k, 2) \in Seq(Octet)
                              /\ Len(Bytes(k, 2)) = 2
                              /\ Num(Bytes(k, 2)) = k
    BY BytesType, NumBytes DEF IsNum
  <2> QED
    BY <1>2, <2>1
<1> HIDE DEF a, b, c
<1>5. (a \o b) \o c \in Seq(Octet) /\ Len((a \o b) \o c) = 4 + m
  <2> DEFINE e == a \o b
  <2>1. e \in Seq(Octet) /\ Len(e) = 4
    <3>1. a \o b \in Seq(Octet) /\ Len(a \o b) = Len(a) + Len(b)
      BY <1>4, Concat
    <3> QED
      BY <1>4, <3>1
  <2> HIDE DEF e
  <2>2. e \o c \in Seq(Octet) /\ Len(e \o c) = Len(e) + Len(c)
    BY <1>2, <2>1, Concat
  <2> QED
    BY <2>1, <2>2 DEF e, m
<1> QED
  BY <1>1, <1>2, <1>3, <1>4, <1>5 DEF a, b, c, n, m

\* A field that is there in full.
LEMMA WholeField ==
    ASSUME NEW f, CanBeLaidOut(f), NEW x \in Seq(Octet)
    PROVE  LET r == Encode(f) \o x
               len == Num(SubSeq(r, 3, 4))
           IN  /\ r \in Seq(Octet) /\ len \in Nat /\ Len(r) >= 4 + len
               /\ Len(Encode(f)) = 4 + len
               /\ ParseData(Num(SubSeq(r, 1, 2)), SubSeq(r, 5, 4 + len))
                    = Meaning(f)
               /\ From(r, 5 + len) = x
<1> DEFINE a == Bytes(NumberOf(f), 2)
           b == Bytes(Len(Layout(f)), 2)
           c == Layout(f)
           e == Encode(f)
           r == e \o x
           h == << >>
<1>1. /\ e = (a \o b) \o c /\ e \in Seq(Octet) /\ Len(e) = 4 + Len(c)
      /\ a \in Seq(Octet) /\ Len(a) = 2 /\ Num(a) = NumberOf(f)
      /\ b \in Seq(Octet) /\ Len(b) = 2 /\ Num(b) = Len(c)
      /\ c \in Seq(Octet) /\ Len(c) \in Nat
  BY EncodeIs
<1>2. ParseData(NumberOf(f), c) = Meaning(f)
  BY FieldRead
<1>3. h \in Seq(Octet) /\ Len(h) = 0
  OBVIOUS
<1> HIDE DEF a, b, c, e, h
<1>4. r \in Seq(Octet) /\ Len(r) = Len(e) + Len(x) /\ Len(x) \in Nat
  BY <1>1, Concat
<1>5. LET g == h \o (((a \o b) \o c) \o x)
      IN  /\ g \in Seq(Octet) /\ (a \o b) \o c \in Seq(Octet)
          /\ Len((a \o b) \o c) = Len(a) + Len(b) + Len(c)
          /\ Len(g) = Len(h) + Len(a) + Len(b) + Len(c) + Len(x)
          /\ Slice(g, Len(h), Len(a)) = a
          /\ Slice(g, Len(h) + Len(a), Len(b)) = b
          /\ Slice(g, Len(h) + Len(a) + Len(b), Len(c)) = c
  <2>1. /\ h \in Seq(Octet) /\ a \in Seq(Octet) /\ b \in Seq(Octet)
        /\ c \in Seq(Octet)
    BY <1>1, <1>3
  <2> QED
    BY <2>1, ThreeParts
<1>6. h \o r = r
  <2> HIDE DEF r
  <2> QED
    BY <1>4 DEF h
<1>7. h \o (((a \o b) \o c) \o x) = r
  BY <1>1, <1>6
<1>8. From(e \o x, Len(e) + 1) = x
  BY <1>1, SliceBack
<1> HIDE DEF r
<1>9. /\ SubSeq(r, 1, 2) = a /\ SubSeq(r, 3, 4) = b
      /\ SubSeq(r, 5, 4 + Len(c)) = c
  <2>1. /\ Slice(r, Len(h), Len(a)) = a
        /\ Slice(r, Len(h) + Len(a), Len(b)) = b
        /\ Slice(r, Len(h) + Len(a) + Len(b), Len(c)) = c
    BY <1>5, <1>7
  <2> QED
    BY <1>1, <1>3, <2>1 DEF Slice
<1>10. From(r, 5 + Len(c)) = x
  <2>1. Len(e) + 1 = 5 + Len(c)
    BY <1>1
  <2> QED
    BY <1>8, <2>1 DEF r
<1>11. Len(r) >= 4 + Len(c)
  BY <1>1, <1>4
<1> QED
  BY <1>1, <1>2, <1>4, <1>9, <1>10, <1>11 DEF r, e

\* A field that is cut off.
TooShort(r) == Len(r) < 4 \/ Len(r) < 4 + Num(SubSeq(r, 3, 4))

LEMMA CutField ==
    ASSUME NEW f, CanBeLaidOut(f), NEW x \in Seq(Octet),
           NEW n \in 0..(Len(Encode(f)) - 1)
    PROVE  TooShort(SubSeq(Encode(f) \o x, 1, n))
<1> DEFINE d == Encode(f) \o x
           r == SubSeq(d, 1, n)
           len == Num(SubSeq(d, 3, 4))
<1>1. d \in Seq(Octet) /\ len \in Nat
  BY WholeField
<1>2. /\ Encode(f) \in Seq(Octet) /\ Len(Encode(f)) \in Nat
      /\ Len(d) = Len(Encode(f)) + Len(x) /\ Len(x) \in Nat
  <2>1. Encode(f) \in Seq(Octet)
    BY EncodeIs
  <2> QED
    BY <2>1, Concat
<1>3. Len(Encode(f)) = 4 + len
  BY WholeField
<1>4. n \in Nat /\ n < 4 + len /\ n <= Len(d)
  BY <1>2, <1>3
<1> HIDE DEF d, len
<1>5. r \in Seq(Octet) /\ Len(r) = n /\ \A k \in 1..n : r[k] = d[k]
  BY <1>1, <1>4
<1>6. CASE n < 4
  BY <1>5, <1>6 DEF d, TooShort
<1>7. CASE n >= 4
  <2> DEFINE p == SubSeq(r, 3, 4)
             q == SubSeq(d, 3, 4)
  <2>1. /\ 3 \in 1..Len(d) /\ 4 \in 1..Len(d)
        /\ 3 \in 1..n /\ 4 \in 1..n
    BY <1>1, <1>4, <1>7
  <2> HIDE DEF r
  <2>2. p \in Seq(Octet) /\ Len(p) = 2 /\ p[1] = r[3] /\ p[2] = r[4]
    BY <1>5, <1>7
  <2>3. q \in Seq(Octet) /\ Len(q) = 2 /\ q[1] = d[3] /\ q[2] = d[4]
    BY <1>1, <2>1
  <2>4. r[3] = d[3] /\ r[4] = d[4]
    BY <1>5, <2>1
  <2> HIDE DEF p, q
  <2>5. p = q
    <3>1. \A k \in 1..Len(p) : p[k] = q[k]
      BY <2>2, <2>3, <2>4
    <3> QED
      BY <2>2, <2>3, <3>1, SeqEqual
  <2>6. Num(SubSeq(r, 3, 4)) = len
    BY <2>5 DEF p, q, len
  <2>7. Len(r) < 4 + Num(SubSeq(r, 3, 4))
    BY <1>4, <1>5, <2>6
  <2> QED
    BY <2>7 DEF r, d, TooShort
<1> QED
  BY <1>4, <1>6, <1>7

(***************************************************************************)
(* The fields of a header, one after the other.                            *)
(***************************************************************************)
LEMMA PrefixOfConcat ==
    ASSUME NEW S, NEW a \in Seq(S), NEW x \in Seq(S),
           NEW n \in Len(a)..(Len(a) + Len(x))
    PROVE  SubSeq(a \o x, 1, n) = a \o SubSeq(x, 1, n - Len(a))
<1> DEFINE d == a \o x
           m == n - Len(a)
           p == SubSeq(d, 1, n)
           y == SubSeq(x, 1, m)
           q == a \o y
<1>1. /\ d \in Seq(S) /\ Len(d) = Len(a) + Len(x)
      /\ Len(a) \in Nat /\ Len(x) \in Nat
      /\ \A k \in 1..Len(a) : d[k] = a[k]
      /\ \A k \in 1..Len(x) : d[Len(a) + k] = x[k]
  BY Concat
<1>2. n \in Nat /\ n <= Len(d) /\ m \in Nat /\ m <= Len(x) /\ n = Len(a) + m
  BY <1>1
<1> HIDE DEF d, m
<1>3. p \in Seq(S) /\ Len(p) = n /\ \A k \in 1..n : p[k] = d[k]
  BY <1>1, <1>2
<1>4. y \in Seq(S) /\ Len(y) = m /\ \A k \in 1..m : y[k] = x[k]
  BY <1>2
<1> HIDE DEF p, y
<1>5. /\ q \in Seq(S) /\ Len(q) = Len(a) + Len(y)
      /\ \A k \in 1..Len(a) : q[k] = a[k]
      /\ \A k \in 1..Len(y) : q[Len(a) + k] = y[k]
  <2>1. y \in Seq(S)
    BY <1>4
  <2>2. a \o y \in Seq(S) /\ Len(a \o y) = Len(a) + Len(y)
    BY <2>1, Concat
  <2>3. \A k \in 1..Len(a) : (a \o y)[k] = a[k]
    BY <2>1, Concat
  <2>4. \A k \in 1..Len(y) : (a \o y)[Len(a) + k] = y[k]
    BY <2>1, Concat
  <2> QED
    BY <2>2, <2>3, <2>4
<1> HIDE DEF q
<1>6. ASSUME NEW k \in 1..n PROVE p[k] = q[k]
  <2>1. CASE k <= Len(a)
    <3>1. k \in 1..Len(a)
      BY <1>1, <1>2, <2>1
    <3> QED
      BY <1>1, <1>3, <1>5, <3>1
  <2>2. CASE ~(k <= Len(a))
    <3> DEFINE j == k - Len(a)
    <3>1. j \in 1..m /\ j \in 1..Len(x) /\ k = Len(a) + j
      BY <1>1, <1>2, <2>2
    <3> HIDE DEF j
    <3> QED
      BY <1>1, <1>3, <1>4, <1>5, <3>1
  <2> QED
    BY <2>1, <2>2
<1>7. Len(q) = n
  BY <1>2, <1>4, <1>5
<1>8. p = q
  BY <1>3, <1>5, <1>6, <1>7, SeqEqual
<1> QED
  BY <1>8 DEF p, q, d, y, m

LEMMA ZerosIs ==
    ASSUME NEW n \in Nat
    PROVE  /\ Zeros(n) \in Seq(Octet) /\ Len(Zeros(n)) = n
           /\ \A k \in 0..n : SubSeq(Zeros(n), 1, k) = Zeros(k)
<1>1. ASSUME NEW k \in Nat
      PROVE  /\ Zeros(k) \in Seq(Octet) /\ Len(Zeros(k)) = k
             /\ \A i \in 1..k : Zeros(k)[i] = 0
  BY BaseFacts DEF Zeros, Octet
<1>2. ASSUME NEW k \in 0..n PROVE SubSeq(Zeros(n), 1, k) = Zeros(k)
  <2> DEFINE p == SubSeq(Zeros(n), 1, k)
             z == Zeros(k)
             d == Zeros(n)
  <2>1. d \in Seq(Octet) /\ Len(d) = n /\ \A i \in 1..n : d[i] = 0
    BY <1>1
  <2>2. z \in Seq(Octet) /\ Len(z) = k /\ \A i \in 1..k : z[i] = 0
    BY <1>1
  <2> HIDE DEF d, z
  <2>3. p \in Seq(Octet) /\ Len(p) = k /\ \A i \in 1..k : p[i] = d[i]
    BY <2>1 DEF d
  <2> HIDE DEF p
  <2>4. \A i \in 1..Len(p) : p[i] = z[i]
    BY <2>1, <2>2, <2>3
  <2>5. p = z
    BY <2>2, <2>3, <2>4, SeqEqual
  <2> QED
    BY <2>5 DEF p, z
<1> QED
  BY <1>1, <1>2

\* The encodings of the fields of a header.
Encodings(fs) == [k \in 1..Len(fs) |-> Encode(fs[k])]

LEMMA EncodingsAre ==
    ASSUME NEW g \in Given
    PROVE  /\ Len(g) \in Nat /\ DOMAIN g = 1..Len(g)
           /\ \A k \in 1..Len(g) : CanBeLaidOut(g[k])
           /\ Encodings(g) \in Seq(Seq(Octet)) /\ Len(Encodings(g)) = Len(g)
           /\ \A k \in 1..Len(g) : Encodings(g)[k] = Encode(g[k])
           /\ \A i \in 1..(Len(g) + 1), j \in 0..Len(g) :
                 EncodeAll(SubSeq(g, i, j))
                   = FlattenSeq(SubSeq(Encodings(g), i, j))
<1> DEFINE S == {g[k] : k \in DOMAIN g}
           n == Len(g)
           E == Encodings(g)
<1>1. g \in Seq(S) /\ \A k \in DOMAIN g : CanBeLaidOut(g[k])
  BY GivenAssumption
<1> HIDE DEF S
<1>2. n \in Nat /\ DOMAIN g = 1..n /\ \A k \in 1..n : g[k] \in S
  BY <1>1
<1>3. \A k \in 1..n : CanBeLaidOut(g[k]) /\ Encode(g[k]) \in Seq(Octet)
  BY <1>1, <1>2, EncodeIs
<1> HIDE DEF n
<1>4. /\ E \in Seq(Seq(Octet)) /\ Len(E) = n
      /\ \A k \in 1..n : E[k] = Encode(g[k])
  <2>1. E = [k \in 1..n |-> Encode(g[k])]
    BY DEF Encodings, n
  <2> HIDE DEF E
  <2> QED
    BY <1>2, <1>3, <2>1
<1> HIDE DEF E
<1>5. ASSUME NEW i \in 1..(n + 1), NEW j \in 0..n
      PROVE  EncodeAll(SubSeq(g, i, j)) = FlattenSeq(SubSeq(E, i, j))
  <2> DEFINE p == SubSeq(g, i, j)
             q == SubSeq(E, i, j)
             len == IF i <= j THEN j - i + 1 ELSE 0
  <2>1. /\ i \in Int /\ j \in Int /\ len \in Nat
        /\ \A k \in i..j : k \in 1..n
        /\ \A k \in 1..len : i + k - 1 \in i..j
        /\ \A k \in 1..(j - i + 1) : k \in 1..len
        /\ \A k \in 1..len : k \in 1..(j - i + 1)
    BY <1>2
  <2>2. /\ p \in Seq(S) /\ Len(p) = len
        /\ \A k \in 1..len : p[k] = g[i + k - 1]
    <3>1. \A k \in i..j : g[k] \in S
      BY <1>2, <2>1
    <3>2. /\ p \in Seq(S) /\ Len(p) = len
          /\ \A k \in 1..(j - i + 1) : p[k] = g[i + k - 1]
      BY <2>1, <3>1, SubSeqProperties
    <3> QED
      BY <2>1, <3>2
  <2>3. /\ q \in Seq(Seq(Octet)) /\ Len(q) = len
        /\ \A k \in 1..len : q[k] = E[i + k - 1]
    <3>1. \A k \in i..j : E[k] \in Seq(Octet)
      BY <1>3, <1>4, <2>1
    <3>2. /\ q \in Seq(Seq(Octet)) /\ Len(q) = len
          /\ \A k \in 1..(j - i + 1) : q[k] = E[i + k - 1]
      BY <2>1, <3>1, SubSeqProperties
    <3> QED
      BY <2>1, <3>2
  <2> HIDE DEF p, q, len
  <2>4. \A k \in 1..len : q[k] = Encode(p[k])
    BY <1>4, <2>1, <2>2, <2>3
  <2>5. DOMAIN p = 1..len
    BY <2>2
  <2>6. q = [k \in 1..len |-> Encode(p[k])]
    <3>1. q = [k \in 1..len |-> q[k]]
      BY <2>3
    <3> QED
      BY <2>4, <3>1
  <2>7. EncodeAll(p) = FlattenSeq(q)
    BY <2>5, <2>6 DEF EncodeAll
  <2> QED
    BY <2>7 DEF p, q
<1> QED
  BY <1>2, <1>3, <1>4, <1>5 DEF n, E

FrontOf(g, k) == EncodeAll(SubSeq(g, 1, k))
BackOf(g, k) == EncodeAll(SubSeq(g, k + 1, Len(g)))

LEMMA FrontAt ==
    ASSUME NEW g \in Given, NEW i \in Nat, NEW j \in 0..Len(g), i < j
    PROVE  /\ FrontOf(g, i) \in Seq(Octet)
           /\ FrontOf(g, i + 1) = FrontOf(g, i) \o Encode(g[i + 1])
           /\ \E w \in Seq(Octet) :
                 FrontOf(g, j) = FrontOf(g, i) \o (Encode(g[i + 1]) \o w)
<1> DEFINE n == Len(g)
           E == Encodings(g)
           s == SubSeq(E, 1, j)
           k == i + 1
<1>1. /\ n \in Nat /\ E \in Seq(Seq(Octet)) /\ Len(E) = n
      /\ \A m \in 1..n : E[m] = Encode(g[m])
      /\ \A m \in 0..n : FrontOf(g, m) = FlattenSeq(SubSeq(E, 1, m))
  <2>1. /\ n \in Nat /\ E \in Seq(Seq(Octet)) /\ Len(E) = n
        /\ \A m \in 1..n : E[m] = Encode(g[m])
    BY EncodingsAre
  <2>2. \A m \in 0..n : FrontOf(g, m) = FlattenSeq(SubSeq(E, 1, m))
    <3>1. 1 \in 1..(n + 1)
      BY <2>1
    <3> QED
      BY <3>1, EncodingsAre DEF FrontOf
  <2> QED
    BY <2>1, <2>2
<1> HIDE DEF n, E
<1>2. /\ k \in 1..n /\ k \in 1..j /\ i \in 0..n /\ j \in 0..n /\ k - 1 = i
      /\ k \in 0..n /\ j \in Nat
  BY <1>1 DEF n
<1>3. s \in Seq(Seq(Octet)) /\ Len(s) = j /\ \A m \in 1..j : s[m] = E[m]
  BY <1>1, <1>2
<1>4. SubSeq(s, 1, i) = SubSeq(E, 1, i)
  <2> DEFINE p == SubSeq(s, 1, i)
             q == SubSeq(E, 1, i)
  <2>1. q \in Seq(Seq(Octet)) /\ Len(q) = i /\ \A m \in 1..i : q[m] = E[m]
    BY <1>1, <1>2
  <2> HIDE DEF s
  <2>2. p \in Seq(Seq(Octet)) /\ Len(p) = i /\ \A m \in 1..i : p[m] = s[m]
    BY <1>2, <1>3
  <2> DEFINE X == Seq(Octet)
  <2>3. p \in Seq(X) /\ q \in Seq(X)
    BY <2>1, <2>2
  <2> HIDE DEF p, q, X
  <2>4. \A m \in 1..Len(p) : p[m] = q[m]
    <3>1. \A m \in 1..i : m \in 1..j
      BY <1>2
    <3> QED
      BY <1>3, <2>1, <2>2, <3>1
  <2>5. p = q
    BY <2>1, <2>2, <2>3, <2>4, SeqEqual
  <2> QED
    BY <2>5 DEF p, q
<1> HIDE DEF s, k
<1>5. /\ FlattenSeq(SubSeq(E, 1, k - 1)) \in Seq(Octet)
      /\ FlattenSeq(SubSeq(E, 1, k))
           = FlattenSeq(SubSeq(E, 1, k - 1)) \o E[k]
  BY <1>1, <1>2, FlattenAt
<1>6. \E w \in Seq(Octet) :
         FlattenSeq(s) = FlattenSeq(SubSeq(s, 1, k - 1)) \o (s[k] \o w)
  <2> DEFINE w == FlattenSeq(SubSeq(s, k + 1, Len(s)))
  <2>1. k \in 1..Len(s)
    BY <1>2, <1>3
  <2>2. /\ w \in Seq(Octet)
        /\ FlattenSeq(s) = FlattenSeq(SubSeq(s, 1, k - 1)) \o (s[k] \o w)
    BY <1>3, <2>1, FlattenAt
  <2> HIDE DEF w
  <2> QED
    BY <2>2
<1> QED
  BY <1>1, <1>2, <1>3, <1>4, <1>5, <1>6 DEF s, k

LEMMA TailAt ==
    ASSUME NEW g \in Given
    PROVE  /\ \A i \in 0..Len(g) : BackOf(g, i) \in Seq(Octet)
           /\ BackOf(g, Len(g)) = << >> /\ BackOf(g, 0) = EncodeAll(g)
           /\ FrontOf(g, 0) = << >>
           /\ \A i \in 0..(Len(g) - 1) :
                 BackOf(g, i) = Encode(g[i + 1]) \o BackOf(g, i + 1)
<1> DEFINE n == Len(g)
           E == Encodings(g)
<1>1. /\ n \in Nat /\ E \in Seq(Seq(Octet)) /\ Len(E) = n
      /\ \A m \in 1..n : E[m] = Encode(g[m])
      /\ \A i \in 1..(n + 1), j \in 0..n :
            EncodeAll(SubSeq(g, i, j)) = FlattenSeq(SubSeq(E, i, j))
  BY EncodingsAre
<1>2. \A i \in 0..n : BackOf(g, i) = FlattenSeq(SubSeq(E, i + 1, n))
  <2>1. \A i \in 0..n : i + 1 \in 1..(n + 1) /\ n \in 0..n
    BY <1>1
  <2> HIDE DEF E
  <2> QED
    BY <1>1, <2>1 DEF BackOf
<1>3. FrontOf(g, 0) = FlattenSeq(SubSeq(E, 1, 0))
  <2>1. 1 \in 1..(n + 1) /\ 0 \in 0..n
    BY <1>1
  <2> QED
    BY <1>1, <2>1 DEF FrontOf
<1>4. SubSeq(g, 1, n) = g
  <2> DEFINE S == {g[k] : k \in DOMAIN g}
  <2>1. g \in Seq(S)
    BY GivenAssumption
  <2> HIDE DEF S
  <2> QED
    BY <2>1, SubSeqFull
<1> HIDE DEF n, E
<1>5. \A i \in 0..n : SubSeq(E, i + 1, n) \in Seq(Seq(Octet))
  BY <1>1
<1>6. \A i \in 0..n : BackOf(g, i) \in Seq(Octet)
  BY <1>2, <1>5, FlattenType
<1>7. SubSeq(E, n + 1, n) = << >> /\ SubSeq(E, 1, 0) = << >>
  BY <1>1
<1>8. BackOf(g, n) = << >> /\ FrontOf(g, 0) = << >>
  <2>1. n \in 0..n
    BY <1>1
  <2> QED
    BY <1>2, <1>3, <1>7, <2>1, FlattenEmpty
<1>9. BackOf(g, 0) = EncodeAll(g)
  <2>1. 0 + 1 = 1
    OBVIOUS
  <2> QED
    BY <1>4, <2>1 DEF BackOf, n
<1>10. ASSUME NEW i \in 0..(n - 1)
       PROVE  BackOf(g, i) = Encode(g[i + 1]) \o BackOf(g, i + 1)
  <2> DEFINE k == i + 1
  <2>1. k \in 1..n /\ i \in 0..n /\ k \in 0..n
    BY <1>1
  <2>2. FlattenSeq(SubSeq(E, k, n)) = E[k] \o FlattenSeq(SubSeq(E, k + 1, n))
    <3> HIDE DEF k
    <3> QED
      BY <1>1, <2>1, FlattenAt
  <2> QED
    BY <1>1, <1>2, <2>1, <2>2
<1> QED
  BY <1>6, <1>8, <1>9, <1>10 DEF n

(***************************************************************************)
(* The invariant: what was read is what the first of the given fields      *)
(* mean, and what is left is a prefix of the others and of the zeros.      *)
(***************************************************************************)
RestIsLeft(g, k, r) ==
    \E zeros \in 0..3 :
        LET left == BackOf(g, k) \o Zeros(zeros)
        IN  \E len \in 0..Len(left) : r = SubSeq(left, 1, len)

FieldsInv ==
    /\ given \in Given
    /\ fields \in Seq({Meaning(given[k]) : k \in DOMAIN given})
    /\ Len(fields) <= Len(given)
    /\ \A k \in DOMAIN fields : /\ fields[k] = Meaning(given[k])
                                /\ Meaning(given[k]) # Cut
    /\ RestIsLeft(given, Len(fields), rest)
    /\ data = FrontOf(given, Len(fields)) \o rest
    /\ outcome \in {"fields", "done", "refused"}
    /\ outcome = "done" => rest \in Padding
    /\ outcome = "refused" => \A n \in 0..Len(given) : ~EndsAtField(n)

LEMMA LeftType ==
    ASSUME NEW g \in Given, NEW k \in 0..Len(g), NEW z \in 0..3
    PROVE  LET left == BackOf(g, k) \o Zeros(z)
           IN  /\ left \in Seq(Octet) /\ Len(left) = Len(BackOf(g, k)) + z
               /\ Len(BackOf(g, k)) \in Nat
               /\ \A len \in 0..Len(left) : SubSeq(left, 1, len) \in Seq(Octet)
<1> DEFINE a == BackOf(g, k)
           b == Zeros(z)
           left == a \o b
<1>1. a \in Seq(Octet) /\ b \in Seq(Octet) /\ Len(b) = z
  BY TailAt, ZerosIs
<1> HIDE DEF a, b
<1>2. left \in Seq(Octet) /\ Len(left) = Len(a) + z /\ Len(a) \in Nat
  <2>1. /\ a \o b \in Seq(Octet) /\ Len(a \o b) = Len(a) + Len(b)
        /\ Len(a) \in Nat
    BY <1>1, Concat
  <2> QED
    BY <1>1, <2>1
<1> HIDE DEF left
<1>3. \A len \in 0..Len(left) : SubSeq(left, 1, len) \in Seq(Octet)
  BY <1>2
<1> QED
  BY <1>2, <1>3 DEF left, a, b

LEMMA RestType ==
    ASSUME NEW g \in Given, NEW k \in 0..Len(g), NEW r, RestIsLeft(g, k, r)
    PROVE  r \in Seq(Octet)
<1>1. PICK z \in 0..3 : \E len \in 0..Len(BackOf(g, k) \o Zeros(z)) :
         r = SubSeq(BackOf(g, k) \o Zeros(z), 1, len)
  BY DEF RestIsLeft
<1>2. \A len \in 0..Len(BackOf(g, k) \o Zeros(z)) :
         SubSeq(BackOf(g, k) \o Zeros(z), 1, len) \in Seq(Octet)
  BY LeftType
<1> QED
  BY <1>1, <1>2

\* What is left when every field was read.
LEMMA RestAtEnd ==
    ASSUME NEW g \in Given, NEW r, RestIsLeft(g, Len(g), r)
    PROVE  r \in Padding
<1>1. PICK z \in 0..3 : \E len \in 0..Len(BackOf(g, Len(g)) \o Zeros(z)) :
         r = SubSeq(BackOf(g, Len(g)) \o Zeros(z), 1, len)
  BY DEF RestIsLeft
<1>2. Zeros(z) \in Seq(Octet) /\ Len(Zeros(z)) = z
  BY ZerosIs
<1>3. BackOf(g, Len(g)) \o Zeros(z) = Zeros(z)
  <2>1. BackOf(g, Len(g)) = << >>
    BY TailAt
  <2> DEFINE b == Zeros(z)
  <2>2. b \in Seq(Octet)
    BY <1>2
  <2> HIDE DEF b
  <2>3. << >> \o b = b
    BY <2>2
  <2> QED
    BY <2>1, <2>3 DEF b
<1>4. PICK len \in 0..z : r = SubSeq(Zeros(z), 1, len)
  BY <1>1, <1>2, <1>3
<1>5. r = Zeros(len)
  BY <1>4, ZerosIs
<1> QED
  BY <1>5 DEF Padding

\* What is left before that: the next field, cut off or not.
LEMMA RestBefore ==
    ASSUME NEW g \in Given, NEW k \in Nat, k < Len(g),
           NEW r, RestIsLeft(g, k, r)
    PROVE  \/ TooShort(r)
           \/ \E x \in Seq(Octet) : /\ RestIsLeft(g, k + 1, x)
                                     /\ r = Encode(g[k + 1]) \o x
<1> DEFINE e == Encode(g[k + 1])
           w == BackOf(g, k + 1)
<1>1. /\ Len(g) \in Nat /\ CanBeLaidOut(g[k + 1])
      /\ k \in 0..(Len(g) - 1) /\ k + 1 \in 0..Len(g)
  <2>1. Len(g) \in Nat /\ \A i \in 1..Len(g) : CanBeLaidOut(g[i])
    BY EncodingsAre
  <2> QED
    BY <2>1
<1>2. PICK z \in 0..3 : \E len \in 0..Len(BackOf(g, k) \o Zeros(z)) :
         r = SubSeq(BackOf(g, k) \o Zeros(z), 1, len)
  BY DEF RestIsLeft
<1> DEFINE y == w \o Zeros(z)
<1>3. e \in Seq(Octet) /\ w \in Seq(Octet) /\ Zeros(z) \in Seq(Octet)
  <2>1. e \in Seq(Octet)
    BY <1>1, EncodeIs
  <2>2. w \in Seq(Octet)
    BY <1>1, TailAt
  <2>3. Zeros(z) \in Seq(Octet)
    BY ZerosIs
  <2> QED
    BY <2>1, <2>2, <2>3
<1>4. y \in Seq(Octet) /\ Len(y) \in Nat
  BY <1>3, Concat
<1>5. BackOf(g, k) \o Zeros(z) = e \o y
  <2>1. BackOf(g, k) = e \o w
    BY <1>1, TailAt
  <2> DEFINE b == Zeros(z)
  <2>2. e \in Seq(Octet) /\ w \in Seq(Octet) /\ b \in Seq(Octet)
    BY <1>3
  <2> HIDE DEF e, w, b
  <2>3. (e \o w) \o b = e \o (w \o b)
    BY ONLY <2>2, ConcatAssociative, SMTT(30)
  <2> QED
    BY <2>1, <2>3 DEF b
<1>6. PICK n \in 0..Len(e \o y) : r = SubSeq(e \o y, 1, n)
  BY <1>2, <1>5
<1>7. Len(e \o y) = Len(e) + Len(y) /\ Len(e) \in Nat
  <2> HIDE DEF e, y
  <2> QED
    BY <1>3, <1>4, Concat
<1>8. CASE n < Len(e)
  <2>1. n \in 0..(Len(e) - 1)
    BY <1>6, <1>7, <1>8
  <2> HIDE DEF y
  <2>2. TooShort(r)
    BY <1>1, <1>4, <1>6, <2>1, CutField
  <2> QED
    BY <2>2
<1>9. CASE ~(n < Len(e))
  <2> DEFINE m == n - Len(e)
             x == SubSeq(y, 1, m)
  <2>1. n \in Len(e)..(Len(e) + Len(y)) /\ m \in 0..Len(y)
    BY <1>4, <1>6, <1>7, <1>9
  <2> HIDE DEF e, y
  <2>2. SubSeq(e \o y, 1, n) = e \o SubSeq(y, 1, n - Len(e))
    BY <1>3, <1>4, <2>1, PrefixOfConcat
  <2>3. x \in Seq(Octet)
    <3> HIDE DEF m
    <3> QED
      BY <1>4, <2>1
  <2>4. RestIsLeft(g, k + 1, x)
    <3> HIDE DEF m
    <3> QED
      BY <2>1 DEF RestIsLeft, y
  <2> QED
    BY <1>6, <2>2, <2>3, <2>4 DEF e
<1> QED
  BY <1>8, <1>9

\* Cancellation.
LEMMA SameFront ==
    ASSUME NEW S, NEW a \in Seq(S), NEW b \in Seq(S), NEW c \in Seq(S),
           a \o b = a \o c
    PROVE  b = c
<1>1. From(a \o b, Len(a) + 1) = b
  BY SliceBack
<1>2. From(a \o c, Len(a) + 1) = c
  BY SliceBack
<1> QED
  BY <1>1, <1>2

\* If the header ends at a field, then the field where the iterator is can be
\* read, or only zeros are left.
LEMMA NextIsRead ==
    ASSUME FieldsInv, NEW m \in 0..Len(given), EndsAtField(m),
           rest \notin Padding
    PROVE  /\ Len(fields) < Len(given) /\ Meaning(given[Len(fields) + 1]) # Cut
           /\ \E x \in Seq(Octet) :
                 rest = Encode(given[Len(fields) + 1]) \o x
<1> DEFINE n == Len(fields)
           N == Len(given)
<1>1. /\ given \in Given /\ n \in 0..N /\ N \in Nat /\ n \in Nat
      /\ \A i \in 1..N : CanBeLaidOut(given[i])
  <2>1. given \in Given /\ n <= N /\ n \in Nat
    BY DEF FieldsInv
  <2>2. N \in Nat /\ \A i \in 1..N : CanBeLaidOut(given[i])
    BY <2>1, EncodingsAre
  <2> QED
    BY <2>1, <2>2
<1>2. PICK z \in 0..3 : data = FrontOf(given, m) \o Zeros(z)
  BY DEF EndsAtField, FrontOf
<1>3. \A i \in 1..m : Meaning(given[i]) # Cut
  BY DEF EndsAtField
<1>4. data = FrontOf(given, n) \o rest /\ rest \in Seq(Octet)
  <2>1. RestIsLeft(given, n, rest) /\ data = FrontOf(given, n) \o rest
    BY DEF FieldsInv
  <2> QED
    BY <1>1, <2>1, RestType
<1> HIDE DEF n, N
<1>5. \A i \in 0..N : FrontOf(given, i) \in Seq(Octet)
  <2> SUFFICES ASSUME NEW i \in 0..N PROVE FrontOf(given, i) \in Seq(Octet)
    OBVIOUS
  <2>1. CASE i = 0
    <3>1. FrontOf(given, 0) = << >>
      BY <1>1, TailAt
    <3>2. << >> \in Seq(Octet)
      OBVIOUS
    <3> QED
      BY <2>1, <3>1, <3>2
  <2>2. CASE i # 0
    <3> DEFINE j == i - 1
    <3>1. j \in Nat /\ j < i /\ i \in 0..N /\ j + 1 = i /\ i \in 1..N
      BY <1>1, <2>2
    <3> HIDE DEF j
    <3>2. FrontOf(given, j) \in Seq(Octet)
          /\ FrontOf(given, j + 1) = FrontOf(given, j) \o Encode(given[j + 1])
      BY <1>1, <3>1, FrontAt DEF N
    <3>3. Encode(given[i]) \in Seq(Octet)
      BY <1>1, <3>1, EncodeIs
    <3> QED
      BY <3>1, <3>2, <3>3, Concat
  <2> QED
    BY <2>1, <2>2
<1>6. Zeros(z) \in Seq(Octet) /\ Len(Zeros(z)) = z /\ m \in 0..N /\ m \in Nat
  BY <1>1, ZerosIs DEF N
<1>7. CASE m = n
  <2>1. FrontOf(given, n) \o Zeros(z) = FrontOf(given, n) \o rest
    BY <1>2, <1>4, <1>7
  <2>2. rest = Zeros(z)
    BY <1>1, <1>4, <1>5, <1>6, <2>1, SameFront
  <2> QED
    BY <2>2 DEF Padding
<1>8. CASE m < n
  <2> DEFINE a == FrontOf(given, m)
             e == Encode(given[m + 1])
  <2>1. PICK w \in Seq(Octet) : FrontOf(given, n) = a \o (e \o w)
    BY <1>1, <1>6, <1>8, FrontAt DEF N
  <2>2. a \in Seq(Octet) /\ e \in Seq(Octet) /\ Len(e) >= 4
    <3>1. m + 1 \in 1..N
      BY <1>1, <1>6, <1>8
    <3>2. CanBeLaidOut(given[m + 1])
      BY <1>1, <3>1
    <3>3. e \in Seq(Octet) /\ Len(e) = 4 + Len(Layout(given[m + 1]))
          /\ Len(Layout(given[m + 1])) \in Nat
      BY <3>2, EncodeIs
    <3> QED
      BY <1>5, <1>6, <3>3
  <2> HIDE DEF a, e
  <2>3. e \o w \in Seq(Octet) /\ Len(e \o w) = Len(e) + Len(w) /\ Len(w) \in Nat
    BY <2>2, Concat
  <2> DEFINE b == e \o w
             c == a \o b
  <2>4. b \in Seq(Octet) /\ Len(b) >= 4
    BY <2>2, <2>3
  <2> HIDE DEF b
  <2>5. c \in Seq(Octet) /\ Len(c) = Len(a) + Len(b)
    BY <2>2, <2>4, Concat
  <2> HIDE DEF c
  <2>6. Len(data) = Len(c) + Len(rest) /\ Len(rest) \in Nat
    <3>1. data = c \o rest
      BY <1>4, <2>1 DEF b, c
    <3> QED
      BY <1>4, <2>5, <3>1, Concat
  <2>7. Len(data) = Len(a) + z /\ Len(a) \in Nat
    <3>1. data = a \o Zeros(z)
      BY <1>2 DEF a
    <3> QED
      BY <1>6, <2>2, <3>1, Concat
  <2> QED
    BY <2>4, <2>5, <2>6, <2>7
<1>9. CASE m > n
  <2> DEFINE a == FrontOf(given, n)
             e == Encode(given[n + 1])
             y == Zeros(z)
  <2>1. PICK w \in Seq(Octet) : FrontOf(given, m) = a \o (e \o w)
    BY <1>1, <1>6, <1>9, FrontAt DEF N
  <2>2. n + 1 \in 1..m /\ n + 1 \in 1..N /\ n < N
    BY <1>1, <1>6, <1>9
  <2>3. a \in Seq(Octet) /\ e \in Seq(Octet) /\ y \in Seq(Octet)
    BY <1>1, <1>5, <1>6, <2>2, EncodeIs
  <2> HIDE DEF a, e, y
  <2> DEFINE v == e \o w
             x == w \o y
  <2>4. v \in Seq(Octet) /\ x \in Seq(Octet)
    BY <2>3, Concat
  <2>5. v \o y = e \o x
    <3>1. e \in Seq(Octet) /\ w \in Seq(Octet) /\ y \in Seq(Octet)
      BY <2>3
    <3> QED
      BY ONLY <3>1, ConcatAssociative, SMTT(30)
  <2> HIDE DEF v, x
  <2>6. (a \o v) \o y = a \o (v \o y)
    <3>1. a \in Seq(Octet) /\ v \in Seq(Octet) /\ y \in Seq(Octet)
      BY <2>3, <2>4
    <3> QED
      BY ONLY <3>1, ConcatAssociative, SMTT(30)
  <2>7. a \o rest = a \o (e \o x)
    BY <1>2, <1>4, <2>1, <2>5, <2>6 DEF a, v, y
  <2>8. e \o x \in Seq(Octet)
    BY <2>3, <2>4, Concat
  <2>9. rest = e \o x
    BY <1>4, <2>3, <2>7, <2>8, SameFront
  <2> QED
    BY <1>3, <2>2, <2>4, <2>9 DEF e, n, N
<1>10. m = n \/ m < n \/ m > n
  BY <1>1, <1>6
<1> QED
  BY <1>7, <1>8, <1>9, <1>10

LEMMA InvInit == FieldsInit => FieldsInv
<1> SUFFICES ASSUME FieldsInit PROVE FieldsInv
  OBVIOUS
<1>1. /\ given \in Given /\ rest = data /\ fields = << >>
      /\ outcome = "fields"
  BY DEF FieldsInit
<1>2. PICK z \in 0..3 : \E len \in 0..Len(EncodeAll(given) \o Zeros(z)) :
         data = SubSeq(EncodeAll(given) \o Zeros(z), 1, len)
  BY DEF FieldsInit
<1>3. /\ Len(given) \in Nat /\ BackOf(given, 0) = EncodeAll(given)
      /\ FrontOf(given, 0) = << >>
  BY <1>1, EncodingsAre, TailAt
<1>4. Len(fields) = 0 /\ DOMAIN fields = {}
  BY <1>1
<1>5. RestIsLeft(given, 0, rest)
  BY <1>1, <1>2, <1>3 DEF RestIsLeft
<1>6. data = FrontOf(given, 0) \o rest
  <2>1. 0 \in 0..Len(given)
    BY <1>3
  <2>2. rest \in Seq(Octet)
    BY <1>1, <1>5, <2>1, RestType
  <2>3. << >> \o rest = rest
    BY <2>2
  <2> QED
    BY <1>1, <1>3, <2>3
<1>7. fields \in Seq({Meaning(given[k]) : k \in DOMAIN given})
  BY <1>1
<1> QED
  BY <1>1, <1>3, <1>4, <1>5, <1>6, <1>7 DEF FieldsInv

LEMMA InvNext == FieldsInv /\ [FieldsNext]_fieldVars => FieldsInv'
<1> SUFFICES ASSUME FieldsInv, [FieldsNext]_fieldVars PROVE FieldsInv'
  OBVIOUS
<1> DEFINE n == Len(fields)
           M == {Meaning(given[k]) : k \in DOMAIN given}
<1>1. /\ given \in Given /\ fields \in Seq(M) /\ n \in Nat
      /\ n <= Len(given) /\ Len(given) \in Nat
      /\ DOMAIN given = 1..Len(given) /\ DOMAIN fields = 1..n
      /\ \A k \in 1..Len(given) : CanBeLaidOut(given[k])
  <2>1. given \in Given /\ fields \in Seq(M) /\ n <= Len(given)
    BY DEF FieldsInv
  <2>2. n \in Nat /\ DOMAIN fields = 1..n
    BY <2>1
  <2> QED
    BY <2>1, <2>2, EncodingsAre
<1>2. CASE UNCHANGED fieldVars
  BY <1>2 DEF FieldsInv, fieldVars, RestIsLeft, EndsAtField, Padding
<1>3. CASE EndOfFields
  BY <1>3 DEF EndOfFields, FieldsInv, RestIsLeft, EndsAtField, Padding
<1>4. CASE ParseField
  <2> DEFINE len == Num(SubSeq(rest, 3, 4))
             short == Len(rest) < 4 \/ Len(rest) < 4 + len
             parsed == ParseData(Num(SubSeq(rest, 1, 2)),
                                 SubSeq(rest, 5, 4 + len))
             field == IF short THEN Cut ELSE parsed
  <2>1. /\ outcome = "fields" /\ rest \notin Padding
        /\ given' = given /\ data' = data
        /\ \/ /\ field = Cut /\ outcome' = "refused"
              /\ rest' = rest /\ fields' = fields
           \/ /\ field # Cut /\ fields' = Append(fields, field)
              /\ rest' = From(rest, 5 + len) /\ outcome' = outcome
    BY <1>4 DEF ParseField, FieldData
  <2>2. RestIsLeft(given, n, rest) /\ data = FrontOf(given, n) \o rest
    BY DEF FieldsInv
  <2>3. n < Len(given)
    <3>0. n \in Nat /\ Len(given) \in Nat /\ n <= Len(given)
      BY <1>1
    <3> HIDE DEF n
    <3> SUFFICES ASSUME n = Len(given) PROVE FALSE
      BY <3>0
    <3>1. given \in Given /\ RestIsLeft(given, Len(given), rest)
      BY <1>1, <2>2
    <3>2. rest \in Padding
      BY <3>1, RestAtEnd
    <3> QED
      BY <2>1, <3>2
  <2> DEFINE g == given[n + 1]
             k == n + 1
  <2>4. /\ k \in 1..Len(given) /\ CanBeLaidOut(g)
        /\ Encode(g) \in Seq(Octet)
    BY <1>1, <2>3, EncodeIs
  \* What WholeField says of the header.
  <2>5. ASSUME NEW x \in Seq(Octet), rest = Encode(g) \o x
        PROVE  field = Meaning(g) /\ From(rest, 5 + len) = x
    <3>1. /\ rest \in Seq(Octet) /\ len \in Nat /\ Len(rest) >= 4 + len
          /\ parsed = Meaning(g) /\ From(rest, 5 + len) = x
      <4> HIDE DEF g
      <4> QED
        BY <2>4, <2>5, WholeField
    <3>2. ~short
      BY <3>1
    <3> QED
      BY <3>1, <3>2
  <2>6. CASE field = Cut /\ outcome' = "refused"
             /\ rest' = rest /\ fields' = fields
    <3>1. \A m \in 0..Len(given) : ~EndsAtField(m)
      <4> SUFFICES ASSUME NEW m \in 0..Len(given), EndsAtField(m) PROVE FALSE
        OBVIOUS
      <4>1. Meaning(g) # Cut /\ \E x \in Seq(Octet) : rest = Encode(g) \o x
        BY <2>1, NextIsRead
      <4>2. field = Meaning(g)
        <5> HIDE DEF field
        <5> QED
          BY <2>5, <4>1
      <4> QED
        BY <2>6, <4>1, <4>2
    <3>2. \A m \in 0..Len(given) : ~EndsAtField(m)'
      BY <2>1, <3>1 DEF EndsAtField
    <3> HIDE DEF field
    <3> QED
      BY <2>1, <2>6, <3>2 DEF FieldsInv, RestIsLeft, EndsAtField, Padding
  <2>7. CASE /\ field # Cut /\ fields' = Append(fields, field)
             /\ rest' = From(rest, 5 + len) /\ outcome' = outcome
    <3>1. ~short
      BY <2>7
    <3>2. PICK x \in Seq(Octet) : /\ RestIsLeft(given, k, x)
                                  /\ rest = Encode(g) \o x
      <4> HIDE DEF n
      <4>1. n \in Nat /\ given \in Given /\ n < Len(given)
        BY <1>1, <2>3
      <4>2. RestIsLeft(given, n, rest)
        BY <2>2
      <4>3. \/ TooShort(rest)
            \/ \E x \in Seq(Octet) : /\ RestIsLeft(given, n + 1, x)
                                     /\ rest = Encode(given[n + 1]) \o x
        <5>1. \A j \in Nat : \A r :
                 j < Len(given) /\ RestIsLeft(given, j, r) =>
                 \/ TooShort(r)
                 \/ \E x \in Seq(Octet) : /\ RestIsLeft(given, j + 1, x)
                                          /\ r = Encode(given[j + 1]) \o x
          BY <4>1, RestBefore
        <5> QED
          BY <4>1, <4>2, <5>1
      <4> QED
        BY <3>1, <4>3 DEF TooShort
    <3>3. field = Meaning(g) /\ rest' = x
      <4> HIDE DEF field
      <4> QED
        BY <2>5, <2>7, <3>2
    <3> HIDE DEF field, len, g
    <3>4. /\ fields' = Append(fields, Meaning(g)) /\ Meaning(g) \in M
          /\ Meaning(g) # Cut
      BY <1>1, <2>4, <2>7, <3>3 DEF g
    <3> HIDE DEF M
    <3>5. /\ fields' \in Seq(M) /\ Len(fields') = k
          /\ DOMAIN fields' = 1..k
          /\ fields'[k] = Meaning(g)
          /\ \A i \in 1..n : fields'[i] = fields[i]
      BY <1>1, <3>4
    <3>6. \A i \in DOMAIN fields' : /\ fields'[i] = Meaning(given[i])
                                    /\ Meaning(given[i]) # Cut
      <4>1. \A i \in 1..n : /\ fields[i] = Meaning(given[i])
                            /\ Meaning(given[i]) # Cut
        BY <1>1 DEF FieldsInv
      <4>2. \A i \in 1..k : i \in 1..n \/ i = k
        BY <1>1
      <4> QED
        BY <3>4, <3>5, <4>1, <4>2 DEF g
    <3>7. data = FrontOf(given, k) \o x
      <4> DEFINE a == FrontOf(given, n)
                 e == Encode(g)
      <4>1. a \in Seq(Octet) /\ FrontOf(given, k) = a \o e
        <5> HIDE DEF n
        <5>1. /\ n \in Nat /\ given \in Given /\ n < Len(given)
              /\ Len(given) \in 0..Len(given)
          BY <1>1, <2>3
        <5>2. /\ FrontOf(given, n) \in Seq(Octet)
              /\ FrontOf(given, n + 1)
                   = FrontOf(given, n) \o Encode(given[n + 1])
          BY <5>1, FrontAt
        <5> QED
          BY <5>2 DEF g
      <4>2. data = a \o (e \o x)
        BY <2>2, <3>2
      <4>3. e \in Seq(Octet)
        BY <2>4
      <4> HIDE DEF a, e
      <4>4. (a \o e) \o x = a \o (e \o x)
        BY <4>1, <4>3, ConcatAssociative
      <4> QED
        BY <4>1, <4>2, <4>4
    <3>8. k <= Len(given)
      BY <2>4
    <3> QED
      BY <1>1, <2>1, <2>7, <3>2, <3>3, <3>5, <3>6, <3>7, <3>8
      DEF FieldsInv, RestIsLeft, M
  <2> QED
    BY <2>1, <2>6, <2>7
<1> QED
  BY <1>2, <1>3, <1>4 DEF FieldsNext

LEMMA FieldsInvariant == FieldsSpec => []FieldsInv
<1>1. FieldsInit => FieldsInv
  BY InvInit
<1>2. FieldsInv /\ [FieldsNext]_fieldVars => FieldsInv'
  BY InvNext
<1> QED
  BY <1>1, <1>2, PTL DEF FieldsSpec

(***************************************************************************)
(* The fields that the parsers of ExtraField return are of the form that   *)
(* the entries of EntryHeaders are made from.                              *)
(***************************************************************************)
THEOREM ReturnsKnownFields ==
    FieldsSpec => [](\A k \in DOMAIN fields : FieldLike(fields[k]))
<1>1. ASSUME FieldsInv, NEW k \in DOMAIN fields PROVE FieldLike(fields[k])
  <2> DEFINE f == given[k]
  <2>1. given \in Given /\ fields[k] = Meaning(f) /\ k \in DOMAIN given
    <3>1. /\ given \in Given /\ fields[k] = Meaning(f)
          /\ fields \in Seq({Meaning(given[j]) : j \in DOMAIN given})
          /\ Len(fields) <= Len(given)
      BY <1>1 DEF FieldsInv
    <3>2. k \in 1..Len(fields) /\ Len(fields) \in Nat
      BY <3>1
    <3>3. DOMAIN given = 1..Len(given) /\ Len(given) \in Nat
      BY <3>1, EncodingsAre
    <3> QED
      BY <3>1, <3>2, <3>3
  <2>2. CanBeLaidOut(f)
    BY <2>1, GivenAssumption
  <2> HIDE DEF f
  <2>3. CASE f.id = "Raw"
    <3>1. Meaning(f) \in {Ignored, Cut}
      BY <2>3 DEF Meaning
    <3> QED
      BY <2>1, <3>1 DEF Ignored, Cut, FieldLike, FieldIds
  <2>4. CASE f.id # "Raw"
    <3>1. f.id \in Kinds \ {"UnixNew"} /\ Meaning(f) = f
      BY <2>2, <2>4 DEF CanBeLaidOut, Meaning
    <3>2. f.id = "Ntfs" => f.tags \in Seq([typ: Nat, times: Seq(Nat)])
      BY <2>2 DEF CanBeLaidOut
    <3>3. f.id = "Timestamp" => f.times \in Seq(Nat)
      BY <2>2 DEF CanBeLaidOut, AreNums
    <3> QED
      BY <2>1, <3>1, <3>2, <3>3 DEF FieldLike, FieldIds, Kinds
  <2> QED
    BY <2>3, <2>4
<1>2. FieldsInv => \A k \in DOMAIN fields : FieldLike(fields[k])
  BY <1>1
<1> QED
  BY <1>2, FieldsInvariant, PTL

(***************************************************************************)
(* The fields that the iterator of extra fields returns are those that     *)
(* were laid out, for any fields, numbers and lengths.                     *)
(***************************************************************************)
THEOREM ReadsFieldsAsWritten == FieldsSpec => []FieldsAsWritten
<1>1. FieldsInv => FieldsAsWritten
  BY DEF FieldsInv, FieldsAsWritten
<1> QED
  BY <1>1, FieldsInvariant, PTL

(***************************************************************************)
(* A header is refused exactly when it is cut inside of a field, or when   *)
(* one of its fields is refused.                                           *)
(***************************************************************************)
THEOREM RefusesOnlyCutFields == FieldsSpec => []CutIsRefused
<1>1. ASSUME FieldsInv PROVE CutIsRefused
  <2>1. ASSUME outcome = "done" PROVE EndsAtField(Len(fields))
    <3>1. PICK z \in 0..3 : rest = Zeros(z)
      BY <1>1, <2>1 DEF FieldsInv, Padding
    <3>2. data = EncodeAll(SubSeq(given, 1, Len(fields))) \o Zeros(z)
      BY <1>1, <3>1 DEF FieldsInv, FrontOf
    <3>3. DOMAIN fields = 1..Len(fields)
      BY <1>1 DEF FieldsInv
    <3>4. \A k \in 1..Len(fields) : Meaning(given[k]) # Cut
      BY <1>1, <3>3 DEF FieldsInv
    <3> QED
      BY <3>2, <3>4 DEF EndsAtField
  <2>2. outcome = "refused" => \A n \in 0..Len(given) : ~EndsAtField(n)
    BY <1>1 DEF FieldsInv
  <2> QED
    BY <2>1, <2>2 DEF CutIsRefused
<1>2. FieldsInv => CutIsRefused
  BY <1>1
<1> QED
  BY <1>2, FieldsInvariant, PTL
===============================================================================
