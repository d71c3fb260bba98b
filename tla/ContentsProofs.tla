--------------------------- MODULE ContentsProofs ---------------------------
(***************************************************************************)
(* What the checkers of ContentChecker guarantee for contents, metadata    *)
(* and buffers of every size, and what _write_all_many of VectoredWrite    *)
(* guarantees for bytes, buffers and partial writes of every size.         *)
(***************************************************************************)
EXTENDS ContentChecker, VectoredWrite, Induction

\* Content that is handed out is counted down from the announced length.
Counted == Len(given) <= meta.length - expected

\* What is hashed is what the buffers hold.
Hashed == hashed = held

\* As long as nothing was lost, nothing is missing: what the buffers hold and
\* what is still expected make up the announced length, or more when there
\* are zeros; without them it is the content so far.
NothingMissing ==
    ~lost =>
        /\ Len(held) + expected >= meta.length
        /\ Len(held) + expected = meta.length => held = SubSeq(content, 1, pos)

\* At the end everything has been read, and both checks have passed.
AtEnd ==
    last = "eof" => pos = Len(content) /\ expected = 0 /\ hashed = meta.crc

\* Of content that matches its metadata, what is expected is what is left.
Matching == content = meta.crc /\ Len(content) = meta.length
InStep == Matching => expected = Len(content) - pos

Inv == TypeOK /\ Counted /\ Hashed /\ NothingMissing /\ AtEnd /\ InStep

-----------------------------------------------------------------------------
\* A chunk of the content inside its bounds: its length and its type, and
\* what it is when it continues a prefix.
LEMMA ChunkFacts ==
    ASSUME TypeOK, NEW k \in Nat, pos + k <= Len(content)
    PROVE  /\ Chunk(k) \in Seq(Bytes)
           /\ Len(Chunk(k)) = k
           /\ SubSeq(content, 1, pos) \o Chunk(k) = SubSeq(content, 1, pos + k)
<1>1. /\ content \in Seq(Bytes) /\ pos \in Nat /\ Len(content) \in Nat
      /\ pos <= Len(content)
  BY DEF TypeOK
<1>2. /\ Chunk(k) \in Seq(Bytes) /\ Len(Chunk(k)) = k
      /\ \A i \in 1..k : Chunk(k)[i] = content[pos + i]
  BY <1>1, SubSeqProperties DEF Chunk
<1>3. /\ SubSeq(content, 1, pos) \in Seq(Bytes)
      /\ Len(SubSeq(content, 1, pos)) = pos
      /\ \A i \in 1..pos : SubSeq(content, 1, pos)[i] = content[i]
  BY <1>1, SubSeqProperties
<1>4. /\ SubSeq(content, 1, pos + k) \in Seq(Bytes)
      /\ Len(SubSeq(content, 1, pos + k)) = pos + k
      /\ \A i \in 1..(pos + k) : SubSeq(content, 1, pos + k)[i] = content[i]
  BY <1>1, SubSeqProperties
<1> DEFINE s == SubSeq(content, 1, pos)
           c == Chunk(k)
           t == SubSeq(content, 1, pos + k)
<1>5. /\ s \o c \in Seq(Bytes) /\ Len(s \o c) = pos + k
      /\ \A i \in 1..(pos + k) :
            (s \o c)[i] = IF i <= pos THEN s[i] ELSE c[i - pos]
  <2>1. s \in Seq(Bytes) /\ c \in Seq(Bytes)
    BY <1>2, <1>3
  <2>2. Len(s) = pos /\ Len(c) = k
    BY <1>2, <1>3
  <2> HIDE DEF s, c
  <2> QED
    BY <2>1, <2>2, <1>1, ConcatProperties
<1>6. \A i \in 1..(pos + k) : (s \o c)[i] = t[i]
  <2> SUFFICES ASSUME NEW i \in 1..(pos + k) PROVE (s \o c)[i] = t[i]
    OBVIOUS
  <2>1. CASE i <= pos
    BY <2>1, <1>1, <1>3, <1>4, <1>5
  <2>2. CASE ~(i <= pos)
    <3>1. i - pos \in 1..k /\ pos + (i - pos) = i
      BY <2>2, <1>1
    <3> QED
      BY <2>2, <3>1, <1>2, <1>4, <1>5
  <2> QED
    BY <2>1, <2>2
<1>7. s \o c = t
  <2>1. s \o c \in Seq(Bytes) /\ t \in Seq(Bytes) /\ Len(s \o c) = Len(t)
    BY <1>4, <1>5
  <2>2. \A i \in 1..Len(s \o c) : (s \o c)[i] = t[i]
    BY <1>5, <1>6
  <2> HIDE DEF s, c, t
  <2> QED
    BY <2>1, <2>2, SeqEqual
<1> QED
  BY <1>2, <1>7

\* The rest of the content.
LEMMA RestFacts ==
    ASSUME TypeOK
    PROVE  /\ Rest \in Seq(Bytes)
           /\ Len(Rest) = Len(content) - pos
           /\ Len(Rest) \in Nat
           /\ Rest = Chunk(Len(Rest))
<1>1. content \in Seq(Bytes) /\ pos \in Nat /\ Len(content) \in Nat
      /\ pos <= Len(content)
  BY DEF TypeOK
<1>2. Rest \in Seq(Bytes) /\ Len(Rest) = Len(content) - pos
  BY <1>1, SubSeqProperties DEF Rest
<1>3. pos + Len(Rest) = Len(content)
  BY <1>1, <1>2
<1> QED
  BY <1>1, <1>2, <1>3 DEF Rest, Chunk

-----------------------------------------------------------------------------
\* The arithmetic of a call that takes the announced length from e to f and
\* leaves b bytes in the buffer.
LEMMA Sums ==
    ASSUME NEW h \in Nat, NEW b \in Nat, NEW e \in Nat, NEW f \in 0..e,
           NEW m \in Nat, h + e >= m, b + f >= e
    PROVE  /\ f \in Nat /\ (h + b) + f >= m
           /\ (h + b) + f = m => h + e = m /\ b + f = e
OBVIOUS

\* ... and takes what was handed out from g to k bytes.
LEMMA Hands ==
    ASSUME NEW g \in Nat, NEW k \in Nat, NEW m \in Nat,
           NEW e \in Nat, NEW f \in 0..e, g <= m - e, k - g <= e - f
    PROVE  k <= m - f
OBVIOUS

\* The arithmetic of one that reads on from p to q.
LEMMA Steps ==
    ASSUME NEW p \in Nat, NEW l \in Nat, NEW q \in p..l
    PROVE  q - p \in Nat /\ p + (q - p) = q /\ p + (q - p) <= l
OBVIOUS

LEMMA StepsAlike ==
    ASSUME NEW p \in Nat, NEW l \in Nat, NEW q \in p..l,
           NEW e \in Nat, NEW f \in 0..e, e = l - p, e - f = q - p
    PROVE  f = l - q
OBVIOUS

\* One that takes nothing, and one that leaves more than it takes.
LEMMA TakesLess ==
    ASSUME NEW e \in Nat
    PROVE  /\ e \in 0..e /\ e - e = 0 /\ 0 + e >= e
           /\ \A f \in Nat : f > 0 => e + f >= e /\ e + f # e
OBVIOUS

\* What every call does: it reads on, takes something off the announced
\* length, and leaves something in the buffer, which is hashed.
LEMMA Call ==
    ASSUME Inv,
           UNCHANGED << content, meta >>,
           pos' \in pos..Len(content), expected' \in 0..expected,
           NEW buffer \in Seq(Bytes \cup {Zero}),
           hashed' = hashed \o buffer, held' = held \o buffer,
           given' \in Seq(Bytes),
           Len(given') - Len(given) <= expected - expected',
           lost' \in BOOLEAN, lost => lost', last' \in Outcomes,
           ~lost' =>
                /\ Len(buffer) + expected' >= expected
                /\ Len(buffer) + expected' = expected
                        => buffer = Chunk(pos' - pos),
           Matching => expected - expected' = pos' - pos,
           last' = "eof" =>
                pos' = Len(content) /\ expected' = 0 /\ hashed' = meta.crc
    PROVE  Inv'
<1>1. TypeOK /\ Counted /\ Hashed /\ NothingMissing /\ InStep
  BY DEF Inv
<1>2. /\ pos \in Nat /\ expected \in Nat /\ Len(content) \in Nat
      /\ meta.length \in Nat /\ expected <= meta.length
      /\ given \in Seq(Bytes) /\ held \in Seq(Bytes \cup {Zero})
      /\ hashed \in Seq(Bytes \cup {Zero})
      /\ Len(given) \in Nat /\ Len(held) \in Nat /\ Len(given') \in Nat
      /\ Len(buffer) \in Nat
  BY <1>1 DEF TypeOK
<1>3. content' = content /\ meta' = meta
  OBVIOUS
<1>4. held' \in Seq(Bytes \cup {Zero}) /\ Len(held') = Len(held) + Len(buffer)
  <2>1. /\ held \o buffer \in Seq(Bytes \cup {Zero})
        /\ Len(held \o buffer) = Len(held) + Len(buffer)
    BY <1>2, ConcatProperties, Zenon
  <2> QED
    BY <2>1
<1>5. Hashed' /\ hashed' \in Seq(Bytes \cup {Zero})
  BY <1>1, <1>4 DEF Hashed
<1>6. TypeOK'
  <2>1. pos' \in 0..Len(content) /\ expected' \in 0..meta.length
    BY <1>2
  <2> QED
    BY <2>1, <1>1, <1>3, <1>4, <1>5 DEF TypeOK
<1>7. Counted'
  <2>1. Len(given) <= meta.length - expected
    BY <1>1 DEF Counted
  <2>2. Len(given') <= meta.length - expected'
    <3> DEFINE g == Len(given)
               k == Len(given')
               m == meta.length
               e == expected
               f == expected'
    <3>1. /\ g \in Nat /\ k \in Nat /\ m \in Nat /\ e \in Nat /\ f \in 0..e
          /\ g <= m - e /\ k - g <= e - f
      BY <2>1, <1>2, Zenon
    <3> HIDE DEF g, k, m, e, f
    <3>2. k <= m - f
      BY <3>1, Hands
    <3> QED
      BY <3>2 DEF g, k, m, e, f
  <2> QED
    BY <2>2, <1>3 DEF Counted
<1>8. NothingMissing'
  <2> SUFFICES ASSUME ~lost'
               PROVE  /\ Len(held') + expected' >= meta.length
                      /\ Len(held') + expected' = meta.length
                            => held' = SubSeq(content, 1, pos')
    BY <1>3 DEF NothingMissing
  <2>1. /\ Len(held) + expected >= meta.length
        /\ Len(held) + expected = meta.length => held = SubSeq(content, 1, pos)
    BY <1>1 DEF NothingMissing
  <2>2. /\ expected' \in Nat
        /\ Len(buffer) + expected' >= expected
        /\ Len(buffer) + expected' = expected => buffer = Chunk(pos' - pos)
    BY <1>2
  <2>3. /\ Len(held') + expected' >= meta.length
        /\ Len(held') + expected' = meta.length =>
                /\ Len(held) + expected = meta.length
                /\ Len(buffer) + expected' = expected
    <3>1. expected' \in 0..expected
      OBVIOUS
    <3>2. /\ (Len(held) + Len(buffer)) + expected' >= meta.length
          /\ (Len(held) + Len(buffer)) + expected' = meta.length =>
                /\ Len(held) + expected = meta.length
                /\ Len(buffer) + expected' = expected
      <4> DEFINE h == Len(held)
                 b == Len(buffer)
                 e == expected
                 f == expected'
                 m == meta.length
      <4>1. /\ h \in Nat /\ b \in Nat /\ e \in Nat /\ f \in 0..e /\ m \in Nat
            /\ h + e >= m /\ b + f >= e
        BY <3>1, <2>1, <2>2, <1>2
      <4> HIDE DEF h, b, e, f, m
      <4>2. (h + b) + f >= m /\ ((h + b) + f = m => h + e = m /\ b + f = e)
        BY <4>1, Sums
      <4> QED
        BY <4>2 DEF h, b, e, f, m
    <3> QED
      BY <3>2, <1>4, Zenon
  <2>4. ASSUME Len(held') + expected' = meta.length
        PROVE  held' = SubSeq(content, 1, pos')
    <3>1. /\ Len(held) + expected = meta.length
          /\ Len(buffer) + expected' = expected
      BY <2>3, <2>4, Zenon
    <3>2. held = SubSeq(content, 1, pos) /\ buffer = Chunk(pos' - pos)
      BY <3>1, <2>1, <2>2
    <3> DEFINE k == pos' - pos
    <3>3. k \in Nat /\ pos + k = pos' /\ pos + k <= Len(content)
      BY <1>2, Steps
    <3> HIDE DEF k
    <3>4. SubSeq(content, 1, pos) \o Chunk(k) = SubSeq(content, 1, pos + k)
      BY <3>3, <1>1, ChunkFacts
    <3> QED
      BY <3>2, <3>3, <3>4 DEF k
  <2> QED
    BY <2>3, <2>4
<1>9. AtEnd'
  BY <1>3 DEF AtEnd
<1>10. InStep'
  <2>1. Matching' => Matching
    BY <1>3 DEF Matching
  <2>2. ASSUME Matching PROVE expected' = Len(content) - pos'
    <3>1. expected = Len(content) - pos /\ expected - expected' = pos' - pos
      BY <2>2, <1>1 DEF InStep
    <3> QED
      BY <3>1, <1>2, StepsAlike
  <2> QED
    BY <2>1, <2>2, <1>3 DEF InStep
<1> QED
  BY <1>5, <1>6, <1>7, <1>8, <1>9, <1>10 DEF Inv

\* A call that hands out the next n bytes.
LEMMA Delivers ==
    ASSUME Inv,
           NEW n \in Nat, n <= Len(Rest), n <= expected,
           NEW how \in Outcomes,
           pos' = pos + n, expected' = expected - n,
           hashed' = hashed \o Chunk(n),
           Return(Chunk(n), how),
           how = "eof" =>
                n = Len(Rest) /\ expected' = 0 /\ hashed' = meta.crc
    PROVE  Inv'
<1>1. /\ UNCHANGED << content, meta, lost >>
      /\ given' = given \o Chunk(n) /\ held' = held \o Chunk(n) /\ last' = how
  BY DEF Return
<1>2. /\ TypeOK /\ pos \in Nat /\ expected \in Nat /\ Len(content) \in Nat
      /\ given \in Seq(Bytes) /\ Len(given) \in Nat /\ lost \in BOOLEAN
      /\ Len(Rest) = Len(content) - pos
  BY RestFacts DEF Inv, TypeOK
<1>3. Chunk(n) \in Seq(Bytes) /\ Len(Chunk(n)) = n
  <2>1. pos + n <= Len(content)
    BY <1>2
  <2> QED
    BY <2>1, <1>2, ChunkFacts
<1>4. Chunk(n) \in Seq(Bytes \cup {Zero})
  BY <1>3, SeqMonotonic
<1>5. given' \in Seq(Bytes) /\ Len(given') = Len(given) + n
  <2>1. /\ given \o Chunk(n) \in Seq(Bytes)
        /\ Len(given \o Chunk(n)) = Len(given) + Len(Chunk(n))
    BY <1>2, <1>3, ConcatProperties, Zenon
  <2> QED
    BY <2>1, <1>1, <1>3
<1>6. /\ pos' \in pos..Len(content) /\ expected' \in 0..expected
      /\ Len(given') - Len(given) <= expected - expected'
      /\ n + expected' = expected /\ expected - expected' = pos' - pos
      /\ pos' - pos = n /\ (n = Len(Rest) => pos' = Len(content))
  BY <1>2, <1>5
<1>7. /\ Len(Chunk(n)) + expected' >= expected
      /\ Chunk(n) = Chunk(pos' - pos)
  BY <1>2, <1>3, <1>6
<1>8. last' = "eof" =>
          pos' = Len(content) /\ expected' = 0 /\ hashed' = meta.crc
  BY <1>1, <1>6
<1> QED
  BY <1>1, <1>2, <1>4, <1>5, <1>6, <1>7, <1>8, Call

\* A call that fails.
LEMMA Fails ==
    ASSUME Inv,
           NEW buffer \in Seq(Bytes \cup {Zero}), NEW missed \in BOOLEAN,
           NEW how \in Outcomes \ {"eof"},
           pos' \in pos..Len(content), expected' \in 0..expected,
           hashed' = hashed \o buffer,
           Fail(buffer, missed, how),
           ~missed =>
                /\ Len(buffer) + expected' >= expected
                /\ Len(buffer) + expected' = expected
                        => buffer = Chunk(pos' - pos),
           Matching => expected - expected' = pos' - pos
    PROVE  Inv'
<1>1. /\ UNCHANGED << content, meta, given >>
      /\ held' = held \o buffer /\ last' = how /\ lost' = (lost \/ missed)
  BY DEF Fail
<1>2. /\ given \in Seq(Bytes) /\ Len(given) \in Nat /\ lost \in BOOLEAN
      /\ expected \in Nat
  BY DEF Inv, TypeOK
<1>3. given' \in Seq(Bytes) /\ Len(given') - Len(given) <= expected - expected'
  <2>1. given' = given
    BY <1>1
  <2>2. Len(given) - Len(given) = 0
    BY <1>2
  <2>3. expected - expected' >= 0
    <3> DEFINE f == expected'
    <3>1. f \in 0..expected
      OBVIOUS
    <3> HIDE DEF f
    <3>2. expected - f >= 0
      BY <3>1, <1>2
    <3> QED
      BY <3>2 DEF f
  <2>4. Len(given') - Len(given) = 0
    BY <2>1, <2>2, Zenon
  <2> DEFINE d == expected - expected'
             g == Len(given') - Len(given)
  <2>5. d >= 0 /\ g = 0
    BY <2>3, <2>4
  <2> HIDE DEF d, g
  <2>6. g <= d
    BY <2>5
  <2>7. Len(given') - Len(given) <= expected - expected'
    BY <2>6 DEF d, g
  <2> QED
    BY <2>1, <2>7, <1>2
<1>4. lost' \in BOOLEAN /\ (lost => lost') /\ (~lost' => ~missed)
  BY <1>1, <1>2
<1>5. last' \in Outcomes /\ last' # "eof"
  BY <1>1
<1> QED
  BY <1>1, <1>3, <1>4, <1>5, Call

\* Nothing, a chunk, and a chunk with zeros behind it, as buffers.
LEMMA BufferFacts ==
    ASSUME TypeOK, NEW k \in Nat, k <= Len(Rest)
    PROVE  /\ Chunk(k) \in Seq(Bytes \cup {Zero}) /\ Len(Chunk(k)) = k
           /\ << >> \in Seq(Bytes \cup {Zero}) /\ Len(<< >>) = 0
           /\ hashed \o << >> = hashed
           /\ k <= expected =>
                /\ Padded(k) \in Seq(Bytes \cup {Zero})
                /\ Len(Padded(k)) = expected
<1>1. hashed \in Seq(Bytes \cup {Zero}) /\ pos \in Nat /\ Len(content) \in Nat
      /\ expected \in Nat
  BY DEF TypeOK
<1>2. pos + k <= Len(content)
  BY <1>1, RestFacts
<1>3. Chunk(k) \in Seq(Bytes) /\ Len(Chunk(k)) = k
  BY <1>2, ChunkFacts
<1>4. Chunk(k) \in Seq(Bytes \cup {Zero})
  BY <1>3, SeqMonotonic
<1>5. ASSUME k <= expected
      PROVE  /\ Padded(k) \in Seq(Bytes \cup {Zero})
             /\ Len(Padded(k)) = expected
  <2> DEFINE n == expected - k
             zeros == [i \in 1..n |-> Zero]
  <2>1. n \in Nat /\ k + n = expected
    BY <1>1, <1>5
  <2>2. zeros \in Seq(Bytes \cup {Zero}) /\ Len(zeros) = n
    BY <2>1
  <2> HIDE DEF zeros
  <2>3. /\ Chunk(k) \o zeros \in Seq(Bytes \cup {Zero})
        /\ Len(Chunk(k) \o zeros) = k + n
    <3>1. /\ Chunk(k) \o zeros \in Seq(Bytes \cup {Zero})
          /\ Len(Chunk(k) \o zeros) = Len(Chunk(k)) + Len(zeros)
      BY <2>2, <1>4, ConcatProperties, Zenon
    <3> QED
      BY <3>1, <2>2, <1>3
  <2> QED
    BY <2>1, <2>3 DEF Padded, zeros
<1> QED
  BY <1>1, <1>3, <1>4, <1>5, ConcatEmptySeq

-----------------------------------------------------------------------------
LEMMA InvInit == CheckerAssumption /\ Init => Inv
<1> SUFFICES ASSUME CheckerAssumption, Init PROVE Inv
  OBVIOUS
<1>1. content \in Seq(Bytes)
  <2>1. PICK n \in 0..MaxLength : content \in [1..n -> Bytes]
    BY DEF Init, Contents
  <2>2. n \in Nat
    BY <2>1, CheckerAssumption DEF CheckerAssumption
  <2> QED
    BY <2>1, <2>2, SeqDef
<1>2. meta.crc \in Seq(Bytes) /\ meta.length \in Nat
      /\ meta \in [length: Nat, crc: Seq(Bytes)]
  <2>1. PICK n \in 0..MaxLength : meta.crc \in [1..n -> Bytes]
    BY DEF Init, Contents
  <2>2. n \in Nat
    BY <2>1, CheckerAssumption DEF CheckerAssumption
  <2>3. meta.crc \in Seq(Bytes)
    BY <2>1, <2>2, SeqDef
  <2> QED
    BY <2>3, CheckerAssumption DEF Init, CheckerAssumption
<1>3. << >> \in Seq(Bytes) /\ << >> \in Seq(Bytes \cup {Zero}) /\ Len(<< >>) = 0
  OBVIOUS
<1>4. Len(content) \in Nat /\ SubSeq(content, 1, 0) = << >>
  BY <1>1, SubSeqEmpty
<1>5. TypeOK
  <2>1. pos \in 0..Len(content) /\ expected \in 0..meta.length
    BY <1>2, <1>4 DEF Init
  <2>2. /\ hashed \in Seq(Bytes \cup {Zero}) /\ given \in Seq(Bytes)
        /\ held \in Seq(Bytes \cup {Zero})
    BY <1>3 DEF Init
  <2>3. last \in Outcomes /\ lost \in BOOLEAN
    BY DEF Init, Outcomes
  <2> QED
    BY <1>1, <1>2, <2>1, <2>2, <2>3 DEF TypeOK
<1>6. Counted /\ Hashed /\ NothingMissing /\ AtEnd /\ InStep
  BY <1>2, <1>3, <1>4
  DEF Init, Counted, Hashed, NothingMissing, AtEnd, InStep, Matching
<1> QED
  BY <1>5, <1>6 DEF Inv

\* Of content that matches its metadata, what is left is what is expected.
LEMMA MatchingRest ==
    ASSUME Inv, Matching
    PROVE  expected \in Nat /\ Len(Rest) = expected
<1>1. TypeOK /\ expected = Len(content) - pos
  BY DEF Inv, InStep
<1> QED
  BY <1>1, RestFacts DEF TypeOK

LEMMA InvRead ==
    ASSUME Inv, NEW size \in Nat, ReadBytes(size)
    PROVE  Inv'
<1>1. TypeOK
  BY DEF Inv
<1>2. PICK n \in Below(size) : ReadBytes(size)!(n)
  BY DEF ReadBytes
<1>3. /\ n \in Nat /\ n <= Len(Rest)
      /\ n = 0 <=> size = 0 \/ Rest = << >>
  BY <1>2 DEF Below
<1>4. /\ pos \in Nat /\ expected \in Nat /\ Len(content) \in Nat
      /\ hashed \in Seq(Bytes \cup {Zero})
      /\ Len(Rest) \in Nat /\ Len(Rest) = Len(content) - pos
      /\ Chunk(0) = << >>
  BY <1>1, RestFacts, SubSeqEmpty DEF TypeOK, Chunk
<1>5. CASE ~BadLength(n) /\ (n = 0 => hashed = meta.crc)
             /\ ~(n = 0 /\ hashed # meta.crc)
  <2>1. n <= expected /\ (n = 0 => expected = 0)
    BY <1>3, <1>4, <1>5 DEF BadLength
  <2> DEFINE how == IF n = 0 /\ size > 0 THEN "eof" ELSE "data"
  <2>2. /\ pos' = pos + n /\ expected' = expected - n
        /\ hashed' = hashed \o Chunk(n) /\ Return(Chunk(n), how)
    BY <1>2, <1>5
  <2>3. how = "eof" =>
            n = Len(Rest) /\ expected' = 0 /\ hashed' = meta.crc
    <3> SUFFICES ASSUME n = 0, size > 0
                 PROVE  n = Len(Rest) /\ expected' = 0 /\ hashed' = meta.crc
      OBVIOUS
    <3>1. Rest = << >>
      BY <1>3
    <3>2. Len(Rest) = 0
      BY <3>1
    <3>3. hashed' = hashed
      BY <2>2, <1>4, ConcatEmptySeq
    <3> QED
      BY <3>2, <3>3, <2>1, <2>2, <1>5
  <2>4. how \in Outcomes
    BY DEF Outcomes
  <2> HIDE DEF how
  <2> QED
    BY <1>3, <2>1, <2>2, <2>3, <2>4, Delivers
<1>6. pos' \in pos..Len(content) /\ pos' - pos = n
  BY <1>2, <1>3, <1>4
<1>7. /\ << >> \in Seq(Bytes \cup {Zero}) /\ Len(<< >>) = 0
      /\ hashed \o << >> = hashed
  BY <1>1, <1>3, BufferFacts
<1>8. CASE BadLength(n) /\ Fail(<< >>, n > 0, "badLength")
             /\ UNCHANGED << expected, hashed >>
  <2> DEFINE missed == n > 0
  <2>1. /\ missed \in BOOLEAN /\ "badLength" \in Outcomes \ {"eof"}
        /\ Fail(<< >>, missed, "badLength")
    BY <1>8 DEF Outcomes
  <2>2. ~missed => n = 0
    BY <1>3
  <2>3. Matching => n = 0
    <3>1. Matching => Len(Rest) = expected
      BY MatchingRest
    <3> QED
      BY <3>1, <1>3, <1>4, <1>8 DEF BadLength
  <2>4. /\ expected' \in 0..expected /\ expected - expected' = 0
        /\ expected' = expected /\ hashed' = hashed \o << >>
    BY <1>4, <1>7, <1>8
  <2>5. Matching => expected - expected' = pos' - pos
    BY <2>3, <2>4, <1>6
  <2>6. ~missed => /\ Len(<< >>) + expected' >= expected
                   /\ << >> = Chunk(pos' - pos)
    <3>1. Len(<< >>) + expected' = 0 + expected
      BY <2>4, <1>7, Zenon
    <3>2. Len(<< >>) + expected' >= expected
      BY <3>1, <1>4, TakesLess, Zenon
    <3> QED
      BY <2>2, <3>2, <1>4, <1>6
  <2> HIDE DEF missed
  <2> QED
    BY <2>1, <2>4, <2>5, <2>6, <1>6, <1>7, Fails
<1>9. CASE n = 0 /\ Fail(<< >>, FALSE, "badCrc")
             /\ UNCHANGED << expected, hashed >>
  <2>1. FALSE \in BOOLEAN /\ "badCrc" \in Outcomes \ {"eof"}
    BY DEF Outcomes
  <2>2. expected' = expected /\ hashed' = hashed \o << >>
    BY <1>7, <1>9
  <2>3. expected' \in 0..expected /\ expected - expected' = 0
    BY <2>2, <1>4, TakesLess
  <2>4. Len(<< >>) + expected' = 0 + expected
    BY <2>2, <1>7, Zenon
  <2>5. Len(<< >>) + expected' >= expected
    BY <2>4, <1>4, TakesLess, Zenon
  <2>6. expected - expected' = pos' - pos /\ << >> = Chunk(pos' - pos)
    BY <2>3, <1>4, <1>6, <1>9
  <2> QED
    BY <2>1, <2>2, <2>3, <2>5, <2>6, <1>6, <1>7, <1>9, Fails
<1> QED
  BY <1>2, <1>5, <1>8, <1>9

LEMMA InvToEndStops ==
    ASSUME Inv, NEW k \in Nat, ReadToEndStops(k)
    PROVE  Inv'
<1>1. TypeOK
  BY DEF Inv
<1>2. /\ k < expected /\ k <= Len(Rest) /\ pos' = pos + k
      /\ expected' = expected - k
      /\ hashed' = hashed \o Padded(k)
      /\ \E how \in {"badLength", "io"} : Fail(Padded(k), FALSE, how)
  BY DEF ReadToEndStops
<1>3. /\ pos \in Nat /\ expected \in Nat /\ Len(content) \in Nat
      /\ Len(Rest) = Len(content) - pos
  BY <1>1, RestFacts DEF TypeOK
<1>4. /\ pos' \in pos..Len(content) /\ expected' \in 0..expected
      /\ expected' > 0 /\ expected - expected' = pos' - pos
  BY <1>2, <1>3
<1>5. Padded(k) \in Seq(Bytes \cup {Zero}) /\ Len(Padded(k)) = expected
  <2>1. k <= expected
    BY <1>2, <1>3
  <2> QED
    BY <2>1, <1>1, <1>2, BufferFacts
<1>6. /\ Len(Padded(k)) + expected' >= expected
      /\ Len(Padded(k)) + expected' # expected
  <2>1. expected' \in Nat /\ expected' > 0
    BY <1>3, <1>4
  <2>2. expected + expected' >= expected /\ expected + expected' # expected
    BY <2>1, <1>3, TakesLess, Zenon
  <2> QED
    BY <2>2, <1>5, Zenon
<1>7. PICK how \in {"badLength", "io"} : Fail(Padded(k), FALSE, how)
  BY <1>2
<1>8. how \in Outcomes \ {"eof"} /\ FALSE \in BOOLEAN
  BY DEF Outcomes
<1> QED
  BY <1>2, <1>4, <1>5, <1>6, <1>7, <1>8, Fails

LEMMA InvToEndFills ==
    ASSUME Inv, ReadToEndFills
    PROVE  Inv'
<1> DEFINE k == expected
<1>1. TypeOK
  BY DEF Inv
<1>2. /\ k <= Len(Rest) /\ expected' = 0 /\ hashed' = hashed \o Chunk(k)
  BY DEF ReadToEndFills
<1>3. /\ pos \in Nat /\ k \in Nat /\ k = expected /\ Len(content) \in Nat
      /\ Len(Rest) = Len(content) - pos /\ Len(Rest) \in Nat
  BY <1>1, RestFacts DEF TypeOK
<1>4. \/ /\ Len(Rest) > k /\ pos' = pos + k + 1
         /\ Fail(Chunk(k), TRUE, "badLength")
      \/ /\ pos' = pos + k
         /\ Fail(Chunk(k), FALSE, "io") \/ Fail(Chunk(k), FALSE, "badCrc")
      \/ /\ Len(Rest) = k /\ pos' = pos + k
         /\ hashed' = meta.crc /\ Return(Chunk(k), "eof")
  BY DEF ReadToEndFills
<1> HIDE DEF k
<1>5. Chunk(k) \in Seq(Bytes \cup {Zero}) /\ Len(Chunk(k)) = k
  BY <1>1, <1>2, <1>3, BufferFacts
<1>6. expected' \in 0..expected /\ expected - expected' = k
  BY <1>2, <1>3
<1>7. {"badLength", "io", "badCrc"} \subseteq Outcomes \ {"eof"}
      /\ "eof" \in Outcomes
  BY DEF Outcomes
<1>8. CASE Len(Rest) > k /\ pos' = pos + k + 1
             /\ Fail(Chunk(k), TRUE, "badLength")
  <2>1. pos' \in pos..Len(content)
    BY <1>3, <1>8
  <2>2. ~Matching
    BY <1>3, <1>8, MatchingRest
  <2> QED
    BY <2>1, <2>2, <1>2, <1>5, <1>6, <1>7, <1>8, Fails
<1>9. CASE pos' = pos + k
             /\ (Fail(Chunk(k), FALSE, "io") \/ Fail(Chunk(k), FALSE, "badCrc"))
  <2>1. /\ pos' \in pos..Len(content) /\ pos' - pos = k
        /\ expected - expected' = pos' - pos
        /\ Len(Chunk(k)) + expected' >= expected
    BY <1>2, <1>3, <1>5, <1>6, <1>9
  <2>2. Chunk(k) = Chunk(pos' - pos)
    BY <2>1
  <2> QED
    BY <2>1, <2>2, <1>2, <1>5, <1>6, <1>7, <1>9, Fails
<1>10. CASE /\ Len(Rest) = k /\ pos' = pos + k
            /\ hashed' = meta.crc /\ Return(Chunk(k), "eof")
  <2>1. expected' = expected - k /\ k <= expected
    BY <1>2, <1>3
  <2> QED
    BY <2>1, <1>2, <1>3, <1>7, <1>10, Delivers
<1> QED
  BY <1>4, <1>8, <1>9, <1>10

LEMMA InvStringStops ==
    ASSUME Inv, NEW k \in Nat, NEW n \in Nat, StringStops(k, n)
    PROVE  Inv'
<1>1. TypeOK
  BY DEF Inv
<1>2. PICK kept \in {<< >>, Chunk(k)} :
        /\ hashed' = hashed \o kept
        /\ \/ k + n > expected /\ Fail(kept, TRUE, "badLength")
           \/ /\ n = 0 /\ k = Len(Rest) /\ k < expected
              /\ Fail(kept, kept # Chunk(k), "badLength")
           \/ n = 0 /\ Fail(kept, kept # Chunk(k), "io")
  BY DEF StringStops
<1>3. /\ k <= expected /\ k + n <= Len(Rest) /\ pos' = pos + k + n
      /\ expected' = expected - k
  BY DEF StringStops
<1>4. /\ pos \in Nat /\ expected \in Nat /\ Len(content) \in Nat
      /\ Len(Rest) = Len(content) - pos
  BY <1>1, RestFacts DEF TypeOK
<1>5. /\ pos' \in pos..Len(content) /\ expected' \in 0..expected
      /\ expected - expected' = k /\ pos' - pos = k + n /\ k <= Len(Rest)
  BY <1>3, <1>4
<1>6. /\ kept \in Seq(Bytes \cup {Zero}) /\ Len(Chunk(k)) = k
  BY <1>1, <1>5, BufferFacts
<1>7. {"badLength", "io"} \subseteq Outcomes \ {"eof"}
  BY DEF Outcomes
<1>8. CASE k + n > expected /\ Fail(kept, TRUE, "badLength")
  <2>1. ~Matching
    BY <1>3, <1>4, <1>8, MatchingRest
  <2> QED
    BY <2>1, <1>2, <1>5, <1>6, <1>7, <1>8, Fails
<1>9. CASE n = 0 /\ (\/ Fail(kept, kept # Chunk(k), "badLength")
                     \/ Fail(kept, kept # Chunk(k), "io"))
  <2> DEFINE missed == kept # Chunk(k)
  <2>1. PICK how \in {"badLength", "io"} : Fail(kept, missed, how)
    BY <1>9
  <2>2. pos' - pos = k /\ expected - expected' = pos' - pos
    BY <1>5, <1>9
  <2>3. ~missed => /\ Len(kept) + expected' >= expected
                   /\ kept = Chunk(pos' - pos)
    <3>1. ~missed => kept = Chunk(k)
      OBVIOUS
    <3> HIDE DEF missed
    <3> QED
      BY <3>1, <2>2, <1>3, <1>4, <1>6
  <2>4. missed \in BOOLEAN
    OBVIOUS
  <2> HIDE DEF missed
  <2> QED
    BY <2>1, <2>2, <2>3, <2>4, <1>2, <1>5, <1>6, <1>7, Fails
<1> QED
  BY <1>2, <1>8, <1>9

LEMMA InvStringEnds ==
    ASSUME Inv, StringEnds
    PROVE  Inv'
<1> DEFINE k == expected
<1>1. TypeOK
  BY DEF Inv
<1>2. /\ pos \in Nat /\ k \in Nat /\ k = expected /\ Len(content) \in Nat
      /\ Len(Rest) = Len(content) - pos /\ Len(Rest) = k
      /\ Rest = Chunk(k)
  <2>1. Len(Rest) = expected
    BY DEF StringEnds
  <2> QED
    BY <2>1, <1>1, RestFacts DEF TypeOK
<1>3. /\ pos' = Len(content) /\ expected' = 0
      /\ \/ hashed' = hashed /\ Fail(<< >>, Chunk(k) # << >>, "io")
         \/ /\ hashed' = hashed \o Chunk(k)
            /\ \/ hashed' = meta.crc /\ Return(Chunk(k), "eof")
               \/ Fail(Chunk(k), FALSE, "badCrc")
  BY <1>2 DEF StringEnds
<1> HIDE DEF k
<1>4. /\ pos' = pos + k /\ pos' \in pos..Len(content) /\ pos' - pos = k
      /\ expected' = expected - k /\ expected' \in 0..expected
      /\ expected - expected' = pos' - pos /\ k <= expected /\ k <= Len(Rest)
  BY <1>2, <1>3
<1>5. /\ Chunk(k) \in Seq(Bytes \cup {Zero}) /\ Len(Chunk(k)) = k
      /\ << >> \in Seq(Bytes \cup {Zero}) /\ hashed \o << >> = hashed
      /\ Len(<< >>) = 0
  BY <1>1, <1>2, <1>4, BufferFacts
<1>6. {"badCrc", "io"} \subseteq Outcomes \ {"eof"} /\ "eof" \in Outcomes
  BY DEF Outcomes
<1>7. CASE hashed' = hashed /\ Fail(<< >>, Chunk(k) # << >>, "io")
  <2> DEFINE missed == Chunk(k) # << >>
  <2>1. missed \in BOOLEAN /\ Fail(<< >>, missed, "io")
    BY <1>7
  <2>2. ~missed => /\ Len(<< >>) + expected' >= expected
                   /\ << >> = Chunk(pos' - pos)
    <3>1. ~missed => Chunk(k) = << >>
      OBVIOUS
    <3> HIDE DEF missed
    <3>2. ~missed => k = 0
      BY <3>1, <1>5
    <3> QED
      BY <3>1, <3>2, <1>2, <1>4, <1>5
  <2> HIDE DEF missed
  <2>3. hashed' = hashed \o << >>
    BY <1>5, <1>7
  <2> QED
    BY <2>1, <2>2, <2>3, <1>4, <1>5, <1>6, Fails
<1>8. CASE hashed' = hashed \o Chunk(k) /\ Fail(Chunk(k), FALSE, "badCrc")
  <2>1. /\ FALSE \in BOOLEAN /\ Len(Chunk(k)) + expected' >= expected
        /\ Chunk(k) = Chunk(pos' - pos)
    BY <1>2, <1>4, <1>5
  <2> QED
    BY <2>1, <1>4, <1>5, <1>6, <1>8, Fails
<1>9. CASE /\ hashed' = hashed \o Chunk(k) /\ hashed' = meta.crc
           /\ Return(Chunk(k), "eof")
  BY <1>2, <1>3, <1>4, <1>6, <1>9, Delivers
<1> QED
  BY <1>3, <1>7, <1>8, <1>9

LEMMA InvStep == CheckerAssumption /\ Inv /\ [Next]_vars => Inv'
<1> SUFFICES ASSUME CheckerAssumption, Inv, [Next]_vars PROVE Inv'
  OBVIOUS
<1>1. expected \in Nat /\ Len(Rest) \in Nat
  BY RestFacts DEF Inv, TypeOK
<1>2. CASE FailsUntouched
  <2>1. /\ given' = given \o << >> /\ held' = held \o << >>
    BY <1>2 DEF FailsUntouched, Return
  <2>2. given' = given /\ held' = held
    BY <2>1, ConcatEmptySeq DEF Inv, TypeOK
  <2> QED
    BY <1>2, <2>2 DEF FailsUntouched, Return, Inv, TypeOK, Outcomes, Counted,
                      Hashed, NothingMissing, AtEnd, InStep, Matching
<1>3. ASSUME NEW size \in MinBuffer..MaxBuffer, ReadBytes(size) PROVE Inv'
  <2>1. size \in Nat
    BY CheckerAssumption DEF CheckerAssumption
  <2> QED
    BY <2>1, <1>3, InvRead
<1>4. CASE ReadToEnd
  BY <1>1, <1>4, InvToEndStops, InvToEndFills DEF ReadToEnd
<1>5. CASE ReadToString
  BY <1>1, <1>5, InvStringStops, InvStringEnds DEF ReadToString
<1>6. CASE UNCHANGED vars
  BY <1>6 DEF vars, Inv, TypeOK, Counted, Hashed, NothingMissing, AtEnd,
              InStep, Matching
<1> QED
  BY <1>2, <1>3, <1>4, <1>5, <1>6 DEF Next

LEMMA InvAlways == Spec => []Inv
<1>1. Init => Inv
  BY InvInit, CheckerAssumption
<1>2. Inv /\ [Next]_vars => Inv'
  BY InvStep, CheckerAssumption
<1> QED
  BY <1>1, <1>2, PTL DEF Spec

-----------------------------------------------------------------------------
\* The types of the checkers' state; `expected' never underflows.
THEOREM TypeCorrect == Spec => []TypeOK
<1>1. Inv => TypeOK
  BY DEF Inv
<1> QED
  BY <1>1, InvAlways, PTL

\* Whoever is told that the content ended holds bytes with the CRC of the
\* metadata, after any failed calls; when no byte was lost by one, nothing is
\* missing, and what has the announced length is the content.
THEOREM EofIsVerified == Spec => []VerifiedAtEof
<1>1. Inv => VerifiedAtEof
  <2> SUFFICES ASSUME Inv, last = "eof"
               PROVE  /\ held = meta.crc
                      /\ ~lost => Len(held) >= meta.length
                      /\ ~lost /\ Len(held) <= meta.length => held = content
    BY DEF VerifiedAtEof
  <2>1. /\ pos = Len(content) /\ expected = 0 /\ held = meta.crc
    BY DEF Inv, AtEnd, Hashed
  <2>2. content \in Seq(Bytes) /\ meta.length \in Nat /\ Len(held) \in Nat
    BY DEF Inv, TypeOK
  <2>3. ~lost => /\ Len(held) >= meta.length
                 /\ Len(held) = meta.length
                        => held = SubSeq(content, 1, Len(content))
    BY <2>1, <2>2 DEF Inv, NothingMissing
  <2>4. SubSeq(content, 1, Len(content)) = content
    <3> DEFINE s == SubSeq(content, 1, Len(content))
    <3>1. /\ s \in Seq(Bytes) /\ Len(s) = Len(content)
          /\ \A i \in 1..Len(content) : s[i] = content[i]
      BY <2>2, SubSeqProperties
    <3> HIDE DEF s
    <3>2. s = content
      BY <3>1, <2>2, SeqEqual
    <3> QED
      BY <3>2 DEF s
  <2> QED
    BY <2>1, <2>2, <2>3, <2>4
<1> QED
  BY <1>1, InvAlways, PTL

\* No caller gets more bytes than the metadata announces.
THEOREM NeverMoreThanAnnounced == Spec => []NeverTooMuch
<1>1. Inv => NeverTooMuch
  <2> SUFFICES ASSUME Inv PROVE Len(given) <= meta.length
    BY DEF NeverTooMuch
  <2>1. Len(given) <= meta.length - expected
    BY DEF Inv, Counted
  <2>2. Len(given) \in Nat /\ meta.length \in Nat /\ expected \in Nat
    BY DEF Inv, TypeOK
  <2> QED
    BY <2>1, <2>2
<1> QED
  BY <1>1, InvAlways, PTL

(***************************************************************************)
(* No false alarm.                                                         *)
(***************************************************************************)
\* A call on such content never finds the length wrong, and the CRC only when
\* the buffers do not hold it.
LEMMA PassesStep ==
    ASSUME MinBuffer > 0, CheckerAssumption, Inv, Next, Matching
    PROVE  last' # "badLength" /\ (last' = "badCrc" => held' # content)
<1> DEFINE Passes == /\ last' # "badLength"
                     /\ last' = "badCrc" => held' # content
<1>1. /\ expected \in Nat /\ Len(Rest) = expected
      /\ meta.crc = content /\ hashed = held
  BY MatchingRest DEF Inv, Hashed, Matching
<1>2. CASE FailsUntouched
  BY <1>2 DEF FailsUntouched, Return
<1>3. ASSUME NEW size \in MinBuffer..MaxBuffer, ReadBytes(size) PROVE Passes
  <2>1. size \in Nat /\ size > 0
    BY CheckerAssumption DEF CheckerAssumption
  <2>2. PICK n \in Below(size) :
           \/ BadLength(n)
           \/ n = 0 /\ hashed # meta.crc /\ Fail(<< >>, FALSE, "badCrc")
           \/ Return(Chunk(n), IF n = 0 /\ size > 0 THEN "eof" ELSE "data")
    BY <1>3 DEF ReadBytes
  <2>3. ~BadLength(n)
    <3>1. n \in Nat /\ n <= Len(Rest) /\ (n = 0 => Rest = << >>)
      BY <2>1, <2>2 DEF Below
    <3> QED
      BY <1>1, <3>1 DEF BadLength
  <2>4. ASSUME hashed # meta.crc, Fail(<< >>, FALSE, "badCrc") PROVE Passes
    <3>1. held' = held
      BY <2>4, ConcatEmptySeq DEF Fail, Inv, TypeOK
    <3> QED
      BY <3>1, <1>1, <2>4 DEF Fail
  <2> QED
    BY <2>2, <2>3, <2>4 DEF Return
<1>4. ASSUME NEW k \in 0..expected, ReadToEndStops(k) PROVE Passes
  BY <1>1, <1>4 DEF ReadToEndStops, Fail
<1>5. CASE ReadToEndFills
  <2>1. \/ Fail(Chunk(expected), FALSE, "io") \/ Return(Chunk(expected), "eof")
        \/ hashed' # meta.crc /\ Fail(Chunk(expected), FALSE, "badCrc")
    <3>1. ~(Len(Rest) > expected)
      BY <1>1
    <3> QED
      BY <3>1, <1>5, Zenon DEF ReadToEndFills
  <2>2. hashed' = held \o Chunk(expected)
    BY <1>1, <1>5 DEF ReadToEndFills
  <2> QED
    BY <1>1, <2>1, <2>2 DEF Fail, Return
<1>6. ASSUME NEW k \in 0..Len(Rest), NEW n \in 0..Len(Rest), StringStops(k, n)
      PROVE  Passes
  <2>1. /\ k <= expected /\ k + n <= Len(Rest)
        /\ \E kept \in {<< >>, Chunk(k)} :
              \/ k + n > expected
              \/ k = Len(Rest) /\ k < expected
              \/ Fail(kept, kept # Chunk(k), "io")
    BY <1>6 DEF StringStops
  <2>2. ~(k + n > expected) /\ ~(k = Len(Rest) /\ k < expected)
    BY <1>1, <2>1
  <2> QED
    BY <2>1, <2>2 DEF Fail
<1>7. CASE StringEnds
  <2>1. \/ Fail(<< >>, Rest # << >>, "io") \/ Return(Rest, "eof")
        \/ hashed' = held \o Rest /\ hashed' # meta.crc
             /\ Fail(Rest, FALSE, "badCrc")
    BY <1>1, <1>7 DEF StringEnds
  <2> QED
    BY <1>1, <2>1 DEF Fail, Return
<1> QED
  BY <1>2, <1>3, <1>4, <1>5, <1>6, <1>7 DEF Next, ReadToEnd, ReadToString

\* Content that matches its metadata is never found too short or too long,
\* whatever fails and is repeated, as long as no buffer is empty; and its CRC
\* is found wrong only when the caller does not hold it.
THEOREM MatchingContentPasses == MinBuffer > 0 => (Spec => NoFalseAlarm)
<1> SUFFICES ASSUME MinBuffer > 0 PROVE Spec => NoFalseAlarm
  OBVIOUS
<1> DEFINE Quiet ==
        content = meta.crc /\ Len(content) = meta.length =>
            /\ last' # "badLength"
            /\ last' = "badCrc" => held' # content
<1>1. Inv /\ [Next]_vars => [Quiet]_vars
  BY PassesStep, CheckerAssumption DEF Matching
<1>2. Spec => []Inv
  BY InvAlways
<1> QED
  BY <1>1, <1>2, PTL DEF Spec, NoFalseAlarm

(***************************************************************************)
(* Writing several buffers with one call.                                  *)
(***************************************************************************)
\* The number of bytes in the first k buffers.
Before(slices, k) == Total(SubSeq(slices, 1, k))

LEMMA BeforeFacts ==
    ASSUME NEW S, NEW slices \in Seq(Seq(S))
    PROVE  /\ Before(slices, 0) = 0
           /\ Before(slices, Len(slices)) = Total(slices)
           /\ Total(slices) \in Nat
           /\ \A k \in 0..Len(slices) :
                 /\ Before(slices, k) \in Nat
                 /\ Before(slices, k) <= Total(slices)
           /\ \A k \in 1..Len(slices) :
                 /\ FlattenSeq(SubSeq(slices, 1, k))
                      = FlattenSeq(SubSeq(slices, 1, k - 1)) \o slices[k]
                 /\ Before(slices, k)
                      = Before(slices, k - 1) + Len(slices[k])
<1>1. SubSeq(slices, 1, 0) = << >> /\ SubSeq(slices, 1, Len(slices)) = slices
  OBVIOUS
<1>2. \A k \in 0..Len(slices) :
         /\ SubSeq(slices, 1, k) \in Seq(Seq(S))
         /\ SubSeq(slices, k + 1, Len(slices)) \in Seq(Seq(S))
  OBVIOUS
<1>3. FlattenSeq(slices) \in Seq(S) /\ Total(slices) \in Nat
  BY FlattenType DEF Total
<1>4. ASSUME NEW k \in 0..Len(slices)
      PROVE  /\ FlattenSeq(SubSeq(slices, 1, k)) \in Seq(S)
             /\ Before(slices, k) \in Nat
             /\ Before(slices, k) <= Total(slices)
  <2> DEFINE a == FlattenSeq(SubSeq(slices, 1, k))
             b == FlattenSeq(SubSeq(slices, k + 1, Len(slices)))
  <2>1. a \in Seq(S) /\ b \in Seq(S)
    BY <1>2, FlattenType
  <2>2. FlattenSeq(slices) = a \o b
    BY FlattenCut
  <2>3. Before(slices, k) = Len(a)
    BY DEF Before, Total
  <2> HIDE DEF a, b
  <2>4. Len(a \o b) = Len(a) + Len(b) /\ Len(a) \in Nat /\ Len(b) \in Nat
    BY <2>1
  <2> QED
    BY <2>1, <2>2, <2>3, <2>4 DEF Total, a
<1>5. ASSUME NEW k \in 1..Len(slices)
      PROVE  /\ FlattenSeq(SubSeq(slices, 1, k))
                  = FlattenSeq(SubSeq(slices, 1, k - 1)) \o slices[k]
             /\ Before(slices, k) = Before(slices, k - 1) + Len(slices[k])
  <2> DEFINE a == SubSeq(slices, 1, k - 1)
  <2>1. /\ k - 1 \in 0..Len(slices) /\ slices[k] \in Seq(S)
        /\ SubSeq(slices, 1, k) = Append(a, slices[k])
    OBVIOUS
  <2>2. a \in Seq(Seq(S)) /\ FlattenSeq(a) \in Seq(S)
    BY <1>2, <1>4, <2>1
  <2>3. Before(slices, k - 1) = Len(FlattenSeq(a))
    BY DEF Before, Total
  <2> HIDE DEF a
  <2>4. FlattenSeq(Append(a, slices[k])) = FlattenSeq(a) \o slices[k]
    BY <2>1, <2>2, FlattenAppend
  <2>5. Len(FlattenSeq(a) \o slices[k])
          = Len(FlattenSeq(a)) + Len(slices[k])
    BY <2>1, <2>2
  <2> QED
    BY <2>1, <2>3, <2>4, <2>5 DEF Before, Total, a
<1>6. Before(slices, 0) = 0
  <2>1. FlattenSeq(SubSeq(slices, 1, 0)) = << >>
    BY <1>1, FlattenEmpty
  <2>2. Len(<< >>) = 0
    OBVIOUS
  <2> QED
    BY <2>1, <2>2 DEF Before, Total
<1>7. Before(slices, Len(slices)) = Total(slices)
  BY <1>1 DEF Before
<1> QED
  BY <1>3, <1>4, <1>5, <1>6, <1>7

\* What follows u and the first c bytes of v.
Behind(u, v, w, c) == SubSeq(u \o (v \o w), Len(u) + c + 1,
                             Len(u \o (v \o w)))

\* Cutting the front of a sequence in the middle of its second part...
LEMMA CutInside ==
    ASSUME NEW S, NEW u \in Seq(S), NEW v \in Seq(S), NEW w \in Seq(S),
           NEW c \in 0..Len(v)
    PROVE  Behind(u, v, w, c) = SubSeq(v, c + 1, Len(v)) \o w
<1> DEFINE whole == u \o (v \o w)
           l == SubSeq(whole, Len(u) + c + 1, Len(whole))
           r == SubSeq(v, c + 1, Len(v)) \o w
<1>1. /\ v \o w \in Seq(S) /\ Len(v \o w) = Len(v) + Len(w)
      /\ \A k \in 1..Len(v) : (v \o w)[k] = v[k]
      /\ \A k \in 1..Len(w) : (v \o w)[Len(v) + k] = w[k]
  OBVIOUS
<1>2. /\ whole \in Seq(S) /\ Len(whole) = Len(u) + Len(v) + Len(w)
      /\ \A k \in 1..(Len(v) + Len(w)) : whole[Len(u) + k] = (v \o w)[k]
  BY <1>1
<1>3. /\ Len(u) \in Nat /\ Len(v) \in Nat /\ Len(w) \in Nat
      /\ c \in Nat /\ c <= Len(v)
  OBVIOUS
<1> HIDE DEF whole
<1>4. /\ l \in Seq(S) /\ Len(l) = Len(v) - c + Len(w)
      /\ \A k \in 1..(Len(v) - c + Len(w)) : l[k] = whole[Len(u) + (c + k)]
  <2> DEFINE m == Len(u) + c + 1
             n == Len(whole)
  <2>1. /\ m \in 1..(n + 1) /\ n \in Nat /\ n - m + 1 = Len(v) - c + Len(w)
        /\ \A k \in 1..(Len(v) - c + Len(w)) :
              m + k - 1 = Len(u) + (c + k)
    BY <1>2, <1>3
  <2>2. /\ m \in Int /\ n \in Int
        /\ \A i \in m..n : whole[i] \in S
        /\ (IF m <= n THEN n - m + 1 ELSE 0) = n - m + 1
    <3>1. m \in Nat /\ m >= 1 /\ n \in Nat /\ m <= n + 1
      BY <1>3, <2>1
    <3>2. \A i \in 1..n : whole[i] \in S
      BY <1>2
    <3> HIDE DEF m, n
    <3>3. \A i \in m..n : i \in 1..n
      BY <3>1
    <3> QED
      BY <3>1, <3>2, <3>3
  <2> HIDE DEF m, n
  <2>3. /\ SubSeq(whole, m, n) \in Seq(S)
        /\ Len(SubSeq(whole, m, n)) = n - m + 1
        /\ \A k \in 1..(n - m + 1) :
              SubSeq(whole, m, n)[k] = whole[m + k - 1]
    BY <2>2, SubSeqProperties
  <2> QED
    BY <2>1, <2>3 DEF m, n
<1>5. /\ SubSeq(v, c + 1, Len(v)) \in Seq(S)
      /\ Len(SubSeq(v, c + 1, Len(v))) = Len(v) - c
      /\ \A k \in 1..(Len(v) - c) : SubSeq(v, c + 1, Len(v))[k] = v[c + k]
  BY <1>3
<1>6. /\ r \in Seq(S) /\ Len(r) = Len(v) - c + Len(w)
      /\ \A k \in 1..(Len(v) - c) : r[k] = v[c + k]
      /\ \A k \in 1..Len(w) : r[Len(v) - c + k] = w[k]
  <2> DEFINE x == SubSeq(v, c + 1, Len(v))
  <2> HIDE DEF x
  <2>1. /\ x \in Seq(S) /\ Len(x) = Len(v) - c
        /\ \A k \in 1..(Len(v) - c) : x[k] = v[c + k]
    BY <1>5 DEF x
  <2>2. /\ x \o w \in Seq(S) /\ Len(x \o w) = Len(x) + Len(w)
        /\ \A k \in 1..Len(x) : (x \o w)[k] = x[k]
        /\ \A k \in 1..Len(w) : (x \o w)[Len(x) + k] = w[k]
    <3>1. x \in Seq(S) /\ w \in Seq(S)
      BY <2>1
    <3> HIDE DEF whole, l, r
    <3> QED
      BY ONLY <3>1
  <2> QED
    BY <2>1, <2>2 DEF x
<1> HIDE DEF l, r
<1>7. ASSUME NEW k \in 1..Len(l) PROVE l[k] = r[k]
  <2>1. CASE k <= Len(v) - c
    <3>1. c + k \in 1..Len(v) /\ k \in 1..(Len(v) - c)
          /\ c + k \in 1..(Len(v) + Len(w))
      BY <1>3, <1>4, <2>1
    <3> QED
      BY <1>1, <1>2, <1>4, <1>6, <3>1
  <2>2. CASE k > Len(v) - c
    <3> DEFINE j == k - (Len(v) - c)
    <3>1. /\ j \in 1..Len(w) /\ k = Len(v) - c + j /\ c + k = Len(v) + j
          /\ c + k \in 1..(Len(v) + Len(w))
      BY <1>3, <1>4, <2>2
    <3> HIDE DEF j
    <3> QED
      BY <1>1, <1>2, <1>4, <1>6, <3>1
  <2> QED
    BY <1>3, <1>4, <2>1, <2>2
<1>8. Len(l) = Len(r)
  BY <1>4, <1>6
<1>9. l = r
  BY <1>4, <1>6, <1>7, <1>8, SeqEqual
<1> QED
  BY <1>9 DEF l, r, whole, Behind

\* ... and its end.
LEMMA CutEnd ==
    ASSUME NEW S, NEW u \in Seq(S), NEW v \in Seq(S),
           NEW c \in 0..(Len(u) + Len(v))
    PROVE  SubSeq(u \o v, 1, c) = IF c <= Len(u) THEN SubSeq(u, 1, c)
                                  ELSE u \o SubSeq(v, 1, c - Len(u))
<1>1. /\ u \o v \in Seq(S) /\ Len(u \o v) = Len(u) + Len(v)
      /\ \A k \in 1..Len(u) : (u \o v)[k] = u[k]
      /\ \A k \in 1..Len(v) : (u \o v)[Len(u) + k] = v[k]
      /\ Len(u) \in Nat /\ Len(v) \in Nat
  OBVIOUS
<1> DEFINE l == SubSeq(u \o v, 1, c)
<1>2. /\ l \in Seq(S) /\ Len(l) = c
      /\ \A k \in 1..c : l[k] = (u \o v)[k]
  BY <1>1
<1>3. CASE c <= Len(u)
  <2> DEFINE r == SubSeq(u, 1, c)
  <2>1. /\ r \in Seq(S) /\ Len(r) = c
        /\ \A k \in 1..c : r[k] = u[k] /\ k \in 1..Len(u)
    BY <1>1, <1>3
  <2> HIDE DEF l, r
  <2>2. \A k \in 1..Len(l) : l[k] = r[k]
    BY <1>1, <1>2, <2>1
  <2>3. l = r
    BY <1>2, <2>1, <2>2, SeqEqual
  <2> QED
    BY <1>3, <2>3 DEF l, r
<1>4. CASE c > Len(u)
  <2> DEFINE x == SubSeq(v, 1, c - Len(u))
             r == u \o x
  <2>1. /\ x \in Seq(S) /\ Len(x) = c - Len(u)
        /\ \A k \in 1..(c - Len(u)) : x[k] = v[k] /\ k \in 1..Len(v)
    BY <1>1, <1>4
  <2> HIDE DEF x
  <2>2. /\ r \in Seq(S) /\ Len(r) = Len(u) + Len(x)
        /\ \A k \in 1..Len(u) : r[k] = u[k]
        /\ \A k \in 1..Len(x) : r[Len(u) + k] = x[k]
    BY <2>1
  <2> HIDE DEF l, r
  <2>3. ASSUME NEW k \in 1..Len(l) PROVE l[k] = r[k]
    <3>1. CASE k <= Len(u)
      <4>1. k \in 1..Len(u) /\ k \in 1..c
        BY <1>1, <1>2, <3>1
      <4> QED
        BY <1>1, <1>2, <2>2, <4>1
    <3>2. CASE k > Len(u)
      <4> DEFINE j == k - Len(u)
      <4>1. j \in 1..(c - Len(u)) /\ k = Len(u) + j /\ k \in 1..c
        BY <1>1, <1>2, <3>2
      <4> HIDE DEF j
      <4> QED
        BY <1>1, <1>2, <2>1, <2>2, <4>1
    <3> QED
      BY <1>1, <1>2, <3>1, <3>2
  <2>4. Len(l) = Len(r)
    BY <1>1, <1>2, <2>1, <2>2
  <2>5. l = r
    BY <1>2, <2>2, <2>3, <2>4, SeqEqual
  <2> QED
    BY <1>1, <1>4, <2>5 DEF l, r, x
<1> QED
  BY <1>1, <1>3, <1>4

\* advance_slices drops the bytes that were taken, and no others; what it
\* leaves is nothing at all, or holds a byte.
LEMMA AdvanceFacts ==
    ASSUME NEW S, NEW slices \in Seq(Seq(S)), NEW n \in 0..Total(slices)
    PROVE  /\ Advance(slices, n) \in Seq(Seq(S))
           /\ FlattenSeq(Advance(slices, n))
                = SubSeq(FlattenSeq(slices), n + 1, Total(slices))
           /\ Advance(slices, n) # << >> => Total(Advance(slices, n)) > 0
<1> DEFINE T == {j \in 0..Len(slices) : Before(slices, j) <= n}
           done == Max(T)
           rest == SubSeq(slices, done + 1, Len(slices))
           cut == n - Before(slices, done)
           A == [k \in DOMAIN rest |->
                    IF k = 1 THEN SubSeq(rest[1], cut + 1, Len(rest[1]))
                    ELSE rest[k]]
<1>1. Advance(slices, n) = A
  BY DEF Advance, Before
<1>2. /\ Total(slices) \in Nat /\ n \in Nat /\ n <= Total(slices)
      /\ Len(slices) \in Nat /\ FlattenSeq(slices) \in Seq(S)
  <2>1. Total(slices) \in Nat
    BY BeforeFacts
  <2>2. FlattenSeq(slices) \in Seq(S)
    BY FlattenType
  <2> QED
    BY <2>1, <2>2
<1>3. done \in T /\ \A j \in T : j <= done
  <2>0. Before(slices, 0) = 0
    BY BeforeFacts
  <2>1. T \in SUBSET (0..Len(slices)) /\ 0 \in T
    BY <1>2, <2>0
  <2> HIDE DEF T
  <2> QED
    BY <1>2, <2>1, Largest
<1>4. /\ done \in 0..Len(slices) /\ Before(slices, done) <= n
      /\ \A j \in 0..Len(slices) : Before(slices, j) <= n => j <= done
  BY <1>3
<1>5. CASE done = Len(slices)
  <2>1. rest = << >>
    <3> HIDE DEF done
    <3> QED
      BY <1>2, <1>5, SubSeqEmpty
  <2>2. A = << >>
    <3> HIDE DEF rest, cut
    <3>1. DOMAIN rest = {}
      BY <2>1
    <3> QED
      BY <3>1
  <2>3. n = Total(slices)
    <3>1. Before(slices, Len(slices)) = Total(slices)
      BY BeforeFacts
    <3>2. Before(slices, Len(slices)) <= n
      BY <1>4, <1>5
    <3> QED
      BY <1>2, <3>1, <3>2
  <2>4. SubSeq(FlattenSeq(slices), n + 1, Total(slices)) = << >>
    BY <1>2, <2>3
  <2> HIDE DEF A
  <2>5. << >> \in Seq(Seq(S))
    OBVIOUS
  <2> QED
    BY <1>1, <2>2, <2>4, <2>5, FlattenEmpty
<1>6. CASE done # Len(slices)
  <2> DEFINE b == slices[done + 1]
             front == SubSeq(slices, 1, done)
             tail == SubSeq(slices, done + 2, Len(slices))
             u == FlattenSeq(front)
             w == FlattenSeq(tail)
             x == SubSeq(b, cut + 1, Len(b))
  <2>1. /\ done \in Nat /\ done + 1 \in 1..Len(slices)
        /\ b \in Seq(S) /\ Len(b) \in Nat
        /\ front \in Seq(Seq(S)) /\ tail \in Seq(Seq(S))
    <3> HIDE DEF done
    <3> QED
      BY <1>2, <1>4, <1>6
  <2>2. /\ u \in Seq(S) /\ w \in Seq(S) /\ Len(u) = Before(slices, done)
    BY <2>1, FlattenType DEF Before, Total
  <2>3. /\ Before(slices, done + 1) = Before(slices, done) + Len(b)
        /\ FlattenSeq(SubSeq(slices, 1, done + 1)) = u \o b
    <3> DEFINE j == done + 1
    <3>1. j \in 1..Len(slices) /\ j - 1 = done
      BY <2>1
    <3> HIDE DEF j, done
    <3> QED
      BY <3>1, BeforeFacts DEF j
  <2>4. /\ cut \in 0..Len(b) /\ cut < Len(b) /\ cut \in Int
        /\ n = Len(u) + cut
    <3>1. ~(Before(slices, done + 1) <= n)
      <4>1. done + 1 \in 0..Len(slices) /\ ~(done + 1 <= done)
        BY <2>1
      <4> QED
        BY <1>4, <4>1
    <3>2. Before(slices, done) \in Nat
      BY <1>4, BeforeFacts
    <3>3. Before(slices, done) <= n /\ Before(slices, done + 1) \in Int
      BY <1>4, <2>1, <2>3, <3>2
    <3> DEFINE p == Before(slices, done)
               q == Before(slices, done + 1)
               l == Len(b)
    <3>4. /\ p \in Nat /\ l \in Nat /\ n \in Nat /\ q = p + l
          /\ p <= n /\ ~(q <= n) /\ cut = n - p /\ Len(u) = p
      BY <1>2, <2>1, <2>2, <2>3, <3>1, <3>2, <3>3, Zenon
    <3> HIDE DEF p, q, l, done, cut
    <3>5. /\ cut \in 0..l /\ cut < l /\ cut \in Int
          /\ n = p + cut
      BY <3>4
    <3> QED
      BY <3>4, <3>5, Zenon DEF l
  <2>5. FlattenSeq(slices) = u \o (b \o w)
    <3> DEFINE k == done + 1
    <3>1. k \in 0..Len(slices) /\ k + 1 = done + 2
      BY <2>1
    <3> HIDE DEF k
    <3>2. FlattenSeq(slices)
            = FlattenSeq(SubSeq(slices, 1, k))
                \o FlattenSeq(SubSeq(slices, k + 1, Len(slices)))
      BY <3>1, FlattenCut
    <3>3. FlattenSeq(slices) = (u \o b) \o w
      BY <2>3, <3>1, <3>2 DEF k
    <3>4. u \in Seq(S) /\ b \in Seq(S) /\ w \in Seq(S)
      BY <2>1, <2>2
    <3> HIDE DEF u, b, w
    <3> QED
      BY ONLY <3>3, <3>4
  <2>6. x \in Seq(S) /\ Len(x) = Len(b) - cut
    <3>1. b \in Seq(S) /\ cut \in 0..Len(b)
      BY <2>1, <2>4
    <3> HIDE DEF b, cut
    <3> QED
      BY ONLY <3>1
  <2>7. A = << x >> \o tail
    <3> HIDE DEF cut
    <3> DEFINE m == Len(slices) - done
    <3>1. /\ m \in Nat /\ m >= 1 /\ rest \in Seq(Seq(S)) /\ Len(rest) = m
          /\ rest[1] = b
          /\ \A k \in 1..m : rest[k] = slices[done + k]
      <4>1. /\ done \in Nat /\ done + 1 \in 1..Len(slices) /\ m \in Nat
            /\ m >= 1 /\ done + 1 + m - 1 = Len(slices)
        <5>1. done \in Nat /\ done + 1 \in 1..Len(slices)
          BY <2>1
        <5> HIDE DEF done
        <5> QED
          BY <1>2, <5>1
      <4> HIDE DEF done
      <4>2. /\ rest \in Seq(Seq(S)) /\ Len(rest) = m
            /\ \A k \in 1..m : rest[k] = slices[done + 1 + k - 1]
        BY <4>1
      <4>3. \A k \in 1..m : done + 1 + k - 1 = done + k
        BY <4>1
      <4> HIDE DEF rest
      <4>4. \A k \in 1..m : rest[k] = slices[done + k]
        BY <4>2, <4>3
      <4>5. 1 \in 1..m
        BY <4>1
      <4> QED
        BY <4>1, <4>2, <4>4, <4>5
    <3>2. /\ A \in Seq(Seq(S)) /\ Len(A) = m /\ A[1] = x
          /\ \A k \in 1..m : k # 1 => A[k] = slices[done + k]
      <4> HIDE DEF rest
      <4>1. DOMAIN rest = 1..m
        BY <3>1
      <4>2. \A k \in 1..m : rest[k] \in Seq(S)
        BY <3>1
      <4>3. A = [k \in 1..m |-> IF k = 1 THEN x ELSE rest[k]]
        BY <3>1, <4>1
      <4> HIDE DEF A, x, m, done
      <4>4. \A k \in 1..m : A[k] \in Seq(S)
        BY <2>6, <4>2, <4>3
      <4> QED
        BY <3>1, <4>3, <4>4
    <3>3. /\ Len(tail) = m - 1
          /\ \A k \in 1..(m - 1) : tail[k] = slices[done + 1 + k]
      <4> HIDE DEF done
      <4>1. done \in Nat /\ done < Len(slices)
        BY <1>2, <1>4, <1>6, <2>1
      <4> QED
        BY <1>2, <4>1
    <3> DEFINE r == << x >> \o tail
    <3>4. /\ r \in Seq(Seq(S)) /\ Len(r) = m /\ r[1] = x
          /\ \A k \in 1..m : k # 1 => r[k] = tail[k - 1]
      <4> HIDE DEF x, tail, m
      <4> QED
        BY <2>1, <2>6, <3>1, <3>3
    <3> HIDE DEF A, r, tail, m, x
    <3>5. \A k \in 1..m : A[k] = r[k]
      <4> SUFFICES ASSUME NEW k \in 1..m PROVE A[k] = r[k]
        OBVIOUS
      <4>1. CASE k = 1
        BY <3>2, <3>4, <4>1
      <4>2. CASE k # 1
        <5>1. k - 1 \in 1..(m - 1) /\ done + 1 + (k - 1) = done + k
          <6> HIDE DEF done
          <6> QED
            BY <2>1, <3>1, <4>2
        <5> HIDE DEF done
        <5> QED
          BY <3>2, <3>3, <3>4, <4>2, <5>1
      <4> QED
        BY <4>1, <4>2
    <3>6. A = r
      BY <3>2, <3>4, <3>5, SeqEqual
    <3> QED
      BY <3>6 DEF r
  <2>8. FlattenSeq(A) = x \o w /\ A \in Seq(Seq(S)) /\ A # << >>
    <3>1. << x >> \in Seq(Seq(S))
      BY <2>6
    <3>2. FlattenSeq(<< x >> \o tail) = FlattenSeq(<< x >>) \o w
      <4> HIDE DEF x, tail
      <4> QED
        BY <2>1, <3>1, FlattenConcat DEF tail
    <3>3. FlattenSeq(<< x >>) = x
      BY <2>6, FlattenOne
    <3>4. << x >> \o tail \in Seq(Seq(S)) /\ << x >> \o tail # << >>
      <4> HIDE DEF x, tail
      <4> QED
        BY <2>1, <2>6, <3>1
    <3> QED
      BY <2>7, <3>2, <3>3, <3>4
  <2>9. SubSeq(FlattenSeq(slices), n + 1, Total(slices)) = x \o w
    <3>0. /\ u \in Seq(S) /\ b \in Seq(S) /\ w \in Seq(S)
          /\ cut \in 0..Len(b)
      BY <2>1, <2>2, <2>4
    <3> HIDE DEF u, b, w, cut
    <3>1. Behind(u, b, w, cut) = SubSeq(b, cut + 1, Len(b)) \o w
      BY <3>0, CutInside
    <3> QED
      BY <2>4, <2>5, <3>1 DEF Total, Behind, x
  <2>10. Len(x \o w) > 0
    <3>1. x \in Seq(S) /\ w \in Seq(S)
      BY <2>2, <2>6
    <3> HIDE DEF x, w, b, cut
    <3>2. Len(x \o w) = Len(x) + Len(w) /\ Len(w) \in Nat
      BY ONLY <3>1
    <3>3. Len(x) = Len(b) - cut /\ Len(b) \in Nat /\ cut < Len(b)
      BY <2>1, <2>4, <2>6
    <3>4. cut \in Int
      BY <2>4
    <3>5. Len(x) > 0 /\ Len(x) \in Int
      BY ONLY <3>3, <3>4
    <3> QED
      BY ONLY <3>2, <3>5
  <2> QED
    BY <1>1, <2>8, <2>9, <2>10 DEF Total
<1> QED
  BY <1>5, <1>6

\* What is left of n after k buffers, without the loop.
LEMMA LeftIs ==
    ASSUME NEW S, NEW slices \in Seq(Seq(S)), NEW n \in 0..Total(slices)
    PROVE  \A k \in 0..Len(slices) :
              Left(slices, n)[k] = IF Before(slices, k) <= n
                                   THEN n - Before(slices, k) ELSE 0
<1> DEFINE m == Len(slices)
           F == [k \in 0..m |-> IF Before(slices, k) <= n
                                THEN n - Before(slices, k) ELSE 0]
           Turn(g) == [k \in 0..m |->
                          IF k = 0 THEN n
                          ELSE g[k - 1] - Smaller(g[k - 1], Len(slices[k]))]
           L == Left(slices, n)
<1>1. /\ m \in Nat /\ n \in Nat /\ n <= Total(slices)
      /\ \A k \in 1..m : Len(slices[k]) \in Nat
  <2>1. Total(slices) \in Nat
    BY BeforeFacts
  <2>2. \A k \in 1..m : slices[k] \in Seq(S)
    OBVIOUS
  <2> QED
    BY <2>1, <2>2
<1>2. /\ Before(slices, 0) = 0
      /\ \A k \in 0..m : Before(slices, k) \in Nat
      /\ \A k \in 1..m :
            Before(slices, k) = Before(slices, k - 1) + Len(slices[k])
  <2>1. Before(slices, 0) = 0
    BY BeforeFacts
  <2>2. \A k \in 0..m : Before(slices, k) \in Nat
    BY BeforeFacts
  <2>3. \A k \in 1..m :
           Before(slices, k) = Before(slices, k - 1) + Len(slices[k])
    BY BeforeFacts
  <2> QED
    BY <2>1, <2>2, <2>3
<1> HIDE DEF m
<1>3. ASSUME NEW k \in 1..m
      PROVE  F[k] = F[k - 1] - Smaller(F[k - 1], Len(slices[k]))
  <2> DEFINE p == Before(slices, k - 1)
             d == Len(slices[k])
  <2>1. /\ k \in 0..m /\ k - 1 \in 0..m
    BY <1>1
  <2>2. /\ p \in Nat /\ d \in Nat /\ Before(slices, k) = p + d
    BY <1>1, <1>2, <2>1
  <2>3. /\ F[k] = (IF p + d <= n THEN n - (p + d) ELSE 0)
        /\ F[k - 1] = (IF p <= n THEN n - p ELSE 0)
    BY <2>1, <2>2
  <2> DEFINE f == F[k]
             g == F[k - 1]
  <2> HIDE DEF p, d, F, f, g
  <2>4. f = g - Smaller(g, d)
    <3>1. /\ f = (IF p + d <= n THEN n - (p + d) ELSE 0)
          /\ g = (IF p <= n THEN n - p ELSE 0)
      BY <2>3 DEF f, g
    <3>2. n \in Nat /\ p \in Nat /\ d \in Nat
      BY <1>1, <2>2
    <3> QED
      BY ONLY <3>1, <3>2 DEF Smaller
  <2> QED
    BY <2>4 DEF f, g, d
<1>4. F = Turn(F)
  <2>1. F[0] = n
    BY <1>1, <1>2
  <2>2. \A k \in 0..m : Turn(F)[k] = F[k]
    <3> HIDE DEF F
    <3> QED
      BY <1>1, <1>3, <2>1
  <2>3. F = [k \in 0..m |-> F[k]] /\ Turn(F) = [k \in 0..m |-> Turn(F)[k]]
    OBVIOUS
  <2> HIDE DEF F, Turn
  <2> QED
    BY <2>2, <2>3
<1>5. L = Turn(L)
  <2>1. L = CHOOSE g : g = Turn(g)
    BY DEF Left, m
  <2> HIDE DEF F, L, Turn
  <2> QED
    BY <1>4, <2>1
<1> DEFINE T == {k \in 0..m : L[k] = F[k]}
<1> HIDE DEF L
<1>6. /\ L[0] = n
      /\ \A k \in 1..m : L[k] = L[k - 1] - Smaller(L[k - 1], Len(slices[k]))
  <2> DEFINE G == Turn(L)
  <2>1. /\ G[0] = n
        /\ \A k \in 1..m : G[k] = L[k - 1] - Smaller(L[k - 1], Len(slices[k]))
    BY <1>1
  <2> HIDE DEF G
  <2>2. L = G
    BY <1>5 DEF G
  <2> QED
    BY <2>1, <2>2
<1>7. F[0] = n
  BY <1>1, <1>2
<1>8. \A k \in 0..m : k \in T
  <2> HIDE DEF F
  <2>1. 0 \in T
    BY <1>1, <1>6, <1>7
  <2>2. ASSUME NEW k \in Nat, k < m, k \in T PROVE k + 1 \in T
    <3>1. k + 1 \in 1..m /\ (k + 1) - 1 = k
      BY <1>1, <2>2
    <3>2. L[k + 1] = L[k] - Smaller(L[k], Len(slices[k + 1]))
      BY <1>6, <3>1
    <3>3. F[k + 1] = F[k] - Smaller(F[k], Len(slices[k + 1]))
      BY <1>3, <3>1
    <3> QED
      BY <2>2, <3>1, <3>2, <3>3
  <2> HIDE DEF T
  <2> QED
    BY <1>1, <2>1, <2>2, BoundedInduction
<1> QED
  BY <1>8 DEF L, m

\* Crc32Writer gets to the end of what was taken, and sums exactly that.
LEMMA SummedIs ==
    ASSUME NEW S, NEW slices \in Seq(Seq(S)), NEW n \in 0..Total(slices)
    PROVE  /\ Left(slices, n)[Len(slices)] = 0
           /\ SummedOf(slices, n) = SubSeq(FlattenSeq(slices), 1, n)
<1> DEFINE m == Len(slices)
           L == Left(slices, n)
           part(k) == SubSeq(slices[k], 1, Smaller(L[k - 1], Len(slices[k])))
           P == [k \in DOMAIN slices |-> part(k)]
           front(k) == FlattenSeq(SubSeq(slices, 1, k))
           B(k) == Before(slices, k)
           T == {k \in 0..m : FlattenSeq(SubSeq(P, 1, k))
                                = SubSeq(front(k), 1, Smaller(n, B(k)))}
<1>1. /\ m \in Nat /\ n \in Nat /\ n <= Total(slices)
      /\ Total(slices) \in Nat /\ DOMAIN slices = 1..m
      /\ \A k \in 1..m : slices[k] \in Seq(S) /\ Len(slices[k]) \in Nat
  <2>1. Total(slices) \in Nat
    BY BeforeFacts
  <2> QED
    BY <2>1
<1>2. \A k \in 0..m : L[k] = IF B(k) <= n THEN n - B(k) ELSE 0
  BY LeftIs
<1>3. /\ B(0) = 0 /\ B(m) = Total(slices)
      /\ \A k \in 0..m : B(k) \in Nat /\ B(k) = Len(front(k))
      /\ \A k \in 0..m : front(k) \in Seq(S)
      /\ \A k \in 1..m : /\ B(k) = B(k - 1) + Len(slices[k])
                         /\ front(k) = front(k - 1) \o slices[k]
  <2>1. B(0) = 0 /\ B(m) = Total(slices)
    BY BeforeFacts
  <2>2. \A k \in 0..m : B(k) \in Nat
    BY BeforeFacts
  <2>3. \A k \in 1..m : B(k) = B(k - 1) + Len(slices[k])
    BY BeforeFacts
  <2>4. \A k \in 1..m : front(k) = front(k - 1) \o slices[k]
    BY BeforeFacts
  <2>5. \A k \in 0..m : front(k) \in Seq(S)
    <3>1. \A k \in 0..m : SubSeq(slices, 1, k) \in Seq(Seq(S))
      OBVIOUS
    <3> QED
      BY <3>1, FlattenType
  <2> QED
    BY <2>1, <2>2, <2>3, <2>4, <2>5 DEF Before, Total
<1>4. SummedOf(slices, n) = FlattenSeq(P)
  BY DEF SummedOf
<1>5. \A k \in 1..m : part(k) \in Seq(S)
  <2> SUFFICES ASSUME NEW k \in 1..m PROVE part(k) \in Seq(S)
    OBVIOUS
  <2> DEFINE c == Smaller(L[k - 1], Len(slices[k]))
  <2>1. k - 1 \in 0..m /\ slices[k] \in Seq(S) /\ Len(slices[k]) \in Nat
    BY <1>1
  <2>2. L[k - 1] \in Nat
    <3> DEFINE j == k - 1
    <3>1. j \in 0..m
      BY <2>1
    <3> HIDE DEF L, B, j
    <3>2. L[j] = IF B(j) <= n THEN n - B(j) ELSE 0
      BY <1>2, <3>1
    <3>3. B(j) \in Nat
      BY <1>3, <3>1
    <3>4. L[j] \in Nat
      BY <1>1, <3>2, <3>3
    <3> QED
      BY <3>4 DEF j
  <2>3. c \in 0..Len(slices[k])
    <3> HIDE DEF L
    <3> QED
      BY <2>1, <2>2 DEF Smaller
  <2> HIDE DEF c
  <2> QED
    BY <2>1, <2>3 DEF c
<1>6. /\ P \in Seq(Seq(S)) /\ Len(P) = m
      /\ \A k \in 1..m : P[k] = part(k)
  <2> HIDE DEF part, m
  <2>1. P = [k \in 1..m |-> part(k)]
    BY <1>1
  <2> QED
    BY <1>1, <1>5, <2>1
<1> HIDE DEF P
<1>7. 0 \in T
  <2>1. SubSeq(P, 1, 0) = << >>
    BY <1>6
  <2>2. Smaller(n, B(0)) = 0
    BY <1>1, <1>3 DEF Smaller
  <2>3. front(0) \in Seq(S)
    BY <1>1, <1>3
  <2> HIDE DEF front, B
  <2>4. SubSeq(front(0), 1, 0) = << >>
    BY <2>3
  <2>5. FlattenSeq(SubSeq(P, 1, 0)) = << >>
    BY <2>1, FlattenEmpty
  <2>6. SubSeq(front(0), 1, Smaller(n, B(0))) = << >>
    BY <2>2, <2>4
  <2>7. 0 \in 0..m
    BY <1>1
  <2> QED
    BY <2>5, <2>6, <2>7
<1>8. ASSUME NEW k \in Nat, k < m, k \in T PROVE k + 1 \in T
  <2> DEFINE u == front(k)
             v == slices[k + 1]
             c == Smaller(n, B(k + 1))
             x == part(k + 1)
  <2>1. k \in 0..m /\ k + 1 \in 0..m /\ k + 1 \in 1..m /\ (k + 1) - 1 = k
    BY <1>1, <1>8
  <2>2. /\ u \in Seq(S) /\ v \in Seq(S) /\ Len(v) \in Nat /\ Len(u) = B(k)
        /\ B(k) \in Nat /\ B(k + 1) = B(k) + Len(v)
        /\ front(k + 1) = u \o v
    <3> HIDE DEF B, front
    <3> QED
      BY <1>1, <1>3, <2>1
  <2>3. /\ SubSeq(P, 1, k) \in Seq(Seq(S)) /\ x \in Seq(S)
        /\ SubSeq(P, 1, k + 1) = Append(SubSeq(P, 1, k), x)
    <3>1. P[k + 1] = x /\ x \in Seq(S)
      BY <1>5, <1>6, <2>1
    <3> HIDE DEF part, x
    <3> QED
      BY <1>6, <2>1, <3>1
  <2>4. FlattenSeq(SubSeq(P, 1, k + 1)) = FlattenSeq(SubSeq(P, 1, k)) \o x
    <3> HIDE DEF x
    <3> QED
      BY <2>3, FlattenAppend
  <2>5. FlattenSeq(SubSeq(P, 1, k)) = SubSeq(u, 1, Smaller(n, B(k)))
    BY <1>8
  <2>6. /\ L[k] = (IF B(k) <= n THEN n - B(k) ELSE 0)
        /\ x = SubSeq(v, 1, Smaller(L[k], Len(v)))
    BY <1>2, <2>1
  <2>7. c \in 0..(Len(u) + Len(v))
    <3> HIDE DEF u, v, B
    <3> QED
      BY <1>1, <2>2 DEF Smaller
  <2> HIDE DEF B, u, v, x, L
  <2>8. SubSeq(u \o v, 1, c) = IF c <= Len(u) THEN SubSeq(u, 1, c)
                               ELSE u \o SubSeq(v, 1, c - Len(u))
    <3> HIDE DEF c
    <3> QED
      BY <2>2, <2>7, CutEnd
  <2>9. SubSeq(u, 1, Smaller(n, B(k))) \o x = SubSeq(u \o v, 1, c)
    <3>0. SubSeq(v, 1, 0) = << >> /\ SubSeq(u, 1, Len(u)) = u
      BY <2>2
    <3>1. CASE n > B(k) /\ Len(v) > 0
      <4>1. /\ Smaller(n, B(k)) = Len(u) /\ ~(c <= Len(u))
            /\ c - Len(u) = Smaller(L[k], Len(v))
        BY <1>1, <2>2, <2>6, <3>1 DEF Smaller
      <4> HIDE DEF c
      <4> QED
        BY <2>6, <2>8, <3>0, <4>1
    <3>2. CASE ~(n > B(k) /\ Len(v) > 0)
      <4>1. /\ c <= Len(u) /\ c = Smaller(n, B(k)) /\ c \in Nat
            /\ Smaller(L[k], Len(v)) = 0
        BY <1>1, <2>2, <2>6, <3>2 DEF Smaller
      <4>2. x = << >>
        BY <2>6, <3>0, <4>1
      <4> HIDE DEF c
      <4>3. SubSeq(u, 1, c) \in Seq(S)
        BY <2>2, <4>1
      <4>4. SubSeq(u, 1, c) \o << >> = SubSeq(u, 1, c)
        BY <4>3
      <4> QED
        BY <2>8, <4>1, <4>2, <4>4
    <3> QED
      BY <3>1, <3>2
  <2>10. FlattenSeq(SubSeq(P, 1, k + 1))
           = SubSeq(front(k + 1), 1, Smaller(n, B(k + 1)))
    BY <2>2, <2>4, <2>5, <2>9
  <2> QED
    BY <2>1, <2>10
<1>9. m \in T
  <2> HIDE DEF T
  <2>1. \A k \in 0..m : k \in T
    BY <1>1, <1>7, <1>8, BoundedInduction
  <2> QED
    BY <1>1, <2>1
<1>10. SubSeq(P, 1, m) = P /\ SubSeq(slices, 1, m) = slices
  BY <1>1, <1>6
<1>11. Smaller(n, B(m)) = n
  <2> HIDE DEF B
  <2> QED
    BY <1>1, <1>3 DEF Smaller
<1>12. FlattenSeq(P) = SubSeq(FlattenSeq(slices), 1, n)
  BY <1>9, <1>10, <1>11
<1>13. L[m] = 0
  <2> HIDE DEF L, B
  <2> QED
    BY <1>1, <1>2, <1>3
<1> QED
  BY <1>4, <1>12, <1>13

-----------------------------------------------------------------------------
\* What was taken and what is left are what was given; Crc32Writer and the
\* counter have seen what was taken; a turn of the loop has a byte to offer.
WriteInv ==
    /\ all \in Seq(Seq(Octets)) /\ bufs \in Seq(Seq(Octets))
    /\ sent \in Seq(Octets)
    /\ sent \o FlattenSeq(bufs) = FlattenSeq(all)
    /\ phase = "ok" => bufs = << >>
    /\ phase = "start" => sent = << >>
    /\ phase # "panic" /\ summed = sent /\ amt = Len(sent)
    /\ phase = "writing" => Total(bufs) > 0

LEMMA WriteInitInv == WriteInit => WriteInv
<1> SUFFICES ASSUME WriteInit PROVE WriteInv
  OBVIOUS
<1>1. all \in Seq(Seq(Octets)) /\ bufs = all
  BY InputsAssumption DEF WriteInit
<1>2. FlattenSeq(bufs) \in Seq(Octets) /\ << >> \in Seq(Octets)
  BY <1>1, FlattenType
<1>3. << >> \o FlattenSeq(bufs) = FlattenSeq(bufs) /\ Len(<< >>) = 0
  BY <1>2
<1> QED
  BY <1>1, <1>2, <1>3 DEF WriteInit, WriteInv

LEMMA WriteStepInv == WriteInv /\ [WriteNext]_writeVars => WriteInv'
<1> SUFFICES ASSUME WriteInv, [WriteNext]_writeVars PROVE WriteInv'
  OBVIOUS
<1> USE DEF WriteInv
<1>1. /\ bufs \in Seq(Seq(Octets)) /\ FlattenSeq(bufs) \in Seq(Octets)
      /\ Total(bufs) \in Nat /\ 0 \in 0..Total(bufs)
  <2>1. FlattenSeq(bufs) \in Seq(Octets)
    BY FlattenType
  <2> QED
    BY <2>1 DEF Total
<1>2. CASE UNCHANGED writeVars
  BY <1>2 DEF writeVars, Total
<1>3. CASE Begin
  <2>1. /\ bufs' \in Seq(Seq(Octets))
        /\ FlattenSeq(bufs') = SubSeq(FlattenSeq(bufs), 0 + 1, Total(bufs))
        /\ bufs' # << >> => Total(bufs') > 0
    BY <1>1, <1>3, AdvanceFacts DEF Begin
  <2>2. SubSeq(FlattenSeq(bufs), 0 + 1, Total(bufs)) = FlattenSeq(bufs)
    BY <1>1 DEF Total
  <2> QED
    BY <1>3, <2>1, <2>2 DEF Begin, Total
<1>4. CASE Interrupted
  BY <1>4 DEF Interrupted, writeVars, Total
<1>5. CASE Failed
  BY <1>5 DEF Failed, Total
<1>6. ASSUME NEW n \in 0..Total(bufs), Taken(n) PROVE WriteInv'
  <2> DEFINE f == FlattenSeq(bufs)
             x == SubSeq(f, 1, n)
             y == SubSeq(f, n + 1, Total(bufs))
  <2>1. Left(bufs, n)[Len(bufs)] = 0 /\ SummedOf(bufs, n) = x
    BY <1>1, SummedIs
  <2>2. /\ f \in Seq(Octets) /\ x \in Seq(Octets) /\ y \in Seq(Octets)
        /\ Len(x) = n /\ n \in Nat /\ x \o y = f
    <3>1. f \in Seq(Octets) /\ Len(f) = Total(bufs) /\ n \in 0..Len(f)
      BY <1>1 DEF Total
    <3>2. y = SubSeq(f, n + 1, Len(f))
      BY <3>1
    <3> HIDE DEF f
    <3>3. /\ x \in Seq(Octets) /\ SubSeq(f, n + 1, Len(f)) \in Seq(Octets)
          /\ Len(x) = n /\ n \in Nat
      BY ONLY <3>1
    <3>4. x \o SubSeq(f, n + 1, Len(f)) = f
      <4> HIDE DEF WriteInv
      <4> QED
        BY <3>1
    <3> QED
      BY <3>1, <3>2, <3>3, <3>4
  <2>3. /\ phase = "writing" /\ sent' = sent \o x /\ summed' = summed \o x
        /\ amt' = amt + n /\ bufs' = OfferedAfter(n) /\ all' = all
        /\ phase' = CASE n = 0 -> "error"
                      [] n # 0 /\ bufs' = << >> -> "ok"
                      [] n # 0 /\ bufs' # << >> -> "writing"
    BY <1>6, <2>1 DEF Taken
  <2>4. /\ bufs' \in Seq(Seq(Octets)) /\ FlattenSeq(bufs') = y
        /\ n # 0 /\ bufs' # << >> => Total(bufs') > 0
    <3>1. CASE n = 0
      <4>1. y = f
        BY <1>1, <3>1 DEF Total
      <4> QED
        BY <1>1, <2>3, <3>1, <4>1 DEF OfferedAfter
    <3>2. CASE n # 0
      BY <1>1, <2>3, <3>2, AdvanceFacts DEF OfferedAfter
    <3> QED
      BY <3>1, <3>2
  <2>5. sent \in Seq(Octets) /\ sent \o f = FlattenSeq(all)
    OBVIOUS
  <2> HIDE DEF x, y, f
  <2>6. (sent \o x) \o y = sent \o (x \o y)
    <3>1. sent \in Seq(Octets) /\ x \in Seq(Octets) /\ y \in Seq(Octets)
      BY <2>2, <2>5
    <3> QED
      BY ONLY <3>1
  <2>7. sent' \o FlattenSeq(bufs') = FlattenSeq(all')
    BY <2>2, <2>3, <2>4, <2>5, <2>6
  <2>8. /\ sent' \in Seq(Octets) /\ Len(sent') = Len(sent) + n
        /\ summed' = sent' /\ amt' = Len(sent')
    BY <2>2, <2>3, <2>5
  <2>9. /\ phase' \in {"error", "ok", "writing"}
        /\ phase' = "ok" => bufs' = << >>
        /\ phase' = "writing" => n # 0 /\ bufs' # << >>
    <3>1. CASE n = 0
      BY <2>3, <3>1
    <3>2. CASE n # 0 /\ bufs' = << >>
      BY <2>3, <3>2
    <3>3. CASE n # 0 /\ bufs' # << >>
      BY <2>3, <3>3
    <3> QED
      BY <3>1, <3>2, <3>3
  <2> QED
    BY <2>3, <2>4, <2>7, <2>8, <2>9 DEF Total
<1> QED
  BY <1>2, <1>3, <1>4, <1>5, <1>6 DEF WriteNext

\* Whatever the bytes, the buffers and the cuts of the writer below.
LEMMA WriteAlways == WriteSpec => []WriteInv
  BY WriteInitInv, WriteStepInv, PTL DEF WriteSpec

(***************************************************************************)
(* Advance: what was sent and what is left are what was given, and after   *)
(* Ok everything was sent.                                                 *)
(***************************************************************************)
THEOREM NothingIsLost == WriteSpec => []NothingLostOrTwice
<1>1. WriteInv => NothingLostOrTwice
  <2> SUFFICES ASSUME WriteInv PROVE NothingLostOrTwice
    OBVIOUS
  <2>1. sent \o << >> = sent
    BY DEF WriteInv
  <2> QED
    BY <2>1, FlattenEmpty DEF WriteInv, NothingLostOrTwice
<1> QED
  BY <1>1, WriteAlways, PTL

(***************************************************************************)
(* Crc32Writer::write_vectored: the sum and the count are those of what    *)
(* was sent, and its assertion holds.                                      *)
(***************************************************************************)
THEOREM SumsWhatIsSent == WriteSpec => []CountedAsSent
<1>1. WriteInv => CountedAsSent
  BY DEF WriteInv, CountedAsSent
<1> QED
  BY <1>1, WriteAlways, PTL

(***************************************************************************)
(* _write_all_many: the writer is always offered at least a byte, so that  *)
(* Ok(0) is never an answer to an empty call.                              *)
(***************************************************************************)
THEOREM AlwaysOffersAByte == WriteSpec => []NeverOffersNothing
<1>1. WriteInv => NeverOffersNothing
  BY DEF WriteInv, NeverOffersNothing
<1> QED
  BY <1>1, WriteAlways, PTL
=============================================================================
