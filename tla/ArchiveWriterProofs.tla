-------------------------- MODULE ArchiveWriterProofs --------------------------
(***************************************************************************)
(* Theorems of ArchiveWriter for every value of its constants, however     *)
(* large the device, the names and the contents: type correctness, and     *)
(* that no sequence of calls, failures, recoveries and truncations damages *)
(* a committed entry.                                                      *)
(***************************************************************************)
EXTENDS ArchiveWriter, SequenceTheorems, FiniteSetTheorems, TLAPS

(***************************************************************************)
(* Facts about the operators of ZipFormat: what images are made of, how    *)
(* long they are, and what a write leaves and changes in a file.           *)
(***************************************************************************)
\* A partial write of k cells at a place inside the file, or at its end,
\* changes those cells and no other.
LEMMA WriteAtFacts ==
    ASSUME NEW S, NEW d \in Seq(S), NEW at \in Nat, at <= Len(d),
           NEW w \in Seq(S), NEW k \in Nat, k <= Len(w)
    PROVE  /\ WriteAt(d, at, w, k) \in Seq(S)
           /\ Len(WriteAt(d, at, w, k)) >= Len(d)
           /\ Len(WriteAt(d, at, w, k)) >= at + k
           /\ \A i \in 1..Len(d) :
                 ~(at < i /\ i <= at + k) => WriteAt(d, at, w, k)[i] = d[i]
           /\ \A i \in 1..k : WriteAt(d, at, w, k)[at + i] = w[i]
<1> DEFINE n == IF at + k > Len(d) THEN at + k ELSE Len(d)
           r == WriteAt(d, at, w, k)
<1>1. n \in Nat /\ n >= Len(d) /\ n >= at + k
  OBVIOUS
<1>2. r = [i \in 1..n |-> IF at < i /\ i <= at + k THEN w[i - at] ELSE d[i]]
  BY DEF WriteAt
<1>3. ASSUME NEW i \in 1..n
      PROVE  (IF at < i /\ i <= at + k THEN w[i - at] ELSE d[i]) \in S
  BY <1>3
<1>4. r \in [1..n -> S]
  BY <1>2, <1>3
<1>6. r \in Seq(S) /\ Len(r) = n
  BY <1>1, <1>4, SMTT(30)
<1> QED
  BY <1>1, <1>2, <1>6

LEMMA EncodeFacts ==
    ASSUME NEW method, NEW plain \in Seq(Bytes)
    PROVE  /\ Encode(method, plain) \in Seq(Symbols)
           /\ Len(Encode(method, plain)) \in Nat
           /\ Len(Encode(method, plain)) >= Len(plain)
           /\ \A i \in 1..Len(plain) : Encode(method, plain)[i] = plain[i]
  BY DEF Encode, Symbols

LEMMA DataFacts ==
    ASSUME NEW s \in Seq(Symbols)
    PROVE  /\ Data(s) \in Seq(Cells)
           /\ Len(Data(s)) = Len(s)
           /\ \A i \in 1..Len(s) : Data(s)[i] = DataCell(s[i])
<1>1. \A i \in 1..Len(s) : DataCell(s[i]) \in Cells
  BY DEF DataCell, Cells
<1>2. Data(s) \in [1..Len(s) -> Cells]
  BY <1>1 DEF Data
<1> QED
  BY <1>2 DEF Data

LEMMA LocalHeaderFacts ==
    ASSUME NEW name \in Names, NEW method \in Methods, NEW stream \in BOOLEAN,
           NEW csize \in Nat, NEW sum \in Seq(Bytes)
    PROVE  /\ LocalHeader(name, method, stream, csize, sum) \in Seq(Cells)
           /\ Len(LocalHeader(name, method, stream, csize, sum)) = LocalLen
<1>1. LocalCell(method, stream, sum) \in Cells
  BY DEF LocalCell, Cells
<1>2. NameCell(name, csize) \in Cells
  BY DEF NameCell, Cells
<1> QED
  BY <1>1, <1>2 DEF LocalHeader, LocalLen

LEMMA DescriptorType ==
    ASSUME NEW csize \in Nat, NEW sum \in Seq(Bytes)
    PROVE  DescriptorCell(csize, sum) \in Cells
  BY DEF DescriptorCell, Cells

LEMMA CentralType ==
    ASSUME NEW name \in Names, NEW type \in FileTypes, NEW method \in Methods,
           NEW stream \in BOOLEAN, NEW csize \in Nat, NEW sum \in Seq(Bytes),
           NEW offset \in Nat
    PROVE  CentralCell(name, type, method, stream, csize, sum, offset)
                \in CentralCells
  BY DEF CentralCell, CentralCells

LEMMA EntryImageFacts ==
    ASSUME NEW h \in CentralCells
    PROVE  /\ EntryImage(h) \in Seq(Cells)
           /\ EntryLen(h) \in Nat
           /\ EntryLen(h) >= LocalLen
           /\ Len(EntryImage(h)) = EntryLen(h)
<1> DEFINE e == Encode(h.method, h.sum)
<1>1. /\ h.name \in Names /\ h.method \in Methods /\ h.stream \in BOOLEAN
      /\ h.csize \in Nat /\ h.sum \in Seq(Bytes)
  BY DEF CentralCells
<1>2. /\ Data(e) \in Seq(Cells) /\ Len(Data(e)) = Len(e) /\ Len(e) \in Nat
  BY <1>1, EncodeFacts, DataFacts
<1>3. DescriptorCell(h.csize, h.sum) \in Cells
  BY <1>1, DescriptorType
<1>4. << >> \in Seq(Bytes)
  OBVIOUS
<1>5. LocalLen = 2
  BY DEF LocalLen
<1>6. CASE h.stream
  <2> DEFINE l == LocalHeader(h.name, h.method, TRUE, 0, << >>)
             b == l \o Data(e)
             c == << DescriptorCell(h.csize, h.sum) >>
  <2>1. l \in Seq(Cells) /\ Len(l) = LocalLen
    BY <1>1, <1>4, LocalHeaderFacts
  <2>2. c \in Seq(Cells) /\ Len(c) = 1
    BY <1>3
  <2>3. EntryImage(h) = b \o c
    BY <1>6 DEF EntryImage
  <2>4. EntryLen(h) = LocalLen + Len(e) + 1
    BY <1>6 DEF EntryLen
  <2> HIDE DEF l, c, e
  <2>5. b \in Seq(Cells) /\ Len(b) = Len(l) + Len(Data(e))
    BY <1>2, <2>1
  <2> HIDE DEF b
  <2>6. b \o c \in Seq(Cells)
    BY <2>2, <2>5, ConcatProperties, Zenon
  <2>7. Len(b \o c) = Len(b) + Len(c)
    BY <2>2, <2>5, ConcatProperties, Zenon
  <2> QED
    BY <1>2, <1>5, <2>1, <2>2, <2>3, <2>4, <2>5, <2>6, <2>7
<1>7. CASE ~h.stream
  <2> DEFINE l == LocalHeader(h.name, h.method, FALSE, h.csize, h.sum)
  <2>1. l \in Seq(Cells) /\ Len(l) = LocalLen
    BY <1>1, LocalHeaderFacts
  <2>2. EntryImage(h) = l \o Data(e)
    BY <1>7 DEF EntryImage
  <2>3. EntryLen(h) = LocalLen + Len(e)
    BY <1>2, <1>7, <1>5 DEF EntryLen
  <2> HIDE DEF l, e
  <2>4. l \o Data(e) \in Seq(Cells) /\ Len(l \o Data(e)) = Len(l) + Len(Data(e))
    BY <1>2, <2>1
  <2> QED
    BY <1>2, <1>5, <2>1, <2>2, <2>3, <2>4
<1> QED
  BY <1>1, <1>6, <1>7

-------------------------------------------------------------------------------
(***************************************************************************)
(* Type correctness, with the bounds that make every write land inside the *)
(* file or right at its end.                                               *)
(***************************************************************************)
Bounds ==
    /\ cursor <= Len(disk)
    /\ state.at <= cursor
    /\ position <= cursor
    /\ IsFiniteSet(entries)
    /\ streamer.live =>
          /\ position + streamer.amt <= cursor
          /\ streamer.started <= streamer.amt
          /\ Sent(streamer) <= Len(streamer.given)

TypeInv == TypeOK /\ Bounds

LEMMA PutFacts ==
    ASSUME disk \in Seq(Cells), cursor \in Nat, cursor <= Len(disk),
           NEW w \in Seq(Cells), NEW k \in Nat, Put(w, k)
    PROVE  /\ k <= Len(w)
           /\ disk' \in Seq(Cells)
           /\ cursor' \in Nat
           /\ cursor' = cursor + k
           /\ Len(disk') \in Nat
           /\ cursor' <= Len(disk')
           /\ Len(disk) <= Len(disk')
           /\ \A i \in 1..cursor : disk'[i] = disk[i]
           /\ \A i \in 1..k : disk'[cursor + i] = w[i]
<1>1. /\ disk' = WriteAt(disk, cursor, w, k)
      /\ cursor' = cursor + k
      /\ k <= Len(w)
  BY DEF Put
<1>2. /\ WriteAt(disk, cursor, w, k) \in Seq(Cells)
      /\ Len(WriteAt(disk, cursor, w, k)) >= Len(disk)
      /\ Len(WriteAt(disk, cursor, w, k)) >= cursor + k
      /\ \A i \in 1..Len(disk) :
            ~(cursor < i /\ i <= cursor + k) =>
                WriteAt(disk, cursor, w, k)[i] = disk[i]
      /\ \A i \in 1..k : WriteAt(disk, cursor, w, k)[cursor + i] = w[i]
  BY <1>1, WriteAtFacts
<1>3. Len(disk) \in Nat /\ Len(disk') \in Nat
  BY <1>1, <1>2
<1> QED
  BY <1>1, <1>2, <1>3

\* The image that write_file_raw writes and the header it pushes.
LEMMA RawHeaderType ==
    ASSUME TypeOK, NEW name \in Names, NEW type \in FileTypes,
           NEW method \in Methods, NEW plain \in Seq(Bytes)
    PROVE  CentralCell(name, type, method, FALSE,
                       Len(Encode(method, plain)), plain, position)
                \in CentralCells
  BY EncodeFacts, CentralType DEF TypeOK

LEMMA ContentsType == \A plain \in Contents : plain \in Seq(Bytes)
  BY DEF Contents

\* Facts about the symbols that a streamer still has to send.
LEMMA UnsentFacts ==
    ASSUME NEW s \in Streamers, NEW e \in Seq(Symbols),
           s.started <= s.amt, Sent(s) <= Len(e)
    PROVE  /\ Sent(s) \in Nat
           /\ Unsent(s, e) \in Seq(Cells)
           /\ Len(Unsent(s, e)) = Len(e) - Sent(s)
           /\ \A i \in 1..Len(Unsent(s, e)) :
                 Unsent(s, e)[i] = DataCell(e[Sent(s) + i])
<1> DEFINE r == SubSeq(e, Sent(s) + 1, Len(e))
<1>1. Sent(s) \in Nat /\ Len(e) \in Nat
  BY DEF Streamers, Sent
<1>2. \A i \in (Sent(s) + 1)..Len(e) : e[i] \in Symbols
  BY <1>1
<1>3. /\ r \in Seq(Symbols)
      /\ Len(r) = IF Sent(s) + 1 <= Len(e)
                  THEN Len(e) - (Sent(s) + 1) + 1 ELSE 0
      /\ \A i \in 1..(Len(e) - (Sent(s) + 1) + 1) :
            r[i] = e[(Sent(s) + 1) + i - 1]
  BY <1>1, <1>2, SubSeqProperties
<1>4. Unsent(s, e) = Data(r)
  BY DEF Unsent
<1> HIDE DEF r
<1>5. /\ Data(r) \in Seq(Cells)
      /\ Len(Data(r)) = Len(r)
      /\ \A i \in 1..Len(r) : Data(r)[i] = DataCell(r[i])
  BY <1>3, DataFacts
<1>6. Len(r) = Len(e) - Sent(s)
  BY <1>1, <1>3
<1>7. \A i \in 1..Len(r) : r[i] = e[Sent(s) + i]
  BY <1>1, <1>3, <1>6
<1> QED
  BY <1>1, <1>4, <1>5, <1>6, <1>7

\* What is known of a live streamer.
LEMMA LiveFacts ==
    ASSUME TypeOK, Bounds, streamer.live
    PROVE  /\ streamer \in Streamers
           /\ streamer.name \in Names
           /\ streamer.method \in Methods
           /\ streamer.offset \in Nat
           /\ streamer.started \in Nat
           /\ streamer.amt \in Nat
           /\ streamer.given \in Seq(Bytes)
           /\ Len(streamer.given) \in Nat
           /\ position + streamer.amt <= cursor
           /\ streamer.started <= streamer.amt
           /\ Sent(streamer) \in Nat
           /\ Sent(streamer) = streamer.amt - streamer.started
           /\ Sent(streamer) <= Len(streamer.given)
<1>1. streamer \in Streamers
  BY DEF TypeOK, NoStreamer
<1>2. /\ streamer.name \in Names /\ streamer.method \in Methods
      /\ streamer.offset \in Nat /\ streamer.started \in Nat
      /\ streamer.amt \in Nat /\ streamer.given \in Seq(Bytes)
  BY <1>1 DEF Streamers, Supported
<1>3. /\ position + streamer.amt <= cursor
      /\ streamer.started <= streamer.amt
      /\ Sent(streamer) <= Len(streamer.given)
  BY DEF Bounds
<1> QED
  BY <1>1, <1>2, <1>3 DEF Sent

LEMMA TripleType ==
    ASSUME NEW S, NEW a \in S, NEW b \in S, NEW c \in S
    PROVE  << a, b, c >> \in Seq(S)
  OBVIOUS

\* What push_central_header keeps true.
LEMMA PushFacts ==
    ASSUME TypeInv, NEW h \in CentralCells, PushCentralHeader(h)
    PROVE  /\ headers' \in Seq(CentralCells)
           /\ entries' \subseteq Bases
           /\ IsFiniteSet(entries')
<1>1. headers' \in Seq(CentralCells)
  BY DEF TypeInv, TypeOK, PushCentralHeader
<1>2. h.name.base \in Bases
  BY DEF CentralCells, Names
<1>3. entries' \subseteq Bases
  BY <1>2 DEF TypeInv, TypeOK, PushCentralHeader
<1>4. IsFiniteSet(entries')
  BY FS_AddElement DEF TypeInv, Bounds, PushCentralHeader
<1> QED
  BY <1>1, <1>3, <1>4

LEMMA TypeInit == Init => TypeInv
<1> SUFFICES ASSUME Init PROVE TypeInv
  OBVIOUS
<1>1. Foreign \in Cells
  BY DEF Cells
<1>2. disk \in [1..Start -> Cells] /\ Start \in Nat
  BY <1>1, WriterAssumption DEF Init
<1>3. disk \in Seq(Cells) /\ Len(disk) = Start
  BY <1>2
<1> QED
  BY <1>2, <1>3, FS_EmptySet
  DEF Init, TypeInv, TypeOK, Bounds, Default, NoStreamer, Phases

LEMMA TypeWriteFileRaw ==
    ASSUME TypeInv, NEW name \in Names, NEW type \in FileTypes,
           NEW method \in Methods, NEW plain \in Seq(Bytes),
           WriteFileRaw(name, type, method, plain)
    PROVE  TypeInv'
<1> DEFINE h == CentralCell(name, type, method, FALSE,
                            Len(Encode(method, plain)), plain, position)
           w == EntryImage(h)
<1> USE DEF TypeInv
<1>1. h \in CentralCells
  BY RawHeaderType
<1>2. w \in Seq(Cells)
  BY <1>1, EntryImageFacts
<1>4. PICK k \in 0..Len(w) :
        /\ Put(w, k)
        /\ \/ /\ state' = Writing(position)
              /\ UNCHANGED << position, entries, headers >>
           \/ /\ k = Len(w)
              /\ PushCentralHeader(h)
              /\ position' = position + k
              /\ state' = Default
  BY DEF WriteFileRaw
<1>5. streamer' = streamer /\ phase' = phase /\ ~streamer.live
  BY DEF WriteFileRaw, Idle
<1> HIDE DEF w, h
<1>6. /\ disk' \in Seq(Cells) /\ cursor' \in Nat /\ cursor' = cursor + k
      /\ cursor' <= Len(disk') /\ k \in Nat
  BY <1>2, <1>4, PutFacts DEF TypeOK, Bounds
<1>7. CASE /\ state' = Writing(position)
           /\ UNCHANGED << position, entries, headers >>
  BY <1>5, <1>6, <1>7 DEF TypeOK, Bounds, Writing
<1>8. CASE /\ PushCentralHeader(h)
           /\ position' = position + k
           /\ state' = Default
  <2>1. /\ headers' \in Seq(CentralCells)
        /\ entries' \subseteq Bases /\ IsFiniteSet(entries')
    BY <1>1, <1>8, PushFacts
  <2> QED
    BY <1>5, <1>6, <1>8, <2>1 DEF TypeOK, Bounds, Default
<1> QED
  BY <1>4, <1>7, <1>8

LEMMA TypeStreamFile ==
    ASSUME TypeInv, NEW name \in Names, NEW method \in Methods,
           StreamFile(name, method)
    PROVE  TypeInv'
<1> DEFINE w == LocalHeader(name, method, TRUE, 0, << >>)
<1> USE DEF TypeInv
<1>1. w \in Seq(Cells) /\ Len(w) = LocalLen
  <2>1. << >> \in Seq(Bytes) /\ 0 \in Nat /\ TRUE \in BOOLEAN
    OBVIOUS
  <2> QED
    BY <2>1, LocalHeaderFacts
<1>2. PICK k \in 0..Len(w) :
        /\ Put(w, k)
        /\ IF k = Len(w) /\ method \in Supported
           THEN streamer' = [live |-> TRUE, name |-> name, method |-> method,
                             offset |-> position, started |-> k, amt |-> k,
                             given |-> << >>]
           ELSE streamer' = NoStreamer
  BY DEF StreamFile
<1>3. /\ state' = Writing(position)
      /\ UNCHANGED << position, entries, headers, phase >>
  BY DEF StreamFile
<1> HIDE DEF w
<1>4. /\ disk' \in Seq(Cells) /\ cursor' \in Nat /\ cursor' = cursor + k
      /\ cursor' <= Len(disk') /\ k \in Nat
  BY <1>1, <1>2, PutFacts DEF TypeOK, Bounds
<1>5. CASE streamer' = NoStreamer
  BY <1>3, <1>4, <1>5 DEF TypeOK, Bounds, Writing, NoStreamer
<1>6. CASE /\ method \in Supported
           /\ streamer' = [live |-> TRUE, name |-> name, method |-> method,
                           offset |-> position, started |-> k, amt |-> k,
                           given |-> << >>]
  <2>1. streamer' \in Streamers
    BY <1>4, <1>6 DEF TypeOK, Streamers
  <2> QED
    BY <1>3, <1>4, <1>6, <2>1 DEF TypeOK, Bounds, Writing, Sent
<1> QED
  BY <1>2, <1>5, <1>6

LEMMA TypeForward ==
    ASSUME TypeInv, streamer.live,
           NEW given \in {streamer.given}
                           \cup { Append(streamer.given, b) : b \in Bytes },
           Forward(given)
    PROVE  TypeInv'
<1> DEFINE s == streamer
<1> USE DEF TypeInv
<1>1. s \in Streamers /\ s.started <= s.amt /\ Sent(s) <= Len(s.given)
      /\ position + s.amt <= cursor
  BY LiveFacts
<1>2. UNCHANGED << state, position, entries, headers, phase >>
  BY DEF Forward, raw
<1>3. /\ s.given \in Seq(Bytes) /\ Len(s.given) \in Nat
      /\ s.amt \in Nat /\ s.started \in Nat /\ Sent(s) \in Nat
      /\ Sent(s) = s.amt - s.started
  BY <1>1 DEF Streamers, Sent
<1>4. /\ given \in Seq(Bytes) /\ given \in Seq(Symbols)
      /\ Len(given) \in Nat /\ Sent(s) <= Len(given)
  <2>1. given \in Seq(Bytes) /\ Len(s.given) <= Len(given)
    <3>1. CASE given = s.given
      BY <1>3, <3>1
    <3>2. ASSUME NEW b \in Bytes, given = Append(s.given, b)
          PROVE  given \in Seq(Bytes) /\ Len(s.given) <= Len(given)
      <4> HIDE DEF s
      <4> QED
        BY <1>3, <3>2
    <3> QED
      BY <3>1, <3>2
  <2> QED
    BY <1>1, <1>3, <2>1 DEF Symbols
<1>5. PICK k \in 0..Len(Unsent(s, given)) :
         /\ Put(Unsent(s, given), k)
         /\ streamer' = [s EXCEPT !.given = given, !.amt = s.amt + k]
  BY DEF Forward
<1>6. /\ Unsent(s, given) \in Seq(Cells)
      /\ Len(Unsent(s, given)) = Len(given) - Sent(s)
  BY <1>1, <1>3, <1>4, UnsentFacts
<1>7. k \in Nat /\ k <= Len(given) - Sent(s)
  BY <1>3, <1>4, <1>5, <1>6
<1>8. /\ disk' \in Seq(Cells) /\ cursor' \in Nat /\ cursor' = cursor + k
      /\ cursor' <= Len(disk')
  BY <1>5, <1>6, <1>7, PutFacts DEF TypeOK, Bounds
<1>9. /\ streamer' \in Streamers
      /\ streamer'.amt = s.amt + k /\ streamer'.started = s.started
      /\ streamer'.given = given /\ streamer'.live
  <2>1. s.amt + k \in Nat
    BY <1>3, <1>7
  <2> QED
    BY <1>1, <1>4, <1>5, <2>1 DEF Streamers
<1>10. TypeOK'
  BY <1>2, <1>8, <1>9 DEF TypeOK
<1>11. /\ position' + streamer'.amt <= cursor'
       /\ streamer'.started <= streamer'.amt
  <2>1. position' = position /\ position \in Nat /\ cursor \in Nat
    BY <1>2 DEF TypeOK
  <2> HIDE DEF s
  <2> QED
    BY <1>1, <1>3, <1>7, <1>8, <1>9, <2>1, SMTT(30)
<1>12. Sent(streamer)' <= Len(streamer'.given)
  BY <1>3, <1>4, <1>7, <1>9 DEF Sent
<1>13. position' <= cursor' /\ state'.at <= cursor'
  BY <1>2, <1>7, <1>8 DEF TypeOK, Bounds
<1> QED
  BY <1>2, <1>8, <1>10, <1>11, <1>12, <1>13 DEF Bounds

LEMMA TypeStreamFinish ==
    ASSUME TypeInv, StreamFinish PROVE TypeInv'
<1> DEFINE s == streamer
           rest == Unsent(s, Encode(s.method, s.given))
           csize == Sent(s) + Len(rest)
           h == CentralCell(s.name, "File", s.method, TRUE, csize, s.given,
                            s.offset)
           w == Append(rest, DescriptorCell(csize, s.given))
<1> USE DEF TypeInv
<1>1. s \in Streamers /\ s.started <= s.amt /\ Sent(s) <= Len(s.given)
      /\ position + s.amt <= cursor
  <2>1. streamer.live
    BY DEF StreamFinish
  <2> QED
    BY <2>1, LiveFacts
<1>2. /\ s.given \in Seq(Bytes) /\ s.name \in Names /\ s.method \in Methods
      /\ s.offset \in Nat /\ s.amt \in Nat /\ "File" \in FileTypes
      /\ Len(s.given) \in Nat
  BY <1>1 DEF Streamers, FileTypes, Supported
<1>3. /\ Encode(s.method, s.given) \in Seq(Symbols)
      /\ Len(Encode(s.method, s.given)) \in Nat
      /\ Len(Encode(s.method, s.given)) >= Len(s.given)
  BY <1>2, EncodeFacts
<1>4. Sent(s) \in Nat /\ Sent(s) <= Len(Encode(s.method, s.given))
  BY <1>1, <1>2, <1>3 DEF Sent, Streamers
<1>5. /\ rest \in Seq(Cells) /\ Len(rest) \in Nat
      /\ Len(rest) = Len(Encode(s.method, s.given)) - Sent(s)
  BY <1>1, <1>3, <1>4, UnsentFacts
<1> HIDE DEF rest
<1>6. csize \in Nat
  BY <1>4, <1>5
<1>7. h \in CentralCells /\ h.name = s.name
  <2>1. h \in CentralCells
    BY <1>2, <1>6, CentralType
  <2> QED
    BY <2>1 DEF CentralCell
<1>8. w \in Seq(Cells)
  <2>1. DescriptorCell(csize, s.given) \in Cells
    BY <1>2, <1>6, DescriptorType
  <2> QED
    BY <1>5, <2>1
<1>9. PICK k \in 0..Len(w) :
        /\ Put(w, k)
        /\ \/ UNCHANGED raw
           \/ /\ position' = position + s.amt + k
              /\ UNCHANGED << state, entries, headers >>
           \/ /\ position' = position + s.amt + k
              /\ PushCentralHeader(h)
              /\ state' = Default
  BY DEF StreamFinish, rest
<1>10. streamer' = NoStreamer /\ phase' = phase
  BY DEF StreamFinish
<1> HIDE DEF w, h, csize, s
<1>11. /\ disk' \in Seq(Cells) /\ cursor' \in Nat /\ cursor' = cursor + k
       /\ cursor' <= Len(disk') /\ k \in Nat
  BY <1>8, <1>9, PutFacts DEF TypeOK, Bounds
<1>12. CASE UNCHANGED raw
  BY <1>10, <1>11, <1>12 DEF TypeOK, Bounds, NoStreamer, raw
<1>13. CASE /\ position' = position + s.amt + k
            /\ UNCHANGED << state, entries, headers >>
  <2>1. position' \in Nat /\ position' <= cursor'
    BY <1>1, <1>2, <1>11, <1>13, SMTT(30) DEF TypeOK
  <2>2. TypeOK'
    BY <1>10, <1>11, <1>13, <2>1 DEF TypeOK
  <2>3. Bounds'
    BY <1>10, <1>11, <1>13, <2>1 DEF TypeOK, Bounds, NoStreamer
  <2> QED
    BY <2>2, <2>3
<1>14. CASE /\ position' = position + s.amt + k
            /\ PushCentralHeader(h)
            /\ state' = Default
  <2>1. /\ headers' \in Seq(CentralCells)
        /\ entries' \subseteq Bases /\ IsFiniteSet(entries')
    BY <1>7, <1>14, PushFacts
  <2> QED
    BY <1>1, <1>2, <1>10, <1>11, <1>14, <2>1, SMTT(30)
    DEF TypeOK, Bounds, Default, NoStreamer
<1> QED
  BY <1>9, <1>12, <1>13, <1>14

LEMMA TypeStreamDrop ==
    ASSUME TypeInv, StreamDrop PROVE TypeInv'
<1> DEFINE rest == Unsent(streamer, Encode(streamer.method, streamer.given))
<1> USE DEF TypeInv
<1>1. streamer.live
  BY DEF StreamDrop
<1>2. rest \in Seq(Cells) /\ Len(rest) \in Nat
  <2>1. /\ Encode(streamer.method, streamer.given) \in Seq(Symbols)
        /\ Sent(streamer) <= Len(Encode(streamer.method, streamer.given))
    BY <1>1, LiveFacts, EncodeFacts
  <2> QED
    BY <1>1, <2>1, LiveFacts, UnsentFacts
<1>3. PICK k \in 0..Len(rest) : Put(rest, k)
  BY DEF StreamDrop
<1>4. streamer' = NoStreamer /\ UNCHANGED << raw, phase >>
  BY DEF StreamDrop
<1> HIDE DEF rest
<1>5. /\ disk' \in Seq(Cells) /\ cursor' \in Nat /\ cursor' = cursor + k
      /\ cursor' <= Len(disk') /\ k \in Nat
  BY <1>2, <1>3, PutFacts DEF TypeOK, Bounds
<1> QED
  BY <1>4, <1>5 DEF TypeOK, Bounds, NoStreamer, raw

LEMMA TrailerType ==
    ASSUME TypeOK, IsFiniteSet(entries)
    PROVE  Trailer \in Seq(Cells)
<1> DEFINE t == << Eocd64Cell(Cardinality(entries), Len(headers), position),
                   LocatorCell(position + Len(headers)),
                   EocdCell(TRUE, 0, 0, 0, 0) >>
<1>1. headers \in Seq(Cells)
  <2>1. CentralCells \subseteq Cells
    BY DEF Cells
  <2> QED
    BY <2>1 DEF TypeOK
<1>2. /\ Eocd64Cell(Cardinality(entries), Len(headers), position) \in Cells
      /\ LocatorCell(position + Len(headers)) \in Cells
      /\ EocdCell(TRUE, 0, 0, 0, 0) \in Cells
  <2>1. Cardinality(entries) \in Nat
    BY FS_CardinalityType
  <2> QED
    BY <2>1 DEF TypeOK, Cells, Eocd64Cell, LocatorCell, EocdCell
<1>3. t \in Seq(Cells)
  BY <1>2, TripleType
<1>4. Trailer = headers \o t
  BY DEF Trailer
<1> HIDE DEF t
<1> QED
  BY <1>1, <1>3, <1>4, ConcatProperties, Zenon

LEMMA TypeFinish ==
    ASSUME TypeInv, Finish PROVE TypeInv'
<1> USE DEF TypeInv
<1>1. streamer' = streamer /\ ~streamer.live
  BY DEF Finish, Idle
<1>2. CASE phase' = "failed" /\ UNCHANGED << file, raw >>
  BY <1>1, <1>2 DEF TypeOK, Bounds, Phases, file, raw
<1>3. CASE /\ state' = Writing(position)
           /\ \E k \in 0..Len(Trailer) :
                /\ Put(Trailer, k)
                /\ phase' = IF k = Len(Trailer) THEN "finished" ELSE "failed"
           /\ UNCHANGED << position, entries, headers >>
  <2>1. Trailer \in Seq(Cells)
    BY TrailerType DEF Bounds
  <2>2. PICK k \in 0..Len(Trailer) : Put(Trailer, k)
    BY <1>3
  <2>3. /\ disk' \in Seq(Cells) /\ cursor' \in Nat /\ cursor' = cursor + k
        /\ cursor' <= Len(disk') /\ k \in Nat
    BY <2>1, <2>2, PutFacts DEF TypeOK, Bounds
  <2>4. phase' \in Phases
    BY <1>3 DEF Phases
  <2> QED
    BY <1>1, <1>3, <2>3, <2>4 DEF TypeOK, Bounds, Writing
<1> QED
  BY <1>2, <1>3 DEF Finish

LEMMA TypeTruncate ==
    ASSUME TypeInv, Truncate PROVE TypeInv'
<1> USE DEF TypeInv
<1>1. /\ disk' = SubSeq(disk, 1, cursor)
      /\ UNCHANGED << cursor, raw, streamer, phase >>
      /\ ~streamer.live
  BY DEF Truncate
<1>2. /\ SubSeq(disk, 1, cursor) \in Seq(Cells)
      /\ Len(SubSeq(disk, 1, cursor)) = cursor
  BY SubSeqProperties DEF TypeOK, Bounds
<1> QED
  BY <1>1, <1>2 DEF TypeOK, Bounds, raw

LEMMA TypeStep == TypeInv /\ [Next]_vars => TypeInv'
<1> SUFFICES ASSUME TypeInv, [Next]_vars PROVE TypeInv'
  OBVIOUS
<1>1. CASE AddFile
  <2>1. PICK name \in Names, method \in Supported, plain \in Contents :
            WriteFileRaw(name, "File", method, plain)
    BY <1>1 DEF AddFile
  <2>2. "File" \in FileTypes /\ method \in Methods /\ plain \in Seq(Bytes)
    BY ContentsType DEF FileTypes, Supported
  <2> QED
    BY <2>1, <2>2, TypeWriteFileRaw
<1>2. CASE AddDirectory
  <2>1. PICK name \in Names : WriteFileRaw(name, "Directory", "Store", << >>)
    BY <1>2 DEF AddDirectory
  <2>2. /\ "Directory" \in FileTypes /\ "Store" \in Methods
        /\ << >> \in Seq(Bytes)
    BY DEF FileTypes, Methods
  <2> QED
    BY <2>1, <2>2, TypeWriteFileRaw
<1>3. CASE AddSymlink
  <2>1. PICK name \in Names, target \in Contents :
            WriteFileRaw(name, "Symlink", "Store", target)
    BY <1>3 DEF AddSymlink
  <2>2. /\ "Symlink" \in FileTypes /\ "Store" \in Methods
        /\ target \in Seq(Bytes)
    BY ContentsType DEF FileTypes, Methods
  <2> QED
    BY <2>1, <2>2, TypeWriteFileRaw
<1>4. CASE \E name \in Names, method \in Methods : StreamFile(name, method)
  BY <1>4, TypeStreamFile
<1>5. CASE (\E b \in Bytes : StreamWrite(b)) \/ StreamFlush
  BY <1>5, TypeForward DEF StreamWrite, StreamFlush
<1>6. CASE StreamFinish
  BY <1>6, TypeStreamFinish
<1>7. CASE StreamDrop
  BY <1>7, TypeStreamDrop
<1>8. CASE Recover
  BY <1>8 DEF Recover, Idle, TypeInv, TypeOK, Bounds, Default
<1>9. CASE Finish
  BY <1>9, TypeFinish
<1>10. CASE Truncate
  BY <1>10, TypeTruncate
<1>11. CASE UNCHANGED vars
  BY <1>11 DEF vars, TypeInv, TypeOK, Bounds, Sent
<1> QED
  BY <1>1, <1>2, <1>3, <1>4, <1>5, <1>6, <1>7, <1>8, <1>9, <1>10, <1>11
  DEF Next

\* Every reachable state of the archive writer is well formed, and the
\* file never has a hole: position, cursor and a pending recovery point
\* never lie past the end of the file.
THEOREM TypeCorrect == Spec => [](TypeOK /\ Bounds)
<1>1. Init => TypeInv
  BY TypeInit
<1>2. TypeInv /\ [Next]_vars => TypeInv'
  BY TypeStep
<1>3. TypeInv => TypeOK /\ Bounds
  BY DEF TypeInv
<1> QED
  BY <1>1, <1>2, <1>3, PTL DEF Spec

\* From a failure, or the loss of a streamer, until recover, no call
\* commits an entry and finish does not succeed, wherever the writer starts.
THEOREM NoCommitWhileBlocked == Spec => BlockedUntilRecovered
<1> DEFINE Stays == headers' = headers /\ phase' # "finished"
<1>1. ASSUME Next, Idle, state.writing PROVE Stays
  <2>1. phase = "open" /\ ~streamer.live /\ ~StartWriting
    BY <1>1 DEF Idle, StartWriting
  <2>2. ~AddFile /\ ~AddDirectory /\ ~AddSymlink
    BY <2>1 DEF AddFile, AddDirectory, AddSymlink, WriteFileRaw
  <2>3. \A name \in Names, method \in Methods : ~StreamFile(name, method)
    BY <2>1 DEF StreamFile
  <2>4. /\ \A b \in Bytes : ~StreamWrite(b)
        /\ ~StreamFlush /\ ~StreamFinish /\ ~StreamDrop
    BY <2>1 DEF StreamWrite, StreamFlush, StreamFinish, StreamDrop
  <2>5. CASE Recover
    BY <2>1, <2>5 DEF Recover
  <2>6. CASE Finish
    BY <2>1, <2>6 DEF Finish, raw
  <2>7. CASE Truncate
    BY <2>1, <2>7 DEF Truncate, raw
  <2> QED
    BY <1>1, <2>2, <2>3, <2>4, <2>5, <2>6, <2>7 DEF Next
<1>2. [Next]_vars => [Idle /\ state.writing => Stays]_vars
  BY <1>1
<1> QED
  BY <1>2, PTL DEF Spec, BlockedUntilRecovered

-------------------------------------------------------------------------------
(***************************************************************************)
(* Safety.                                                                 *)
(*                                                                         *)
(* CommittedIntact is not inductive: it needs to know that every write     *)
(* lands after the last committed entry (Anchored, Resume), that no entry  *)
(* lies further than the last one (Below), and what a live stream has put  *)
(* into the file (StreamInv).  Recover seeks to an offset of the archive   *)
(* as if it were one of the file, so the theorems assume Start = 0.        *)
(***************************************************************************)
Below ==
    \A i \in DOMAIN headers :
        headers[i].offset + EntryLen(headers[i]) <= CommittedEnd

Anchored == Start + CommittedEnd <= cursor

Resume ==
    /\ phase = "open" /\ state.writing => state.at = CommittedEnd
    /\ phase = "open" /\ ~state.writing =>
          position = CommittedEnd /\ cursor = Start + position

StreamImage(s) ==
    LocalHeader(s.name, s.method, TRUE, 0, << >>)
        \o Data(Encode(s.method, s.given))

StreamInv ==
    streamer.live =>
        /\ phase = "open"
        /\ state = Writing(position)
        /\ cursor = Start + position + streamer.amt
        /\ streamer.offset = position
        /\ streamer.started = LocalLen
        /\ streamer.name.base \notin entries
        /\ \A k \in 1..streamer.amt :
              disk[Start + position + k] = StreamImage(streamer)[k]

Safe ==
    /\ TypeInv
    /\ CommittedIntact
    /\ Contiguous
    /\ Below
    /\ Anchored
    /\ Resume
    /\ StreamInv
    /\ NamesExact

(***************************************************************************)
(* Images, cell by cell.                                                   *)
(***************************************************************************)
LEMMA PrefixImageFacts ==
    ASSUME NEW name \in Names, NEW method \in Methods, NEW plain \in Seq(Bytes)
    PROVE  LET l == LocalHeader(name, method, TRUE, 0, << >>)
               e == Encode(method, plain)
               m == l \o Data(e)
           IN  /\ m \in Seq(Cells)
               /\ Len(m) = LocalLen + Len(e)
               /\ \A k \in 1..LocalLen : m[k] = l[k]
               /\ \A k \in 1..Len(e) : m[LocalLen + k] = DataCell(e[k])
<1> DEFINE l == LocalHeader(name, method, TRUE, 0, << >>)
           e == Encode(method, plain)
           d == Data(e)
           m == l \o d
<1>1. l \in Seq(Cells) /\ Len(l) = LocalLen
  <2>1. << >> \in Seq(Bytes) /\ 0 \in Nat /\ TRUE \in BOOLEAN
    OBVIOUS
  <2> QED
    BY <2>1, LocalHeaderFacts
<1>2. e \in Seq(Symbols) /\ Len(e) \in Nat
  BY EncodeFacts
<1> HIDE DEF l, e
<1>3. /\ d \in Seq(Cells) /\ Len(d) = Len(e)
      /\ \A k \in 1..Len(e) : d[k] = DataCell(e[k])
  BY <1>2, DataFacts
<1> HIDE DEF d
<1>4. /\ m \in Seq(Cells)
      /\ Len(m) = Len(l) + Len(d)
      /\ \A k \in 1..(Len(l) + Len(d)) :
            m[k] = IF k <= Len(l) THEN l[k] ELSE d[k - Len(l)]
  BY <1>1, <1>3, ConcatProperties, ZenonT(30)
<1> HIDE DEF m
<1>5. LocalLen = 2
  BY DEF LocalLen
<1>6. Len(m) = LocalLen + Len(e)
  BY <1>1, <1>3, <1>4
<1>7. ASSUME NEW k \in 1..LocalLen PROVE m[k] = l[k]
  BY <1>1, <1>2, <1>3, <1>4, <1>5, <1>7
<1>8. ASSUME NEW k \in 1..Len(e) PROVE m[LocalLen + k] = DataCell(e[k])
  <2>1. /\ LocalLen + k \in 1..(Len(l) + Len(d))
        /\ ~(LocalLen + k <= Len(l))
        /\ (LocalLen + k) - Len(l) = k
    BY <1>1, <1>2, <1>3, <1>5, <1>8
  <2> QED
    BY <1>3, <1>4, <1>8, <2>1
<1> QED
  BY <1>4, <1>6, <1>7, <1>8 DEF l, e, d, m

\* The image of a streamed entry is what a stream puts into the file,
\* followed by the descriptor.
LEMMA StreamedImageFacts ==
    ASSUME NEW h \in CentralCells, h.stream
    PROVE  LET m == LocalHeader(h.name, h.method, TRUE, 0, << >>)
                        \o Data(Encode(h.method, h.sum))
           IN  /\ EntryLen(h) = Len(m) + 1
               /\ \A k \in 1..Len(m) : EntryImage(h)[k] = m[k]
               /\ EntryImage(h)[Len(m) + 1] = DescriptorCell(h.csize, h.sum)
<1> DEFINE m == LocalHeader(h.name, h.method, TRUE, 0, << >>)
                    \o Data(Encode(h.method, h.sum))
           c == << DescriptorCell(h.csize, h.sum) >>
<1>1. /\ h.name \in Names /\ h.method \in Methods
      /\ h.csize \in Nat /\ h.sum \in Seq(Bytes)
  BY DEF CentralCells
<1>2. m \in Seq(Cells) /\ Len(m) = LocalLen + Len(Encode(h.method, h.sum))
  BY <1>1, PrefixImageFacts, ZenonT(30)
<1>3. c \in Seq(Cells) /\ Len(c) = 1 /\ c[1] = DescriptorCell(h.csize, h.sum)
  BY <1>1, DescriptorType
<1>4. EntryImage(h) = m \o c
  BY DEF EntryImage
<1>5. EntryLen(h) = LocalLen + Len(Encode(h.method, h.sum)) + 1
  BY DEF EntryLen
<1> HIDE DEF m, c
<1>6. \A k \in 1..(Len(m) + Len(c)) :
         (m \o c)[k] = IF k <= Len(m) THEN m[k] ELSE c[k - Len(m)]
  BY <1>2, <1>3, ConcatProperties, Zenon
<1>7. Len(m) \in Nat
  BY <1>2
<1>8. ASSUME NEW k \in 1..Len(m) PROVE EntryImage(h)[k] = m[k]
  BY <1>3, <1>4, <1>6, <1>7, <1>8
<1>9. EntryImage(h)[Len(m) + 1] = DescriptorCell(h.csize, h.sum)
  <2>1. /\ Len(m) + 1 \in 1..(Len(m) + Len(c))
        /\ ~(Len(m) + 1 <= Len(m))
        /\ (Len(m) + 1) - Len(m) = 1
    BY <1>3, <1>7
  <2> QED
    BY <1>3, <1>4, <1>6, <2>1
<1> QED
  BY <1>2, <1>5, <1>8, <1>9 DEF m

(***************************************************************************)
(* The two ways in which an action treats the committed entries: it leaves *)
(* them alone, or it appends one.                                          *)
(***************************************************************************)
LEMMA EndNat ==
    ASSUME TypeOK
    PROVE  /\ CommittedEnd \in Nat
           /\ \A i \in DOMAIN headers :
                /\ headers[i] \in CentralCells
                /\ headers[i].offset \in Nat
                /\ EntryLen(headers[i]) \in Nat
<1>1. ASSUME NEW i \in DOMAIN headers
      PROVE  /\ headers[i] \in CentralCells
             /\ headers[i].offset \in Nat
             /\ EntryLen(headers[i]) \in Nat
  <2>1. headers[i] \in CentralCells
    BY <1>1 DEF TypeOK
  <2> QED
    BY <2>1, EntryImageFacts DEF CentralCells
<1>2. CASE headers = << >>
  BY <1>1, <1>2 DEF CommittedEnd
<1>3. CASE headers # << >>
  <2>1. Len(headers) \in DOMAIN headers
    BY <1>3 DEF TypeOK
  <2> QED
    BY <1>1, <1>3, <2>1 DEF CommittedEnd
<1> QED
  BY <1>2, <1>3

LEMMA KeepEntries ==
    ASSUME TypeInv, CommittedIntact, Contiguous, Below, Anchored,
           headers' = headers,
           Len(disk') \in Nat, cursor <= Len(disk'),
           \A i \in 1..cursor : disk'[i] = disk[i]
    PROVE  /\ CommittedIntact'
           /\ Contiguous'
           /\ Below'
           /\ CommittedEnd' = CommittedEnd
<1>1. CommittedEnd' = CommittedEnd
  BY DEF CommittedEnd
<1>2. Contiguous'
  BY DEF Contiguous
<1>3. Below'
  BY <1>1 DEF Below
<1>4. ASSUME NEW i \in DOMAIN headers, NEW k \in 1..EntryLen(headers[i])
      PROVE  /\ Start + headers[i].offset + k <= Len(disk')
             /\ disk'[Start + headers[i].offset + k]
                    = EntryImage(headers[i])[k]
  <2>1. /\ headers[i].offset \in Nat /\ EntryLen(headers[i]) \in Nat
        /\ CommittedEnd \in Nat
    BY <1>4, EndNat DEF TypeInv
  <2>2. headers[i].offset + EntryLen(headers[i]) <= CommittedEnd
    BY <1>4 DEF Below
  <2>3. Start \in Nat /\ cursor \in Nat /\ Start + CommittedEnd <= cursor
    BY WriterAssumption DEF TypeInv, TypeOK, Anchored
  <2>4. /\ Start + headers[i].offset + k \in 1..cursor
        /\ Start + headers[i].offset + k <= Len(disk')
    BY <1>4, <2>1, <2>2, <2>3
  <2>5. disk[Start + headers[i].offset + k] = EntryImage(headers[i])[k]
    BY <1>4 DEF CommittedIntact
  <2> QED
    BY <2>4, <2>5
<1>5. CommittedIntact'
  BY <1>4 DEF CommittedIntact
<1> QED
  BY <1>1, <1>2, <1>3, <1>5

LEMMA PushEntry ==
    ASSUME TypeInv, CommittedIntact, Contiguous, Below, Anchored, NamesExact,
           NEW h \in CentralCells,
           h.offset = CommittedEnd,
           h.name.base \notin entries,
           PushCentralHeader(h),
           Len(disk') \in Nat, cursor <= Len(disk'),
           \A i \in 1..cursor : disk'[i] = disk[i],
           \A k \in 1..EntryLen(h) :
                /\ Start + h.offset + k <= Len(disk')
                /\ disk'[Start + h.offset + k] = EntryImage(h)[k]
    PROVE  /\ CommittedIntact'
           /\ Contiguous'
           /\ Below'
           /\ NamesExact'
           /\ CommittedEnd' = CommittedEnd + EntryLen(h)
<1> DEFINE n == Len(headers)
<1>1. /\ headers \in Seq(CentralCells) /\ n \in Nat
      /\ DOMAIN headers = 1..n
  BY DEF TypeInv, TypeOK
<1>2. /\ headers' = Append(headers, h)
      /\ entries' = entries \cup {h.name.base}
  BY DEF PushCentralHeader
<1>3. /\ DOMAIN headers' = 1..(n + 1)
      /\ Len(headers') = n + 1
      /\ headers' # << >>
      /\ headers'[n + 1] = h
      /\ \A i \in 1..n : headers'[i] = headers[i]
  BY <1>1, <1>2
<1>4. CommittedEnd \in Nat /\ EntryLen(h) \in Nat
  BY EndNat, EntryImageFacts DEF TypeInv
<1>5. CommittedEnd' = CommittedEnd + EntryLen(h)
  BY <1>3 DEF CommittedEnd
<1>6. Contiguous'
  <2>1. ASSUME NEW i \in 1..n
        PROVE  headers'[i].offset =
                 IF i = 1 THEN 0
                 ELSE headers'[i - 1].offset + EntryLen(headers'[i - 1])
    <3>1. headers[i].offset =
                 IF i = 1 THEN 0
                 ELSE headers[i - 1].offset + EntryLen(headers[i - 1])
      BY <1>1, <2>1 DEF Contiguous
    <3>2. i # 1 => i - 1 \in 1..n
      BY <1>1, <2>1
    <3> QED
      BY <1>3, <2>1, <3>1, <3>2
  <2>2. headers'[n + 1].offset =
                 IF n + 1 = 1 THEN 0
                 ELSE headers'[n].offset + EntryLen(headers'[n])
    <3>1. CASE n = 0
      <4>1. headers = << >>
        BY <1>1, <3>1
      <4> QED
        BY <1>3, <3>1, <4>1 DEF CommittedEnd
    <3>2. CASE n # 0
      <4>1. headers # << >> /\ n \in 1..n
        BY <1>1, <3>2
      <4> QED
        BY <1>1, <1>3, <3>2, <4>1 DEF CommittedEnd
    <3> QED
      BY <3>1, <3>2
  <2>3. \A i \in 1..(n + 1) : i \in 1..n \/ i = n + 1
    BY <1>1
  <2>4. (n + 1) - 1 = n
    BY <1>1
  <2> QED
    BY <1>3, <2>1, <2>2, <2>3, <2>4 DEF Contiguous
<1>7. Below'
  <2>1. ASSUME NEW i \in 1..n
        PROVE  headers'[i].offset + EntryLen(headers'[i]) <= CommittedEnd'
    <3>1. /\ headers[i].offset \in Nat /\ EntryLen(headers[i]) \in Nat
          /\ headers[i].offset + EntryLen(headers[i]) <= CommittedEnd
      BY <1>1, <2>1, EndNat DEF Below, TypeInv
    <3> QED
      BY <1>3, <1>4, <1>5, <2>1, <3>1
  <2>2. headers'[n + 1].offset + EntryLen(headers'[n + 1]) <= CommittedEnd'
    BY <1>3, <1>4, <1>5
  <2>3. \A i \in 1..(n + 1) : i \in 1..n \/ i = n + 1
    BY <1>1
  <2> QED
    BY <1>3, <2>1, <2>2, <2>3 DEF Below
<1>8. CommittedIntact'
  <2>1. ASSUME NEW i \in 1..n, NEW k \in 1..EntryLen(headers[i])
        PROVE  /\ Start + headers[i].offset + k <= Len(disk')
               /\ disk'[Start + headers[i].offset + k]
                    = EntryImage(headers[i])[k]
    <3>1. /\ headers[i].offset \in Nat /\ EntryLen(headers[i]) \in Nat
          /\ headers[i].offset + EntryLen(headers[i]) <= CommittedEnd
      BY <1>1, <2>1, EndNat DEF Below, TypeInv
    <3>2. Start \in Nat /\ cursor \in Nat /\ Start + CommittedEnd <= cursor
      BY WriterAssumption DEF TypeInv, TypeOK, Anchored
    <3>3. /\ Start + headers[i].offset + k \in 1..cursor
          /\ Start + headers[i].offset + k <= Len(disk')
      BY <1>4, <2>1, <3>1, <3>2, SMTT(30)
    <3>4. disk[Start + headers[i].offset + k] = EntryImage(headers[i])[k]
      BY <1>1, <2>1 DEF CommittedIntact
    <3> QED
      BY <3>3, <3>4
  <2>2. \A i \in 1..(n + 1) : i \in 1..n \/ i = n + 1
    BY <1>1
  <2> QED
    BY <1>3, <2>1, <2>2 DEF CommittedIntact
<1>9. NamesExact'
  <2>1. /\ entries = { headers[i].name.base : i \in 1..n }
        /\ \A i, j \in 1..n :
              headers[i].name.base = headers[j].name.base => i = j
    BY <1>1 DEF NamesExact
  <2>2. entries' = { headers'[i].name.base : i \in 1..(n + 1) }
    <3>1. \A i \in 1..(n + 1) : i \in 1..n \/ i = n + 1
      BY <1>1
    <3>2. n + 1 \in 1..(n + 1) /\ \A i \in 1..n : i \in 1..(n + 1)
      BY <1>1
    <3> QED
      BY <1>2, <1>3, <2>1, <3>1, <3>2
  <2>3. ASSUME NEW i \in 1..(n + 1), NEW j \in 1..(n + 1),
               headers'[i].name.base = headers'[j].name.base
        PROVE  i = j
    <3>1. (i \in 1..n \/ i = n + 1) /\ (j \in 1..n \/ j = n + 1)
      BY <1>1, <2>3
    <3>2. \A l \in 1..n : headers[l].name.base # h.name.base
      BY <2>1
    <3> QED
      BY <1>3, <2>1, <2>3, <3>1, <3>2
  <2> QED
    BY <1>3, <2>2, <2>3 DEF NamesExact
<1> QED
  BY <1>5, <1>6, <1>7, <1>8, <1>9

(***************************************************************************)
(* One lemma per action.                                                   *)
(***************************************************************************)
LEMMA SafeInit == Init => Safe
<1> SUFFICES ASSUME Init PROVE Safe
  OBVIOUS
<1>1. TypeInv
  BY TypeInit
<1>2. headers = << >> /\ DOMAIN headers = {} /\ entries = {}
  BY DEF Init
<1>3. CommittedEnd = 0
  BY <1>2 DEF CommittedEnd
<1>4. CommittedIntact /\ Contiguous /\ Below /\ NamesExact
  BY <1>2 DEF CommittedIntact, Contiguous, Below, NamesExact
<1>5. Anchored /\ Resume /\ StreamInv
  BY <1>3, WriterAssumption
  DEF Init, Anchored, Resume, StreamInv, Default, NoStreamer
<1> QED
  BY <1>1, <1>4, <1>5 DEF Safe

LEMMA SafeWriteFileRaw ==
    ASSUME Safe, NEW name \in Names, NEW type \in FileTypes,
           NEW method \in Methods, NEW plain \in Seq(Bytes),
           WriteFileRaw(name, type, method, plain)
    PROVE  Safe'
<1> DEFINE h == CentralCell(name, type, method, FALSE,
                            Len(Encode(method, plain)), plain, position)
           w == EntryImage(h)
<1> USE DEF Safe
<1>1. TypeInv'
  BY TypeWriteFileRaw
<1>2. h \in CentralCells /\ h.offset = position /\ h.name = name
  BY RawHeaderType DEF CentralCell, TypeInv
<1>3. /\ w \in Seq(Cells) /\ Len(w) = EntryLen(h)
      /\ EntryLen(h) \in Nat
  BY <1>2, EntryImageFacts
<1>4. /\ phase = "open" /\ ~state.writing /\ ~streamer.live
      /\ name.base \notin entries
      /\ streamer' = streamer /\ phase' = phase
  BY DEF WriteFileRaw, Idle, CheckName, StartWriting
<1>5. PICK k \in 0..Len(w) :
        /\ Put(w, k)
        /\ \/ /\ state' = Writing(position)
              /\ UNCHANGED << position, entries, headers >>
           \/ /\ k = Len(w)
              /\ PushCentralHeader(h)
              /\ position' = position + k
              /\ state' = Default
  BY DEF WriteFileRaw
<1>6. position = CommittedEnd /\ cursor = Start + position
  BY <1>4 DEF Resume
<1>7. Start \in Nat /\ cursor \in Nat /\ position \in Nat /\ Len(disk) \in Nat
  BY WriterAssumption DEF TypeInv, TypeOK
<1> HIDE DEF w, h
<1>8. /\ cursor' = cursor + k /\ k \in Nat
      /\ Len(disk') \in Nat /\ cursor' <= Len(disk') /\ Len(disk) <= Len(disk')
      /\ \A i \in 1..cursor : disk'[i] = disk[i]
      /\ \A i \in 1..k : disk'[cursor + i] = w[i]
  BY <1>3, <1>5, PutFacts DEF TypeInv, TypeOK, Bounds
<1>9. cursor <= Len(disk')
  BY <1>7, <1>8
<1>10. StreamInv'
  BY <1>4 DEF StreamInv
<1>11. CASE /\ state' = Writing(position)
            /\ UNCHANGED << position, entries, headers >>
  <2>1. CommittedIntact' /\ Contiguous' /\ Below' /\ CommittedEnd' = CommittedEnd
    BY <1>8, <1>9, <1>11, KeepEntries
  <2>2. Anchored' /\ Resume'
    BY <1>4, <1>6, <1>7, <1>8, <1>11, <2>1 DEF Anchored, Resume, Writing
  <2>3. NamesExact'
    BY <1>11 DEF NamesExact
  <2> QED
    BY <1>1, <1>10, <2>1, <2>2, <2>3
<1>12. CASE /\ k = Len(w)
            /\ PushCentralHeader(h)
            /\ position' = position + k
            /\ state' = Default
  <2>1. \A i \in 1..EntryLen(h) :
            /\ Start + h.offset + i <= Len(disk')
            /\ disk'[Start + h.offset + i] = EntryImage(h)[i]
    <3>1. k = EntryLen(h) /\ Start + h.offset = cursor
      BY <1>2, <1>3, <1>6, <1>12
    <3> QED
      BY <1>3, <1>7, <1>8, <3>1 DEF w
  <2>2. h.offset = CommittedEnd /\ h.name.base \notin entries
    BY <1>2, <1>4, <1>6
  <2>3. /\ CommittedIntact' /\ Contiguous' /\ Below' /\ NamesExact'
        /\ CommittedEnd' = CommittedEnd + EntryLen(h)
    BY <1>2, <1>8, <1>9, <1>12, <2>1, <2>2, PushEntry
  <2>4. CommittedEnd' = position' /\ cursor' = Start + position'
    BY <1>3, <1>6, <1>7, <1>8, <1>12, <2>3
  <2>5. Anchored'
    BY <1>1, <2>4 DEF Anchored, TypeInv, TypeOK
  <2>6. Resume'
    BY <1>12, <2>4 DEF Resume, Default
  <2> QED
    BY <1>1, <1>10, <2>3, <2>5, <2>6
<1> QED
  BY <1>5, <1>11, <1>12

LEMMA SafeStreamFile ==
    ASSUME Safe, NEW name \in Names, NEW method \in Methods,
           StreamFile(name, method)
    PROVE  Safe'
<1> DEFINE w == LocalHeader(name, method, TRUE, 0, << >>)
<1> USE DEF Safe
<1>1. TypeInv'
  BY TypeStreamFile
<1>2. w \in Seq(Cells) /\ Len(w) = LocalLen
  <2>1. << >> \in Seq(Bytes) /\ 0 \in Nat /\ TRUE \in BOOLEAN
    OBVIOUS
  <2> QED
    BY <2>1, LocalHeaderFacts
<1>3. /\ phase = "open" /\ ~state.writing /\ ~streamer.live
      /\ name.base \notin entries
      /\ state' = Writing(position)
      /\ UNCHANGED << position, entries, headers, phase >>
  BY DEF StreamFile, Idle, CheckName, StartWriting
<1>4. PICK k \in 0..Len(w) :
        /\ Put(w, k)
        /\ \/ streamer' = NoStreamer
           \/ /\ k = Len(w)
              /\ streamer' = [live |-> TRUE, name |-> name, method |-> method,
                              offset |-> position, started |-> k, amt |-> k,
                              given |-> << >>]
  BY DEF StreamFile
<1>5. position = CommittedEnd /\ cursor = Start + position
  BY <1>3 DEF Resume
<1>6. Start \in Nat /\ cursor \in Nat /\ position \in Nat /\ Len(disk) \in Nat
  BY WriterAssumption DEF TypeInv, TypeOK
<1> HIDE DEF w
<1>7. /\ cursor' = cursor + k /\ k \in Nat
      /\ Len(disk') \in Nat /\ cursor' <= Len(disk')
      /\ \A i \in 1..cursor : disk'[i] = disk[i]
      /\ \A i \in 1..k : disk'[cursor + i] = w[i]
  BY <1>2, <1>4, PutFacts DEF TypeInv, TypeOK, Bounds
<1>8. cursor <= Len(disk')
  BY <1>6, <1>7
<1>9. CommittedIntact' /\ Contiguous' /\ Below' /\ CommittedEnd' = CommittedEnd
  BY <1>3, <1>7, <1>8, KeepEntries
<1>10. Anchored' /\ Resume'
  BY <1>3, <1>5, <1>6, <1>7, <1>9 DEF Anchored, Resume, Writing
<1>11. NamesExact'
  BY <1>3 DEF NamesExact
<1>12. StreamInv'
  <2>1. CASE streamer' = NoStreamer
    BY <2>1 DEF StreamInv, NoStreamer
  <2>2. CASE /\ k = Len(w)
             /\ streamer' = [live |-> TRUE, name |-> name, method |-> method,
                             offset |-> position, started |-> k, amt |-> k,
                             given |-> << >>]
    <3>1. /\ streamer'.name = name /\ streamer'.method = method
          /\ streamer'.offset = position /\ streamer'.started = LocalLen
          /\ streamer'.amt = k /\ streamer'.given = << >> /\ k = LocalLen
      BY <1>2, <2>2
    <3>2. << >> \in Seq(Bytes)
      OBVIOUS
    <3>3. \A i \in 1..LocalLen : StreamImage(streamer')[i] = w[i]
      <4>1. StreamImage(streamer') = w \o Data(Encode(method, << >>))
        BY <3>1 DEF StreamImage, w
      <4>2. \A i \in 1..LocalLen :
               (w \o Data(Encode(method, << >>)))[i] = w[i]
        BY <3>2, PrefixImageFacts DEF w
      <4> QED
        BY <4>1, <4>2
    <3>4. \A i \in 1..k :
             disk'[Start + position' + i] = StreamImage(streamer')[i]
      BY <1>3, <1>5, <1>7, <3>1, <3>3
    <3>5. cursor' = Start + position' + k
      BY <1>3, <1>5, <1>7
    <3> QED
      BY <1>3, <3>1, <3>4, <3>5 DEF StreamInv
  <2> QED
    BY <1>4, <2>1, <2>2
<1> QED
  BY <1>1, <1>9, <1>10, <1>11, <1>12

\* A live stream that sends the next k of its symbols, encoded as e, stays a
\* prefix of the image of its content, be it extended to `more' meanwhile.
LEMMA ForwardFacts ==
    ASSUME Safe, streamer.live,
           NEW more \in Seq(Bytes),
           Len(streamer.given) <= Len(more),
           \A i \in 1..Len(streamer.given) : more[i] = streamer.given[i],
           NEW e \in Seq(Symbols),
           Len(e) <= Len(Encode(streamer.method, more)),
           \A i \in 1..Len(e) : Encode(streamer.method, more)[i] = e[i],
           NEW k \in Nat, k + Sent(streamer) <= Len(e),
           \A i \in 1..cursor : disk'[i] = disk[i],
           \A i \in 1..k : disk'[cursor + i] = DataCell(e[Sent(streamer) + i])
    PROVE  \A i \in 1..(streamer.amt + k) :
              disk'[Start + position + i] =
                 (LocalHeader(streamer.name, streamer.method, TRUE, 0, << >>)
                    \o Data(Encode(streamer.method, more)))[i]
<1> DEFINE s == streamer
           l == LocalHeader(s.name, s.method, TRUE, 0, << >>)
           f == Encode(s.method, more)
           g == Encode(s.method, s.given)
           m == l \o Data(f)
           old == l \o Data(g)
<1> USE DEF Safe
<1>1. /\ s.name \in Names /\ s.method \in Methods /\ s.given \in Seq(Bytes)
      /\ s.amt \in Nat /\ Len(s.given) \in Nat
      /\ Sent(s) \in Nat /\ Sent(s) = s.amt - s.started
      /\ Sent(s) <= Len(s.given)
  BY LiveFacts DEF TypeInv
<1>2. /\ cursor = Start + position + s.amt
      /\ s.started = LocalLen
      /\ \A i \in 1..s.amt : disk[Start + position + i] = old[i]
  BY DEF StreamInv, StreamImage
<1>3. LocalLen = 2 /\ s.amt = LocalLen + Sent(s)
  BY <1>1, <1>2 DEF LocalLen
<1>4. Start \in Nat /\ position \in Nat /\ cursor \in Nat
  BY WriterAssumption DEF TypeInv, TypeOK
<1>5. /\ \A i \in 1..LocalLen : m[i] = l[i]
      /\ \A i \in 1..Len(f) : m[LocalLen + i] = DataCell(f[i])
  BY <1>1, PrefixImageFacts
<1>6. /\ \A i \in 1..LocalLen : old[i] = l[i]
      /\ \A i \in 1..Len(g) : old[LocalLen + i] = DataCell(g[i])
  BY <1>1, PrefixImageFacts
<1>7. /\ Len(f) \in Nat /\ Len(g) \in Nat
      /\ Len(more) <= Len(f) /\ Len(s.given) <= Len(g)
      /\ \A i \in 1..Len(more) : f[i] = more[i]
      /\ \A i \in 1..Len(s.given) : g[i] = s.given[i]
  BY <1>1, EncodeFacts
<1>8. Len(more) \in Nat /\ Len(e) \in Nat
  OBVIOUS
<1>9. /\ Len(s.given) <= Len(more)
      /\ \A i \in 1..Len(s.given) : more[i] = s.given[i]
      /\ Len(e) <= Len(f)
      /\ \A i \in 1..Len(e) : f[i] = e[i]
      /\ k + Sent(s) <= Len(e)
      /\ \A i \in 1..k : disk'[cursor + i] = DataCell(e[Sent(s) + i])
  OBVIOUS
<1> HIDE DEF l, f, g, m, old, s
<1>10. ASSUME NEW i \in 1..s.amt
       PROVE  disk'[Start + position + i] = m[i]
  <2>1. disk'[Start + position + i] = old[i]
    <3>1. Start + position + i \in 1..cursor
      BY <1>1, <1>2, <1>4, <1>10
    <3> QED
      BY <1>2, <1>10, <3>1
  <2>2. CASE i <= LocalLen
    BY <1>3, <1>5, <1>6, <1>10, <2>1, <2>2
  <2>3. CASE ~(i <= LocalLen)
    <3> DEFINE j == i - LocalLen
    <3>1. /\ j \in 1..Sent(s) /\ i = LocalLen + j
          /\ j \in 1..Len(s.given) /\ j \in 1..Len(g)
          /\ j \in 1..Len(more) /\ j \in 1..Len(f)
      BY <1>1, <1>3, <1>7, <1>8, <1>9, <1>10, <2>3, SMTT(30)
    <3> HIDE DEF j
    <3>2. f[j] = g[j]
      BY <1>7, <1>9, <3>1
    <3>3. m[LocalLen + j] = DataCell(f[j]) /\ old[LocalLen + j] = DataCell(g[j])
      BY <1>5, <1>6, <3>1
    <3> QED
      BY <2>1, <3>1, <3>2, <3>3
  <2> QED
    BY <2>2, <2>3
<1>11. ASSUME NEW j \in 1..k
       PROVE  disk'[Start + position + (s.amt + j)] = m[s.amt + j]
  <2>1. Start + position + (s.amt + j) = cursor + j
    BY <1>1, <1>2, <1>4, <1>11
  <2>2. /\ Sent(s) + j \in 1..Len(e) /\ Sent(s) + j \in 1..Len(f)
        /\ s.amt + j = LocalLen + (Sent(s) + j)
    <3>1. /\ Sent(s) \in Nat /\ j \in Nat /\ 1 <= j /\ j <= k
          /\ Len(e) \in Nat /\ Len(f) \in Nat
      BY <1>1, <1>7, <1>8, <1>11
    <3>2. k + Sent(s) <= Len(e) /\ Len(e) <= Len(f)
      BY <1>9
    <3>3. LocalLen = 2 /\ s.amt = LocalLen + Sent(s)
      BY <1>3
    <3>4. Sent(s) + j \in Nat /\ 1 <= Sent(s) + j
      BY <3>1
    <3>5. Sent(s) + j <= Len(e)
      BY <3>1, <3>2
    <3>6. Sent(s) + j <= Len(f)
      BY <3>1, <3>2, <3>5
    <3>7. s.amt + j = LocalLen + (Sent(s) + j)
      BY <3>1, <3>3
    <3> QED
      BY <3>1, <3>4, <3>5, <3>6, <3>7
  <2>3. disk'[cursor + j] = DataCell(e[Sent(s) + j])
    BY <1>9, <1>11
  <2>4. f[Sent(s) + j] = e[Sent(s) + j]
    BY <1>9, <2>2
  <2>5. m[LocalLen + (Sent(s) + j)] = DataCell(f[Sent(s) + j])
    BY <1>5, <2>2
  <2> QED
    BY <2>1, <2>2, <2>3, <2>4, <2>5
<1>12. ASSUME NEW i \in 1..(s.amt + k)
       PROVE  disk'[Start + position + i] = m[i]
  <2>1. CASE i <= s.amt
    BY <1>1, <1>10, <1>12, <2>1
  <2>2. CASE ~(i <= s.amt)
    <3>1. i - s.amt \in 1..k /\ i = s.amt + (i - s.amt)
      BY <1>1, <1>12, <2>2
    <3> QED
      BY <1>11, <3>1
  <2> QED
    BY <2>1, <2>2
<1> QED
  BY <1>12 DEF m, l, f, s

LEMMA SafeForward ==
    ASSUME Safe, streamer.live,
           NEW given \in {streamer.given}
                           \cup { Append(streamer.given, b) : b \in Bytes },
           Forward(given)
    PROVE  Safe'
<1> DEFINE s == streamer
<1> USE DEF Safe
<1>1. TypeInv'
  BY TypeForward
<1>2. s.live /\ UNCHANGED << state, position, entries, headers, phase >>
  BY DEF Forward, raw
<1>3. /\ s \in Streamers /\ s.method \in Methods /\ s.given \in Seq(Bytes)
      /\ s.started <= s.amt /\ Len(s.given) \in Nat
      /\ s.amt \in Nat
      /\ Sent(s) \in Nat /\ Sent(s) <= Len(s.given)
  BY <1>2, LiveFacts DEF TypeInv
<1>4. PICK k \in 0..Len(Unsent(s, given)) :
        /\ Put(Unsent(s, given), k)
        /\ streamer' = [s EXCEPT !.given = given, !.amt = s.amt + k]
  BY DEF Forward
<1>5. /\ given \in Seq(Bytes) /\ given \in Seq(Symbols)
      /\ Len(given) \in Nat /\ Len(s.given) <= Len(given)
      /\ \A i \in 1..Len(s.given) : given[i] = s.given[i]
  <2>1. /\ given \in Seq(Bytes) /\ Len(s.given) <= Len(given)
        /\ \A i \in 1..Len(s.given) : given[i] = s.given[i]
    <3>1. CASE given = s.given
      BY <1>3, <3>1
    <3>2. ASSUME NEW b \in Bytes, given = Append(s.given, b)
          PROVE  /\ given \in Seq(Bytes) /\ Len(s.given) <= Len(given)
                 /\ \A i \in 1..Len(s.given) : given[i] = s.given[i]
      <4> HIDE DEF s
      <4> QED
        BY <1>3, <3>2
    <3> QED
      BY <3>1, <3>2
  <2> QED
    BY <1>3, <2>1 DEF Symbols
<1>6. Sent(s) <= Len(given)
  BY <1>3, <1>5
<1>7. /\ Unsent(s, given) \in Seq(Cells)
      /\ Len(Unsent(s, given)) = Len(given) - Sent(s)
      /\ \A i \in 1..Len(Unsent(s, given)) :
            Unsent(s, given)[i] = DataCell(given[Sent(s) + i])
  BY <1>3, <1>5, <1>6, UnsentFacts
<1>8. k \in Nat /\ k + Sent(s) <= Len(given) /\ k <= Len(Unsent(s, given))
  BY <1>3, <1>4, <1>5, <1>6, <1>7
<1>9. /\ cursor' = cursor + k
      /\ Len(disk') \in Nat /\ Len(disk) <= Len(disk')
      /\ \A i \in 1..cursor : disk'[i] = disk[i]
      /\ \A i \in 1..k : disk'[cursor + i] = Unsent(s, given)[i]
  BY <1>4, <1>7, <1>8, PutFacts DEF TypeInv, TypeOK, Bounds
<1>10. /\ cursor \in Nat /\ position \in Nat /\ Start \in Nat
       /\ Len(disk) \in Nat /\ cursor <= Len(disk')
  BY <1>9, WriterAssumption DEF TypeInv, TypeOK, Bounds
<1>11. CommittedIntact' /\ Contiguous' /\ Below' /\ CommittedEnd' = CommittedEnd
  BY <1>2, <1>9, <1>10, KeepEntries
<1>12. NamesExact'
  BY <1>2 DEF NamesExact
<1>13. /\ phase = "open" /\ state = Writing(position) /\ state.writing
       /\ cursor = Start + position + s.amt
       /\ s.offset = position /\ s.started = LocalLen
       /\ s.name.base \notin entries
  BY <1>2 DEF StreamInv, Writing
<1>14. Anchored' /\ Resume'
  <2>1. Anchored'
    BY <1>8, <1>9, <1>10, <1>11, EndNat DEF Anchored, TypeInv
  <2>2. Resume'
    BY <1>2, <1>11, <1>13 DEF Resume
  <2> QED
    BY <2>1, <2>2
<1>15. /\ streamer'.live /\ streamer'.name = s.name
       /\ streamer'.method = s.method /\ streamer'.offset = s.offset
       /\ streamer'.started = s.started /\ streamer'.given = given
       /\ streamer'.amt = s.amt + k
  BY <1>2, <1>3, <1>4 DEF Streamers
<1>16. \A i \in 1..(s.amt + k) :
          disk'[Start + position + i] =
             (LocalHeader(s.name, s.method, TRUE, 0, << >>)
                \o Data(Encode(s.method, given)))[i]
  <2>1. /\ Len(given) <= Len(Encode(s.method, given))
        /\ \A i \in 1..Len(given) : Encode(s.method, given)[i] = given[i]
    BY <1>5, EncodeFacts
  <2>2. \A i \in 1..k : disk'[cursor + i] = DataCell(given[Sent(s) + i])
    BY <1>7, <1>8, <1>9
  <2> QED
    BY <1>2, <1>5, <1>8, <1>9, <2>1, <2>2, ForwardFacts
<1>17. StreamInv'
  <2>1. StreamImage(streamer') =
            LocalHeader(s.name, s.method, TRUE, 0, << >>)
                \o Data(Encode(s.method, given))
    BY <1>15 DEF StreamImage
  <2>2. cursor' = Start + position' + streamer'.amt
    BY <1>2, <1>3, <1>8, <1>9, <1>10, <1>13, <1>15
  <2>3. \A i \in 1..streamer'.amt :
           disk'[Start + position' + i] = StreamImage(streamer')[i]
    BY <1>2, <1>15, <1>16, <2>1
  <2> QED
    BY <1>2, <1>13, <1>15, <2>2, <2>3 DEF StreamInv
<1> QED
  BY <1>1, <1>11, <1>12, <1>14, <1>17

LEMMA SafeStreamFinish ==
    ASSUME Safe, StreamFinish PROVE Safe'
<1> DEFINE s == streamer
           e == Encode(s.method, s.given)
           rest == Unsent(s, e)
           csize == Sent(s) + Len(rest)
           d == DescriptorCell(csize, s.given)
           h == CentralCell(s.name, "File", s.method, TRUE, csize, s.given,
                            s.offset)
           w == Append(rest, d)
<1> USE DEF Safe
<1>1. TypeInv'
  BY TypeStreamFinish
<1>2. s.live /\ streamer' = NoStreamer /\ phase' = phase
  BY DEF StreamFinish
<1>3. /\ s \in Streamers /\ s.name \in Names /\ s.method \in Methods
      /\ s.given \in Seq(Bytes) /\ s.offset \in Nat
      /\ s.started <= s.amt /\ s.started \in Nat /\ s.amt \in Nat
      /\ Len(s.given) \in Nat
      /\ Sent(s) \in Nat /\ Sent(s) = s.amt - s.started
      /\ Sent(s) <= Len(s.given)
  BY <1>2, LiveFacts DEF TypeInv
<1>4. /\ e \in Seq(Symbols) /\ Len(e) \in Nat /\ Len(s.given) <= Len(e)
  BY <1>3, EncodeFacts
<1>5. /\ rest \in Seq(Cells) /\ Len(rest) = Len(e) - Sent(s)
      /\ \A i \in 1..Len(rest) : rest[i] = DataCell(e[Sent(s) + i])
  <2>1. Sent(s) <= Len(e)
    BY <1>3, <1>4
  <2> QED
    BY <1>3, <1>4, <2>1, UnsentFacts
<1>6. /\ phase = "open" /\ state = Writing(position) /\ state.writing
      /\ state.at = position /\ position = CommittedEnd
      /\ cursor = Start + position + s.amt
      /\ s.offset = position /\ s.started = LocalLen
      /\ s.name.base \notin entries
  BY <1>2 DEF StreamInv, Writing, Resume
<1>7. PICK k \in 0..Len(w) :
        /\ Put(w, k)
        /\ \/ /\ state' = state /\ headers' = headers /\ entries' = entries
           \/ /\ k = Len(w)
              /\ position' = position + s.amt + k
              /\ PushCentralHeader(h)
              /\ state' = Default
  BY DEF StreamFinish, raw
<1> HIDE DEF rest
<1>8. csize \in Nat /\ Len(rest) \in Nat
  BY <1>3, <1>4, <1>5
<1>9. h \in CentralCells /\ h.offset = s.offset /\ h.name = s.name
      /\ h.method = s.method /\ h.stream /\ h.sum = s.given
      /\ h.csize = csize
  <2>1. h \in CentralCells
    <3>1. "File" \in FileTypes /\ TRUE \in BOOLEAN
      BY DEF FileTypes
    <3> QED
      BY <1>3, <1>8, <3>1, CentralType
  <2> QED
    BY <2>1 DEF CentralCell
<1>10. /\ w \in Seq(Cells) /\ Len(w) = Len(rest) + 1
       /\ w[Len(rest) + 1] = d
       /\ \A i \in 1..Len(rest) : w[i] = rest[i]
  <2>1. d \in Cells
    BY <1>3, <1>8, DescriptorType
  <2> HIDE DEF d
  <2> QED
    BY <1>5, <1>8, <2>1
<1> HIDE DEF w, h, csize, d, e, s
<1>11. /\ cursor' = cursor + k /\ k \in Nat /\ k <= Len(w)
       /\ Len(disk') \in Nat /\ cursor' <= Len(disk')
       /\ Len(disk) <= Len(disk')
       /\ \A i \in 1..cursor : disk'[i] = disk[i]
       /\ \A i \in 1..k : disk'[cursor + i] = w[i]
  BY <1>7, <1>10, PutFacts DEF TypeInv, TypeOK, Bounds
<1>12. /\ cursor \in Nat /\ position \in Nat /\ Start \in Nat
       /\ Len(disk) \in Nat /\ cursor <= Len(disk')
  BY <1>11, WriterAssumption DEF TypeInv, TypeOK, Bounds
<1>13. StreamInv'
  BY <1>2 DEF StreamInv, NoStreamer
<1>14. CASE state' = state /\ headers' = headers /\ entries' = entries
  <2>1. CommittedIntact' /\ Contiguous' /\ Below' /\ CommittedEnd' = CommittedEnd
    BY <1>11, <1>12, <1>14, KeepEntries
  <2>2. Anchored'
    BY <1>11, <1>12, <2>1, EndNat DEF Anchored, TypeInv
  <2>3. Resume'
    BY <1>2, <1>6, <1>14, <2>1 DEF Resume
  <2>4. NamesExact'
    BY <1>14 DEF NamesExact
  <2> QED
    BY <1>1, <1>13, <2>1, <2>2, <2>3, <2>4
<1>15. CASE /\ k = Len(w)
            /\ position' = position + s.amt + k
            /\ PushCentralHeader(h)
            /\ state' = Default
  <2> DEFINE m == LocalHeader(h.name, h.method, TRUE, 0, << >>)
                      \o Data(Encode(h.method, h.sum))
  <2>1. /\ EntryLen(h) = Len(m) + 1
        /\ \A i \in 1..Len(m) : EntryImage(h)[i] = m[i]
        /\ EntryImage(h)[Len(m) + 1] = DescriptorCell(h.csize, h.sum)
    BY <1>9, StreamedImageFacts
  <2>2. m = LocalHeader(s.name, s.method, TRUE, 0, << >>) \o Data(e)
    BY <1>9 DEF e
  <2>3. Len(m) = LocalLen + Len(e)
    <3>1. h.name \in Names /\ h.method \in Methods /\ h.sum \in Seq(Bytes)
      BY <1>3, <1>9
    <3>2. Len(m) = LocalLen + Len(Encode(h.method, h.sum))
      BY <3>1, PrefixImageFacts
    <3>3. e = Encode(h.method, h.sum)
      BY <1>9 DEF e
    <3> QED
      BY <3>2, <3>3
  <2> HIDE DEF m
  <2>4. /\ s.amt \in Nat /\ Len(rest) \in Nat /\ Len(e) \in Nat
        /\ Sent(s) \in Nat /\ Len(rest) = Len(e) - Sent(s)
        /\ LocalLen = 2 /\ s.amt = LocalLen + Sent(s)
        /\ k = Len(rest) + 1
    <3>1. LocalLen = 2
      BY DEF LocalLen
    <3>2. s.amt = LocalLen + Sent(s)
      <4>1. Sent(s) = s.amt - LocalLen /\ s.amt \in Nat
        BY <1>3, <1>6
      <4> QED
        BY <3>1, <4>1
    <3>3. k = Len(rest) + 1
      BY <1>10, <1>15
    <3> QED
      BY <1>3, <1>4, <1>5, <1>8, <3>1, <3>2, <3>3
  <2>5. /\ Len(m) = s.amt + Len(rest)
        /\ Len(rest) + Sent(s) = Len(e)
        /\ k = Len(rest) + 1
        /\ Len(m) \in Nat
    BY <2>3, <2>4, SMTT(30)
  <2>6. \A i \in 1..(s.amt + Len(rest)) :
            disk'[Start + position + i] =
                (LocalHeader(s.name, s.method, TRUE, 0, << >>) \o Data(e))[i]
    <3>1. \A i \in 1..Len(rest) :
             disk'[cursor + i] = DataCell(e[Sent(s) + i])
      BY <1>5, <1>8, <1>10, <1>11, <2>5
    <3>2. e = Encode(s.method, s.given)
      BY DEF e
    <3>3. Len(rest) + Sent(s) <= Len(e)
      BY <2>4
    <3>4. /\ Len(e) <= Len(Encode(s.method, s.given))
          /\ \A i \in 1..Len(e) : Encode(s.method, s.given)[i] = e[i]
      BY <2>4, <3>2
    <3>5. /\ Len(streamer.given) <= Len(s.given)
          /\ \A i \in 1..Len(streamer.given) : s.given[i] = streamer.given[i]
      BY <1>3 DEF s
    <3>6. \A i \in 1..(streamer.amt + Len(rest)) :
            disk'[Start + position + i] =
                (LocalHeader(streamer.name, streamer.method, TRUE, 0, << >>)
                    \o Data(Encode(streamer.method, s.given)))[i]
      <4>1. streamer = s
        BY DEF s
      <4>2. /\ Len(e) <= Len(Encode(streamer.method, s.given))
            /\ \A i \in 1..Len(e) :
                  Encode(streamer.method, s.given)[i] = e[i]
            /\ Len(rest) + Sent(streamer) <= Len(e)
            /\ \A i \in 1..Len(rest) :
                  disk'[cursor + i] = DataCell(e[Sent(streamer) + i])
        BY <3>1, <3>3, <3>4, <4>1
      <4>3. /\ s.given \in Seq(Bytes) /\ e \in Seq(Symbols)
            /\ Len(rest) \in Nat /\ streamer.live
        BY <1>2, <1>3, <1>4, <1>8, <4>1
      <4>4. \A i \in 1..cursor : disk'[i] = disk[i]
        BY <1>11
      <4> QED
        BY <3>5, <4>2, <4>3, <4>4, ForwardFacts
    <3> QED
      BY <3>2, <3>6 DEF s
  <2>7. /\ EntryLen(h) = s.amt + k /\ h.offset = position
        /\ EntryLen(h) = Len(m) + 1
    <3>1. h.offset = position /\ EntryLen(h) = Len(m) + 1
      BY <1>6, <1>9, <2>1
    <3> QED
      BY <2>4, <2>5, <3>1
  <2>7a. /\ cursor = Start + position + s.amt /\ cursor' = cursor + k
         /\ Start \in Nat /\ position \in Nat /\ cursor \in Nat
         /\ Len(disk') \in Nat /\ cursor' <= Len(disk')
    BY <1>6, <1>11, <1>12
  <2>7b. s.amt \in Nat /\ k \in Nat /\ Start \in Nat /\ position \in Nat
    BY <2>4, <2>7a
  <2>7c. cursor + k = Start + position + (s.amt + k)
    BY <2>7a, <2>7b
  <2>8. disk'[Start + position + (Len(m) + 1)] = EntryImage(h)[Len(m) + 1]
    <3>1. Start + position + (Len(m) + 1) = cursor + k
      BY <2>7, <2>7b, <2>7c
    <3>2. disk'[cursor + k] = d
      BY <1>8, <1>10, <1>11, <2>5
    <3>3. DescriptorCell(h.csize, h.sum) = d
      BY <1>9 DEF d
    <3> QED
      BY <2>1, <3>1, <3>2, <3>3
  <2>9. ASSUME NEW i \in 1..EntryLen(h)
        PROVE  /\ Start + h.offset + i <= Len(disk')
               /\ disk'[Start + h.offset + i] = EntryImage(h)[i]
    <3>1. i \in 1..Len(m) \/ i = Len(m) + 1
      BY <2>5, <2>7, <2>9
    <3>2. h.offset = position
      BY <1>6, <1>9
    <3>3. Start + position + i <= Len(disk')
      <4>1. i \in Nat /\ i <= s.amt + k
        BY <2>7, <2>7b, <2>9
      <4>2. Start + position + i <= Start + position + (s.amt + k)
        BY <2>7b, <4>1
      <4>3. Start + position + (s.amt + k) <= Len(disk')
        BY <2>7a, <2>7c
      <4> QED
        BY <2>7a, <2>7b, <4>1, <4>2, <4>3
    <3>4. i \in 1..Len(m) => disk'[Start + position + i] = EntryImage(h)[i]
      BY <2>1, <2>2, <2>5, <2>6
    <3> QED
      BY <2>8, <3>1, <3>2, <3>3, <3>4
  <2>10. h.offset = CommittedEnd /\ h.name.base \notin entries
    BY <1>6, <1>9
  <2>11. /\ CommittedIntact' /\ Contiguous' /\ Below' /\ NamesExact'
         /\ CommittedEnd' = CommittedEnd + EntryLen(h)
    BY <1>9, <1>11, <1>12, <1>15, <2>9, <2>10, PushEntry
  <2>12. CommittedEnd' = position' /\ cursor' = Start + position'
    <3>1. position' = position + s.amt + k /\ position = CommittedEnd
      BY <1>6, <1>15
    <3>2. position' = position + (s.amt + k)
      BY <2>7b, <3>1
    <3>3. CommittedEnd' = position'
      BY <2>7, <2>11, <3>1, <3>2
    <3>4. cursor' = Start + (position + (s.amt + k))
      BY <2>7a, <2>7b, <2>7c
    <3> QED
      BY <3>2, <3>3, <3>4
  <2>13. Anchored'
    BY <1>1, <2>12 DEF Anchored, TypeInv, TypeOK
  <2>14. Resume'
    BY <1>15, <2>12 DEF Resume, Default
  <2> QED
    BY <1>1, <1>13, <2>11, <2>13, <2>14
<1> QED
  BY <1>7, <1>14, <1>15

LEMMA SafeStreamDrop ==
    ASSUME Safe, StreamDrop PROVE Safe'
<1> DEFINE rest == Unsent(streamer, Encode(streamer.method, streamer.given))
<1> USE DEF Safe
<1>1. TypeInv'
  BY TypeStreamDrop
<1>2. streamer.live /\ streamer' = NoStreamer /\ UNCHANGED << raw, phase >>
  BY DEF StreamDrop
<1>3. rest \in Seq(Cells)
  <2>1. /\ Encode(streamer.method, streamer.given) \in Seq(Symbols)
        /\ Sent(streamer) <= Len(Encode(streamer.method, streamer.given))
    BY <1>2, LiveFacts, EncodeFacts DEF TypeInv
  <2> QED
    BY <1>2, <2>1, LiveFacts, UnsentFacts DEF TypeInv
<1>4. PICK k \in 0..Len(rest) : Put(rest, k)
  BY DEF StreamDrop
<1> HIDE DEF rest
<1>5. /\ cursor' = cursor + k /\ k \in Nat
      /\ Len(disk') \in Nat /\ cursor' <= Len(disk')
      /\ \A i \in 1..cursor : disk'[i] = disk[i]
  BY <1>3, <1>4, PutFacts DEF TypeInv, TypeOK, Bounds
<1>6. cursor \in Nat /\ Start \in Nat /\ cursor <= Len(disk')
  BY <1>5, WriterAssumption DEF TypeInv, TypeOK
<1>7. CommittedIntact' /\ Contiguous' /\ Below' /\ CommittedEnd' = CommittedEnd
  BY <1>2, <1>5, <1>6, KeepEntries DEF raw
<1>8. Anchored'
  BY <1>5, <1>6, <1>7, EndNat DEF Anchored, TypeInv
<1>9. Resume'
  <2>1. state.writing
    BY <1>2 DEF StreamInv, Writing
  <2> QED
    BY <1>2, <1>7, <2>1 DEF Resume, raw
<1>10. NamesExact' /\ StreamInv'
  BY <1>2 DEF NamesExact, StreamInv, NoStreamer, raw
<1> QED
  BY <1>1, <1>7, <1>8, <1>9, <1>10

LEMMA SafeFinish ==
    ASSUME Safe, Finish PROVE Safe'
<1> USE DEF Safe
<1>1. TypeInv'
  BY TypeFinish
<1>2. /\ ~streamer.live /\ streamer' = streamer /\ phase' # "open"
      /\ headers' = headers /\ entries' = entries
  BY DEF Finish, Idle, raw
<1>3. NamesExact' /\ StreamInv' /\ Resume'
  BY <1>2 DEF NamesExact, StreamInv, Resume
<1>4. /\ cursor \in Nat /\ Start \in Nat /\ Len(disk) \in Nat
      /\ cursor <= Len(disk)
  BY WriterAssumption DEF TypeInv, TypeOK, Bounds
<1>5. /\ cursor <= cursor' /\ cursor' \in Nat
      /\ Len(disk') \in Nat /\ cursor <= Len(disk')
      /\ \A i \in 1..cursor : disk'[i] = disk[i]
  <2>1. CASE UNCHANGED << file, raw >>
    BY <1>4, <2>1 DEF file
  <2>2. CASE \E k \in 0..Len(Trailer) : Put(Trailer, k)
    <3>1. Trailer \in Seq(Cells)
      BY TrailerType DEF TypeInv, Bounds
    <3>2. PICK k \in 0..Len(Trailer) : Put(Trailer, k)
      BY <2>2
    <3>3. /\ cursor' = cursor + k /\ k \in Nat
          /\ Len(disk') \in Nat /\ cursor' <= Len(disk')
          /\ \A i \in 1..cursor : disk'[i] = disk[i]
      BY <3>1, <3>2, PutFacts DEF TypeInv, TypeOK, Bounds
    <3> QED
      BY <1>4, <3>3
  <2> QED
    BY <2>1, <2>2 DEF Finish
<1>6. CommittedIntact' /\ Contiguous' /\ Below' /\ CommittedEnd' = CommittedEnd
  BY <1>2, <1>5, KeepEntries
<1>7. Anchored'
  BY <1>4, <1>5, <1>6, EndNat DEF Anchored, TypeInv
<1> QED
  BY <1>1, <1>3, <1>6, <1>7

LEMMA SafeRecover ==
    ASSUME Safe, Start = 0, Recover PROVE Safe'
<1> USE DEF Safe
<1>1. TypeInv'
  <2>1. Next
    BY DEF Next
  <2> QED
    BY <2>1, TypeStep
<1>2. /\ phase = "open" /\ state.writing /\ ~streamer.live
      /\ cursor' = state.at /\ position' = state.at /\ state' = Default
      /\ disk' = disk /\ entries' = entries /\ headers' = headers
      /\ streamer' = streamer /\ phase' = phase
  BY DEF Recover, Idle
<1>3. CommittedEnd' = CommittedEnd
  BY <1>2 DEF CommittedEnd
<1>4. CommittedIntact' /\ Contiguous' /\ Below' /\ NamesExact' /\ StreamInv'
  BY <1>2, <1>3
  DEF CommittedIntact, Contiguous, Below, NamesExact, StreamInv
<1>5. state.at = CommittedEnd /\ CommittedEnd \in Nat
  BY <1>2, EndNat DEF Resume, TypeInv
<1>6. Anchored' /\ Resume'
  BY <1>2, <1>3, <1>5 DEF Anchored, Resume, Default
<1> QED
  BY <1>1, <1>4, <1>6

LEMMA SafeTruncate ==
    ASSUME Safe, Truncate PROVE Safe'
<1> USE DEF Safe
<1>1. TypeInv'
  BY TypeTruncate
<1>2. /\ disk' = SubSeq(disk, 1, cursor) /\ ~streamer.live
      /\ UNCHANGED << cursor, raw, streamer, phase >>
  BY DEF Truncate
<1>3. /\ Len(disk') = cursor /\ cursor \in Nat
      /\ \A i \in 1..cursor : disk'[i] = disk[i]
  BY <1>2, SubSeqProperties DEF TypeInv, TypeOK, Bounds
<1>4. CommittedIntact' /\ Contiguous' /\ Below' /\ CommittedEnd' = CommittedEnd
  BY <1>2, <1>3, KeepEntries DEF raw
<1>5. Anchored' /\ Resume' /\ NamesExact' /\ StreamInv'
  BY <1>2, <1>4 DEF Anchored, Resume, NamesExact, StreamInv, raw
<1> QED
  BY <1>1, <1>4, <1>5

LEMMA SafeStep == Start = 0 /\ Safe /\ [Next]_vars => Safe'
<1> SUFFICES ASSUME Start = 0, Safe, [Next]_vars PROVE Safe'
  OBVIOUS
<1>1. CASE AddFile
  <2>1. PICK name \in Names, method \in Supported, plain \in Contents :
            WriteFileRaw(name, "File", method, plain)
    BY <1>1 DEF AddFile
  <2>2. "File" \in FileTypes /\ method \in Methods /\ plain \in Seq(Bytes)
    BY ContentsType DEF FileTypes, Supported
  <2> QED
    BY <2>1, <2>2, SafeWriteFileRaw
<1>2. CASE AddDirectory
  <2>1. PICK name \in Names : WriteFileRaw(name, "Directory", "Store", << >>)
    BY <1>2 DEF AddDirectory
  <2>2. /\ "Directory" \in FileTypes /\ "Store" \in Methods
        /\ << >> \in Seq(Bytes)
    BY DEF FileTypes, Methods
  <2> QED
    BY <2>1, <2>2, SafeWriteFileRaw
<1>3. CASE AddSymlink
  <2>1. PICK name \in Names, target \in Contents :
            WriteFileRaw(name, "Symlink", "Store", target)
    BY <1>3 DEF AddSymlink
  <2>2. /\ "Symlink" \in FileTypes /\ "Store" \in Methods
        /\ target \in Seq(Bytes)
    BY ContentsType DEF FileTypes, Methods
  <2> QED
    BY <2>1, <2>2, SafeWriteFileRaw
<1>4. CASE \E name \in Names, method \in Methods : StreamFile(name, method)
  BY <1>4, SafeStreamFile
<1>5. CASE (\E b \in Bytes : StreamWrite(b)) \/ StreamFlush
  BY <1>5, SafeForward DEF StreamWrite, StreamFlush
<1>6. CASE StreamFinish
  BY <1>6, SafeStreamFinish
<1>7. CASE StreamDrop
  BY <1>7, SafeStreamDrop
<1>8. CASE Recover
  BY <1>8, SafeRecover
<1>9. CASE Finish
  BY <1>9, SafeFinish
<1>10. CASE Truncate
  BY <1>10, SafeTruncate
<1>11. CASE UNCHANGED vars
  <2>1. TypeInv'
    BY <1>11, TypeStep DEF Safe
  <2>2. CommittedEnd' = CommittedEnd
    BY <1>11 DEF vars, CommittedEnd
  <2> QED
    BY <1>11, <2>1, <2>2
    DEF vars, Safe, CommittedIntact, Contiguous, Below, Anchored, Resume,
        StreamInv, NamesExact
<1> QED
  BY <1>1, <1>2, <1>3, <1>4, <1>5, <1>6, <1>7, <1>8, <1>9, <1>10, <1>11
  DEF Next

LEMMA SafeAlways == Start = 0 => (Spec => []Safe)
<1> SUFFICES ASSUME Start = 0 PROVE Spec => []Safe
  OBVIOUS
<1>1. Init => Safe
  BY SafeInit
<1>2. Safe /\ [Next]_vars => Safe'
  BY SafeStep
<1> QED
  BY <1>1, <1>2, PTL DEF Spec

(***************************************************************************)
(* The theorems.                                                           *)
(***************************************************************************)
\* Whatever fails, is recovered or truncated: each entry whose call
\* returned Ok stays complete in the file at the offset its header states,
\* and the entries follow each other without a gap.
THEOREM EntriesSafe == Start = 0 => (Spec => [](CommittedIntact /\ Contiguous))
<1> SUFFICES ASSUME Start = 0
             PROVE  Spec => [](CommittedIntact /\ Contiguous)
  OBVIOUS
<1>1. Spec => []Safe
  BY SafeAlways
<1>2. Safe => CommittedIntact /\ Contiguous
  BY DEF Safe
<1> QED
  BY <1>1, <1>2, PTL

\* Entries follow each other without a gap, whatever failed in between and
\* was erased by recover: the reader demands it (check_local_entry).
THEOREM EntriesContiguous == Start = 0 => (Spec => []Contiguous)
<1>1. CommittedIntact /\ Contiguous => Contiguous
  OBVIOUS
<1> QED
  BY <1>1, EntriesSafe, PTL

\* An archive that accepts entries stands right after the last committed
\* one, and a blocked one would resume there.
THEOREM ResumesAtEnd == Start = 0 => (Spec => []ResumePoint)
<1> SUFFICES ASSUME Start = 0 PROVE Spec => []ResumePoint
  OBVIOUS
<1>1. Spec => []Safe
  BY SafeAlways
<1>2. Safe => ResumePoint
  BY DEF Safe, Resume, ResumePoint, TypeInv, TypeOK
<1> QED
  BY <1>1, <1>2, PTL

LEMMA CountExact == Safe => Cardinality(entries) = Len(headers)
<1> SUFFICES ASSUME Safe PROVE Cardinality(entries) = Len(headers)
  OBVIOUS
<1> DEFINE f == [i \in 1..Len(headers) |-> headers[i].name.base]
<1>1. headers \in Seq(CentralCells) /\ Len(headers) \in Nat
  BY DEF Safe, TypeInv, TypeOK
<1>2. f \in Bijection(1..Len(headers), entries)
  <2>1. entries = { headers[i].name.base : i \in 1..Len(headers) }
    BY <1>1 DEF Safe, NamesExact
  <2>2. \A i, j \in 1..Len(headers) :
           headers[i].name.base = headers[j].name.base => i = j
    BY <1>1 DEF Safe, NamesExact
  <2>3. f \in [1..Len(headers) -> entries]
    BY <2>1
  <2>4. \A i, j \in DOMAIN f : f[i] = f[j] => i = j
    BY <2>2
  <2>5. \A e \in entries : \E i \in 1..Len(headers) : f[i] = e
    BY <2>1
  <2> QED
    BY <2>3, <2>4, <2>5 DEF Bijection, Injection, Surjection, IsInjective
<1>3. IsFiniteSet(1..Len(headers)) /\ Cardinality(1..Len(headers)) = Len(headers)
  <2>1. 1 \in Int /\ Len(headers) \in Int
    BY <1>1
  <2> QED
    BY <1>1, <2>1, FS_Interval
<1>4. ExistsBijection(1..Len(headers), entries)
  BY <1>2 DEF ExistsBijection
<1> HIDE DEF f
<1> QED
  BY <1>3, <1>4, FS_Bijection

\* The name table holds the committed names, each once, so the number of
\* entries that finish writes is the number of central headers.
THEOREM NamesAreExact ==
    Start = 0 => (Spec => [](NamesExact /\ Cardinality(entries) = Len(headers)))
<1> SUFFICES ASSUME Start = 0
             PROVE  Spec => [](NamesExact
                                 /\ Cardinality(entries) = Len(headers))
  OBVIOUS
<1>1. Spec => []Safe
  BY SafeAlways
<1>2. Safe => NamesExact /\ Cardinality(entries) = Len(headers)
  BY CountExact DEF Safe
<1> QED
  BY <1>1, <1>2, PTL

\* What a live stream has put into the file is its local header and a
\* prefix of the encoding of the bytes its writes accepted.
THEOREM StreamsAreFaithful == Start = 0 => (Spec => []StreamFaithful)
<1> SUFFICES ASSUME Start = 0 PROVE Spec => []StreamFaithful
  OBVIOUS
<1>1. Spec => []Safe
  BY SafeAlways
<1>2. Safe => StreamFaithful
  <2> SUFFICES ASSUME Safe, streamer.live PROVE StreamFaithful
    BY DEF StreamFaithful
  <2>1. /\ streamer.name \in Names /\ streamer.method \in Methods
        /\ streamer.given \in Seq(Bytes) /\ Len(streamer.given) \in Nat
        /\ Sent(streamer) = streamer.amt - streamer.started
        /\ Sent(streamer) <= Len(streamer.given) /\ streamer.amt \in Nat
    BY LiveFacts DEF Safe, TypeInv
  <2>2. /\ Len(StreamImage(streamer))
              = LocalLen + Len(Encode(streamer.method, streamer.given))
    BY <2>1, PrefixImageFacts, ZenonT(30) DEF StreamImage
  <2>3. /\ Len(Encode(streamer.method, streamer.given)) >= Len(streamer.given)
        /\ Len(Encode(streamer.method, streamer.given)) \in Nat
    BY <2>1, EncodeFacts
  <2>4. streamer.amt <= Len(StreamImage(streamer))
    <3>1. streamer.started = LocalLen /\ LocalLen = 2
      BY DEF Safe, StreamInv, LocalLen
    <3> QED
      BY <2>1, <2>2, <2>3, <3>1
  <2> QED
    BY <2>4 DEF Safe, StreamInv, StreamImage, StreamFaithful
<1> QED
  BY <1>1, <1>2, PTL
==============================================================================
