--------------------------- MODULE RoundTripProofs ---------------------------
(***************************************************************************)
(* What the file of ArchiveWriter is worth to a reader: in every state it  *)
(* holds the log of ArchiveLog, and finish, and nothing else, makes it an  *)
(* archive that the reader of ArchiveReader accepts.                       *)
(*                                                                         *)
(* Safe of ArchiveWriterProofs says that the images of the committed       *)
(* entries are in the file.  What is added here: their headers tell the    *)
(* truth about the images (HeadersTrue), the file has no end record unless *)
(* finish has put it where the cursor stands (OneEnd), and what is in      *)
(* front of it is the directory (Sealed).                                  *)
(***************************************************************************)
EXTENDS RoundTrip, ArchiveWriterProofs, Induction

HeaderTrue(h) ==
    /\ h.csize = Len(Encode(h.method, h.sum))
    /\ h.type = "Directory" => h.sum = << >>

HeadersTrue == \A i \in DOMAIN headers : HeaderTrue(headers[i])

OneEnd ==
    \A p \in DOMAIN disk :
        disk[p].kind = "eocd" => phase = "finished" /\ p = cursor

Sealed ==
    phase = "finished" =>
        /\ position = CommittedEnd
        /\ cursor = Start + CommittedEnd + Len(Trailer)
        /\ \A k \in 1..Len(Trailer) :
              disk[Start + CommittedEnd + k] = Trailer[k]

Kept == Safe /\ HeadersTrue /\ OneEnd /\ Sealed

(***************************************************************************)
(* What the calls write.                                                   *)
(***************************************************************************)
NoEnd(w) == \A i \in DOMAIN w : w[i].kind # "eocd"

LEMMA DataNoEnd == ASSUME NEW s \in Seq(Symbols) PROVE NoEnd(Data(s))
  BY DEF NoEnd, Data, DataCell

LEMMA UnsentNoEnd ==
    ASSUME NEW s \in Streamers, NEW e \in Seq(Symbols),
           s.started <= s.amt, Sent(s) <= Len(e)
    PROVE  Unsent(s, e) \in Seq(Cells) /\ NoEnd(Unsent(s, e))
<1>1. /\ Unsent(s, e) \in Seq(Cells)
      /\ \A i \in 1..Len(Unsent(s, e)) :
            Unsent(s, e)[i] = DataCell(e[Sent(s) + i])
  BY UnsentFacts
<1>2. DOMAIN Unsent(s, e) = 1..Len(Unsent(s, e))
  BY <1>1
<1> QED
  BY <1>1, <1>2 DEF NoEnd, DataCell

LEMMA LocalNoEnd ==
    ASSUME NEW name, NEW method, NEW stream, NEW csize, NEW sum
    PROVE  NoEnd(LocalHeader(name, method, stream, csize, sum))
  BY DEF NoEnd, LocalHeader, LocalCell, NameCell

LEMMA ConcatNoEnd ==
    ASSUME NEW a \in Seq(Cells), NEW b \in Seq(Cells), NoEnd(a), NoEnd(b)
    PROVE  NoEnd(a \o b)
  BY DEF NoEnd

LEMMA ImageNoEnd == ASSUME NEW h \in CentralCells PROVE NoEnd(EntryImage(h))
<1> DEFINE e == Encode(h.method, h.sum)
           l == LocalHeader(h.name, h.method, FALSE, h.csize, h.sum)
           s == LocalHeader(h.name, h.method, TRUE, 0, << >>)
           c == << DescriptorCell(h.csize, h.sum) >>
<1>1. /\ h.name \in Names /\ h.method \in Methods /\ h.stream \in BOOLEAN
      /\ h.csize \in Nat /\ h.sum \in Seq(Bytes)
  BY DEF CentralCells
<1>2. /\ Data(e) \in Seq(Cells) /\ NoEnd(Data(e))
  BY <1>1, EncodeFacts, DataFacts, DataNoEnd
<1>3. /\ l \in Seq(Cells) /\ NoEnd(l)
      /\ s \in Seq(Cells) /\ NoEnd(s)
  <2>1. << >> \in Seq(Bytes) /\ 0 \in Nat /\ TRUE \in BOOLEAN
        /\ FALSE \in BOOLEAN
    OBVIOUS
  <2> QED
    BY <1>1, <2>1, LocalHeaderFacts, LocalNoEnd
<1>4. c \in Seq(Cells) /\ NoEnd(c)
  BY <1>1, DescriptorType DEF NoEnd, DescriptorCell
<1>5. EntryImage(h) = IF h.stream THEN (s \o Data(e)) \o c ELSE l \o Data(e)
  BY DEF EntryImage
<1> HIDE DEF e, l, s, c
<1>6. s \o Data(e) \in Seq(Cells) /\ NoEnd(s \o Data(e))
  BY <1>2, <1>3, ConcatNoEnd
<1>7. NoEnd((s \o Data(e)) \o c) /\ NoEnd(l \o Data(e))
  BY <1>2, <1>3, <1>4, <1>6, ConcatNoEnd
<1> QED
  BY <1>1, <1>5, <1>7

\* A cell of the file after a write was there before or was written.
LEMMA PutCells ==
    ASSUME disk \in Seq(Cells), cursor \in Nat, cursor <= Len(disk),
           NEW w \in Seq(Cells), NEW k \in Nat, Put(w, k)
    PROVE  \A p \in DOMAIN disk' :
              \/ p \in DOMAIN disk /\ disk'[p] = disk[p]
              \/ \E i \in 1..k : p = cursor + i /\ disk'[p] = w[i]
<1> DEFINE n == IF cursor + k > Len(disk) THEN cursor + k ELSE Len(disk)
<1>1. disk' = [i \in 1..n |->
                 IF cursor < i /\ i <= cursor + k THEN w[i - cursor]
                 ELSE disk[i]]
  BY DEF Put, WriteAt
<1>2. n \in Nat /\ Len(disk) \in Nat /\ DOMAIN disk = 1..Len(disk)
  OBVIOUS
<1> SUFFICES ASSUME NEW p \in 1..n
             PROVE  \/ p \in DOMAIN disk /\ disk'[p] = disk[p]
                    \/ \E i \in 1..k : p = cursor + i /\ disk'[p] = w[i]
  BY <1>1
<1>3. CASE cursor < p /\ p <= cursor + k
  <2>1. p - cursor \in 1..k /\ p = cursor + (p - cursor)
    BY <1>2, <1>3
  <2>2. disk'[p] = w[p - cursor]
    BY <1>1, <1>3
  <2> QED
    BY <2>1, <2>2
<1>4. CASE ~(cursor < p /\ p <= cursor + k)
  <2>1. disk'[p] = disk[p]
    BY <1>1, <1>4
  <2>2. p \in 1..Len(disk)
    BY <1>2, <1>4
  <2> QED
    BY <1>2, <2>1, <2>2
<1> QED
  BY <1>3, <1>4

(***************************************************************************)
(* What each action does to the log, to what is written of it (the central *)
(* headers) and to the end of the file.                                    *)
(***************************************************************************)
ModeSteps ==
    {<< "ready", "streaming" >>, << "ready", "blocked" >>,
     << "streaming", "blocked" >>, << "blocked", "ready" >>,
     << "ready", "finished" >>, << "ready", "failed" >>,
     << "blocked", "failed" >>}

CommitStep ==
    /\ Mode \in {"ready", "streaming"} /\ Mode' = "ready"
    /\ \E h \in CentralCells :
          /\ HeaderTrue(h)
          /\ h.name.base \notin entries
          /\ headers' = Append(headers, h)

KeepStep ==
    /\ headers' = headers
    /\ Mode' = Mode \/ << Mode, Mode' >> \in ModeSteps

LogStep == CommitStep \/ KeepStep

\* Some cells are written at the cursor, none of them an end record.
WriteStep ==
    /\ phase = "open" /\ phase' = "open"
    /\ \E w \in Seq(Cells), k \in Nat : NoEnd(w) /\ Put(w, k)

LEMMA WriteFileRawStep ==
    ASSUME TypeInv, NEW name \in Names, NEW type \in FileTypes,
           NEW method \in Methods, NEW plain \in Seq(Bytes),
           type = "Directory" => plain = << >>,
           WriteFileRaw(name, type, method, plain)
    PROVE  LogStep /\ WriteStep
<1> DEFINE h == CentralCell(name, type, method, FALSE,
                            Len(Encode(method, plain)), plain, position)
           w == EntryImage(h)
<1>1. /\ h \in CentralCells /\ HeaderTrue(h) /\ h.name = name
  BY RawHeaderType DEF TypeInv, CentralCell, HeaderTrue
<1>2. w \in Seq(Cells) /\ NoEnd(w)
  BY <1>1, EntryImageFacts, ImageNoEnd
<1>3. /\ phase = "open" /\ ~state.writing /\ ~streamer.live
      /\ name.base \notin entries
      /\ streamer' = streamer /\ phase' = phase
  BY DEF WriteFileRaw, Idle, CheckName, StartWriting
<1>4. PICK k \in 0..Len(w) :
        /\ Put(w, k)
        /\ \/ state' = Writing(position) /\ headers' = headers
           \/ /\ PushCentralHeader(h)
              /\ state' = Default
  BY DEF WriteFileRaw
<1>5. Mode = "ready"
  BY <1>3 DEF Mode
<1> HIDE DEF w, h
<1>6. WriteStep
  <2>1. k \in Nat
    BY <1>2
  <2> QED
    BY <1>2, <1>3, <1>4, <2>1 DEF WriteStep
<1>7. CASE state' = Writing(position) /\ headers' = headers
  <2>1. Mode' = "blocked"
    BY <1>3, <1>7 DEF Mode, Writing
  <2> QED
    BY <1>5, <1>6, <1>7, <2>1 DEF LogStep, KeepStep, ModeSteps
<1>8. CASE PushCentralHeader(h) /\ state' = Default
  <2>1. Mode' = "ready"
    BY <1>3, <1>8 DEF Mode, Default
  <2> QED
    BY <1>1, <1>3, <1>5, <1>6, <1>8, <2>1
    DEF LogStep, CommitStep, PushCentralHeader
<1> QED
  BY <1>4, <1>7, <1>8

LEMMA StreamFileStep ==
    ASSUME TypeInv, NEW name \in Names, NEW method \in Methods,
           StreamFile(name, method)
    PROVE  LogStep /\ WriteStep
<1> DEFINE w == LocalHeader(name, method, TRUE, 0, << >>)
<1>1. w \in Seq(Cells) /\ NoEnd(w)
  <2>1. << >> \in Seq(Bytes) /\ 0 \in Nat /\ TRUE \in BOOLEAN
    OBVIOUS
  <2> QED
    BY <2>1, LocalHeaderFacts, LocalNoEnd
<1>2. /\ phase = "open" /\ ~state.writing /\ ~streamer.live
      /\ state' = Writing(position) /\ phase' = phase /\ headers' = headers
  BY DEF StreamFile, Idle, StartWriting
<1>3. PICK k \in 0..Len(w) :
        /\ Put(w, k)
        /\ \/ streamer' = [live |-> TRUE, name |-> name, method |-> method,
                           offset |-> position, started |-> k, amt |-> k,
                           given |-> << >>]
           \/ streamer' = NoStreamer
  BY DEF StreamFile
<1> HIDE DEF w
<1>4. WriteStep
  <2>1. k \in Nat
    BY <1>1
  <2> QED
    BY <1>1, <1>2, <1>3, <2>1 DEF WriteStep
<1>5. Mode = "ready" /\ Mode' \in {"streaming", "blocked"}
  <2>1. streamer'.live \in BOOLEAN
    <3>1. ASSUME streamer' = [live |-> TRUE, name |-> name, method |-> method,
                              offset |-> position, started |-> k, amt |-> k,
                              given |-> << >>]
          PROVE  streamer'.live \in BOOLEAN
      BY <3>1
    <3>2. ASSUME streamer' = NoStreamer PROVE streamer'.live \in BOOLEAN
      BY <3>2 DEF NoStreamer
    <3> QED
      BY <1>3, <3>1, <3>2
  <2> QED
    BY <1>2, <2>1 DEF Mode, Writing
<1> QED
  BY <1>2, <1>4, <1>5 DEF LogStep, KeepStep, ModeSteps

LEMMA ForwardStep ==
    ASSUME Safe, streamer.live,
           NEW given \in {streamer.given}
                           \cup { Append(streamer.given, b) : b \in Bytes },
           Forward(given)
    PROVE  LogStep /\ WriteStep
<1> DEFINE s == streamer
           w == Unsent(s, given)
<1>1. /\ s \in Streamers /\ s.given \in Seq(Bytes) /\ s.started <= s.amt
      /\ Len(s.given) \in Nat /\ Sent(s) \in Nat /\ Sent(s) <= Len(s.given)
  BY LiveFacts DEF Safe, TypeInv
<1>2. given \in Seq(Symbols) /\ Sent(s) <= Len(given)
  <2>1. CASE given = s.given
    BY <1>1, <2>1 DEF Symbols
  <2>2. ASSUME NEW b \in Bytes, given = Append(s.given, b)
        PROVE  given \in Seq(Symbols) /\ Sent(s) <= Len(given)
    <3> HIDE DEF s
    <3> QED
      BY <1>1, <2>2 DEF Symbols
  <2> QED
    BY <2>1, <2>2
<1>3. w \in Seq(Cells) /\ NoEnd(w)
  BY <1>1, <1>2, UnsentNoEnd
<1>4. PICK k \in 0..Len(w) :
        /\ Put(w, k)
        /\ streamer' = [s EXCEPT !.given = given, !.amt = s.amt + k]
  BY DEF Forward
<1>5. streamer'.live /\ UNCHANGED << state, headers, phase >>
  BY <1>1, <1>4 DEF Forward, raw, Streamers
<1>6. phase = "open"
  BY DEF Safe, StreamInv
<1>7. Mode' = Mode
  BY <1>5, <1>6 DEF Mode
<1> QED
  BY <1>3, <1>4, <1>5, <1>6, <1>7 DEF LogStep, KeepStep, WriteStep

LEMMA StreamFinishStep ==
    ASSUME Safe, StreamFinish PROVE LogStep /\ WriteStep
<1> DEFINE s == streamer
           e == Encode(s.method, s.given)
           rest == Unsent(s, e)
           csize == Sent(s) + Len(rest)
           d == DescriptorCell(csize, s.given)
           h == CentralCell(s.name, "File", s.method, TRUE, csize, s.given,
                            s.offset)
           w == Append(rest, d)
<1>1. s.live /\ streamer' = NoStreamer /\ phase' = phase
  BY DEF StreamFinish
<1>2. /\ s \in Streamers /\ s.name \in Names /\ s.method \in Methods
      /\ s.given \in Seq(Bytes) /\ s.offset \in Nat /\ s.started <= s.amt
      /\ Len(s.given) \in Nat
      /\ Sent(s) \in Nat /\ Sent(s) <= Len(s.given)
  BY <1>1, LiveFacts DEF Safe, TypeInv
<1>3. /\ e \in Seq(Symbols) /\ Len(e) \in Nat /\ Sent(s) <= Len(e)
  BY <1>2, EncodeFacts
<1>4. /\ rest \in Seq(Cells) /\ Len(rest) = Len(e) - Sent(s) /\ NoEnd(rest)
  BY <1>2, <1>3, UnsentFacts, UnsentNoEnd
<1>5. /\ phase = "open" /\ state.writing /\ s.name.base \notin entries
  BY <1>1 DEF Safe, StreamInv, Writing
<1>6. PICK k \in 0..Len(w) :
        /\ Put(w, k)
        /\ \/ state' = state /\ headers' = headers
           \/ PushCentralHeader(h) /\ state' = Default
  BY DEF StreamFinish, raw
<1> HIDE DEF rest
<1>7. csize \in Nat /\ csize = Len(e)
  BY <1>2, <1>3, <1>4
<1>8. h \in CentralCells /\ h.name = s.name /\ HeaderTrue(h)
  <2>1. "File" \in FileTypes /\ TRUE \in BOOLEAN
    BY DEF FileTypes
  <2>2. h \in CentralCells
    BY <1>2, <1>7, <2>1, CentralType
  <2> QED
    BY <1>7, <2>2 DEF CentralCell, HeaderTrue
<1>9. w \in Seq(Cells) /\ NoEnd(w)
  <2>1. d \in Cells /\ d.kind # "eocd"
    BY <1>2, <1>7, DescriptorType DEF DescriptorCell
  <2> HIDE DEF d
  <2> QED
    BY <1>4, <2>1 DEF NoEnd
<1> HIDE DEF w, h
<1>10. WriteStep
  BY <1>1, <1>5, <1>6, <1>9 DEF WriteStep
<1>11. Mode = "streaming"
  BY <1>1, <1>5 DEF Mode
<1>12. CASE state' = state /\ headers' = headers
  <2>1. Mode' = "blocked"
    BY <1>1, <1>5, <1>12 DEF Mode, NoStreamer
  <2> QED
    BY <1>10, <1>11, <1>12, <2>1 DEF LogStep, KeepStep, ModeSteps
<1>13. CASE PushCentralHeader(h) /\ state' = Default
  <2>1. Mode' = "ready"
    BY <1>1, <1>5, <1>13 DEF Mode, Default, NoStreamer
  <2> QED
    BY <1>5, <1>8, <1>10, <1>11, <1>13, <2>1
    DEF LogStep, CommitStep, PushCentralHeader
<1> QED
  BY <1>6, <1>12, <1>13

LEMMA StreamDropStep ==
    ASSUME Safe, StreamDrop PROVE LogStep /\ WriteStep
<1> DEFINE rest == Unsent(streamer, Encode(streamer.method, streamer.given))
<1>1. /\ streamer.live /\ streamer' = NoStreamer
      /\ UNCHANGED << state, headers, phase >>
  BY DEF StreamDrop, raw
<1>2. rest \in Seq(Cells) /\ NoEnd(rest)
  <2>1. /\ Encode(streamer.method, streamer.given) \in Seq(Symbols)
        /\ Sent(streamer) <= Len(Encode(streamer.method, streamer.given))
    BY <1>1, LiveFacts, EncodeFacts DEF Safe, TypeInv
  <2> QED
    BY <1>1, <2>1, LiveFacts, UnsentNoEnd DEF Safe, TypeInv
<1>3. \E k \in 0..Len(rest) : Put(rest, k)
  BY DEF StreamDrop
<1>4. phase = "open" /\ state.writing
  BY <1>1 DEF Safe, StreamInv, Writing
<1>5. WriteStep
  BY <1>1, <1>2, <1>3, <1>4 DEF WriteStep
<1>6. Mode = "streaming" /\ Mode' = "blocked"
  BY <1>1, <1>4 DEF Mode, NoStreamer
<1> QED
  BY <1>1, <1>5, <1>6 DEF LogStep, KeepStep, ModeSteps

LEMMA RecoverStep == ASSUME Recover PROVE LogStep
<1>1. /\ phase = "open" /\ state.writing /\ ~streamer.live
      /\ state' = Default /\ headers' = headers
      /\ streamer' = streamer /\ phase' = phase
  BY DEF Recover, Idle
<1>2. Mode = "blocked" /\ Mode' = "ready"
  BY <1>1 DEF Mode, Default
<1> QED
  BY <1>1, <1>2 DEF LogStep, KeepStep, ModeSteps

LEMMA FinishStep == ASSUME TypeInv, Finish PROVE LogStep
<1>1. /\ phase = "open" /\ ~streamer.live /\ headers' = headers
      /\ state.writing \in BOOLEAN
  BY DEF Finish, Idle, raw, TypeInv, TypeOK
<1>2. /\ phase' \in {"finished", "failed"}
      /\ state.writing => phase' = "failed"
  BY DEF Finish, StartWriting
<1>3. Mode = IF state.writing THEN "blocked" ELSE "ready"
  BY <1>1 DEF Mode
<1>4. Mode' = phase'
  BY <1>2 DEF Mode
<1> QED
  BY <1>1, <1>2, <1>3, <1>4 DEF LogStep, KeepStep, ModeSteps

LEMMA TruncateStep == ASSUME Truncate PROVE LogStep
<1>1. UNCHANGED << state, headers, streamer, phase >>
  BY DEF Truncate, raw
<1> QED
  BY <1>1 DEF LogStep, KeepStep, Mode

LEMMA StepKinds ==
    ASSUME Safe, Next
    PROVE  /\ LogStep
           /\ WriteStep \/ Recover \/ Finish \/ Truncate
<1>1. CASE AddFile
  <2>1. PICK name \in Names, method \in Supported, plain \in Contents :
            WriteFileRaw(name, "File", method, plain)
    BY <1>1 DEF AddFile
  <2>2. "File" \in FileTypes /\ method \in Methods /\ plain \in Seq(Bytes)
    BY ContentsType DEF FileTypes, Supported
  <2> QED
    BY <2>1, <2>2, WriteFileRawStep DEF Safe
<1>2. CASE AddDirectory
  <2>1. PICK name \in Names : WriteFileRaw(name, "Directory", "Store", << >>)
    BY <1>2 DEF AddDirectory
  <2>2. "Directory" \in FileTypes /\ "Store" \in Methods /\ << >> \in Seq(Bytes)
    BY DEF FileTypes, Methods
  <2> QED
    BY <2>1, <2>2, WriteFileRawStep DEF Safe
<1>3. CASE AddSymlink
  <2>1. PICK name \in Names, target \in Contents :
            WriteFileRaw(name, "Symlink", "Store", target)
    BY <1>3 DEF AddSymlink
  <2>2. "Symlink" \in FileTypes /\ "Store" \in Methods /\ target \in Seq(Bytes)
    BY ContentsType DEF FileTypes, Methods
  <2> QED
    BY <2>1, <2>2, WriteFileRawStep DEF Safe
<1>4. ASSUME NEW name \in Names, NEW method \in Methods,
             StreamFile(name, method)
      PROVE  LogStep /\ WriteStep
  BY <1>4, StreamFileStep DEF Safe
<1>5. ASSUME NEW b \in Bytes, StreamWrite(b)
      PROVE  LogStep /\ WriteStep
  <2>1. streamer.live /\ Forward(Append(streamer.given, b))
    BY <1>5 DEF StreamWrite
  <2> QED
    BY <2>1, ForwardStep
<1>6. CASE StreamFlush
  <2>1. streamer.live /\ Forward(streamer.given)
    BY <1>6 DEF StreamFlush
  <2> QED
    BY <2>1, ForwardStep
<1>7. CASE StreamFinish
  BY <1>7, StreamFinishStep
<1>8. CASE StreamDrop
  BY <1>8, StreamDropStep
<1>9. CASE Recover
  BY <1>9, RecoverStep
<1>10. CASE Finish
  BY <1>10, FinishStep DEF Safe
<1>11. CASE Truncate
  BY <1>11, TruncateStep
<1> QED
  BY <1>1, <1>2, <1>3, <1>4, <1>5, <1>6, <1>7, <1>8, <1>9, <1>10, <1>11
  DEF Next

(***************************************************************************)
(* Images and the trailer, cell by cell.                                   *)
(***************************************************************************)
LEMMA LocalDataCells ==
    ASSUME NEW l \in Seq(Cells), Len(l) = LocalLen, NEW e \in Seq(Symbols)
    PROVE  /\ l \o Data(e) \in Seq(Cells)
           /\ Len(l \o Data(e)) = LocalLen + Len(e)
           /\ \A k \in 1..LocalLen : (l \o Data(e))[k] = l[k]
           /\ \A k \in 1..Len(e) : (l \o Data(e))[LocalLen + k] = DataCell(e[k])
<1>1. /\ Data(e) \in Seq(Cells) /\ Len(Data(e)) = Len(e) /\ Len(e) \in Nat
      /\ \A k \in 1..Len(e) : Data(e)[k] = DataCell(e[k])
  BY DataFacts
<1> DEFINE d == Data(e)
<1> HIDE DEF d
<1>2. /\ l \o d \in Seq(Cells) /\ Len(l \o d) = Len(l) + Len(d)
      /\ \A k \in 1..(Len(l) + Len(d)) :
            (l \o d)[k] = IF k <= Len(l) THEN l[k] ELSE d[k - Len(l)]
  BY <1>1, ConcatProperties, Zenon DEF d
<1>3. LocalLen = 2
  BY DEF LocalLen
<1>4. ASSUME NEW k \in 1..LocalLen PROVE (l \o d)[k] = l[k]
  BY <1>1, <1>2, <1>3, <1>4 DEF d
<1>5. ASSUME NEW k \in 1..Len(e) PROVE (l \o d)[LocalLen + k] = DataCell(e[k])
  <2>1. /\ LocalLen + k \in 1..(Len(l) + Len(d)) /\ ~(LocalLen + k <= Len(l))
        /\ (LocalLen + k) - Len(l) = k
    BY <1>1, <1>3, <1>5 DEF d
  <2>2. d[k] = DataCell(e[k])
    BY <1>1, <1>5 DEF d
  <2> QED
    BY <1>2, <2>1, <2>2
<1>6. Len(l \o d) = LocalLen + Len(e)
  BY <1>1, <1>2 DEF d
<1> QED
  BY <1>2, <1>4, <1>5, <1>6 DEF d

LEMMA ImageCells ==
    ASSUME NEW h \in CentralCells
    PROVE  LET e == Encode(h.method, h.sum)
               m == EntryImage(h)
           IN  /\ m[1] = LocalCell(h.method, h.stream,
                                   IF h.stream THEN << >> ELSE h.sum)
               /\ m[2] = NameCell(h.name, IF h.stream THEN 0 ELSE h.csize)
               /\ \A k \in 1..Len(e) : m[LocalLen + k] = DataCell(e[k])
               /\ h.stream => m[LocalLen + Len(e) + 1]
                                 = DescriptorCell(h.csize, h.sum)
<1> DEFINE e == Encode(h.method, h.sum)
           m == EntryImage(h)
           l == LocalHeader(h.name, h.method, FALSE, h.csize, h.sum)
           s == LocalHeader(h.name, h.method, TRUE, 0, << >>)
<1>1. /\ h.name \in Names /\ h.method \in Methods /\ h.stream \in BOOLEAN
      /\ h.csize \in Nat /\ h.sum \in Seq(Bytes)
  BY DEF CentralCells
<1>2. e \in Seq(Symbols) /\ Len(e) \in Nat
  BY <1>1, EncodeFacts
<1>3. LocalLen = 2 /\ 1 \in 1..LocalLen /\ 2 \in 1..LocalLen
  BY DEF LocalLen
<1>4. CASE h.stream
  <2>1. s \in Seq(Cells) /\ Len(s) = LocalLen
    <3>1. << >> \in Seq(Bytes) /\ 0 \in Nat /\ TRUE \in BOOLEAN
      OBVIOUS
    <3> QED
      BY <1>1, <3>1, LocalHeaderFacts
  <2>2. s[1] = LocalCell(h.method, TRUE, << >>) /\ s[2] = NameCell(h.name, 0)
    BY DEF LocalHeader
  <2> HIDE DEF e, s
  <2>3. /\ Len(s \o Data(e)) = LocalLen + Len(e)
        /\ \A k \in 1..LocalLen : (s \o Data(e))[k] = s[k]
        /\ \A k \in 1..Len(e) : (s \o Data(e))[LocalLen + k] = DataCell(e[k])
    BY <1>2, <2>1, LocalDataCells
  <2>4. /\ \A k \in 1..(LocalLen + Len(e)) : m[k] = (s \o Data(e))[k]
        /\ m[LocalLen + Len(e) + 1] = DescriptorCell(h.csize, h.sum)
    <3>1. /\ \A k \in 1..Len(s \o Data(e)) : m[k] = (s \o Data(e))[k]
          /\ m[Len(s \o Data(e)) + 1] = DescriptorCell(h.csize, h.sum)
      BY <1>4, StreamedImageFacts DEF s, e
    <3> QED
      BY <2>3, <3>1
  <2> HIDE DEF m
  <2>5. m[1] = s[1] /\ m[2] = s[2]
    BY <1>2, <1>3, <2>3, <2>4
  <2>6. \A k \in 1..Len(e) : m[LocalLen + k] = DataCell(e[k])
    BY <1>2, <1>3, <2>3, <2>4
  <2> QED
    BY <1>4, <2>2, <2>4, <2>5, <2>6 DEF e, m
<1>5. CASE ~h.stream
  <2>1. l \in Seq(Cells) /\ Len(l) = LocalLen
    BY <1>1, LocalHeaderFacts
  <2>2. /\ l[1] = LocalCell(h.method, FALSE, h.sum)
        /\ l[2] = NameCell(h.name, h.csize)
    BY DEF LocalHeader
  <2>3. m = l \o Data(e)
    BY <1>5 DEF EntryImage
  <2> HIDE DEF e, l, m
  <2>4. /\ \A k \in 1..LocalLen : (l \o Data(e))[k] = l[k]
        /\ \A k \in 1..Len(e) : (l \o Data(e))[LocalLen + k] = DataCell(e[k])
    BY <1>2, <2>1, LocalDataCells
  <2> QED
    BY <1>1, <1>3, <1>5, <2>2, <2>3, <2>4 DEF e, m
<1> QED
  BY <1>1, <1>4, <1>5

LEMMA DecodeEncode ==
    ASSUME NEW method, NEW plain \in Seq(Bytes)
    PROVE  Decode(method, Encode(method, plain)) = plain
<1>1. CASE method = "Store"
  BY <1>1 DEF Decode, Encode
<1>2. CASE method # "Store"
  <2> DEFINE e == Append(plain, EndMark)
  <2>1. e # << >> /\ Len(e) = Len(plain) + 1 /\ e[Len(e)] = EndMark
    OBVIOUS
  <2>2. SubSeq(e, 1, Len(e) - 1) = plain
    OBVIOUS
  <2> QED
    BY <1>2, <2>1, <2>2 DEF Decode, Encode
<1> QED
  BY <1>1, <1>2

LEMMA TrailerCells ==
    ASSUME TypeInv
    PROVE  LET n == Len(headers)
           IN  /\ Trailer \in Seq(Cells)
               /\ n \in Nat /\ Len(Trailer) = n + 3
               /\ \A k \in 1..n : Trailer[k] = headers[k]
               /\ Trailer[n + 1]
                    = Eocd64Cell(Cardinality(entries), n, position)
               /\ Trailer[n + 2] = LocatorCell(position + n)
               /\ Trailer[n + 3] = EocdCell(TRUE, 0, 0, 0, 0)
<1> DEFINE n == Len(headers)
           c1 == Eocd64Cell(Cardinality(entries), n, position)
           c2 == LocatorCell(position + n)
           c3 == EocdCell(TRUE, 0, 0, 0, 0)
<1>1. Trailer \in Seq(Cells)
  BY TrailerType DEF TypeInv, Bounds
<1>2. headers \in Seq(CentralCells) /\ n \in Nat
  BY DEF TypeInv, TypeOK
<1>3. Trailer = headers \o << c1, c2, c3 >>
  BY DEF Trailer
<1> HIDE DEF c1, c2, c3
<1>4. /\ Len(Trailer) = n + 3
      /\ \A k \in 1..n : Trailer[k] = headers[k]
      /\ Trailer[n + 1] = c1 /\ Trailer[n + 2] = c2 /\ Trailer[n + 3] = c3
  BY <1>2, <1>3
<1> QED
  BY <1>1, <1>2, <1>4 DEF c1, c2, c3

(***************************************************************************)
(* The invariant.                                                          *)
(***************************************************************************)
LEMMA KeptInit == Init => Kept
<1> SUFFICES ASSUME Init PROVE Kept
  OBVIOUS
<1>1. Safe
  BY SafeInit
<1>2. HeadersTrue /\ Sealed
  BY DEF Init, HeadersTrue, Sealed
<1>3. OneEnd
  BY DEF Init, OneEnd, Foreign
<1> QED
  BY <1>1, <1>2, <1>3 DEF Kept

LEMMA HeadersStayTrue ==
    ASSUME TypeInv, HeadersTrue, LogStep PROVE HeadersTrue'
<1>1. CASE headers' = headers
  BY <1>1 DEF HeadersTrue
<1>2. ASSUME NEW h \in CentralCells, HeaderTrue(h),
             headers' = Append(headers, h)
      PROVE  HeadersTrue'
  <2>1. headers \in Seq(CentralCells)
    BY DEF TypeInv, TypeOK
  <2>2. \A i \in DOMAIN headers' :
            \/ headers'[i] = h
            \/ i \in DOMAIN headers /\ headers'[i] = headers[i]
    BY <1>2, <2>1
  <2> QED
    BY <1>2, <2>2 DEF HeadersTrue
<1> QED
  BY <1>1, <1>2 DEF LogStep, CommitStep, KeepStep

LEMMA KeptWrite ==
    ASSUME Kept, WriteStep PROVE OneEnd' /\ Sealed'
<1>1. PICK w \in Seq(Cells), k \in Nat : NoEnd(w) /\ Put(w, k)
  BY DEF WriteStep
<1>2. phase = "open" /\ phase' = "open"
  BY DEF WriteStep
<1>3. disk \in Seq(Cells) /\ cursor \in Nat /\ cursor <= Len(disk)
  BY DEF Kept, Safe, TypeInv, TypeOK, Bounds
<1>4. ASSUME NEW p \in DOMAIN disk' PROVE disk'[p].kind # "eocd"
  <2>1. CASE p \in DOMAIN disk /\ disk'[p] = disk[p]
    BY <1>2, <2>1 DEF Kept, OneEnd
  <2>2. ASSUME NEW i \in 1..k, disk'[p] = w[i] PROVE disk'[p].kind # "eocd"
    <3>1. k <= Len(w)
      BY <1>1 DEF Put
    <3>2. i \in DOMAIN w
      BY <3>1
    <3> QED
      BY <1>1, <2>2, <3>2 DEF NoEnd
  <2> QED
    BY <1>1, <1>3, <1>4, <2>1, <2>2, PutCells
<1> QED
  BY <1>2, <1>4 DEF OneEnd, Sealed

LEMMA KeptFinish ==
    ASSUME Kept, Finish PROVE OneEnd' /\ Sealed'
<1> DEFINE n == Len(headers)
<1> USE DEF Kept, Safe
<1>1. phase = "open"
  BY DEF Finish, Idle
<1>2. \A p \in DOMAIN disk : disk[p].kind # "eocd"
  BY <1>1 DEF OneEnd
<1>3. CASE UNCHANGED << file, raw >> /\ phase' = "failed"
  BY <1>2, <1>3 DEF OneEnd, Sealed, file
<1>4. CASE /\ StartWriting
           /\ \E k \in 0..Len(Trailer) :
                /\ Put(Trailer, k)
                /\ phase' = IF k = Len(Trailer) THEN "finished" ELSE "failed"
           /\ UNCHANGED << position, entries, headers >>
  <2>1. PICK k \in 0..Len(Trailer) :
            /\ Put(Trailer, k)
            /\ phase' = IF k = Len(Trailer) THEN "finished" ELSE "failed"
    BY <1>4
  <2>2. /\ Trailer \in Seq(Cells) /\ n \in Nat /\ Len(Trailer) = n + 3
        /\ \A i \in 1..(n + 2) : Trailer[i].kind # "eocd"
    <3>1. \A i \in 1..(n + 2) : i \in 1..n \/ i = n + 1 \/ i = n + 2
      BY TrailerCells
    <3>2. \A i \in 1..n : headers[i].kind = "central"
      <4>1. \A i \in 1..n : headers[i] \in CentralCells
        BY DEF TypeInv, TypeOK
      <4> QED
        BY <4>1 DEF CentralCells
    <3> QED
      BY <3>1, <3>2, TrailerCells DEF Eocd64Cell, LocatorCell
  <2>3. /\ disk \in Seq(Cells) /\ cursor \in Nat /\ cursor <= Len(disk)
        /\ Start \in Nat
    BY WriterAssumption DEF TypeInv, TypeOK, Bounds
  <2>4. /\ cursor' = cursor + k
        /\ \A i \in 1..k : disk'[cursor + i] = Trailer[i]
    BY <2>1, <2>2, <2>3, PutFacts
  <2>5. /\ position = CommittedEnd /\ cursor = Start + CommittedEnd
        /\ CommittedEnd \in Nat
    BY <1>1, <1>4, EndNat DEF StartWriting, Resume, TypeInv
  <2>6. CommittedEnd' = CommittedEnd /\ Trailer' = Trailer
    BY <1>4 DEF CommittedEnd, Trailer
  <2>7. Sealed'
    <3> SUFFICES ASSUME phase' = "finished"
                 PROVE  /\ position' = CommittedEnd'
                        /\ cursor' = Start + CommittedEnd' + Len(Trailer')
                        /\ \A i \in 1..Len(Trailer') :
                              disk'[Start + CommittedEnd' + i] = Trailer'[i]
      BY DEF Sealed
    <3>1. k = Len(Trailer)
      BY <2>1
    <3> QED
      BY <1>4, <2>4, <2>5, <2>6, <3>1
  <2>8. ASSUME NEW p \in DOMAIN disk', disk'[p].kind = "eocd"
        PROVE  phase' = "finished" /\ p = cursor'
    <3>1. PICK i \in 1..k : p = cursor + i /\ disk'[p] = Trailer[i]
      BY <1>2, <2>1, <2>2, <2>3, <2>8, PutCells
    <3>2. i = n + 3
      BY <2>2, <2>8, <3>1
    <3>3. k = n + 3
      BY <2>2, <3>2
    <3> QED
      BY <2>1, <2>2, <2>4, <3>1, <3>2, <3>3
  <2> QED
    BY <2>7, <2>8 DEF OneEnd
<1> QED
  BY <1>3, <1>4 DEF Finish

LEMMA KeptTruncate ==
    ASSUME Kept, Truncate PROVE OneEnd' /\ Sealed'
<1> USE DEF Kept, Safe
<1>1. /\ disk' = SubSeq(disk, 1, cursor)
      /\ UNCHANGED << cursor, position, entries, headers, phase >>
  BY DEF Truncate, raw
<1>2. /\ disk \in Seq(Cells) /\ cursor \in Nat /\ cursor <= Len(disk)
      /\ Start \in Nat
  BY WriterAssumption DEF TypeInv, TypeOK, Bounds
<1>3. /\ DOMAIN disk' = 1..cursor
      /\ \A p \in 1..cursor : p \in DOMAIN disk /\ disk'[p] = disk[p]
  BY <1>1, <1>2
<1>4. OneEnd'
  BY <1>1, <1>3 DEF OneEnd
<1>5. CommittedEnd' = CommittedEnd /\ Trailer' = Trailer
  BY <1>1 DEF CommittedEnd, Trailer
<1>6. Sealed'
  <2> SUFFICES ASSUME phase' = "finished"
               PROVE  /\ position' = CommittedEnd'
                      /\ cursor' = Start + CommittedEnd' + Len(Trailer')
                      /\ \A i \in 1..Len(Trailer') :
                            disk'[Start + CommittedEnd' + i] = Trailer'[i]
    BY DEF Sealed
  <2>1. /\ position = CommittedEnd
        /\ cursor = Start + CommittedEnd + Len(Trailer)
        /\ \A i \in 1..Len(Trailer) :
              disk[Start + CommittedEnd + i] = Trailer[i]
    BY <1>1 DEF Sealed
  <2>2. CommittedEnd \in Nat /\ Len(Trailer) \in Nat
    BY EndNat, TrailerCells DEF TypeInv
  <2>3. \A i \in 1..Len(Trailer) : Start + CommittedEnd + i \in 1..cursor
    BY <1>2, <2>1, <2>2
  <2> QED
    BY <1>1, <1>3, <1>5, <2>1, <2>3
<1> QED
  BY <1>4, <1>6

LEMMA KeptStep ==
    ASSUME Start = 0, Kept, [Next]_vars PROVE Kept'
<1>1. Safe'
  BY SafeStep DEF Kept
<1>2. CASE Next
  <2>1. LogStep /\ (WriteStep \/ Recover \/ Finish \/ Truncate)
    BY <1>2, StepKinds DEF Kept
  <2>2. HeadersTrue'
    BY <2>1, HeadersStayTrue DEF Kept, Safe
  <2>3. OneEnd' /\ Sealed'
    <3>1. CASE WriteStep
      BY <3>1, KeptWrite
    <3>2. CASE Recover
      <4>1. disk' = disk /\ phase' = phase /\ phase = "open"
        BY <3>2 DEF Recover, Idle
      <4> QED
        BY <4>1 DEF Kept, OneEnd, Sealed
    <3>3. CASE Finish
      BY <3>3, KeptFinish
    <3>4. CASE Truncate
      BY <3>4, KeptTruncate
    <3> QED
      BY <2>1, <3>1, <3>2, <3>3, <3>4
  <2> QED
    BY <1>1, <2>2, <2>3 DEF Kept
<1>3. CASE UNCHANGED vars
  <2>1. CommittedEnd' = CommittedEnd /\ Trailer' = Trailer
    BY <1>3 DEF vars, CommittedEnd, Trailer
  <2> QED
    BY <1>1, <1>3, <2>1 DEF Kept, HeadersTrue, OneEnd, Sealed, vars
<1> QED
  BY <1>2, <1>3

LEMMA KeptAlways == Start = 0 => (Spec => []Kept)
<1> SUFFICES ASSUME Start = 0 PROVE Spec => []Kept
  OBVIOUS
<1>1. Init => Kept
  BY KeptInit
<1>2. Kept /\ [Next]_vars => Kept'
  BY KeptStep
<1> QED
  BY <1>1, <1>2, PTL DEF Spec

(***************************************************************************)
(* The refinement of ArchiveLog.                                           *)
(***************************************************************************)
\* The content of a committed entry, read back from the file.
LEMMA StoredAsGiven ==
    ASSUME Safe, HeadersTrue, NEW i \in DOMAIN headers
    PROVE  StoredContent(headers[i]) = headers[i].sum
<1> DEFINE h == headers[i]
           e == Encode(h.method, h.sum)
           f == [k \in 1..h.csize |-> SymbolAt(Start + h.offset + LocalLen + k)]
<1>1. /\ h \in CentralCells /\ h.offset \in Nat /\ EntryLen(h) \in Nat
      /\ h.sum \in Seq(Bytes) /\ h.stream \in BOOLEAN
  BY EndNat DEF Safe, TypeInv, CentralCells
<1>2. e \in Seq(Symbols) /\ Len(e) \in Nat
  BY <1>1, EncodeFacts
<1>3. h.csize = Len(e)
  BY DEF HeadersTrue, HeaderTrue
<1>4. ASSUME NEW k \in 1..Len(e)
      PROVE  SymbolAt(Start + h.offset + LocalLen + k) = e[k]
  <2>1. LocalLen + k \in 1..EntryLen(h)
    BY <1>1, <1>2 DEF EntryLen, LocalLen
  <2>2. /\ Start + h.offset + (LocalLen + k) <= Len(disk)
        /\ disk[Start + h.offset + (LocalLen + k)] = EntryImage(h)[LocalLen + k]
    BY <2>1 DEF Safe, CommittedIntact
  <2>3. EntryImage(h)[LocalLen + k] = DataCell(e[k])
    BY <1>1, ImageCells
  <2>4. Start + h.offset + (LocalLen + k) = Start + h.offset + LocalLen + k
    <3>1. Start \in Nat /\ h.offset \in Nat /\ k \in Nat
      BY <1>1, <1>2, <1>4, WriterAssumption
    <3> QED
      BY <3>1 DEF LocalLen
  <2> QED
    BY <2>2, <2>3, <2>4 DEF SymbolAt, DataCell
<1>5. f = e
  BY <1>2, <1>3, <1>4
<1>6. StoredContent(h) = Decode(h.method, f)
  BY DEF StoredContent
<1> QED
  BY <1>1, <1>5, <1>6, DecodeEncode

LEMMA CommittedIs ==
    ASSUME Safe, HeadersTrue
    PROVE  Committed = [i \in DOMAIN headers |->
                          [name |-> headers[i].name, type |-> headers[i].type,
                           content |-> headers[i].sum]]
  BY StoredAsGiven DEF Committed

LEMMA LogImplemented ==
    ASSUME Kept, Kept', [Next]_vars
    PROVE  [Log!Next]_<< Committed, Mode >>
<1> DEFINE entry(h) == [name |-> h.name, type |-> h.type, content |-> h.sum]
<1>1. Committed = [i \in DOMAIN headers |-> entry(headers[i])]
  BY CommittedIs DEF Kept
<1>2. Committed' = [i \in DOMAIN headers' |-> entry(headers'[i])]
  <2>1. (Safe /\ HeadersTrue)'
    BY DEF Kept
  <2>2. (Safe /\ HeadersTrue
           => Committed = [i \in DOMAIN headers |-> entry(headers[i])])'
    BY CommittedIs, PTL
  <2> QED
    BY <2>1, <2>2
<1>3. CASE UNCHANGED vars
  <2>1. Mode' = Mode /\ headers' = headers
    BY <1>3 DEF vars, Mode
  <2> QED
    BY <1>1, <1>2, <2>1
<1>4. CASE KeepStep
  <2>1. Committed' = Committed
    BY <1>1, <1>2, <1>4 DEF KeepStep
  <2>2. CASE Mode' = Mode
    BY <2>1, <2>2
  <2>3. CASE << Mode, Mode' >> \in ModeSteps
    BY <2>1, <2>3
    DEF ModeSteps, Log!Next, Log!OpenStream, Log!Fail, Log!Recover, Log!Seal,
        Log!GiveUp
  <2> QED
    BY <1>4, <2>2, <2>3 DEF KeepStep
<1>5. CASE CommitStep
  <2>1. PICK h \in CentralCells :
            /\ h.name.base \notin entries
            /\ headers' = Append(headers, h)
    BY <1>5 DEF CommitStep
  <2>2. /\ headers \in Seq(CentralCells)
        /\ entries = { headers[i].name.base : i \in DOMAIN headers }
    BY DEF Kept, Safe, TypeInv, TypeOK, NamesExact
  <2> DEFINE n == Len(headers)
  <2>3. /\ n \in Nat /\ DOMAIN headers = 1..n /\ DOMAIN headers' = 1..(n + 1)
        /\ headers'[n + 1] = h
        /\ \A i \in 1..n : headers'[i] = headers[i]
    BY <2>1, <2>2
  <2>4. \A g \in CentralCells : entry(g) \in Log!Entries
    BY DEF Log!Entries, CentralCells
  <2>5. /\ Committed \in Seq(Log!Entries) /\ Len(Committed) = n
        /\ \A i \in 1..n : Committed[i] = entry(headers[i])
    <3>1. \A i \in 1..n : headers[i] \in CentralCells
      BY <2>2, <2>3
    <3>2. Committed \in [1..n -> Log!Entries]
      BY <1>1, <2>3, <2>4, <3>1
    <3> QED
      BY <1>1, <2>3, <3>2
  <2>6. Committed' = Append(Committed, entry(h))
    <3> HIDE DEF entry
    <3>1. /\ DOMAIN Append(Committed, entry(h)) = 1..(n + 1)
          /\ Append(Committed, entry(h))[n + 1] = entry(h)
          /\ \A i \in 1..n :
                Append(Committed, entry(h))[i] = entry(headers[i])
      BY <2>3, <2>5
    <3>2. \A i \in 1..(n + 1) : i \in 1..n \/ i = n + 1
      BY <2>3
    <3>3. Committed' = [i \in 1..(n + 1) |-> entry(headers'[i])]
      BY <1>2, <2>3
    <3>4. Append(Committed, entry(h))
             = [i \in 1..(n + 1) |-> Append(Committed, entry(h))[i]]
      <4> DEFINE a == Append(Committed, entry(h))
      <4>1. a \in Seq(Log!Entries) /\ DOMAIN a = 1..(n + 1)
        BY <2>4, <2>5, <3>1
      <4> HIDE DEF a
      <4>2. a \in [1..Len(a) -> Log!Entries] /\ Len(a) \in Nat
        BY <4>1
      <4>3. 1..Len(a) = 1..(n + 1)
        BY <4>1, <4>2
      <4>4. a = [i \in 1..Len(a) |-> a[i]]
        BY <4>2
      <4> QED
        BY <4>3, <4>4 DEF a
    <3>5. \A i \in 1..(n + 1) :
             entry(headers'[i]) = Append(Committed, entry(h))[i]
      BY <2>3, <3>1, <3>2
    <3> QED
      BY <3>3, <3>4, <3>5
  <2>7. \A i \in 1..n : Committed[i].name.base # entry(h).name.base
    <3>1. \A i \in 1..n : headers[i].name.base \in entries
      BY <2>2, <2>3
    <3>2. \A g : entry(g).name = g.name
      OBVIOUS
    <3> HIDE DEF entry
    <3>3. \A i \in 1..n : Committed[i].name = headers[i].name
      BY <2>5, <3>2
    <3> QED
      BY <2>1, <3>1, <3>2, <3>3
  <2>8. entry(h) \in Log!Entries
    BY <2>4
  <2> HIDE DEF entry
  <2>9. /\ Len(Committed') = Len(Committed) + 1
        /\ SubSeq(Committed', 1, Len(Committed)) = Committed
        /\ Committed'[Len(Committed')] = entry(h)
        /\ DOMAIN Committed = 1..n
    BY <2>5, <2>6, <2>8
  <2>10. Mode \in {"ready", "streaming"} /\ Mode' = "ready"
    BY <1>5 DEF CommitStep
  <2> QED
    BY <2>7, <2>8, <2>9, <2>10 DEF Log!Next, Log!Commit
<1> QED
  BY <1>3, <1>4, <1>5, StepKinds DEF Kept, LogStep

\* The archive in the file is an append-only log of the entries whose calls
\* returned Ok: no failed write, abandoned stream, recovery or truncation
\* changes what can be read back of an entry, and the methods block, recover
\* and end as ArchiveLog says.
THEOREM WriterImplementsLog == Start = 0 => (Spec => ImplementsLog)
<1> SUFFICES ASSUME Start = 0 PROVE Spec => ImplementsLog
  OBVIOUS
<1>1. Spec => []Kept
  BY KeptAlways
<1>2. Init => Log!Init
  <2> SUFFICES ASSUME Init PROVE Log!Init
    OBVIOUS
  <2>1. headers = << >> /\ phase = "open" /\ ~streamer.live /\ ~state.writing
    BY DEF Init, NoStreamer, Default
  <2>2. Committed = << >> /\ Mode = "ready"
    BY <2>1 DEF Committed, Mode
  <2> QED
    BY <2>2 DEF Log!Init
<1>3. Kept /\ Kept' /\ [Next]_vars => [Log!Next]_<< Committed, Mode >>
  BY LogImplemented
<1> QED
  BY <1>1, <1>2, <1>3, PTL DEF Spec, ImplementsLog, Log!Spec

(***************************************************************************)
(* The reader on the writer's file.  What the writer wrote as a record is  *)
(* seen as that record; what it wrote as content may be seen as any.       *)
(* Before finish there is no end record of the writer's; after it there is *)
(* one, where finish left the cursor.                                      *)
(***************************************************************************)
LEMMA SeenFacts ==
    ASSUME disk \in Seq(Cells)
    PROVE  /\ Seen \in Seq(Cells) /\ Len(Seen) = Len(disk)
           /\ DOMAIN Seen = DOMAIN disk
           /\ \A p \in DOMAIN disk :
                 disk[p].kind # "data" => Seen[p] = disk[p]
<1>1. /\ DOMAIN disk = 1..Len(disk) /\ Len(disk) \in Nat
      /\ \A p \in 1..Len(disk) : disk[p] \in Cells
  OBVIOUS
<1>2. \A p \in 1..Len(disk) : Seen[p] \in Cells
  BY <1>1, ReaderAssumption DEF ReaderAssumption, Seen, AsRead
<1>3. /\ DOMAIN Seen = 1..Len(disk)
      /\ Seen = [p \in 1..Len(disk) |-> Seen[p]]
      /\ \A p \in 1..Len(disk) : disk[p].kind # "data" => Seen[p] = disk[p]
  BY <1>1 DEF Seen, AsRead
<1> HIDE DEF Seen
<1>4. Seen \in Seq(Cells) /\ Len(Seen) = Len(disk)
  BY <1>1, <1>2, <1>3, SeqDef
<1> QED
  BY <1>1, <1>3, <1>4

\* An end record that the reader may take is the one finish wrote, or content.
LEMMA EndsAtCursor ==
    ASSUME Kept
    PROVE  /\ EocdOffsets(Seen) \subseteq 0..(Len(disk) - 1)
           /\ \A at \in EocdOffsets(Seen) :
                 \/ phase = "finished" /\ at = cursor - 1
                 \/ disk[at + 1].kind = "data"
           /\ phase = "finished" =>
                 /\ cursor \in Nat /\ cursor >= 1 /\ cursor <= Len(disk)
                 /\ Len(disk) \in Nat /\ cursor \in DOMAIN disk
                 /\ disk[cursor] = EocdCell(TRUE, 0, 0, 0, 0)
                 /\ Seen[cursor] = EocdCell(TRUE, 0, 0, 0, 0)
<1> DEFINE n == Len(headers)
<1>1. /\ disk \in Seq(Cells) /\ cursor \in Nat /\ cursor <= Len(disk)
      /\ Len(disk) \in Nat /\ DOMAIN disk = 1..Len(disk)
      /\ Start \in Nat /\ CommittedEnd \in Nat
  BY EndNat, WriterAssumption DEF Kept, Safe, TypeInv, TypeOK, Bounds
<1>2. /\ n \in Nat /\ Len(Trailer) = n + 3
      /\ Trailer[n + 3] = EocdCell(TRUE, 0, 0, 0, 0)
  BY TrailerCells DEF Kept, Safe
<1> HIDE DEF n
<1>3. ASSUME phase = "finished"
      PROVE  /\ disk[cursor] = EocdCell(TRUE, 0, 0, 0, 0) /\ cursor >= 1
             /\ cursor \in DOMAIN disk
             /\ Seen[cursor] = EocdCell(TRUE, 0, 0, 0, 0)
  <2>1. /\ cursor = Start + CommittedEnd + Len(Trailer)
        /\ \A k \in 1..Len(Trailer) :
              disk[Start + CommittedEnd + k] = Trailer[k]
    BY <1>3 DEF Kept, Sealed
  <2>2. cursor = Start + CommittedEnd + (n + 3) /\ n + 3 \in 1..Len(Trailer)
    BY <1>1, <1>2, <2>1
  <2>3. disk[cursor] = EocdCell(TRUE, 0, 0, 0, 0)
    <3>1. disk[Start + CommittedEnd + (n + 3)] = Trailer[n + 3]
      BY <2>1, <2>2
    <3> QED
      BY <1>2, <2>2, <3>1
  <2>4. cursor >= 1 /\ cursor \in DOMAIN disk
    BY <1>1, <1>2, <2>2
  <2> QED
    BY <1>1, <2>3, <2>4, SeenFacts DEF EocdCell
<1>4. ASSUME NEW at \in EocdOffsets(Seen)
      PROVE  /\ at \in 0..(Len(disk) - 1)
             /\ \/ phase = "finished" /\ at = cursor - 1
                \/ disk[at + 1].kind = "data"
  <2>1. /\ at \in 0..(Len(disk) - 1) /\ at + 1 \in DOMAIN disk
        /\ Seen[at + 1].kind = "eocd"
    BY <1>1, <1>4, SeenFacts DEF EocdOffsets, HasRecord
  <2>2. CASE disk[at + 1].kind # "data"
    <3>1. phase = "finished" /\ at + 1 = cursor
      BY <1>1, <2>1, <2>2, SeenFacts DEF Kept, OneEnd
    <3> QED
      BY <1>1, <2>1, <3>1
  <2> QED
    BY <2>1, <2>2
<1> QED
  BY <1>1, <1>3, <1>4

\* The record that the reader takes is the last one.
LEMMA EndTaken ==
    ASSUME Kept, EocdOffsets(Seen) # {}
    PROVE  /\ EocdOffset(Seen) \in EocdOffsets(Seen)
           /\ \A at \in EocdOffsets(Seen) : at <= EocdOffset(Seen)
<1> DEFINE S == EocdOffsets(Seen)
<1>1. Len(disk) \in Nat /\ S \subseteq 0..(Len(disk) - 1)
  <2>1. disk \in Seq(Cells)
    BY DEF Kept, Safe, TypeInv, TypeOK
  <2>2. Len(disk) \in Nat
    BY <2>1
  <2> QED
    BY <2>2, EndsAtCursor
<1> HIDE DEF S
<1>2. S \in SUBSET (0..Len(disk)) /\ S # {}
  BY <1>1 DEF S
<1>3. Max(S) \in S /\ \A at \in S : at <= Max(S)
  BY <1>1, <1>2, Largest
<1> QED
  BY <1>3 DEF EocdOffset, S

\* The local entry at the offset that its central header states.
LEMMA EntryAccepted ==
    ASSUME Start = 0, Safe, HeadersTrue, NEW i \in DOMAIN headers
    PROVE  /\ CheckLocalEntry(Seen, headers[i], headers[i].offset)
           /\ LocalEntryLen(Seen, headers[i], headers[i].offset)
                = EntryLen(headers[i])
<1> DEFINE h == headers[i]
           at == headers[i].offset
           e == Encode(h.method, h.sum)
           m == EntryImage(h)
<1>1. /\ h \in CentralCells /\ at \in Nat /\ EntryLen(h) \in Nat
      /\ h.sum \in Seq(Bytes) /\ h.stream \in BOOLEAN /\ h.csize \in Nat
  BY EndNat DEF Safe, TypeInv, CentralCells
<1>2. Len(e) \in Nat
  BY <1>1, EncodeFacts
<1>3. h.csize = Len(e) /\ (h.type = "Directory" => h.sum = << >>)
  BY DEF HeadersTrue, HeaderTrue
<1>4. LocalLen = 2 /\ EntryLen(h) = 2 + Len(e) + (IF h.stream THEN 1 ELSE 0)
  BY DEF LocalLen, EntryLen
<1>5. \A k \in 1..EntryLen(h) : at + k <= Len(disk) /\ disk[at + k] = m[k]
  <2>1. \A k \in 1..EntryLen(h) :
            Start + at + k <= Len(disk) /\ disk[Start + at + k] = m[k]
    BY DEF Safe, CommittedIntact
  <2>2. Start + at = at
    BY <1>1
  <2> QED
    BY <2>1, <2>2
<1>6. disk \in Seq(Cells) /\ Len(disk) \in Nat /\ DOMAIN disk = 1..Len(disk)
  BY DEF Safe, TypeInv, TypeOK
<1>7. /\ m[1] = LocalCell(h.method, h.stream, IF h.stream THEN << >> ELSE h.sum)
      /\ m[2] = NameCell(h.name, IF h.stream THEN 0 ELSE h.csize)
      /\ h.stream => m[LocalLen + Len(e) + 1] = DescriptorCell(h.csize, h.sum)
  BY <1>1, ImageCells
<1> HIDE DEF e, m
<1>8. /\ at + 1 \in DOMAIN Seen /\ Seen[at + 1] = m[1]
      /\ at + 2 \in DOMAIN Seen /\ Seen[at + 2] = m[2]
  <2>1. 1 \in 1..EntryLen(h) /\ 2 \in 1..EntryLen(h)
    BY <1>1, <1>2, <1>4
  <2>2. /\ at + 1 \in DOMAIN disk /\ disk[at + 1] = m[1]
        /\ at + 2 \in DOMAIN disk /\ disk[at + 2] = m[2]
    BY <1>1, <1>5, <1>6, <2>1
  <2>3. m[1].kind # "data" /\ m[2].kind # "data"
    BY <1>7 DEF LocalCell, NameCell
  <2> QED
    BY <1>6, <2>2, <2>3, SeenFacts
<1>9. h.stream =>
          /\ DescriptorAt(h, at) + 1 \in DOMAIN Seen
          /\ Seen[DescriptorAt(h, at) + 1] = DescriptorCell(h.csize, h.sum)
  <2> SUFFICES ASSUME h.stream
               PROVE  /\ DescriptorAt(h, at) + 1 \in DOMAIN Seen
                      /\ Seen[DescriptorAt(h, at) + 1]
                            = DescriptorCell(h.csize, h.sum)
    OBVIOUS
  <2>1. LocalLen + Len(e) + 1 \in 1..EntryLen(h)
    BY <1>1, <1>2, <1>4
  <2>2. DescriptorAt(h, at) + 1 = at + (LocalLen + Len(e) + 1)
    BY <1>1, <1>2, <1>3, <1>4 DEF DescriptorAt
  <2>3. /\ DescriptorAt(h, at) + 1 \in DOMAIN disk
        /\ disk[DescriptorAt(h, at) + 1] = DescriptorCell(h.csize, h.sum)
    BY <1>1, <1>5, <1>6, <1>7, <2>1, <2>2
  <2> QED
    BY <1>6, <2>3, SeenFacts DEF DescriptorCell
<1>10. Seen[at + 1].stream = h.stream /\ Seen[at + 1].method = h.method
       /\ Seen[at + 1].kind = "local"
       /\ (~h.stream => Seen[at + 1].sum = h.sum)
  BY <1>7, <1>8 DEF LocalCell
<1>11. Seen[at + 2].name = h.name /\ Seen[at + 2].kind = "name"
       /\ (~h.stream => Seen[at + 2].csize = h.csize)
  BY <1>7, <1>8 DEF NameCell
<1>12. h.method = "Store" => h.csize = Len(h.sum)
  BY <1>3 DEF Encode, e
<1>13. LocalEntryLen(Seen, h, at) = EntryLen(h)
  BY <1>3, <1>4, <1>10 DEF LocalEntryLen
<1>14. (at + 1) + 1 = at + 2
  BY <1>1
<1>15. CheckLocalEntry(Seen, h, at)
  <2>1. CASE h.stream
    BY <1>3, <1>8, <1>9, <1>10, <1>11, <1>12, <1>14, <2>1
    DEF CheckLocalEntry, HasRecord, DescriptorCell
  <2>2. CASE ~h.stream
    BY <1>3, <1>8, <1>10, <1>11, <1>12, <1>14, <2>2
    DEF CheckLocalEntry, HasRecord
  <2> QED
    BY <2>1, <2>2
<1> QED
  BY <1>13, <1>15

\* The walk over the local entries comes by each of them, and ends at the
\* end of the last one.
LEMMA WalkFollows ==
    ASSUME Start = 0, Safe, HeadersTrue, headers # << >>
    PROVE  /\ \A i \in DOMAIN headers :
                 WalkOf(Seen, headers)[i] = headers[i].offset
           /\ WalkOf(Seen, headers)[Len(headers) + 1] = CommittedEnd
<1> DEFINE n == Len(headers)
           prev(g, i) == g[i - 1]
           turn(g, i) ==
              IF i = 1 THEN headers[1].offset
              ELSE LET p == prev(g, i)
                   IN  IF p >= 0 /\ CheckLocalEntry(Seen, headers[i - 1], p)
                       THEN p + LocalEntryLen(Seen, headers[i - 1], p)
                       ELSE -1
           Walks(g) == g = [i \in 1..(n + 1) |-> turn(g, i)]
           offsets == [i \in 1..(n + 1) |->
                         IF i = n + 1 THEN CommittedEnd ELSE headers[i].offset]
           at == WalkOf(Seen, headers)
<1>1. /\ headers \in Seq(CentralCells) /\ n \in Nat /\ n >= 1
      /\ DOMAIN headers = 1..n
  BY DEF Safe, TypeInv, TypeOK
<1>2. at = CHOOSE g : Walks(g)
  BY DEF WalkOf
<1>3. ASSUME NEW i \in 1..n
      PROVE  /\ headers[i].offset \in Nat /\ EntryLen(headers[i]) \in Nat
             /\ CheckLocalEntry(Seen, headers[i], headers[i].offset)
             /\ LocalEntryLen(Seen, headers[i], headers[i].offset)
                    = EntryLen(headers[i])
             /\ offsets[i] = headers[i].offset
             /\ offsets[i + 1] = headers[i].offset + EntryLen(headers[i])
  <2>1. /\ headers[i].offset \in Nat /\ EntryLen(headers[i]) \in Nat
        /\ CheckLocalEntry(Seen, headers[i], headers[i].offset)
        /\ LocalEntryLen(Seen, headers[i], headers[i].offset)
              = EntryLen(headers[i])
    BY <1>1, <1>3, EndNat, EntryAccepted DEF Safe, TypeInv
  <2>2. offsets[i] = headers[i].offset
    BY <1>1, <1>3
  <2>3. CASE i = n
    <3>1. offsets[i + 1] = CommittedEnd
      BY <1>1, <2>3
    <3> QED
      BY <2>1, <2>2, <2>3, <3>1 DEF CommittedEnd
  <2>4. CASE i # n
    <3>1. i + 1 \in 1..n /\ i + 1 # 1 /\ (i + 1) - 1 = i
      <4> HIDE DEF n
      <4> QED
        BY <1>1, <1>3, <2>4
    <3>2. headers[i + 1].offset = headers[i].offset + EntryLen(headers[i])
      BY <1>1, <3>1 DEF Safe, Contiguous
    <3>3. offsets[i + 1] = headers[i + 1].offset
      BY <1>1, <3>1
    <3> QED
      BY <2>1, <2>2, <3>2, <3>3
  <2> QED
    BY <2>3, <2>4
<1>4. ASSUME NEW g, NEW i \in 2..(n + 1), g[i - 1] = offsets[i - 1]
      PROVE  turn(g, i) = offsets[i]
  <2> DEFINE j == i - 1
  <2>1. j \in 1..n /\ i = j + 1 /\ i # 1
    BY <1>1, <1>4
  <2>2. /\ g[j] = headers[j].offset /\ g[j] >= 0
        /\ CheckLocalEntry(Seen, headers[j], g[j])
        /\ LocalEntryLen(Seen, headers[j], g[j]) = EntryLen(headers[j])
        /\ offsets[i] = headers[j].offset + EntryLen(headers[j])
    <3> HIDE DEF offsets, j
    <3>1. g[j] = offsets[j]
      BY <1>4, <2>1 DEF j
    <3> QED
      BY <1>3, <2>1, <3>1
  <2> HIDE DEF offsets
  <2> QED
    BY <2>1, <2>2
<1>5. offsets[1] = headers[1].offset /\ turn(offsets, 1) = offsets[1]
  BY <1>1
<1>6. Walks(offsets)
  <2>1. ASSUME NEW i \in 1..(n + 1) PROVE turn(offsets, i) = offsets[i]
    <3>1. CASE i = 1
      BY <1>5, <3>1
    <3>2. CASE i # 1
      <4>1. i \in 2..(n + 1)
        BY <1>1, <3>2
      <4> HIDE DEF offsets, turn
      <4> QED
        BY <1>4, <4>1
    <3> QED
      BY <3>1, <3>2
  <2>2. offsets = [i \in 1..(n + 1) |-> offsets[i]]
    OBVIOUS
  <2> HIDE DEF offsets, turn
  <2> QED
    BY <2>1, <2>2
<1>7. Walks(at)
  <2> HIDE DEF Walks, offsets
  <2> QED
    BY <1>2, <1>6
<1>8. \A i \in 1..(n + 1) : at[i] = offsets[i]
  <2> HIDE DEF at, offsets
  <2> DEFINE T == {i \in 1..(n + 1) : at[i] = offsets[i]}
  <2>1. ASSUME NEW i \in 1..(n + 1) PROVE at[i] = turn(at, i)
    <3> HIDE DEF turn
    <3> QED
      BY <1>7
  <2>2. 1 \in T
    <3>1. 1 \in 1..(n + 1)
      BY <1>1
    <3> QED
      BY <1>5, <2>1, <3>1
  <2>3. ASSUME NEW i \in Nat, 1 <= i, i < n + 1, i \in T PROVE i + 1 \in T
    <3>1. /\ i + 1 \in 2..(n + 1) /\ i + 1 \in 1..(n + 1) /\ (i + 1) - 1 = i
          /\ at[i] = offsets[i]
      BY <1>1, <2>3
    <3> HIDE DEF turn
    <3>2. turn(at, i + 1) = offsets[i + 1]
      BY <1>4, <3>1
    <3>3. at[i + 1] = turn(at, i + 1)
      BY <2>1, <3>1
    <3> QED
      BY <3>1, <3>2, <3>3
  <2>4. n + 1 \in Nat
    BY <1>1
  <2> HIDE DEF T
  <2>5. \A i \in 1..(n + 1) : i \in T
    BY <2>2, <2>3, <2>4, InductionFromOne
  <2> QED
    BY <2>5 DEF T
<1>9. n + 1 \in 1..(n + 1) /\ offsets[n + 1] = CommittedEnd
  BY <1>1
<1>10. \A i \in 1..n : i \in 1..(n + 1) /\ offsets[i] = headers[i].offset
  BY <1>1, <1>3
<1> HIDE DEF at, offsets
<1> QED
  BY <1>1, <1>8, <1>9, <1>10 DEF at

LEMMA EndFound ==
    ASSUME Kept, phase = "finished", Truncated
    PROVE  /\ EocdOffsets(Seen) # {}
           /\ EocdOffset(Seen) = cursor - 1
<1>1. /\ cursor \in Nat /\ cursor >= 1 /\ Len(disk) = cursor
      /\ cursor \in DOMAIN disk /\ Seen[cursor].kind = "eocd"
      /\ EocdOffsets(Seen) \subseteq 0..(cursor - 1)
  BY EndsAtCursor DEF EocdCell, Truncated
<1>2. /\ MaxComment \in Nat /\ Len(Seen) = cursor /\ DOMAIN Seen = DOMAIN disk
  BY <1>1, ReaderAssumption, SeenFacts
  DEF ReaderAssumption, Kept, Safe, TypeInv, TypeOK
<1>3. cursor - 1 \in EocdOffsets(Seen)
  <2>1. /\ cursor - 1 \in 0..(Len(Seen) - 1)
        /\ (cursor - 1) + 1 = cursor
        /\ Len(Seen) - ((cursor - 1) + 1) <= MaxComment
    BY <1>1, <1>2
  <2> QED
    BY <1>1, <1>2, <2>1 DEF EocdOffsets, HasRecord
<1>4. EocdOffset(Seen) = cursor - 1
  <2>1. /\ EocdOffset(Seen) \in 0..(cursor - 1)
        /\ cursor - 1 <= EocdOffset(Seen)
    BY <1>1, <1>3, EndTaken
  <2> QED
    BY <1>1, <2>1
<1> QED
  BY <1>3, <1>4

\* The directory that the reader is led to is the one that finish wrote.
LEMMA DirectoryFound ==
    ASSUME Start = 0, Kept, phase = "finished", Truncated
    PROVE  /\ EndsWithEocd(Seen)
           /\ HasDirectory(Seen)
           /\ CentralDirectory(Seen)
                = [offset |-> CommittedEnd, size |-> Len(headers),
                   count |-> Len(headers),
                   eocd_offset |-> CommittedEnd + Len(headers)]
           /\ HeadersIn(Seen, CentralDirectory(Seen)) = headers
           /\ \A i \in 1..Len(headers) :
                 HasRecord(Seen, CommittedEnd + i - 1, "central")
<1> DEFINE n == Len(headers)
           c == CommittedEnd
           dir == [offset |-> c, size |-> n, count |-> n, eocd_offset |-> c + n]
<1>1. /\ disk \in Seq(Cells) /\ Len(disk) = cursor /\ c \in Nat /\ n \in Nat
      /\ headers \in Seq(CentralCells) /\ position = c
  BY EndNat DEF Kept, Safe, TypeInv, TypeOK, Truncated, Sealed
<1>2. /\ EocdOffsets(Seen) # {} /\ EocdOffset(Seen) = cursor - 1
      /\ Seen[cursor] = EocdCell(TRUE, 0, 0, 0, 0)
      /\ Len(Seen) = cursor /\ Seen \in Seq(Cells)
  BY <1>1, EndFound, EndsAtCursor, SeenFacts
<1>3. /\ cursor = c + n + 3
      /\ \A k \in 1..(n + 3) : disk[c + k] = Trailer[k]
  <2>1. Len(Trailer) = n + 3
    BY TrailerCells DEF Kept, Safe
  <2>2. /\ cursor = Start + c + Len(Trailer)
        /\ \A k \in 1..Len(Trailer) : disk[Start + c + k] = Trailer[k]
    BY DEF Kept, Sealed
  <2> HIDE DEF n, c
  <2> QED
    BY <1>1, <2>1, <2>2
<1>5. DOMAIN Seen = 1..(c + n + 3) /\ DOMAIN disk = 1..(c + n + 3)
  BY <1>1, <1>2, <1>3
<1>4. /\ \A k \in 1..n : Seen[c + k] = headers[k]
      /\ Seen[c + n + 1] = Eocd64Cell(n, n, c)
      /\ Seen[c + n + 2] = LocatorCell(c + n)
  <2>1. /\ \A k \in 1..n : Trailer[k] = headers[k]
        /\ Trailer[n + 1] = Eocd64Cell(Cardinality(entries), n, c)
        /\ Trailer[n + 2] = LocatorCell(c + n)
    BY <1>1, TrailerCells DEF Kept, Safe
  <2>2. Cardinality(entries) = n
    BY CountExact DEF Kept
  <2> HIDE DEF n, c
  <2>3. /\ n + 1 \in 1..(n + 3) /\ n + 2 \in 1..(n + 3)
        /\ \A k \in 1..n : k \in 1..(n + 3)
        /\ c + (n + 1) = c + n + 1 /\ c + (n + 2) = c + n + 2
    BY <1>1
  <2>4. disk[c + (n + 1)] = Trailer[n + 1] /\ disk[c + (n + 2)] = Trailer[n + 2]
    BY <1>3, <2>3
  <2>5. /\ \A k \in 1..n : disk[c + k] = headers[k]
        /\ disk[c + n + 1] = Eocd64Cell(n, n, c)
        /\ disk[c + n + 2] = LocatorCell(c + n)
    BY <1>3, <2>1, <2>2, <2>3, <2>4
  <2>6. \A k \in 1..n : headers[k].kind = "central"
    <3>1. \A k \in 1..n : headers[k] \in CentralCells
      BY <1>1 DEF n
    <3> QED
      BY <3>1 DEF CentralCells
  <2>7. /\ \A k \in 1..n : c + k \in DOMAIN disk
        /\ c + n + 1 \in DOMAIN disk /\ c + n + 2 \in DOMAIN disk
    BY <1>1, <1>5
  <2>8. \A p \in DOMAIN disk : disk[p].kind # "data" => Seen[p] = disk[p]
    BY <1>1, SeenFacts
  <2>9. ASSUME NEW k \in 1..n PROVE Seen[c + k] = headers[k]
    BY <2>5, <2>6, <2>7, <2>8
  <2>10. Seen[c + n + 1] = Eocd64Cell(n, n, c)
    BY <2>5, <2>7, <2>8 DEF Eocd64Cell
  <2>11. Seen[c + n + 2] = LocatorCell(c + n)
    BY <2>5, <2>7, <2>8 DEF LocatorCell
  <2> QED
    BY <2>9, <2>10, <2>11
<1> HIDE DEF n, c
<1>6. EndsWithEocd(Seen)
  <2>1. (cursor - 1) + 1 = cursor /\ Len(Seen) - cursor = 0
    BY <1>1, <1>2, <1>3
  <2> QED
    BY <1>2, <2>1 DEF EndsWithEocd, EocdCell
<1>7. /\ EocdOffset(Seen) = c + n + 2
      /\ Seen[EocdOffset(Seen)] = LocatorCell(c + n)
      /\ Seen[EocdOffset(Seen) + 1].zip64 = TRUE
  <2>1. cursor - 1 = c + n + 2 /\ (c + n + 2) + 1 = cursor
    BY <1>1, <1>3
  <2> QED
    BY <1>2, <1>4, <2>1 DEF EocdCell
<1>8. (c + n) + 1 = c + n + 1 /\ (c + n + 2) - 1 = c + n + 1
      /\ ((c + n + 2) - 1) + 1 = c + n + 2
      /\ c + n <= c + n + 1
      /\ c + n + 1 \in DOMAIN Seen /\ c + n + 2 \in DOMAIN Seen
  BY <1>1, <1>5
<1>9. HasDirectory(Seen)
  BY <1>4, <1>7, <1>8
  DEF HasDirectory, HasEocd64, HasRecord, LocatorCell, Eocd64Cell
<1>10. CentralDirectory(Seen) = dir
  BY <1>4, <1>7, <1>8 DEF CentralDirectory, LocatorCell, Eocd64Cell
<1>11. HeadersIn(Seen, CentralDirectory(Seen)) = headers
  <2>1. HeadersIn(Seen, CentralDirectory(Seen)) = SubSeq(Seen, c + 1, c + n)
    <3>1. CentralDirectory(Seen).offset = c /\ CentralDirectory(Seen).count = n
      BY <1>10
    <3> QED
      BY <3>1 DEF HeadersIn
  <2>2. SubSeq(Seen, c + 1, c + n) = [k \in 1..n |-> Seen[(c + 1) + k - 1]]
    BY <1>1, <1>2
  <2>3. \A k \in 1..n : Seen[(c + 1) + k - 1] = headers[k]
    <3>1. \A k \in 1..n : (c + 1) + k - 1 = c + k
      BY <1>1
    <3> QED
      BY <1>4, <3>1
  <2>4. headers = [k \in 1..n |-> headers[k]]
    BY <1>1 DEF n
  <2> QED
    BY <2>1, <2>2, <2>3, <2>4
<1>12. ASSUME NEW i \in 1..n PROVE HasRecord(Seen, c + i - 1, "central")
  <2>1. (c + i - 1) + 1 = c + i /\ c + i \in DOMAIN Seen
    BY <1>1, <1>5, <1>12
  <2>2. headers[i] \in CentralCells
    BY <1>1, <1>12 DEF n
  <2> QED
    BY <1>4, <1>12, <2>1, <2>2 DEF HasRecord, CentralCells
<1> QED
  BY <1>6, <1>9, <1>10, <1>11, <1>12 DEF n, c

LEMMA ArchiveAccepted ==
    ASSUME Start = 0, Kept, phase = "finished", Truncated
    PROVE  /\ Accepts(Seen)
           /\ Listing(Seen) =
                [i \in 1..Len(headers) |->
                   [name |-> headers[i].name, type |-> headers[i].type,
                    method |-> headers[i].method, csize |-> headers[i].csize,
                    sum |-> headers[i].sum,
                    data_offset |-> headers[i].offset + LocalLen]]
<1> DEFINE n == Len(headers)
           c == CentralDirectory(Seen)
<1>1. /\ headers \in Seq(CentralCells) /\ n \in Nat /\ DOMAIN headers = 1..n
      /\ CommittedEnd \in Nat
  BY EndNat DEF Kept, Safe, TypeInv, TypeOK
<1>2. /\ EndsWithEocd(Seen) /\ HasDirectory(Seen)
      /\ c.offset = CommittedEnd /\ c.size = n /\ c.count = n
      /\ c.eocd_offset = CommittedEnd + n
      /\ HeadersIn(Seen, c) = headers
      /\ \A i \in 1..n : HasRecord(Seen, CommittedEnd + i - 1, "central")
  BY DirectoryFound
<1>3. n > 0 =>
        /\ \A i \in 1..n : WalkOf(Seen, headers)[i] = headers[i].offset
        /\ WalkOf(Seen, headers)[n + 1] = CommittedEnd
  <2>1. n > 0 => headers # << >>
    BY <1>1
  <2> QED
    BY <1>1, <2>1, WalkFollows DEF Kept
<1> HIDE DEF c, n
<1>4. ValidSize(c)
  BY <1>1, <1>2 DEF ValidSize
<1>5. \A i, j \in 1..n : headers[i].name.base = headers[j].name.base => i = j
  BY <1>1 DEF Kept, Safe, NamesExact
<1>6. ValidDirectory(Seen, c)
  BY <1>2, <1>3, <1>5 DEF ValidDirectory
<1>7. Accepts(Seen)
  BY <1>2, <1>4, <1>6 DEF Accepts, c
<1>8. Listing(Seen) =
        [i \in 1..n |->
            [name |-> headers[i].name, type |-> headers[i].type,
             method |-> headers[i].method, csize |-> headers[i].csize,
             sum |-> headers[i].sum,
             data_offset |-> WalkOf(Seen, headers)[i] + LocalLen]]
  BY <1>2 DEF Listing, c, n
<1>9. ASSUME NEW i \in 1..n
      PROVE  WalkOf(Seen, headers)[i] = headers[i].offset
  BY <1>1, <1>3, <1>9
<1> QED
  BY <1>7, <1>8, <1>9 DEF n

LEMMA ContentRead ==
    ASSUME Start = 0, Safe, HeadersTrue, NEW i \in DOMAIN headers, NEW m,
           m.csize = headers[i].csize, m.method = headers[i].method,
           m.sum = headers[i].sum,
           m.data_offset = headers[i].offset + LocalLen
    PROVE  /\ RawContent(disk, m) = Encode(headers[i].method, headers[i].sum)
           /\ Content(disk, m) = headers[i].sum
<1> DEFINE h == headers[i]
           e == Encode(h.method, h.sum)
           raw_content == [k \in 1..m.csize |->
                     IF HasRecord(disk, m.data_offset + k - 1, "data")
                     THEN disk[m.data_offset + k].symbol ELSE "torn"]
<1>1. /\ h \in CentralCells /\ h.offset \in Nat /\ EntryLen(h) \in Nat
      /\ h.sum \in Seq(Bytes) /\ h.stream \in BOOLEAN
  BY EndNat DEF Safe, TypeInv, CentralCells
<1>2. e \in Seq(Symbols) /\ Len(e) \in Nat
  BY <1>1, EncodeFacts
<1>3. m.csize = Len(e)
  BY DEF HeadersTrue, HeaderTrue
<1>4. \A k \in 1..EntryLen(h) :
         h.offset + k <= Len(disk) /\ disk[h.offset + k] = EntryImage(h)[k]
  <2>1. \A k \in 1..EntryLen(h) :
            /\ Start + h.offset + k <= Len(disk)
            /\ disk[Start + h.offset + k] = EntryImage(h)[k]
    BY DEF Safe, CommittedIntact
  <2>2. Start + h.offset = h.offset
    BY <1>1
  <2> QED
    BY <2>1, <2>2
<1>5. ASSUME NEW k \in 1..Len(e)
      PROVE  /\ HasRecord(disk, m.data_offset + k - 1, "data")
             /\ disk[m.data_offset + k].symbol = e[k]
  <2>1. LocalLen + k \in 1..EntryLen(h)
    BY <1>1, <1>2, <1>5 DEF EntryLen, LocalLen
  <2>2. EntryImage(h)[LocalLen + k] = DataCell(e[k])
    BY <1>1, <1>5, ImageCells
  <2>3. /\ h.offset + (LocalLen + k) = m.data_offset + k
        /\ (m.data_offset + k - 1) + 1 = m.data_offset + k
        /\ m.data_offset + k \in Nat /\ m.data_offset + k >= 1
    <3>1. h.offset \in Nat /\ k \in Nat
      BY <1>1, <1>2, <1>5
    <3>2. m.data_offset = h.offset + 2
      BY DEF LocalLen
    <3> DEFINE o == h.offset
    <3>3. o \in Nat /\ m.data_offset = o + 2
      BY <3>1, <3>2
    <3> HIDE DEF o
    <3>4. /\ o + (2 + k) = (o + 2) + k /\ ((o + 2) + k - 1) + 1 = (o + 2) + k
          /\ (o + 2) + k \in Nat /\ (o + 2) + k >= 1
      BY <3>1, <3>3, <1>2, <1>5
    <3> QED
      BY <3>3, <3>4 DEF LocalLen, o
  <2>4. disk[m.data_offset + k] = DataCell(e[k])
    BY <1>4, <2>1, <2>2, <2>3
  <2>5. m.data_offset + k \in DOMAIN disk
    <3>1. disk \in Seq(Cells) /\ m.data_offset + k <= Len(disk)
      BY <1>4, <2>1, <2>3 DEF Safe, TypeInv, TypeOK
    <3> QED
      BY <2>3, <3>1
  <2> QED
    BY <2>3, <2>4, <2>5 DEF HasRecord, DataCell
<1>6. raw_content = e
  <2>1. e = [k \in 1..Len(e) |-> e[k]]
    BY <1>2
  <2> HIDE DEF e
  <2> QED
    BY <1>3, <1>5, <2>1
<1>7. RawContent(disk, m) = e
  BY <1>6 DEF RawContent
<1>8. Content(disk, m) = Decode(h.method, e)
  BY <1>7 DEF Content
<1> QED
  BY <1>1, <1>7, <1>8, DecodeEncode

(***************************************************************************)
(* The theorems.                                                           *)
(***************************************************************************)
\* After finish has returned Ok on a file without a stale tail the reader
\* accepts the file and lists the entries whose calls returned Ok: what
\* ArchiveReader::new checks is what ArchiveWriter guarantees, after any
\* failures and recoveries, for every number and size of entries.
THEOREM FinishedIsListed == Start = 0 => (Spec => []FinishedListed)
<1> SUFFICES ASSUME Start = 0 PROVE Spec => []FinishedListed
  OBVIOUS
<1>1. Spec => []Kept
  BY KeptAlways
<1>2. Kept => FinishedListed
  <2> SUFFICES ASSUME Kept, phase = "finished", Truncated
               PROVE  FinishedListed
    BY DEF FinishedListed
  <2>1. headers \in Seq(CentralCells)
    BY DEF Kept, Safe, TypeInv, TypeOK
  <2>2. /\ Len(headers) \in Nat /\ DOMAIN headers = 1..Len(headers)
        /\ DOMAIN Listed = 1..Len(headers)
        /\ \A i \in 1..Len(headers) :
              /\ Listed[i].name = headers[i].name
              /\ Listed[i].type = headers[i].type
    BY <2>1, ArchiveAccepted DEF Listed
  <2>3. Len(Listed) = Len(headers)
    <3>1. Listed = [i \in 1..Len(headers) |-> Listed[i]]
      BY ArchiveAccepted DEF Listed
    <3> QED
      BY <2>2, <3>1
  <2> QED
    BY <2>2, <2>3, ArchiveAccepted DEF FinishedListed
<1> QED
  BY <1>1, <1>2, PTL

\* ... and what read and read_stored then return of each entry is the
\* content that the caller gave, its length and CRC checked.
THEOREM FinishedIsReadBack == Start = 0 => (Spec => []FinishedReadsBack)
<1> SUFFICES ASSUME Start = 0 PROVE Spec => []FinishedReadsBack
  OBVIOUS
<1>1. Spec => []Kept
  BY KeptAlways
<1>2. Kept => FinishedReadsBack
  <2> SUFFICES ASSUME Kept, phase = "finished", Truncated,
                      NEW i \in DOMAIN headers
               PROVE  /\ ContentChecked(disk, Listed[i])
                      /\ Content(disk, Listed[i]) = headers[i].sum
                      /\ ReadStored(disk, Listed[i]) =
                           IF headers[i].method = "Store"
                           THEN {headers[i].sum} ELSE {}
    BY DEF FinishedReadsBack
  <2> DEFINE m == Listed[i]
  <2>1. /\ m.csize = headers[i].csize /\ m.method = headers[i].method
        /\ m.sum = headers[i].sum
        /\ m.data_offset = headers[i].offset + LocalLen
    <3>1. headers \in Seq(CentralCells)
      BY DEF Kept, Safe, TypeInv, TypeOK
    <3>2. i \in 1..Len(headers)
      BY <3>1
    <3> QED
      BY <3>2, ArchiveAccepted DEF Listed
  <2> HIDE DEF m
  <2>2. /\ RawContent(disk, m) = Encode(headers[i].method, headers[i].sum)
        /\ Content(disk, m) = headers[i].sum
    BY <2>1, ContentRead DEF Kept
  <2>3. ContentChecked(disk, m)
    BY <2>1, <2>2 DEF ContentChecked
  <2>4. ReadStored(disk, m) =
           IF headers[i].method = "Store" THEN {headers[i].sum} ELSE {}
    BY <2>1, <2>2 DEF ReadStored, Encode
  <2> QED
    BY <2>2, <2>3, <2>4 DEF m
<1> QED
  BY <1>1, <1>2, PTL

\* Only finish makes the file the writer's archive: wherever the writer stops
\* before, and wherever finish itself fails, the reader refuses the file, or
\* takes content that is an end record itself for the end of the archive.
THEOREM UnfinishedIsRefused == Start = 0 => (Spec => []UnfinishedRefused)
<1> SUFFICES ASSUME Start = 0 PROVE Spec => []UnfinishedRefused
  OBVIOUS
<1>1. Spec => []Kept
  BY KeptAlways
<1>2. Kept => UnfinishedRefused
  <2> SUFFICES ASSUME Kept, phase # "finished", Accepts(Seen)
               PROVE  disk[EocdOffset(Seen) + 1].kind = "data"
    BY DEF UnfinishedRefused, EndInContent
  <2>1. EocdOffset(Seen) \in EocdOffsets(Seen)
    BY EndTaken DEF Accepts, EndsWithEocd
  <2> QED
    BY <2>1, EndsAtCursor
<1> QED
  BY <1>1, <1>2, PTL

\* When recover was used and the file was not truncated, what is left of a
\* failed entry behind the end record makes the reader refuse the archive,
\* unless it is content that is an end record itself.
THEOREM StaleTailIsRefused == Start = 0 => (Spec => []StaleTailRefused)
<1> SUFFICES ASSUME Start = 0 PROVE Spec => []StaleTailRefused
  OBVIOUS
<1>1. Spec => []Kept
  BY KeptAlways
<1>2. Kept => StaleTailRefused
  <2> DEFINE end == EocdOffset(Seen)
  <2> SUFFICES ASSUME Kept, phase = "finished", ~Truncated, EndsWithEocd(Seen)
               PROVE  disk[end + 1].kind = "data" /\ end >= cursor
    BY DEF StaleTailRefused, EndInContent, Accepts
  <2>1. /\ cursor \in Nat /\ cursor >= 1 /\ cursor <= Len(disk)
        /\ Len(disk) \in Nat /\ cursor \in DOMAIN disk
        /\ Seen[cursor].commentLen = 0 /\ Seen[cursor].kind = "eocd"
        /\ EocdOffsets(Seen) \subseteq 0..(Len(disk) - 1)
        /\ Len(Seen) = Len(disk) /\ DOMAIN Seen = DOMAIN disk
    BY EndsAtCursor, SeenFacts DEF EocdCell, Kept, Safe, TypeInv, TypeOK
  <2>2. /\ end \in EocdOffsets(Seen)
        /\ \A at \in EocdOffsets(Seen) : at <= end
    BY EndTaken DEF EndsWithEocd
  <2>3. end \in Nat /\ Len(disk) - (end + 1) <= MaxComment
    BY <2>1, <2>2 DEF EocdOffsets
  <2>4. end # cursor - 1
    <3> SUFFICES ASSUME end = cursor - 1 PROVE FALSE
      OBVIOUS
    <3>1. end + 1 = cursor
      BY <2>1
    <3>2. Len(disk) - cursor = 0
      BY <2>1, <3>1 DEF EndsWithEocd
    <3> QED
      BY <2>1, <3>2 DEF Truncated
  <2>5. disk[end + 1].kind = "data"
    BY <2>2, <2>4, EndsAtCursor
  <2> HIDE DEF end
  <2>6. ~(end < cursor - 1)
    <3> SUFFICES ASSUME end < cursor - 1 PROVE FALSE
      OBVIOUS
    <3>1. /\ cursor - 1 \in 0..(Len(Seen) - 1) /\ (cursor - 1) + 1 = cursor
          /\ Len(Seen) - ((cursor - 1) + 1) <= MaxComment
      BY <2>1, <2>3, ReaderAssumption DEF ReaderAssumption
    <3>2. cursor - 1 \in EocdOffsets(Seen)
      BY <2>1, <3>1 DEF EocdOffsets, HasRecord
    <3> QED
      BY <2>1, <2>2, <2>3, <3>2
  <2> QED
    BY <2>1, <2>3, <2>4, <2>5, <2>6
<1> QED
  BY <1>1, <1>2, PTL
=============================================================================
