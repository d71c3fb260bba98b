---------------------------- MODULE ArchiveWriter ----------------------------
(***************************************************************************)
(* ArchiveWriter (src/write/mod.rs) over RawArchiveWriter and              *)
(* RawFileStreamer (src/write/raw.rs), writing to a seekable file.         *)
(*                                                                         *)
(* Every method takes &mut self, so a call is one action, and the action   *)
(* chooses where the call stops: each write may fail after any prefix of   *)
(* its cells, a vector may fail to grow, the comment may be too long, the  *)
(* caller may drop a streamer.  A prefix of a call that fails at cell k is *)
(* also what a crash at that point would leave in the file.  A call that   *)
(* is refused before it changes anything is a stuttering step.             *)
(***************************************************************************)
EXTENDS ZipFormat, FiniteSets

CONSTANTS
    BadBases,    \* names utils::validate_name refuses, or too long for u16
    Start,       \* where the writer handed to ArchiveWriter::new stands
    Capacity,    \* size of the device the file is on: a write past it fails
    MaxContent   \* bound of the model on the length of a file's content

ASSUME WriterAssumption ==
    /\ Start \in Nat
    /\ Capacity \in Nat
    /\ MaxContent \in Nat
    /\ EndMark \notin Bytes

VARIABLES
    disk,        \* the cells of the file
    cursor,      \* the file's position, moved by write and seek
    state,       \* RawArchiveWriter.state
    position,    \* RawArchiveWriter.position
    entries,     \* RawArchiveWriter.entries: the stripped names
    headers,     \* RawArchiveWriter.central_headers
    streamer,    \* the FileStreamer that borrows the archive, if any
    phase        \* whether the ArchiveWriter still exists

file == << disk, cursor >>
raw  == << state, position, entries, headers >>
vars == << disk, cursor, state, position, entries, headers, streamer, phase >>

(***************************************************************************)
(* State::Default and State::Writing(pos).                                 *)
(***************************************************************************)
Default == [writing |-> FALSE, at |-> 0]
Writing(pos) == [writing |-> TRUE, at |-> pos]

NoStreamer == [live |-> FALSE]
Streamers ==
    [live: {TRUE}, name: Names, method: Supported, offset: Nat,
     started: Nat, amt: Nat, given: Seq(Bytes)]

Phases == {"open", "finished", "failed"}

\* The API is usable: the archive exists and no streamer borrows it.
Idle == phase = "open" /\ ~streamer.live

Contents == UNION { [1..n -> Bytes] : n \in 0..MaxContent }

TypeOK ==
    /\ disk \in Seq(Cells)
    /\ cursor \in Nat
    /\ state \in [writing: BOOLEAN, at: Nat]
    /\ position \in Nat
    /\ entries \subseteq Bases
    /\ headers \in Seq(CentralCells)
    /\ streamer \in Streamers \cup {NoStreamer}
    /\ phase \in Phases

Init ==
    /\ disk = [i \in 1..Start |-> Foreign]
    /\ cursor = Start
    /\ state = Default
    /\ position = 0
    /\ entries = {}
    /\ headers = << >>
    /\ streamer = NoStreamer
    /\ phase = "open"

(***************************************************************************)
(* Helpers of src/write/raw.rs.                                            *)
(***************************************************************************)
\* write_all / write_all_many of image w, stopped after k of its cells.
Put(w, k) ==
    /\ k <= Len(w)
    /\ cursor + k <= Capacity
    /\ disk' = WriteAt(disk, cursor, w, k)
    /\ cursor' = cursor + k

\* Mutant of CheckName: the name table is not consulted.
CheckNameNotTable(name, type) ==
    name.base \notin BadBases /\ name.slash = (type = "Directory")

\* check_name: valid, a trailing '/' exactly for a directory, not yet used.
CheckName(name, type) ==
    /\ name.base \notin BadBases
    /\ name.slash = (type = "Directory")
    /\ name.base \notin entries

\* Mutant of StartWriting: the state is not looked at.
StartAnyway == TRUE

\* start_writing refuses when the last operation did not complete.
StartWriting == ~state.writing

\* Mutant of PushCentralHeader: the name keeps its trailing '/'.
PushWithSlash(h) ==
    headers' = Append(headers, h) /\ entries' = entries \cup {h.name}

\* push_central_header: both reservations come first, then the header and
\* the name are appended together.
PushCentralHeader(h) ==
    /\ headers' = Append(headers, h)
    /\ entries' = entries \cup {h.name.base}

(***************************************************************************)
(* write_file_raw, as add_file, add_directory and add_symlink call it.     *)
(***************************************************************************)
WriteFileRaw(name, type, method, plain) ==
    LET h == CentralCell(name, type, method, FALSE,
                         Len(Encode(method, plain)), plain, position)
        w == EntryImage(h)
    IN  /\ Idle
        /\ CheckName(name, type)
        /\ StartWriting
        /\ \E k \in 0..Len(w) :
             /\ Put(w, k)
             /\ \/ \* a write fails, or push_central_header has no memory
                   /\ state' = Writing(position)
                   /\ UNCHANGED << position, entries, headers >>
                \/ /\ k = Len(w)
                   /\ PushCentralHeader(h)
                   /\ position' = position + k
                   /\ state' = Default
        /\ UNCHANGED << streamer, phase >>

\* add_file compresses first, so an unsupported method changes nothing.
AddFile ==
    \E name \in Names, method \in Supported, plain \in Contents :
        WriteFileRaw(name, "File", method, plain)

AddDirectory ==
    \E name \in Names : WriteFileRaw(name, "Directory", "Store", << >>)

AddSymlink ==
    \E name \in Names, target \in Contents :
        WriteFileRaw(name, "Symlink", "Store", target)

(***************************************************************************)
(* stream_file: start_stream_raw writes the local header, and only then is *)
(* the compressor made, which may refuse the method.                       *)
(***************************************************************************)
StreamFile(name, method) ==
    LET w == LocalHeader(name, method, TRUE, 0, << >>)
    IN  /\ Idle
        /\ CheckName(name, "File")
        /\ StartWriting
        /\ \E k \in 0..Len(w) :
             /\ Put(w, k)
             /\ IF k = Len(w) /\ method \in Supported
                THEN streamer' =
                        [live |-> TRUE, name |-> name, method |-> method,
                         offset |-> position, started |-> k, amt |-> k,
                         given |-> << >>]
                ELSE streamer' = NoStreamer
        /\ state' = Writing(position)
        /\ UNCHANGED << position, entries, headers, phase >>

(***************************************************************************)
(* FileStreamer over Counter, Crc32Writer and Compressor.  `given' is what *)
(* Counter and Crc32Writer have counted and hashed: the bytes that write   *)
(* accepted.  `amt - started' of its encoded symbols have reached the      *)
(* file; the compressor still holds the others.                            *)
(***************************************************************************)
\* Mutant of Sent: the local header is counted as content.
SentWithHeader(s) == s.amt

Sent(s) == s.amt - s.started

\* The symbols of s's content, as far as it is encoded, not yet sent.
Unsent(s, encoded) == Data(SubSeq(encoded, Sent(s) + 1, Len(encoded)))

\* Some more symbols of `given' reach the file; Counter counts them.
Forward(given) ==
    /\ \E k \in 0..Len(Unsent(streamer, given)) :
         /\ Put(Unsent(streamer, given), k)
         /\ streamer' = [streamer EXCEPT !.given = given, !.amt = @ + k]
    /\ UNCHANGED << raw, phase >>

\* Mutant of StreamFlush: what a failed write has sent is not counted.
StreamFlushUncounted ==
    /\ streamer.live
    /\ \E k \in 0..Len(Unsent(streamer, streamer.given)) :
         Put(Unsent(streamer, streamer.given), k)
    /\ UNCHANGED << raw, streamer, phase >>

\* flush, or a write that is not accepted because a write below the
\* compressor failed: the compressor gets rid of some of what it holds.
StreamFlush == streamer.live /\ Forward(streamer.given)

\* write(b) accepted: the compressor forwards what it chooses to.  STORE
\* has no buffer.
StreamWrite(b) ==
    /\ streamer.live
    /\ Len(streamer.given) < MaxContent
    /\ Forward(Append(streamer.given, b))
    /\ streamer.method = "Store" => Sent(streamer') = Len(streamer'.given)

\* finish_with_comment: the compressor's remainder, then the descriptor;
\* `position' moves before push_central_header can fail.
StreamFinish ==
    LET s == streamer
        rest == Unsent(s, Encode(s.method, s.given))
        csize == Sent(s) + Len(rest)
        h == CentralCell(s.name, "File", s.method, TRUE, csize, s.given,
                         s.offset)
        w == Append(rest, DescriptorCell(csize, s.given))
    IN  /\ s.live
        /\ \E k \in 0..Len(w) :
             /\ Put(w, k)
             /\ \/ /\ k < Len(w)
                   /\ UNCHANGED raw
                \/ \* the comment is too long, or no memory
                   /\ k = Len(w)
                   /\ position' = position + s.amt + k
                   /\ UNCHANGED << state, entries, headers >>
                \/ /\ k = Len(w)
                   /\ position' = position + s.amt + k
                   /\ PushCentralHeader(h)
                   /\ state' = Default
        /\ streamer' = NoStreamer
        /\ UNCHANGED phase

\* The streamer goes out of scope without finish.  A compressor that has a
\* buffer may write it out when it is dropped; an error is lost.
StreamDrop ==
    LET s == streamer
        rest == Unsent(s, Encode(s.method, s.given))
    IN  /\ s.live
        /\ \E k \in 0..Len(rest) :
             /\ s.method = "Store" => k = 0
             /\ Put(rest, k)
        /\ streamer' = NoStreamer
        /\ UNCHANGED << raw, phase >>

(***************************************************************************)
(* recover, finish, and what the caller does with the file itself.         *)
(***************************************************************************)
\* Mutants of Recover: without the seek, and without the assignment to
\* `position'.
RecoverWithoutSeek ==
    /\ Idle
    /\ state.writing
    /\ position' = state.at
    /\ state' = Default
    /\ UNCHANGED << file, entries, headers, streamer, phase >>

RecoverSeekOnly ==
    /\ Idle
    /\ state.writing
    /\ cursor' = state.at
    /\ state' = Default
    /\ UNCHANGED << disk, position, entries, headers, streamer, phase >>

\* seek(SeekFrom::Start(pos)) succeeded; the file is not truncated.
Recover ==
    /\ Idle
    /\ state.writing
    /\ cursor' = state.at
    /\ position' = state.at
    /\ state' = Default
    /\ UNCHANGED << disk, entries, headers, streamer, phase >>

\* Mutant of Trailer: the directory is said to start where it ends.
TrailerAfterHeaders ==
    headers \o << Eocd64Cell(Cardinality(entries), Len(headers),
                             position + Len(headers)),
                  LocatorCell(position + Len(headers)),
                  EocdCell(TRUE, 0, 0, 0, 0) >>

\* The number of entries is the length of the name table.
Trailer ==
    headers \o << Eocd64Cell(Cardinality(entries), Len(headers), position),
                  LocatorCell(position + Len(headers)),
                  EocdCell(TRUE, 0, 0, 0, 0) >>

\* Mutants of Finish: a blocked archive is finished too; an error after
\* the last write.
FinishAnyway ==
    /\ Idle
    /\ state' = Writing(position)
    /\ Put(Trailer, Len(Trailer))
    /\ phase' = "finished"
    /\ UNCHANGED << position, entries, headers, streamer >>

FinishFailsLate ==
    /\ Idle
    /\ StartWriting
    /\ state' = Writing(position)
    /\ Put(Trailer, Len(Trailer))
    /\ phase' \in {"finished", "failed"}
    /\ UNCHANGED << position, entries, headers, streamer >>

\* finish consumes the archive, whatever happens.
Finish ==
    /\ Idle
    /\ \/ /\ ~StartWriting
          /\ phase' = "failed"
          /\ UNCHANGED << file, raw >>
       \/ /\ StartWriting
          /\ state' = Writing(position)
          /\ \E k \in 0..Len(Trailer) :
               /\ Put(Trailer, k)
               /\ phase' = IF k = Len(Trailer) THEN "finished" ELSE "failed"
          /\ UNCHANGED << position, entries, headers >>
    /\ UNCHANGED streamer

\* The truncation that the documentation of recover asks the caller for:
\* set_len at the position of the file, through get_mut or after finish.
Truncate ==
    /\ ~streamer.live
    /\ phase # "failed"
    /\ Len(disk) > cursor
    /\ disk' = SubSeq(disk, 1, cursor)
    /\ UNCHANGED << cursor, raw, streamer, phase >>

Next ==
    \/ AddFile
    \/ AddDirectory
    \/ AddSymlink
    \/ \E name \in Names, method \in Methods : StreamFile(name, method)
    \/ \E b \in Bytes : StreamWrite(b)
    \/ StreamFlush
    \/ StreamFinish
    \/ StreamDrop
    \/ Recover
    \/ Finish
    \/ Truncate

Spec == Init /\ [][Next]_vars

-----------------------------------------------------------------------------
(***************************************************************************)
(* Properties.                                                             *)
(***************************************************************************)
\* The end of the last committed entry, as an offset in the archive.
CommittedEnd ==
    IF headers = << >> THEN 0
    ELSE headers[Len(headers)].offset + EntryLen(headers[Len(headers)])

\* Every entry whose call returned Ok is in the file, complete, at the
\* offset its central header states: local header, encoded content and
\* descriptor agree with it, whatever failed or was recovered since.
CommittedIntact ==
    \A i \in DOMAIN headers :
        \A k \in 1..EntryLen(headers[i]) :
            /\ Start + headers[i].offset + k <= Len(disk)
            /\ disk[Start + headers[i].offset + k] = EntryImage(headers[i])[k]

\* Committed entries follow each other without a gap from offset 0, as the
\* reader demands (src/read/raw.rs, read_central_directory).
Contiguous ==
    \A i \in DOMAIN headers :
        headers[i].offset =
            IF i = 1 THEN 0
            ELSE headers[i - 1].offset + EntryLen(headers[i - 1])

\* An archive that accepts entries stands right after the last committed
\* one, in the file and in `position'; one that is blocked would resume
\* there.  (After a late failure of a stream's finish, `position' itself is
\* past it.)
ResumePoint ==
    phase = "open" =>
        IF state.writing THEN state.at = CommittedEnd
        ELSE position = CommittedEnd /\ cursor = Start + position

\* The name table holds the names of the committed entries, each once: the
\* name of a failed entry can be used again, and the number of entries that
\* finish writes, the table's length, is the number of central headers.
NamesExact ==
    /\ entries = { headers[i].name.base : i \in DOMAIN headers }
    /\ \A i, j \in DOMAIN headers :
            headers[i].name.base = headers[j].name.base => i = j

\* What a live stream has put into the file is its local header and a
\* prefix of the encoding of the bytes that its writes accepted, also after
\* writes that failed and were tried again.
StreamFaithful ==
    streamer.live =>
        LET image == LocalHeader(streamer.name, streamer.method, TRUE, 0, << >>)
                        \o Data(Encode(streamer.method, streamer.given))
        IN  /\ state = Writing(position)
            /\ cursor = Start + position + streamer.amt
            /\ streamer.amt <= Len(image)
            /\ \A k \in 1..streamer.amt : disk[Start + position + k] = image[k]

\* What the file held before the archive stays, since recover only erases
\* the last entry.
PrefixIntact == \A p \in 1..Start : p <= Len(disk) /\ disk[p] = Foreign

\* From the failure of a call, or the loss of a streamer, until recover: no
\* entry is committed and finish does not succeed.
BlockedUntilRecovered ==
    [][Idle /\ state.writing =>
          headers' = headers /\ phase' # "finished"]_vars

(***************************************************************************)
(* The refinement of ArchiveLog: an entry of the log is read back from the *)
(* file, at the place its central header gives.                            *)
(***************************************************************************)
SymbolAt(p) ==
    IF p <= Len(disk) /\ disk[p].kind = "data" THEN disk[p].symbol ELSE "torn"

StoredContent(h) ==
    LET at == Start + h.offset + LocalLen
    IN  Decode(h.method, [k \in 1..h.csize |-> SymbolAt(at + k)])

Committed ==
    [i \in DOMAIN headers |->
        [name |-> headers[i].name, type |-> headers[i].type,
         content |-> StoredContent(headers[i])]]

Mode ==
    CASE phase # "open" -> phase
      [] phase = "open" /\ streamer.live -> "streaming"
      [] phase = "open" /\ ~streamer.live /\ state.writing -> "blocked"
      [] phase = "open" /\ ~streamer.live /\ ~state.writing -> "ready"

Log == INSTANCE ArchiveLog WITH log <- Committed, mode <- Mode

\* The archive in the file is an append-only log of the entries whose calls
\* returned Ok, and its methods fail, block and recover as ArchiveLog says.
ImplementsLog == Log!Spec
=============================================================================
