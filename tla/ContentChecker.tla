---------------------------- MODULE ContentChecker ----------------------------
(***************************************************************************)
(* Metadata::content_checker (src/read/mod.rs): a Crc32Checker             *)
(* (src/utils/crc32.rs) over a LengthChecker (src/utils/mod.rs) over the   *)
(* reader of an entry's content, driven by a caller that mixes read,       *)
(* read_to_end and read_to_string and goes on after errors.                *)
(*                                                                         *)
(* A call is one action.  The reader below may return fewer bytes than it  *)
(* is asked for, and may fail at any point.  The CRC is the sequence of    *)
(* bytes that was hashed, taken to be free of collisions.                  *)
(***************************************************************************)
EXTENDS Integers, Sequences

CONSTANTS
    Bytes,
    MinBuffer, MaxBuffer,  \* the sizes of the buffers the caller reads into
    MaxLength,             \* bound of the model on contents and on metadata
    MaxHashed              \* bound of the model on what is hashed: a caller who
                           \* repeats a failed read_to_end hashes zeros for ever

ASSUME CheckerAssumption ==
    /\ MinBuffer \in Nat /\ MaxBuffer \in Nat
    /\ MaxLength \in Nat /\ MaxHashed \in Nat

VARIABLES
    content,     \* what the reader below yields in all
    meta,        \* Metadata.uncompressed_size and Metadata.crc32
    pos,         \* how much of `content' has been read
    expected,    \* LengthChecker.expected
    hashed,      \* Crc32Checker.hasher
    given,       \* the bytes of the calls that returned Ok
    held,        \* what all calls, failed ones too, left in their buffers
    last,        \* the outcome of the last call
    lost         \* bytes of `content' were read and are in no buffer

vars == << content, meta, pos, expected, hashed, given, held, last, lost >>

Zero == "zero"       \* the byte that read_to_end fills its buffer with

Contents == UNION { [1..n -> Bytes] : n \in 0..MaxLength }

\* "io" is an error from below (or not a string, or no memory), the last two
\* are errors of the checkers' own.
Outcomes == {"data", "eof", "io", "badLength", "badCrc"}

Rest == SubSeq(content, pos + 1, Len(content))

TypeOK ==
    /\ content \in Seq(Bytes)
    /\ meta \in [length: Nat, crc: Seq(Bytes)]
    /\ pos \in 0..Len(content)
    /\ expected \in 0..meta.length
    /\ hashed \in Seq(Bytes \cup {Zero})
    /\ given \in Seq(Bytes)
    /\ held \in Seq(Bytes \cup {Zero})
    /\ last \in Outcomes
    /\ lost \in BOOLEAN

Init ==
    /\ content \in Contents
    /\ meta \in [length: 0..MaxLength, crc: Contents]
    /\ pos = 0
    /\ expected = meta.length
    /\ hashed = << >>
    /\ given = << >>
    /\ held = << >>
    /\ last = "data"
    /\ lost = FALSE

-----------------------------------------------------------------------------
\* The call returns the bytes `out' and the outcome `how'.
Return(out, how) ==
    /\ given' = given \o out
    /\ held' = held \o out
    /\ last' = how
    /\ UNCHANGED << content, meta, lost >>

\* The call returns an error, with `out' in its buffer; `missed' when it has
\* read bytes that are not in there.
Fail(out, missed, how) ==
    /\ held' = held \o out
    /\ last' = how
    /\ lost' = (lost \/ missed)
    /\ UNCHANGED << content, meta, given >>

\* The next k bytes.
Chunk(k) == SubSeq(content, pos + 1, pos + k)

\* What a read of the reader below may return for a buffer of that size:
\* zero bytes only at the end or for an empty buffer.
Below(size) ==
    { n \in 0..size : n <= Len(Rest) /\ (n = 0 <=> size = 0 \/ Rest = << >>) }

\* Mutants of BadLength: too many bytes pass; the last do not.
TooLongPasses(n) == n = 0 /\ expected # 0
LastBytesFail(n) == n >= expected \/ n = 0

\* LengthChecker::read of n bytes is an error.
BadLength(n) == n > expected \/ (n = 0 /\ expected # 0)

(***************************************************************************)
(* Crc32Checker::read.                                                     *)
(***************************************************************************)
\* An error from below, or no memory for a read_to_end or read_to_string,
\* changes nothing: the call may be repeated.
FailsUntouched == Return(<< >>, "io") /\ UNCHANGED << pos, expected, hashed >>

ReadBytes(size) ==
    \E n \in Below(size) :
        /\ pos' = pos + n
        /\ \/ /\ BadLength(n)
              /\ Fail(<< >>, n > 0, "badLength")
              /\ UNCHANGED << expected, hashed >>
           \/ /\ ~BadLength(n)
              /\ n = 0 /\ hashed # meta.crc
              /\ Fail(<< >>, FALSE, "badCrc")
              /\ UNCHANGED << expected, hashed >>
           \/ /\ ~BadLength(n)
              /\ n = 0 => hashed = meta.crc
              /\ expected' = expected - n
              /\ hashed' = hashed \o Chunk(n)
              /\ Return(Chunk(n), IF n = 0 /\ size > 0 THEN "eof" ELSE "data")

(***************************************************************************)
(* Crc32Checker::read_to_end: the buffer grows by `expected' zeros, which  *)
(* read_exact fills; then one more read must find the end.  What is in the *)
(* buffer stays there and is hashed even when that fails.                  *)
(***************************************************************************)
\* The buffer when the reads stop after k bytes.
Padded(k) == Chunk(k) \o [i \in 1..(expected - k) |-> Zero]

\* Mutant of ReadToEndStops: what a failed call left is not hashed.
ReadToEndStopsUnhashed(k) ==
    /\ k < expected
    /\ k <= Len(Rest)
    /\ pos' = pos + k
    /\ expected' = expected - k
    /\ hashed' = hashed
    /\ Len(held) + expected <= MaxHashed
    /\ Fail(Padded(k), FALSE, IF k = Len(Rest) THEN "badLength" ELSE "io")

ReadToEndStops(k) ==
    /\ k < expected
    /\ k <= Len(Rest)
    /\ Len(hashed) + expected <= MaxHashed
    /\ pos' = pos + k
    /\ expected' = expected - k
    /\ hashed' = hashed \o Padded(k)
    /\ \/ k = Len(Rest) /\ Fail(Padded(k), FALSE, "badLength")
       \/ Fail(Padded(k), FALSE, "io")

ReadToEndFills ==
    /\ expected <= Len(Rest)
    /\ expected' = 0
    /\ hashed' = hashed \o Chunk(expected)
    /\ \/ /\ Len(Rest) > expected
          /\ pos' = pos + expected + 1
          /\ Fail(Chunk(expected), TRUE, "badLength")
       \/ /\ pos' = pos + expected
          /\ Fail(Chunk(expected), FALSE, "io")
       \/ /\ Len(Rest) = expected
          /\ pos' = pos + expected
          /\ IF hashed' = meta.crc THEN Return(Chunk(expected), "eof")
             ELSE Fail(Chunk(expected), FALSE, "badCrc")

ReadToEnd ==
    ReadToEndFills \/ \E k \in 0..expected : ReadToEndStops(k)

(***************************************************************************)
(* Crc32Checker::read_to_string: the library's loop over                   *)
(* LengthChecker::read, which keeps what it has read when a read fails,    *)
(* but none of it when that is not a string.                               *)
(***************************************************************************)
\* The loop has read k bytes, and its next read gives n.
StringStops(k, n) ==
    /\ k <= expected /\ k + n <= Len(Rest)
    /\ pos' = pos + k + n
    /\ expected' = expected - k
    /\ \E kept \in {<< >>, Chunk(k)} :
        /\ hashed' = hashed \o kept
        /\ \/ k + n > expected /\ Fail(kept, TRUE, "badLength")
           \/ /\ n = 0 /\ k = Len(Rest) /\ k < expected
              /\ Fail(kept, kept # Chunk(k), "badLength")
           \/ n = 0 /\ Fail(kept, kept # Chunk(k), "io")

StringEnds ==
    /\ Len(Rest) = expected
    /\ pos' = Len(content)
    /\ expected' = 0
    /\ \/ hashed' = hashed /\ Fail(<< >>, Rest # << >>, "io")
       \/ /\ hashed' = hashed \o Rest
          /\ IF hashed' = meta.crc THEN Return(Rest, "eof")
             ELSE Fail(Rest, FALSE, "badCrc")

ReadToString ==
    \/ StringEnds
    \/ \E k, n \in 0..Len(Rest) : StringStops(k, n)

Next ==
    \/ FailsUntouched
    \/ \E size \in MinBuffer..MaxBuffer : ReadBytes(size)
    \/ ReadToEnd
    \/ ReadToString

Spec == Init /\ [][Next]_vars

-----------------------------------------------------------------------------
(***************************************************************************)
(* Properties.                                                             *)
(***************************************************************************)
\* Whoever is told that the content ended holds bytes with the CRC of the
\* metadata, whatever failed before and was repeated: what a failed call left
\* in its buffer, zeros included, counts.  Nothing of the announced length
\* is missing, and what has exactly that length is the content.  The latter
\* two need that no byte was lost: a read_to_string that meets no string, or
\* a read beyond the announced length, drops what it has read, and a caller
\* who goes on after that error is told the end of less than was announced.
VerifiedAtEof ==
    last = "eof" =>
        /\ held = meta.crc
        /\ ~lost => Len(held) >= meta.length
        /\ ~lost /\ Len(held) <= meta.length => held = content

\* The calls never hand out more bytes than the metadata announces, even to
\* a caller who goes on after errors.
NeverTooMuch == Len(given) <= meta.length

\* Content that matches its metadata never has the wrong length, whatever
\* fails and is repeated, and has the wrong CRC only for a caller who does
\* not hold it.  (A read_to_end that fails halfway leaves zeros in its buffer,
\* and they are hashed: the call that repeats it is refused.)
NoFalseAlarm ==
    [][ content = meta.crc /\ Len(content) = meta.length =>
            /\ last' # "badLength"
            /\ last' = "badCrc" => held' # content ]_vars
=============================================================================
