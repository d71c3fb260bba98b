----------------------------- MODULE VectoredWrite -----------------------------
(***************************************************************************)
(* Writing several buffers with one call: _write_all_many of               *)
(* src/write/raw.rs, over a writer that may take any part of what it is    *)
(* offered.  Above the writer, a FileStreamer counts and hashes what was   *)
(* taken (Counter of src/utils/mod.rs, Crc32Writer of src/utils/crc32.rs); *)
(* its callers go on in the same way.  Buffers may be empty, as the name,  *)
(* comment or content of an entry.                                         *)
(***************************************************************************)
EXTENDS Integers, SequencesExt

CONSTANTS
    Octets,     \* the values of a byte
    Inputs      \* the buffers of a call

ASSUME InputsAssumption == Inputs \subseteq Seq(Seq(Octets))

VARIABLES
    all,         \* the buffers of the call
    bufs,        \* those that are left, the first one cut
    sent,        \* the bytes that the writer below took
    summed,      \* the bytes that Crc32Writer summed
    amt,         \* Counter::amt
    phase        \* "start", "writing", "ok", "error" or "panic"

writeVars == << all, bufs, sent, summed, amt, phase >>

Total(slices) == Len(FlattenSeq(slices))

WriteInit ==
    /\ all \in Inputs
    /\ bufs = all
    /\ sent = << >> /\ summed = << >> /\ amt = 0
    /\ phase = "start"

Smaller(a, b) == IF a < b THEN a ELSE b

(***************************************************************************)
(* IoSlice::advance_slices                                                 *)
(***************************************************************************)
\* Buffers that are taken as a whole are dropped, empty ones in front too.
Advance(slices, n) ==
    LET done == Max({ j \in 0..Len(slices) :
                        Total(SubSeq(slices, 1, j)) <= n })
        rest == SubSeq(slices, done + 1, Len(slices))
        cut == n - Total(SubSeq(slices, 1, done))
    IN  [k \in DOMAIN rest |->
            IF k = 1 THEN SubSeq(rest[1], cut + 1, Len(rest[1])) ELSE rest[k]]

(***************************************************************************)
(* The loop of Crc32Writer::write_vectored.                                *)
(***************************************************************************)
\* What is left of n after k buffers.
Left(slices, n) ==
    LET left[k \in 0..Len(slices)] ==
            IF k = 0 THEN n
            ELSE left[k - 1] - Smaller(left[k - 1], Len(slices[k]))
    IN  left

\* Mutant of SummedOf: a buffer of which something was taken is summed whole.
SummedOfWhole(slices, n) ==
    FlattenSeq([k \in DOMAIN slices |->
        IF Left(slices, n)[k - 1] = 0 THEN << >> ELSE slices[k]])

SummedOf(slices, n) ==
    FlattenSeq([k \in DOMAIN slices |->
        SubSeq(slices[k], 1, Smaller(Left(slices, n)[k - 1], Len(slices[k])))])

-------------------------------------------------------------------------------
\* Mutant of Begin: empty buffers in front are not dropped.
BeginAnyway ==
    /\ phase = "start"
    /\ phase' = IF bufs = << >> THEN "ok" ELSE "writing"
    /\ UNCHANGED << all, bufs, sent, summed, amt >>

\* advance_slices(0), and the first test of the loop.
Begin ==
    /\ phase = "start"
    /\ bufs' = Advance(bufs, 0)
    /\ phase' = IF bufs' = << >> THEN "ok" ELSE "writing"
    /\ UNCHANGED << all, sent, summed, amt >>

\* Mutant of OfferedAfter: only the first buffer is cut.
OfferedAfterFirst(n) ==
    IF n = 0 THEN bufs
    ELSE SelectSeq(<< SubSeq(bufs[1], n + 1, Len(bufs[1])) >> \o Tail(bufs),
                   LAMBDA slice : slice # << >>)

\* What is offered next, after the first n bytes were taken.
OfferedAfter(n) == IF n = 0 THEN bufs ELSE Advance(bufs, n)

\* One turn of the loop: the writer took the first n bytes.  The assertion
\* of Crc32Writer stops the program.
Taken(n) ==
    /\ phase = "writing"
    /\ sent' = sent \o SubSeq(FlattenSeq(bufs), 1, n)
    /\ summed' = summed \o SummedOf(bufs, n)
    /\ IF Left(bufs, n)[Len(bufs)] # 0
       THEN phase' = "panic" /\ UNCHANGED << bufs, amt >>
       ELSE /\ amt' = amt + n
            /\ bufs' = OfferedAfter(n)
            /\ phase' = CASE n = 0 -> "error"
                           [] n # 0 /\ bufs' = << >> -> "ok"
                           [] n # 0 /\ bufs' # << >> -> "writing"
    /\ UNCHANGED all

\* Interrupted: nothing was taken, and the loop turns again.  A step that
\* changes nothing.
Interrupted == phase = "writing" /\ UNCHANGED writeVars

\* Any other error.
Failed ==
    /\ phase = "writing"
    /\ phase' = "error"
    /\ UNCHANGED << all, bufs, sent, summed, amt >>

WriteNext ==
    \/ Begin \/ Interrupted \/ Failed
    \/ \E n \in 0..Total(bufs) : Taken(n)

WriteSpec == WriteInit /\ [][WriteNext]_writeVars

-------------------------------------------------------------------------------
(***************************************************************************)
(* What was sent and what is left are what was given, wherever the writer  *)
(* cuts the buffers; after Ok nothing is left.                             *)
(***************************************************************************)
NothingLostOrTwice ==
    /\ sent \o FlattenSeq(bufs) = FlattenSeq(all)
    /\ phase = "ok" => sent = FlattenSeq(all)

(***************************************************************************)
(* The CRC and the size that a stream's headers will state are those of    *)
(* the bytes that were taken: Crc32Writer goes through the buffers on its  *)
(* own, and has to come out where advance_slices does.                     *)
(***************************************************************************)
CountedAsSent == phase # "panic" /\ summed = sent /\ amt = Len(sent)

(***************************************************************************)
(* The writer is never offered nothing, so that Ok(0) means that it takes  *)
(* no more: empty buffers, in any places, do not fail a call.              *)
(***************************************************************************)
NeverOffersNothing == phase = "writing" => Total(bufs) > 0
===============================================================================
