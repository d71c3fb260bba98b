---------------------------- MODULE MCVectoredWrite ----------------------------
(***************************************************************************)
(* Up to four buffers of up to two bytes each, every byte another one.     *)
(***************************************************************************)
EXTENDS VectoredWrite

\* Buffers of the lengths in `lens': the k-th has 10k + 1, 10k + 2.
Buffers(lens) == [k \in DOMAIN lens |-> [j \in 1..lens[k] |-> 10 * k + j]]

MCOctets == 11..42

MCInputs == { Buffers(lens) : lens \in BoundedSeq(0..2, 4) }
===============================================================================
