--------------------------- MODULE MCArchiveWriter ---------------------------
(***************************************************************************)
(* An instance of ArchiveWriter: two usable names and a refused one with   *)
(* short contents.                                                         *)
(***************************************************************************)
EXTENDS ArchiveWriter, TLC

CONSTANTS a, b, bad, x, y

MCBases == {a, b, bad}
MCBadBases == {bad}
MCBytes == {x, y}

MCSymmetry == Permutations({a, b}) \cup Permutations({x, y})
=============================================================================
