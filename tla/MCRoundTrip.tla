--------------------------- MODULE MCRoundTrip ---------------------------
(***************************************************************************)
(* Instances of RoundTrip: two usable names and a refused one with short   *)
(* contents (MCRoundTrip.cfg), one name with longer contents               *)
(* (MCStreams.cfg).  The bytes of y are those of the end record of an      *)
(* empty archive that starts where the record stands.                      *)
(***************************************************************************)
EXTENDS RoundTrip, TLC

CONSTANTS a, b, bad, x, y, EndAt

MCBases == {a, b, bad}
MCBadBases == {bad}
MCOneBase == {a}
MCNoBases == {}
MCBytes == {x, y}

MCAsRecord == (y :> EocdCell(FALSE, 0, 0, EndAt, 0))

MCSymmetry == Permutations({a, b})
=============================================================================
