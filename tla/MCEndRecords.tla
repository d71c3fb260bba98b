----------------------------- MODULE MCEndRecords -----------------------------
(***************************************************************************)
(* Search: every short file.  Records: one file, with records that agree   *)
(* and records that differ in one or more places.                          *)
(***************************************************************************)
EXTENDS EndRecords, SequencesExt

MCBytes == {0, 1, 2, Sig}

MCBuilds == {"debug", "release"}

\* The records are read in these files only; in the others the search is all.
\* An end record at 8, after a locator at 7; a 64-bit record fits at 4.  A
\* file without room for a locator, and one that is cut off.
MCRecordFiles ==
    { << 0, 0, 0, 0, 0, 0, 0, 0, Sig, 0 >>, << Sig, 0 >>, << 0, Sig >> }
MCFiles == MCRecordFiles \cup BoundedSeq(MCBytes, 7)

MCEocds ==
    [multi: {FALSE}, here: {0, 2, Top16}, total: {0, 1, 2, Top16},
     size: 0..8, offset: {0, 4, 7, Top32}]
    \cup [multi: {TRUE}, here: {0}, total: {0}, size: {8}, offset: {0}]

MCLocators ==
    [valid: {TRUE}, multi: BOOLEAN, offset64: 0..8]
    \cup [valid: {FALSE}, multi: {FALSE}, offset64: {4}]

MCEocd64s ==
    [multi: {FALSE}, record_size: {0, 1, 2, 3, 5, Top64 - 1, Top64},
     here: {0, 1, 8}, total: {0, 1, 8}, size: {0, 2, 4, 6}, offset: 0..4]
    \cup [multi: {TRUE}, record_size: {1}, here: {0}, total: {0},
          size: {4}, offset: {0}]
===============================================================================
