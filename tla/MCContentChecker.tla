--------------------------- MODULE MCContentChecker ---------------------------
EXTENDS ContentChecker, TLC

CONSTANTS x, y

MCBytes == {x, y}
MCSymmetry == Permutations(MCBytes)
=============================================================================
