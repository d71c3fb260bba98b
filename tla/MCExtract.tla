------------------------------ MODULE MCExtract ------------------------------
(***************************************************************************)
(* An entry d, or a parent d that the entries d/f and d/g imply.            *)
(***************************************************************************)
EXTENDS Extract, TLC

CONSTANTS w1, w2

MCPaths == { << "d" >>, << "d", "f" >>, << "d", "g" >> }
MCWorkers == {w1, w2}
MCMethods == {"extract", "parallel_extract"}
MCParallel == {"parallel_extract"}
MCSymmetry == Permutations(MCWorkers)

\* Only archives that can be extracted have as many entries as MaxEntries.
MCInit == Init /\ (Consistent \/ Len(entries) < MaxEntries)
MCFairSpec == MCInit /\ [][Next]_vars /\ Fairness
=============================================================================
