------------------------------ MODULE MCOpening ------------------------------
(***************************************************************************)
(* Two parts of opening an archive that share no state, and of which a     *)
(* behaviour is about one: the search for the directory, and the rules for *)
(* names and links.  The other part stays as it starts.                    *)
(***************************************************************************)
EXTENDS MCEndRecords, MCPathRules

VARIABLE part

MCInit ==
    \/ /\ part = "directory"
       /\ Init
       /\ name = << "" >> /\ PathInit
    \/ /\ part = "path"
       /\ PathInit
       /\ build = "debug" /\ file = << >> /\ Init

\* The records are read in the files that have room for them.
MCNext ==
    \/ /\ part = "directory"
       /\ status = "eocd" => file \in MCRecordFiles
       /\ Next
       /\ UNCHANGED << pathVars, part >>
    \/ /\ part = "path"
       /\ PathNext
       /\ UNCHANGED << vars, part >>

MCSpec == MCInit /\ [][MCNext]_<< vars, pathVars, part >>
===============================================================================
