------------------------------ MODULE MCContents ------------------------------
(***************************************************************************)
(* The bytes of an entry on both ways: a content that is read through the  *)
(* checkers, or buffers that are written.  The two share no state, and a   *)
(* behaviour is about one of them; the other stays as it starts.           *)
(***************************************************************************)
EXTENDS MCContentChecker, MCVectoredWrite

VARIABLE part

MCInit ==
    \/ /\ part = "read"
       /\ Init
       /\ all = << >> /\ WriteInit
    \/ /\ part = "write"
       /\ WriteInit
       /\ content = << >> /\ meta = [length |-> 0, crc |-> << >>] /\ Init

MCNext ==
    \/ part = "read" /\ Next /\ UNCHANGED << writeVars, part >>
    \/ part = "write" /\ WriteNext /\ UNCHANGED << vars, part >>

MCSpec == MCInit /\ [][MCNext]_<< vars, writeVars, part >>
===============================================================================
