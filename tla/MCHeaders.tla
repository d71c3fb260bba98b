------------------------------ MODULE MCHeaders ------------------------------
(***************************************************************************)
(* Three parts of reading entries that share no state, and of which a      *)
(* behaviour is about one: two headers of one entry, of this writer or of  *)
(* any other; the names of several entries; and the bytes of extra fields. *)
(* The other parts stay as they start.                                     *)
(***************************************************************************)
EXTENDS MCEntryHeaders, MCWriterHeaders, MCEntryNames, MCFieldParser

VARIABLE part

headersVars == << vars, written >>

IdleHeaders ==
    /\ headers = [s \in Sides |-> Plain]
    /\ descriptor \in NoStream
    /\ side = "central" /\ next = 1 /\ status = "header"
    /\ metas = [s \in Sides |-> {}]
    /\ written = {}

IdleFields ==
    /\ given = << >> /\ data = << >> /\ rest = << >> /\ fields = << >>
    /\ outcome = "fields"

\* Headers of another writer, or of this one.
MCInit ==
    /\ NamesInit
    /\ \/ /\ part = "headers"
          /\ (Init /\ written = {}) \/ InitW
          /\ IdleFields
       \/ part = "names" /\ IdleHeaders /\ IdleFields
       \/ part = "fields" /\ IdleHeaders /\ FieldsInit

MCNext ==
    \/ /\ part = "headers"
       /\ NextW
       /\ UNCHANGED << namesVars, fieldVars, part >>
    \/ /\ part = "names"
       /\ NamesNext
       /\ UNCHANGED << headersVars, fieldVars, part >>
    \/ /\ part = "fields"
       /\ FieldsNext
       /\ UNCHANGED << headersVars, namesVars, part >>

MCSpec == MCInit /\ [][MCNext]_<< headersVars, namesVars, fieldVars, part >>
===============================================================================
