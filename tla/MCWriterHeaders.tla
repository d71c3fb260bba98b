--------------------------- MODULE MCWriterHeaders ---------------------------
(***************************************************************************)
(* Entries of every type, with sizes and offsets around the saturated      *)
(* value, and times around the ends of the 32-bit range.                   *)
(***************************************************************************)
EXTENDS WriterHeaders

Numbers64 == {0, 1, Sat - 1, Sat, Sat + 1}
Times == {0, 1, U32Max, U32Max + 1, 2 * U32Max}

Meta(type, method, stream, usize, csize) ==
    { [name |-> [base |-> "n", slash |-> type = "Directory"], type |-> type,
       comment |-> c, method |-> method, stream |-> stream, crc |-> k,
       usize |-> usize, csize |-> csize, offset |-> o, modified_at |-> t] :
        c \in {"", "c"}, k \in {0, 1}, o \in Numbers64, t \in Times }

MCWritten ==
    UNION ({ Meta(t, "Store", FALSE, u, u) : t \in {"File", "Symlink"},
                                             u \in Numbers64 }
        \cup { Meta("File", "Store", TRUE, u, u) : u \in Numbers64 }
        \cup { Meta("File", "Deflate", b, u, c) :
                    b \in BOOLEAN, u \in Numbers64, c \in Numbers64 }
        \cup { Meta("Directory", "Store", FALSE, 0, 0) })
=============================================================================
