----------------------------- MODULE MCEntryNames -----------------------------
(***************************************************************************)
(* Files and directories whose names are UTF-8 or not, with and without a  *)
(* Unicode name that says the same or something else.                      *)
(***************************************************************************)
EXTENDS EntryNames

MCNone == {}

Raw(utf8, base, slash) == [utf8 |-> utf8, base |-> base, slash |-> slash]
AttrOf(slash) == IF slash THEN [dos |-> {"dir"}, kind |-> 4]
               ELSE [dos |-> {"file"}, kind |-> 8]

PlainHeader(raw) ==
    [name |-> raw, comment |-> Raw(TRUE, "", FALSE), attr |-> AttrOf(raw.slash),
     flags |-> {}, method |-> "Store", crc |-> 0, csize |-> 0, usize |-> 0,
     offset |-> 0, disk |-> 0, extra |-> << >>]

WithUnicodeName(raw, name) ==
    [PlainHeader(raw) EXCEPT !.extra =
        << [id |-> "UnicodeName", crc |-> raw, text |-> name] >>]

MCHeaders ==
    { PlainHeader(Raw(u, b, s)) :
        u \in BOOLEAN, b \in {"a", "b"}, s \in BOOLEAN }
    \cup { WithUnicodeName(Raw(FALSE, b, s), [base |-> c, slash |-> t]) :
             b \in {"a", "b"}, c \in {"a", "b"}, s \in BOOLEAN, t \in BOOLEAN }
    \cup { WithUnicodeName(Raw(TRUE, "c", FALSE),
                            [base |-> "c", slash |-> FALSE]) }
===============================================================================
