---------------------------- MODULE MCEntryHeaders ----------------------------
(***************************************************************************)
(* Groups of headers for EntryHeaders.  Each varies one matter and keeps   *)
(* the rest plain: sizes, times, names with types, or encryption.          *)
(***************************************************************************)
EXTENDS EntryHeaders, SequencesExt

Utf8(base) == [utf8 |-> TRUE, base |-> base, slash |-> FALSE]
Other(base) == [utf8 |-> FALSE, base |-> base, slash |-> FALSE]

MCBadBases == {"bad"}

Plain == [name |-> Utf8("n"), comment |-> Utf8(""),
          attr |-> [dos |-> {"file"}, kind |-> 8], flags |-> {"unicode"},
          method |-> "Deflate", crc |-> 1, usize |-> 1, csize |-> 1,
          offset |-> 1, disk |-> 0, extra |-> << >>]

NoStream == {[wide |-> TRUE, csize |-> 0, usize |-> 0, crc |-> 0]}

Zip64(values) == [id |-> "Zip64", values |-> values]

(***************************************************************************)
(* Sizes: what is saturated, and how long the Zip64 fields are.            *)
(***************************************************************************)
StreamOrNot == {{"unicode"}, {"unicode", "streaming"}}

SizeCentral ==
    { [Plain EXCEPT !.usize = u, !.csize = c, !.offset = o, !.flags = f,
                    !.extra = x] :
        u \in {1, Sat}, c \in {1, Sat}, o \in {0, Sat}, f \in StreamOrNot,
        x \in {<< >>, << Zip64(<< Sat >>), Zip64(<< 1 >>) >>}
             \cup { << Zip64(v) >> : v \in BoundedSeq({1, 2}, 3) } }

SizeLocal ==
    { [Plain EXCEPT !.usize = u, !.csize = c, !.flags = f, !.extra = x] :
        u \in {1, Sat}, c \in {1, Sat}, f \in StreamOrNot,
        x \in {<< >>} \cup { << Zip64(v) >> : v \in BoundedSeq({1, 2}, 2) } }

SizeDescriptors ==
    [wide: BOOLEAN, csize: {1, 2}, usize: {1}, crc: {1}]
        \cup [wide: {TRUE}, csize: {1, 2}, usize: {2}, crc: {1}]
        \cup [wide: {TRUE}, csize: {1}, usize: {1}, crc: {2}]

(***************************************************************************)
(* Times: up to two fields in each header.                                 *)
(***************************************************************************)
Tag(typ, times) == [typ |-> typ, times |-> times]
NtfsField(tags) == [id |-> "Ntfs", tags |-> tags]
TimeField(bits, times) == [id |-> "Timestamp", bits |-> bits, times |-> times]

NtfsFields ==
    { NtfsField(t) : t \in
        { << >>, << Tag(2, << >>) >>, << Tag(1, << 7, 7 >>) >>,
          << Tag(1, << 7, 0, 10 >>), Tag(2, << >>) >>,
          << Tag(1, << 7, 7, 7 >>), Tag(1, << 10, 0, 0 >>) >> }
        \cup { << Tag(1, << m, a, 0 >>) >> :
                 m \in {0, 1, 8, 9}, a \in {0, 7} } }

TimeFields ==
    { TimeField(b, t) : b \in {{}, {1}, {2}, {8}, {1, 2}, {1, 2, 4}},
                        t \in {<< >>, << 0 >>, << 1 >>, << 1, 0 >>,
                               << 0, 1, 1 >>} }

OneTime == { << f >> : f \in NtfsFields \cup TimeFields } \cup {<< >>}
TwoTimes ==
    { << f, g >> : f \in {NtfsField(<< Tag(1, << 7, 7, 10 >>) >>),
                          TimeField({1, 2, 4}, << 0, 1, 1 >>)},
                   g \in NtfsFields \cup TimeFields }

TimeHeaders ==
    { [Plain EXCEPT !.extra = x] : x \in OneTime \cup TwoTimes }

(***************************************************************************)
(* Names and types, with at most two Unicode fields.                       *)
(***************************************************************************)
Slashed(raw) == [raw EXCEPT !.slash = TRUE]
RawNames == {Utf8("n"), Slashed(Utf8("n")), Other("n"), Slashed(Other("n")),
             Other("bad")}

UnicodeName(raw, base) ==
    [id |-> "UnicodeName", crc |-> raw, text |-> Text(Utf8(base))]
UnicodeComment(raw) ==
    [id |-> "UnicodeComment", crc |-> raw, text |-> Text(Utf8("c"))]

NameExtras ==
    {<< >>, << Ignored >>, << Ignored, Cut >>,
     << UnicodeName(Other("n"), "n") >>, << UnicodeName(Other("n"), "m") >>,
     << UnicodeName(Slashed(Other("n")), "m") >>,
     << UnicodeName(Other("n"), "bad") >>,
     << UnicodeName(Other("n"), "m"), UnicodeName(Other("n"), "n") >>,
     << UnicodeComment(Other("c")) >>, << UnicodeComment(Other("n")) >>}

Attr(dos, kind) == [dos |-> dos, kind |-> kind]
Attrs == {Attr({"file"}, 8), Attr({"dir"}, 4), Attr({}, 10), Attr({}, 0),
          Attr({"file", "dir"}, 0), Attr({"file"}, 10)}

NameCentral ==
    { [Plain EXCEPT !.name = n, !.comment = c, !.attr = Attr({}, 0),
                    !.flags = f, !.extra = x] :
        n \in RawNames, c \in {Utf8("c"), Other("c")},
        f \in {{}, {"unicode"}}, x \in NameExtras }
    \cup { [Plain EXCEPT !.name = n, !.attr = a, !.flags = f, !.extra = x,
                         !.usize = u] :
             n \in RawNames, a \in Attrs, f \in {{}, {"unicode"}},
             x \in {<< >>, << UnicodeName(Other("n"), "m") >>}, u \in {0, 1} }
    \cup {[Plain EXCEPT !.disk = 1]}

NameLocal ==
    { [Plain EXCEPT !.name = n, !.flags = f, !.extra = x, !.usize = u] :
        n \in {Utf8("n"), Utf8("m"), Other("n"), Slashed(Other("n"))},
        f \in {{}, {"unicode"}}, u \in {0, 1},
        x \in {<< >>, << UnicodeName(Other("n"), "m") >>} }

(***************************************************************************)
(* Encryption: flags, methods and up to two AES fields.                    *)
(***************************************************************************)
Aes(check, method) ==
    [id |-> "Aes", check_crc32 |-> check, method |-> method]

AesExtras ==
    {<< >>} \cup { << Aes(b, m) >> : b \in BOOLEAN, m \in {"Store", "AES"} }
        \cup { << Aes(TRUE, m), Aes(TRUE, "Store") >> :
                 m \in {"Store", "AES"} }

AesHeaders ==
    { [Plain EXCEPT !.flags = f, !.method = m, !.crc = k, !.usize = u,
                    !.extra = x] :
        f \in SUBSET {"encrypted", "strong"},
        m \in {"AES", "Store"}, k \in {0, 1}, u \in {1, 2},
        x \in AesExtras }

Group(central, local, descriptors) ==
    [central |-> central, local |-> local, descriptors |-> descriptors]

MCGroups ==
    << Group(SizeCentral, SizeLocal, SizeDescriptors),
       Group(TimeHeaders, TimeHeaders, NoStream),
       Group(NameCentral, NameLocal, NoStream),
       Group(AesHeaders, AesHeaders, NoStream) >>
===============================================================================
