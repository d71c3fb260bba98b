------------------------------ MODULE ZipFormat ------------------------------
(***************************************************************************)
(* The records of a ZIP file, as src/types.rs and src/write/raw.rs lay     *)
(* them out, at the granularity the properties need: a file is a sequence  *)
(* of cells, and every write, seek, size and offset counts cells.  A fixed *)
(* record is one cell, a local header two (the fixed part and the name     *)
(* with its extra field), and file content one cell per symbol.  A cell    *)
(* that is only partly written is a cell that is not written.              *)
(*                                                                         *)
(* A checksum is modelled as the content itself: `sum' stands for the pair *)
(* (uncompressed_size, crc32), taken to be free of collisions.             *)
(***************************************************************************)
EXTENDS Integers, Sequences

CONSTANTS
    Bases,       \* file names without their trailing '/'
    Bytes        \* the symbols that file content is made of

(***************************************************************************)
(* Names, types and compression.                                           *)
(***************************************************************************)
FileTypes == {"File", "Directory", "Symlink"}

Names == [base: Bases, slash: BOOLEAN]

\* Compressor::new refuses a method that is not compiled in or not known.
Methods == {"Store", "Deflate", "Unsupported"}
Supported == Methods \ {"Unsupported"}

\* What a compressor appends when it is finished.
EndMark == "end"

\* STORE keeps the bytes; another method is an encoding that is complete
\* only once its terminator, written by Compressor::finish, is there.
Encode(method, plain) ==
    IF method = "Store" THEN plain ELSE Append(plain, EndMark)

\* The inverse; a stream without its terminator decodes to `Torn'.
Torn == << "torn" >>
Decode(method, symbols) ==
    IF method = "Store" THEN symbols
    ELSE IF symbols # << >> /\ symbols[Len(symbols)] = EndMark
         THEN SubSeq(symbols, 1, Len(symbols) - 1)
         ELSE Torn

Symbols == Bytes \cup {EndMark}

(***************************************************************************)
(* Cells.                                                                  *)
(***************************************************************************)
Foreign == [kind |-> "foreign"]       \* bytes that are not the archive's

\* A symbol of file content.  The bytes it stands for are any bytes: they may
\* be those of a record, and a reader that comes by them reads them as that
\* record (AsRead of ArchiveReader).
DataCell(s) == [kind |-> "data", symbol |-> s]

\* LocalFileHeader; sizes and checksum are zero (`<<>>') when streaming.
LocalCell(method, stream, sum) ==
    [kind |-> "local", method |-> method, stream |-> stream, sum |-> sum]

\* The name and the Zip64 extra field that follow it.
NameCell(name, csize) == [kind |-> "name", name |-> name, csize |-> csize]

\* DataDescriptor64
DescriptorCell(csize, sum) ==
    [kind |-> "descriptor", csize |-> csize, sum |-> sum]

\* CentralFileHeader with its name, Zip64 extra field and attributes.
CentralCell(name, type, method, stream, csize, sum, offset) ==
    [kind |-> "central", name |-> name, type |-> type, method |-> method,
     stream |-> stream, csize |-> csize, sum |-> sum, offset |-> offset]

\* EndOfCentralDirectory64, its locator, and EndOfCentralDirectory, whose
\* own fields, when saturated, send a reader to the 64-bit record.
Eocd64Cell(count, size, offset) ==
    [kind |-> "eocd64", count |-> count, size |-> size, offset |-> offset]
LocatorCell(offset64) == [kind |-> "locator", offset64 |-> offset64]
EocdCell(zip64, count, size, offset, commentLen) ==
    [kind |-> "eocd", zip64 |-> zip64, count |-> count, size |-> size,
     offset |-> offset, commentLen |-> commentLen]

CentralCells ==
    [kind: {"central"}, name: Names, type: FileTypes, method: Methods,
     stream: BOOLEAN, csize: Nat, sum: Seq(Bytes), offset: Nat]

Cells == {Foreign}
    \cup [kind: {"data"}, symbol: Symbols]
    \cup [kind: {"local"}, method: Methods, stream: BOOLEAN, sum: Seq(Bytes)]
    \cup [kind: {"name"}, name: Names, csize: Nat]
    \cup [kind: {"descriptor"}, csize: Nat, sum: Seq(Bytes)]
    \cup CentralCells
    \cup [kind: {"eocd64"}, count: Nat, size: Nat, offset: Nat]
    \cup [kind: {"locator"}, offset64: Nat]
    \cup [kind: {"eocd"}, zip64: BOOLEAN, count: Nat, size: Nat, offset: Nat,
            commentLen: Nat]

(***************************************************************************)
(* Images: the cells an operation writes, in order.                        *)
(***************************************************************************)
Data(symbols) == [i \in 1..Len(symbols) |-> DataCell(symbols[i])]

LocalHeader(name, method, stream, csize, sum) ==
    << LocalCell(method, stream, sum), NameCell(name, csize) >>

LocalLen == 2

\* The cells of the entry that central header h describes.
EntryImage(h) ==
    IF h.stream
    THEN LocalHeader(h.name, h.method, TRUE, 0, << >>)
            \o Data(Encode(h.method, h.sum))
            \o << DescriptorCell(h.csize, h.sum) >>
    ELSE LocalHeader(h.name, h.method, FALSE, h.csize, h.sum)
            \o Data(Encode(h.method, h.sum))

EntryLen(h) ==
    LocalLen + Len(Encode(h.method, h.sum)) + (IF h.stream THEN 1 ELSE 0)

\* The first k cells of image w written at offset `at' of file d.
WriteAt(d, at, w, k) ==
    [i \in 1..(IF at + k > Len(d) THEN at + k ELSE Len(d)) |->
        IF at < i /\ i <= at + k THEN w[i - at] ELSE d[i]]
=============================================================================
