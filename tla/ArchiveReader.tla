---------------------------- MODULE ArchiveReader ----------------------------
(***************************************************************************)
(* Opening an archive: read_archive of src/read/raw.rs as operators on a   *)
(* file, that is on a sequence of cells.  Each check of the code whose     *)
(* failure is an error is a conjunct of Accepts; Listing is the list of    *)
(* entries when there is no error.                                         *)
(*                                                                         *)
(* Bytes that are not the record expected at a place fail the signature    *)
(* check there.  The EOCD64 record has no such check in the code; other    *)
(* bytes at its place are taken to fail the equation on record_size.       *)
(***************************************************************************)
EXTENDS ZipFormat, FiniteSetsExt

CONSTANTS
    MaxComment,    \* u16::MAX, in cells
    AsRecord       \* the symbols of content whose bytes are those of a record,
                   \* with the record

ASSUME ReaderAssumption ==
    /\ MaxComment \in Nat
    /\ DOMAIN AsRecord \subseteq Symbols
    /\ \A s \in DOMAIN AsRecord : AsRecord[s] \in Cells

\* The file as read_pod finds it: nothing tells content from the records that
\* it may contain.  (Names and comments are taken to contain none.  A name
\* cannot, since it has no NUL; a comment given to finish_with_comment can.)
AsRead(d) ==
    [i \in DOMAIN d |->
        IF d[i].kind = "data" /\ d[i].symbol \in DOMAIN AsRecord
        THEN AsRecord[d[i].symbol] ELSE d[i]]

\* A record of kind `kind' at (zero-based) offset `at' of file d.
HasRecord(d, at, kind) == at + 1 \in DOMAIN d /\ d[at + 1].kind = kind

\* find_eocd: the last signature in the last 22 bytes, and if there is none
\* in the last 22 + u16::MAX bytes.
EocdOffsets(d) ==
    { at \in 0..(Len(d) - 1) :
        HasRecord(d, at, "eocd") /\ Len(d) - (at + 1) <= MaxComment }

EocdOffset(d) == Max(EocdOffsets(d))

\* Mutant of EndsWithEocd: the length of the comment is not compared.
EndsSomewhere(d) == EocdOffsets(d) # {}

\* read_archive: what follows the record is the comment that it announces.
EndsWithEocd(d) ==
    /\ EocdOffsets(d) # {}
    /\ d[EocdOffset(d) + 1].commentLen = Len(d) - (EocdOffset(d) + 1)

\* read_eocd64: a locator just before the EOCD at `offset', which points to
\* a record that ends where the locator starts.
HasEocd64(d, offset) ==
    /\ HasRecord(d, offset - 1, "locator")
    /\ d[offset].offset64 <= offset - 1
    /\ HasRecord(d, d[offset].offset64, "eocd64")
    /\ d[offset].offset64 + 1 = offset - 1

\* read_eocd
HasDirectory(d) ==
    d[EocdOffset(d) + 1].zip64 => HasEocd64(d, EocdOffset(d))

CentralDirectory(d) ==
    LET end == EocdOffset(d)
        eocd_offset == IF d[end + 1].zip64 THEN d[end].offset64 ELSE end
        dir == d[eocd_offset + 1]
    IN  [offset |-> dir.offset, size |-> dir.size, count |-> dir.count,
         eocd_offset |-> eocd_offset]

\* CentralDirectory::validate_size
ValidSize(c) ==
    c.size >= c.count /\ c.offset <= c.eocd_offset
        /\ c.size = c.eocd_offset - c.offset

(***************************************************************************)
(* check_local_entry, for the central header h and the local header found  *)
(* at offset `at'.                                                         *)
(***************************************************************************)
DescriptorAt(h, at) == at + LocalLen + h.csize

LocalEntryLen(d, h, at) ==
    LocalLen + h.csize + (IF d[at + 1].stream THEN 1 ELSE 0)

CheckLocalEntry(d, h, at) ==
    /\ HasRecord(d, at, "local")
    /\ HasRecord(d, at + 1, "name")
    /\ h.type = "Directory" => h.sum = << >>
    /\ d[at + 1].stream => HasRecord(d, DescriptorAt(h, at), "descriptor")
    /\ LET local == d[at + 1]
           sizes == IF local.stream THEN d[DescriptorAt(h, at) + 1]
                    ELSE [csize |-> d[at + 2].csize, sum |-> local.sum]
       IN  /\ h.method = local.method
           /\ h.name = d[at + 2].name
           /\ h.csize = sizes.csize
           /\ h.sum = sizes.sum
           /\ h.stream = local.stream
    /\ h.method = "Store" => h.csize = Len(h.sum)

(***************************************************************************)
(* read_central_directory: the headers, then one walk over the local       *)
(* entries, from the offset the first header states to the directory.      *)
(***************************************************************************)
HeadersIn(d, c) == SubSeq(d, c.offset + 1, c.offset + c.count)

\* Where the walk stands before its i-th entry; only the first header's
\* offset is used.  -1 when an entry before is not valid.
WalkOf(d, hs) ==
    LET at[i \in 1..(Len(hs) + 1)] ==
            IF i = 1 THEN hs[1].offset
            ELSE LET prev == at[i - 1]
                 IN  IF prev >= 0 /\ CheckLocalEntry(d, hs[i - 1], prev)
                     THEN prev + LocalEntryLen(d, hs[i - 1], prev)
                     ELSE -1
    IN  at

ValidDirectory(d, c) ==
    LET hs == HeadersIn(d, c)
    IN  c.count > 0 =>
          /\ \A i \in 1..c.count : HasRecord(d, c.offset + i - 1, "central")
          /\ WalkOf(d, hs)[c.count + 1] = c.offset
          /\ \A i, j \in 1..c.count :
                hs[i].name.base = hs[j].name.base => i = j

\* read_archive returns Ok.
Accepts(d) ==
    /\ EndsWithEocd(d)
    /\ HasDirectory(d)
    /\ ValidSize(CentralDirectory(d))
    /\ ValidDirectory(d, CentralDirectory(d))

\* Mutant of Listing: the local header is not skipped.
ListingAtHeaders(d) ==
    LET hs == HeadersIn(d, CentralDirectory(d))
    IN  [i \in 1..Len(hs) |->
            [name |-> hs[i].name, type |-> hs[i].type,
             method |-> hs[i].method, csize |-> hs[i].csize,
             sum |-> hs[i].sum, data_offset |-> WalkOf(d, hs)[i]]]

\* The Metadata of an entry, with the data_offset that the walk fills in.
Listing(d) ==
    LET hs == HeadersIn(d, CentralDirectory(d))
    IN  [i \in 1..Len(hs) |->
            [name |-> hs[i].name, type |-> hs[i].type,
             method |-> hs[i].method, csize |-> hs[i].csize,
             sum |-> hs[i].sum,
             data_offset |-> WalkOf(d, hs)[i] + LocalLen]]

(***************************************************************************)
(* Metadata::read: seek to data_offset, take compressed_size, decompress.  *)
(***************************************************************************)
RawContent(d, m) ==
    [k \in 1..m.csize |->
        IF HasRecord(d, m.data_offset + k - 1, "data")
        THEN d[m.data_offset + k].symbol ELSE "torn"]

Content(d, m) == Decode(m.method, RawContent(d, m))

\* Metadata::read_stored, as an Option: refused unless the content is stored
\* as it is and has the CRC; its length was compared by check_local_entry.
ReadStored(d, m) ==
    IF m.method = "Store" /\ RawContent(d, m) = m.sum
    THEN {RawContent(d, m)} ELSE {}

\* The content checker (length and CRC) lets the whole content pass.
ContentChecked(d, m) == Content(d, m) = m.sum
=============================================================================
