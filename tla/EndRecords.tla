------------------------------ MODULE EndRecords ------------------------------
(***************************************************************************)
(* Finding the central directory of any file: the search for the end       *)
(* record, the switch to the 64-bit records, and the size of the directory *)
(* (find_eocd, read_eocd, read_eocd64 and validate_size of                 *)
(* src/read/raw.rs), with the widths of the numbers.                       *)
(*                                                                         *)
(* For the search a file is its bytes, a signature one byte of its own     *)
(* value and an end record EocdLen bytes, the last of which is the length  *)
(* of the comment.  What the other records hold is chosen when they are    *)
(* read.  read_central_directory goes on from here, in ArchiveReader.      *)
(***************************************************************************)
EXTENDS Integers, Sequences

CONSTANTS
    Bytes, Sig,             \* the bytes, and the signature among them
    EocdLen, LocatorLen, Eocd64Len, CentralLen,     \* sizes of the records
    RecordHead,             \* 12: what record_size does not count
    MaxComment,             \* u16::MAX
    Top16, Top32, Top64,    \* u16::MAX, u32::MAX and u64::MAX
    Files,                  \* the files that are opened
    Eocds, Locators, Eocd64s,   \* what the records may hold
    Builds                  \* "debug": overflows panic; "release": they wrap

ASSUME SizesAssumption ==
    /\ EocdLen \in Nat \ {0} /\ LocatorLen \in Nat \ {0}
    /\ Eocd64Len \in Nat \ {0} /\ CentralLen \in Nat \ {0}
    /\ RecordHead \in Nat /\ MaxComment \in Nat
    /\ Top16 \in Nat /\ Top32 \in Nat /\ Top64 \in Nat
    /\ RecordHead <= Top64

ASSUME FilesAssumption ==
    /\ Bytes \subseteq Nat /\ Sig \in Bytes
    /\ \A f \in Files : f \in Seq(Bytes) /\ Len(f) <= Top64

ASSUME RecordsAssumption ==
    /\ Builds \subseteq {"debug", "release"}
    /\ \A r \in Eocds :
          /\ r.multi \in BOOLEAN /\ r.here \in 0..Top16 /\ r.total \in 0..Top16
          /\ r.size \in 0..Top32 /\ r.offset \in 0..Top32
    /\ \A l \in Locators : l.valid \in BOOLEAN /\ l.multi \in BOOLEAN
                              /\ l.offset64 \in 0..Top64
    /\ \A e \in Eocd64s :
          /\ e.multi \in BOOLEAN /\ e.record_size \in 0..Top64
          /\ e.here \in 0..Top64 /\ e.total \in 0..Top64
          /\ e.size \in 0..Top64 /\ e.offset \in 0..Top64

VARIABLES
    build,       \* how the program was built
    file,        \* the bytes of the file
    at,          \* the offset of the end record, once it is found
    found,       \* the records that were read, each a set with one element
    dir,         \* CentralDirectory, as an Option
    status       \* the next step, or "open", "refused" or "panic"

vars == << build, file, at, found, dir, status >>

Nothing == [eocd |-> {}, locator |-> {}, eocd64 |-> {}]

Init ==
    /\ build \in Builds
    /\ file \in Files
    /\ at = 0
    /\ found = Nothing
    /\ dir = {}
    /\ status = "search_end"

Stop(outcome) ==
    /\ status' = outcome
    /\ UNCHANGED << build, file, at, found, dir >>

-------------------------------------------------------------------------------
\* The signatures in the part of the file that starts at `from'.
SignaturesFrom(from) ==
    {p \in 0..(Len(file) - 1) : p >= from /\ file[p + 1] = Sig}

\* find_eocd_in_buffer: the last signature, or an error when the file ends
\* inside of its record.
FindIn(from) ==
    \E p \in SignaturesFrom(from) :
        /\ \A q \in SignaturesFrom(from) : q <= p
        /\ \/ p + EocdLen > Len(file) /\ Stop("refused")
           \/ /\ p + EocdLen <= Len(file)
              /\ at' = p
              /\ status' = "comment"
              /\ UNCHANGED << build, file, found, dir >>

\* find_eocd: most files have no comment.
SearchEnd ==
    /\ status = "search_end"
    /\ \/ Len(file) < EocdLen /\ Stop("refused")
       \/ Len(file) >= EocdLen /\ FindIn(Len(file) - EocdLen)
       \/ /\ Len(file) >= EocdLen
          /\ SignaturesFrom(Len(file) - EocdLen) = {}
          /\ Stop("search_all")

\* Mutant of ReadSize: the last byte of a full comment is not read.
ReadSizeShort ==
    IF Len(file) < EocdLen + MaxComment - 1 THEN Len(file)
    ELSE EocdLen + MaxComment - 1

ReadSize ==
    IF Len(file) < EocdLen + MaxComment THEN Len(file)
    ELSE EocdLen + MaxComment

SearchAll ==
    /\ status = "search_all"
    /\ \/ FindIn(Len(file) - ReadSize)
       \/ SignaturesFrom(Len(file) - ReadSize) = {} /\ Stop("refused")

\* read_archive
CheckComment ==
    /\ status = "comment"
    /\ IF file[at + EocdLen] = Len(file) - (at + EocdLen)
       THEN Stop("eocd") ELSE Stop("refused")

-------------------------------------------------------------------------------
Read(kind, r) == found' = [found EXCEPT ![kind] = {r}]

Directory(d) == dir' = {d} /\ status' = "size"

Refuse == status' = "refused" /\ UNCHANGED dir

\* Mutant of IsZip64: only the offset switches to 64 bits.
IsZip64ByOffset(r) == r.offset = Top32

IsZip64(r) == r.total = Top16 \/ r.offset = Top32

\* read_eocd
ReadEocd ==
    /\ status = "eocd"
    /\ \E r \in Eocds :
          /\ Read("eocd", r)
          /\ IF r.multi \/ r.total # r.here THEN Refuse
             ELSE IF IsZip64(r) THEN status' = "locator" /\ UNCHANGED dir
             ELSE Directory([offset |-> r.offset, size |-> r.size,
                             eocd_offset |-> at, entries |-> r.total])
    /\ UNCHANGED << build, file, at >>

LocatorOffset == at - LocatorLen

\* read_eocd64, the locator.
ReadLocator ==
    /\ status = "locator"
    /\ \/ LocatorOffset < 0 /\ Stop("refused")
       \/ /\ LocatorOffset >= 0
          /\ \E l \in Locators :
                /\ Read("locator", l)
                /\ status' = IF ~l.valid \/ l.offset64 > LocatorOffset
                                \/ l.multi
                             THEN "refused" ELSE "eocd64"
          /\ UNCHANGED << build, file, at, dir >>

\* record_size + 12 in 64 bits; None is a panic.
RecordLen(e) ==
    LET len == e.record_size + RecordHead
    IN  IF len <= Top64 THEN {len}
        ELSE IF build = "release" THEN {len - (Top64 + 1)} ELSE {}

\* read_eocd64, the record.
ReadEocd64 ==
    /\ status = "eocd64"
    /\ \E l \in found.locator :
          \/ l.offset64 + Eocd64Len > Len(file) /\ Stop("refused")
          \/ /\ l.offset64 + Eocd64Len <= Len(file)
             /\ \E e \in Eocd64s :
                   /\ Read("eocd64", e)
                   /\ IF e.multi \/ e.total # e.here THEN Refuse
                      ELSE IF RecordLen(e) = {}
                           THEN status' = "panic" /\ UNCHANGED dir
                      ELSE IF \E n \in RecordLen(e) :
                                 l.offset64 + n = LocatorOffset
                           THEN Directory([offset |-> e.offset,
                                   size |-> e.size, entries |-> e.total,
                                   eocd_offset |-> l.offset64])
                      ELSE Refuse
             /\ UNCHANGED << build, file, at >>

\* Mutant of ValidSize: the product is cut to 64 bits.
ValidSizeWrapping(d) ==
    /\ d.offset <= d.eocd_offset
    /\ d.size >= (d.entries * CentralLen) % (Top64 + 1)
    /\ d.size = d.eocd_offset - d.offset

\* CentralDirectory::validate_size, with its checked arithmetic.
ValidSize(d) ==
    /\ d.entries * CentralLen <= Top64
    /\ d.offset <= d.eocd_offset
    /\ d.size >= d.entries * CentralLen
    /\ d.size = d.eocd_offset - d.offset

ValidateSize ==
    /\ status = "size"
    /\ \E d \in dir : IF ValidSize(d) THEN Stop("open") ELSE Stop("refused")

Next ==
    \/ SearchEnd \/ SearchAll \/ CheckComment
    \/ ReadEocd \/ ReadLocator \/ ReadEocd64 \/ ValidateSize

Spec == Init /\ [][Next]_vars

-------------------------------------------------------------------------------
Dirs == [offset: Nat, size: Nat, entries: Nat, eocd_offset: Nat]

\* The end record that the other reads rely on is in the file as a whole.
TypeOK ==
    /\ build \in Builds
    /\ file \in Files
    /\ at \in 0..Len(file)
    /\ status \in {"comment", "eocd", "locator", "eocd64", "size", "open"} =>
          at + EocdLen <= Len(file)
    /\ found \in [eocd: SUBSET Eocds, locator: SUBSET Locators,
                  eocd64: SUBSET Eocd64s]
    /\ dir \subseteq Dirs
    /\ status \in {"search_end", "search_all", "comment", "eocd", "locator",
                   "eocd64", "size", "open", "refused", "panic"}

(***************************************************************************)
(* Two searches find what one would: a file passes exactly when its last   *)
(* signature starts a record whose comment, of any length it can announce, *)
(* is all that follows.                                                    *)
(***************************************************************************)
EndsInRecord ==
    \E p \in SignaturesFrom(0) :
        /\ \A q \in SignaturesFrom(0) : q <= p
        /\ p + EocdLen <= Len(file)
        /\ Len(file) - (p + EocdLen) <= MaxComment
        /\ file[p + EocdLen] = Len(file) - (p + EocdLen)

SearchExact ==
    /\ status \in {"eocd", "locator", "eocd64", "size", "open"} =>
          /\ EndsInRecord
          /\ \A q \in SignaturesFrom(0) : q <= at
    /\ status = "refused" /\ found = Nothing => ~EndsInRecord

(***************************************************************************)
(* The directory of an open archive lies within the file, ends where its   *)
(* end record starts, and has room for all its entries: what is reserved   *)
(* for them is bounded by the size of the file.                            *)
(***************************************************************************)
DirectoryFits ==
    status = "open" =>
        \A d \in dir :
            /\ d.offset + d.size = d.eocd_offset
            /\ d.eocd_offset <= Len(file)
            /\ d.entries * CentralLen <= Len(file)

(***************************************************************************)
(* A file whose records agree, in numbers without a width, is not refused, *)
(* and one that is opened has such records unless record_size + 12 is cut  *)
(* to 64 bits.                                                             *)
(***************************************************************************)
Fits(size, offset, total, end) ==
    offset + size = end /\ total * CentralLen <= size

RecordsAgree ==
    \E r \in found.eocd :
        /\ ~r.multi /\ r.here = r.total
        /\ IF r.total < Top16 /\ r.offset < Top32
           THEN Fits(r.size, r.offset, r.total, at)
           ELSE \E l \in found.locator, e \in found.eocd64 :
                   /\ l.valid /\ ~l.multi /\ ~e.multi /\ e.here = e.total
                   /\ l.offset64 + RecordHead + e.record_size = at - LocatorLen
                   /\ Fits(e.size, e.offset, e.total, l.offset64)

OpensExactly ==
    /\ status = "refused" => ~RecordsAgree
    /\ status = "open" =>
          \/ RecordsAgree
          \/ build = "release" /\ \E e \in found.eocd64 :
                                    e.record_size + RecordHead > Top64

(***************************************************************************)
(* "Don't panic under any input."                                          *)
(***************************************************************************)
NeverPanics == status # "panic"
===============================================================================
