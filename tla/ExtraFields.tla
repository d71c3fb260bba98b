----------------------------- MODULE ExtraFields -----------------------------
(***************************************************************************)
(* Headers of entries and their extra fields: src/read/extra_field.rs, and *)
(* what src/read/mod.rs makes of a header before it is compared with the   *)
(* other one of the same entry.                                            *)
(*                                                                         *)
(* An Option of the code is a set with at most one element, and `?' is the *)
(* choice of an element.  A number is one number whatever its width; Sat   *)
(* is the value 0xffff_ffff.  A CRC32 is the string that was hashed.       *)
(* A string is a base with or without a '/' after it; validate_name, which *)
(* is the subject of PathRules, refuses the bases in BadBases.             *)
(***************************************************************************)
EXTENDS Integers, Sequences, FiniteSets, FiniteSetsExt

CONSTANTS
    Sat,         \* 0xffff_ffff
    NtEpoch,     \* seconds from the NT epoch to the Unix epoch
    Ticks,       \* units of an NTFS timestamp per second
    BadBases     \* the names that validate_name refuses

ASSUME HeaderAssumption ==
    /\ Sat \in Nat \ {0} /\ NtEpoch \in Nat /\ Ticks \in Nat \ {0}

\* `return None' unless the condition holds.
Only(condition, value) == IF condition THEN {value} ELSE {}

(***************************************************************************)
(* Names, types and flags.                                                 *)
(***************************************************************************)
\* The bytes of a string: well-formed UTF-8, or not and then CP437, whose
\* table is total and keeps '/'.
Text(raw) == [base |-> raw.base, slash |-> raw.slash]

\* convert_string, and the CRC that a Unicode field has to name.
ConvertString(raw, force_unicode) ==
    IF raw.utf8 THEN {[text |-> Text(raw), crc |-> {}]}
    ELSE Only(~force_unicode, [text |-> Text(raw), crc |-> {raw}])

ValidateName(name) == Only(name.base \notin BadBases, name)

\* FileType::test: the DOS bits, the kind of a Unix mode and the name have
\* to agree as far as they say something.
FileTypeTest(attr, name) ==
    LET is_file == "file" \in attr.dos \/ attr.kind = 8
        is_dir == "dir" \in attr.dos \/ attr.kind = 4
        is_symlink == attr.kind = 10
    IN  Only(~is_dir /\ ~name.slash /\ ~is_symlink, "File")
        \cup Only(~is_file /\ name.slash /\ ~is_symlink, "Directory")
        \cup Only(~is_file /\ ~is_dir /\ ~name.slash /\ is_symlink, "Symlink")

Encryption(flags) ==
    IF "encrypted" \in flags
    THEN {IF "strong" \in flags THEN "Strong" ELSE "ZipCrypto"}
    ELSE Only("strong" \notin flags, "None")

(***************************************************************************)
(* Times.                                                                  *)
(***************************************************************************)
NoTimes == [mtime |-> {}, atime |-> {}, ctime |-> {}]

\* Mutant of FromNtfs: the epochs are taken for the same.
FromNtfsAsUnix(time) == time \div Ticks

\* Timestamp::from_ntfs
FromNtfs(time) ==
    LET since == time - NtEpoch * Ticks
    IN  (IF since < 0 THEN 0 ELSE since) \div Ticks

NtfsTime(ts) == IF ts = 0 THEN {} ELSE {FromNtfs(ts)}

\* Ntfs::parse: the last of the tags with number 1; what follows the three
\* times in it is ignored.
NtfsTimes(f) ==
    LET ours == {i \in DOMAIN f.tags : f.tags[i].typ = 1}
    IN  Only(\A i \in ours : Len(f.tags[i].times) >= 3,
             IF ours = {} THEN NoTimes
             ELSE LET t == f.tags[Max(ours)].times
                  IN  [mtime |-> NtfsTime(t[1]), atime |-> NtfsTime(t[2]),
                       ctime |-> NtfsTime(t[3])])

\* The times that an extended timestamp announces, in their order.
Announced(f) ==
    LET if_set(bit) == IF bit \in f.bits THEN << bit >> ELSE << >>
    IN  if_set(1) \o if_set(2) \o if_set(4)

\* ExtendedTimestamp::parse: a single time is a modification time unless
\* exactly one bit says what it is.
ExtendedTimes(f) ==
    LET time(bit) == { f.times[i] : i \in
                        {i \in DOMAIN Announced(f) : Announced(f)[i] = bit} }
    IN  IF Len(f.times) = 1 /\ Cardinality(f.bits) # 1
        THEN {[NoTimes EXCEPT !.mtime = {f.times[1]}]}
        ELSE Only(Len(f.times) = Len(Announced(f)),
                  [mtime |-> time(1), atime |-> time(2), ctime |-> time(4)])

(***************************************************************************)
(* parse_extra_fields: the arms of its match, as the Option of the entry   *)
(* they leave.  FieldParser makes the fields out of bytes.                 *)
(***************************************************************************)
\* A field that is cut off, or that its parser refuses for its bytes alone.
Cut == [id |-> "Cut"]

\* One that is not known, or is UnixNew.
Ignored == [id |-> "Ignored"]

Count(b) == IF b THEN 1 ELSE 0

Saturated(e) ==
    Count(e.usize = Sat) + Count(e.csize = Sat) + Count(e.offset = Sat)

\* Mutant of OnZip64: the compressed size is taken first.
OnZip64Swapped(e, f) ==
    Only(Len(f.values) = Saturated(e),
         [e EXCEPT !.csize = IF @ = Sat THEN f.values[1] ELSE @,
                   !.usize = IF @ = Sat
                             THEN f.values[1 + Count(e.csize = Sat)] ELSE @,
                   !.offset = IF @ = Sat THEN f.values[Len(f.values)] ELSE @,
                   !.zip64 = TRUE])

\* Only what is saturated is in the field, and nothing else.
OnZip64(e, f) ==
    Only(Len(f.values) = Saturated(e),
         [e EXCEPT !.usize = IF @ = Sat THEN f.values[1] ELSE @,
                   !.csize = IF @ = Sat
                             THEN f.values[1 + Count(e.usize = Sat)] ELSE @,
                   !.offset = IF @ = Sat THEN f.values[Len(f.values)] ELSE @,
                   !.zip64 = TRUE])

OnUnicodeComment(e, f, comment_crc) ==
    Only({f.crc} = comment_crc, [e EXCEPT !.comment = f.text])

\* Mutant of OnUnicodeName: the CRC is not compared.
OnUnicodeNameOfAny(e, f, name_crc) ==
    { [e EXCEPT !.name = n] : n \in ValidateName(f.text) }

\* file_type, which was tested with the former name, stays.
OnUnicodeName(e, f, name_crc) ==
    { [e EXCEPT !.name = n] :
        n \in {n \in ValidateName(f.text) : {f.crc} = name_crc} }

\* Mutant of OnTimes: a time that the field does not have is kept.
OnTimesMerged(e, times) ==
    { [e EXCEPT !.mtime = IF t.mtime = {} THEN @ ELSE t.mtime,
                !.atime = IF t.atime = {} THEN @ ELSE t.atime,
                !.ctime = IF t.ctime = {} THEN @ ELSE t.ctime] : t \in times }

\* All three times are replaced, by None where the field has none.
OnTimes(e, times) ==
    { [e EXCEPT !.mtime = t.mtime, !.atime = t.atime, !.ctime = t.ctime] :
        t \in times }

\* Mutant of OnAes: whether the flags say so is not tested.
OnAesUnannounced(e, f) ==
    Only(e.method = "AES" /\ (f.check_crc32 \/ e.crc = 0),
         [e EXCEPT !.enc = "Aes", !.method = f.method])

OnAes(e, f) ==
    Only(e.method = "AES" /\ (f.check_crc32 \/ e.crc = 0)
            /\ e.enc = "ZipCrypto",
         [e EXCEPT !.enc = "Aes", !.method = f.method])

FieldIds == {"Zip64", "Ntfs", "Timestamp", "UnicodeComment", "UnicodeName",
             "Aes", "Ignored", "Cut"}

\* A field is of a known kind, and its times are numbers of u64 or u32.
FieldLike(f) ==
    /\ f.id \in FieldIds
    /\ f.id = "Ntfs" => f.tags \in Seq([typ: Nat, times: Seq(Nat)])
    /\ f.id = "Timestamp" => f.times \in Seq(Nat)

\* What any header has: such fields, and a name.
HeaderLike(h) ==
    /\ Len(h.extra) \in Nat /\ DOMAIN h.extra = 1..Len(h.extra)
    /\ \A k \in 1..Len(h.extra) : FieldLike(h.extra[k])
    /\ h.name.slash \in BOOLEAN

\* The arm for field f.
OnField(e, f, name_crc, comment_crc) ==
    CASE f.id = "Zip64" -> OnZip64(e, f)
      [] f.id = "Ntfs" -> OnTimes(e, NtfsTimes(f))
      [] f.id = "Timestamp" -> OnTimes(e, ExtendedTimes(f))
      [] f.id = "UnicodeComment" -> OnUnicodeComment(e, f, comment_crc)
      [] f.id = "UnicodeName" -> OnUnicodeName(e, f, name_crc)
      [] f.id = "Aes" -> OnAes(e, f)
      [] f.id = "Ignored" -> {e}
      [] f.id = "Cut" -> {}

(***************************************************************************)
(* from_local_header and from_central_header up to the extra fields.       *)
(***************************************************************************)
Fresh(h, name, type, comment, enc, offset) ==
    [name |-> name, type |-> type, comment |-> comment, enc |-> enc,
     method |-> h.method, crc |-> h.crc, csize |-> h.csize, usize |-> h.usize,
     offset |-> offset, flags |-> h.flags, zip64 |-> FALSE,
     mtime |-> {}, atime |-> {}, ctime |-> {}]

ForceUnicode(h) == "unicode" \in h.flags

NoComment == [base |-> "", slash |-> FALSE]

NameOf(h) ==
    UNION { ValidateName(s.text) :
              s \in ConvertString(h.name, ForceUnicode(h)) }

\* The CRCs that are compared with those of Unicode fields.
CrcOf(raw, force) == UNION { s.crc : s \in ConvertString(raw, force) }

FromLocalHeader(h) ==
    { Fresh(h, n, "File", NoComment, e, 0) :
        n \in NameOf(h), e \in Encryption(h.flags) }

FromCentralHeader(h) ==
    UNION { { Fresh(h, n, t, c.text, e, h.offset) :
                t \in FileTypeTest(h.attr, n), e \in Encryption(h.flags),
                c \in ConvertString(h.comment, ForceUnicode(h)) } :
            n \in {n \in NameOf(h) : h.disk = 0} }
=============================================================================
