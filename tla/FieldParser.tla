----------------------------- MODULE FieldParser -----------------------------
(***************************************************************************)
(* From the bytes of a header to its extra fields: DataParser, the         *)
(* iterator over fields and the parser of each kind of field               *)
(* (src/read/extra_field.rs), under the loop of parse_extra_fields, which  *)
(* returns at the first field that is not valid.  A field that is valid    *)
(* is a record of the form that ExtraFields takes.                         *)
(*                                                                         *)
(* Numbers keep their width in bytes; a byte has Base values.  A CRC32 is  *)
(* a number here, and a text is its bytes.                                 *)
(***************************************************************************)
EXTENDS ExtraFields, SequencesExt

CONSTANTS
    Base,        \* the number of values of a byte
    IdOf,        \* the number of each kind of field
    Vendor,      \* "AE" as a number
    NotUtf8,     \* a byte that is in no text
    Given        \* lists of fields, see Layout

Kinds ==
    {"Zip64", "Ntfs", "Timestamp", "UnicodeComment", "UnicodeName", "UnixNew",
     "Aes"}

ASSUME ParserAssumption ==
    /\ Base \in Nat \ {0, 1} /\ Vendor \in 0..(Base * Base - 1)
    /\ \A k \in Kinds : IdOf[k] \in 1..(Base * Base - 1)
    /\ \A j, k \in Kinds : IdOf[j] = IdOf[k] => j = k

VARIABLES
    given,       \* the fields that the header was made of
    data,        \* the bytes of the header
    rest,        \* those that are left: the DataParser of the iterator
    fields,      \* the fields that the iterator returned
    outcome      \* "fields", and then "done" or "refused"

fieldVars == << given, data, rest, fields, outcome >>

(***************************************************************************)
(* Numbers of several bytes, the lowest first.                             *)
(***************************************************************************)
Num(bytes) ==
    LET high[k \in 0..Len(bytes)] ==      \* the number in the last k bytes
            IF k = 0 THEN 0
            ELSE bytes[Len(bytes) - k + 1] + Base * high[k - 1]
    IN  high[Len(bytes)]

\* The numbers of w bytes each at the start of d.
Words(d, w) ==
    [k \in 1..(Len(d) \div w) |-> Num(SubSeq(d, (k - 1) * w + 1, k * w))]

From(d, k) == SubSeq(d, k, Len(d))

BitsOf(byte) == {b \in {1, 2, 4, 8, 16, 32, 64, 128} : (byte \div b) % 2 = 1}

Valid(condition, field) == IF condition THEN field ELSE Cut

-------------------------------------------------------------------------------
(***************************************************************************)
(* The parser of each kind of field, given the data of the field.          *)
(***************************************************************************)
\* `next' and `end' of the caller want whole numbers and nothing else.
ParseZip64(d) ==
    Valid(Len(d) % 8 = 0, [id |-> "Zip64", values |-> Words(d, 8)])

\* A turn of the loop over the tags, which stops at the end, or at a tag that
\* is cut off: `at' is how far it got.
ReadTag(d, read) ==
    LET len == Num(SubSeq(d, read.at + 2, read.at + 3))
        next == read.at + 4 + len
        tag == [typ |-> Num(SubSeq(d, read.at, read.at + 1)),
                times |-> Words(SubSeq(d, read.at + 4, next - 1), 8)]
    IN  IF read.at + 3 > Len(d) \/ next > Len(d) + 1 THEN read
        ELSE [at |-> next, tags |-> Append(read.tags, tag)]

ReadTags(d) ==
    LET read[k \in 0..Len(d)] ==
            IF k = 0 THEN [at |-> 5, tags |-> << >>]
            ELSE ReadTag(d, read[k - 1])
    IN  read[Len(d)]

ParseNtfs(d) ==
    LET read == ReadTags(d)
        f == [id |-> "Ntfs", tags |-> read.tags]
    IN  Valid(Len(d) >= 4 /\ read.at = Len(d) + 1 /\ NtfsTimes(f) # {}, f)

\* Mutant of ParseTimestamp: the bits alone say how many times there are.
ParseTimestampStrict(d) ==
    LET f == [id |-> "Timestamp", bits |-> BitsOf(d[1]),
              times |-> Words(From(d, 2), 4)]
    IN  Valid(Len(d) >= 1 /\ Len(d) = 1 + 4 * Len(Announced(f)), f)

ParseTimestamp(d) ==
    LET f == [id |-> "Timestamp", bits |-> BitsOf(d[1]),
              times |-> Words(From(d, 2), 4)]
    IN  Valid(Len(d) % 4 = 1 /\ ExtendedTimes(f) # {}, f)

\* UnicodeComment and UnicodeName.
ParseUnicode(id, d) ==
    Valid(Len(d) >= 5 /\ d[1] = 1 /\ NotUtf8 \notin {d[k] : k \in 6..Len(d)},
          [id |-> id, crc |-> Num(SubSeq(d, 2, 5)), text |-> From(d, 6)])

\* A version, and two identities with their lengths; nobody uses them.
ParseUnixNew(d) ==
    Valid(/\ Len(d) >= 2
          /\ Len(d) >= 3 + d[2]
          /\ Len(d) = 3 + d[2] + d[3 + d[2]], Ignored)

ParseAes(d) ==
    Valid(/\ Len(d) = 7
          /\ Num(SubSeq(d, 1, 2)) \in {1, 2}
          /\ Num(SubSeq(d, 3, 4)) = Vendor
          /\ d[5] \in {1, 2, 3},
          [id |-> "Aes", check_crc32 |-> Num(SubSeq(d, 1, 2)) = 1,
           method |-> Num(SubSeq(d, 6, 7))])

\* The match of ExtraField::parse.
ParseData(id, d) ==
    CASE id = IdOf["Zip64"] -> ParseZip64(d)
      [] id = IdOf["Ntfs"] -> ParseNtfs(d)
      [] id = IdOf["Timestamp"] -> ParseTimestamp(d)
      [] id = IdOf["UnicodeComment"] -> ParseUnicode("UnicodeComment", d)
      [] id = IdOf["UnicodeName"] -> ParseUnicode("UnicodeName", d)
      [] id = IdOf["UnixNew"] -> ParseUnixNew(d)
      [] id = IdOf["Aes"] -> ParseAes(d)
      [] OTHER -> Ignored

-------------------------------------------------------------------------------
(***************************************************************************)
(* What a writer lays out for a field.  One that is not known, or that no  *)
(* parser takes, is given as [id |-> "Raw", number, bytes, good].          *)
(***************************************************************************)
\* Without(n, w)[k] is n without its k lowest bytes, for k up to w.
Without(n, w) ==
    LET left[k \in 0..w] == IF k = 0 THEN n ELSE left[k - 1] \div Base
    IN  left

Bytes(n, w) == [k \in 1..w |-> Without(n, w)[k - 1] % Base]
BytesOf(ns, w) == FlattenSeq([k \in DOMAIN ns |-> Bytes(ns[k], w)])

LayoutTag(t) ==
    Bytes(t.typ, 2) \o Bytes(8 * Len(t.times), 2) \o BytesOf(t.times, 8)

Layout(f) ==
    CASE f.id = "Zip64" -> BytesOf(f.values, 8)
      [] f.id = "Ntfs" ->
            Bytes(0, 4) \o FlattenSeq([k \in DOMAIN f.tags |->
                                          LayoutTag(f.tags[k])])
      [] f.id = "Timestamp" ->
            << CHOOSE byte \in 0..(Base - 1) : BitsOf(byte) = f.bits >>
                \o BytesOf(f.times, 4)
      [] f.id \in {"UnicodeComment", "UnicodeName"} ->
            << 1 >> \o Bytes(f.crc, 4) \o f.text
      [] f.id = "Aes" ->
            Bytes(IF f.check_crc32 THEN 1 ELSE 2, 2) \o Bytes(Vendor, 2)
                \o << 1 >> \o Bytes(f.method, 2)
      [] f.id = "Raw" -> f.bytes

NumberOf(f) == IF f.id = "Raw" THEN f.number ELSE IdOf[f.id]

Encode(f) ==
    Bytes(NumberOf(f), 2) \o Bytes(Len(Layout(f)), 2) \o Layout(f)

EncodeAll(fs) == FlattenSeq([k \in DOMAIN fs |-> Encode(fs[k])])

Zeros(n) == [k \in 1..n |-> 0]

\* A number of w bytes, and sequences of such numbers.
IsNum(n, w) == n \in Nat /\ Without(n, w)[w] = 0
AreNums(ns, w) == ns \in Seq(Nat) /\ \A k \in DOMAIN ns : IsNum(ns[k], w)

\* A field whose numbers fit their widths and that a parser can take.  One that
\* is given by its bytes says whether it is taken, and then means nothing.
CanBeLaidOut(f) ==
    /\ f.id \in (Kinds \ {"UnixNew"}) \cup {"Raw"}
    /\ IsNum(Len(Layout(f)), 2)
    /\ f.id = "Zip64" =>
          f = [id |-> "Zip64", values |-> f.values] /\ AreNums(f.values, 8)
    /\ f.id = "Ntfs" =>
          /\ f = [id |-> "Ntfs", tags |-> f.tags]
          /\ f.tags \in Seq([typ: Nat, times: Seq(Nat)])
          /\ \A k \in DOMAIN f.tags :
                /\ IsNum(f.tags[k].typ, 2) /\ AreNums(f.tags[k].times, 8)
                /\ IsNum(8 * Len(f.tags[k].times), 2)
          /\ NtfsTimes(f) # {}
    /\ f.id = "Timestamp" =>
          /\ f = [id |-> "Timestamp", bits |-> f.bits, times |-> f.times]
          /\ \E byte \in 0..(Base - 1) : BitsOf(byte) = f.bits
          /\ AreNums(f.times, 4) /\ ExtendedTimes(f) # {}
    /\ f.id \in {"UnicodeComment", "UnicodeName"} =>
          /\ f = [id |-> f.id, crc |-> f.crc, text |-> f.text]
          /\ IsNum(f.crc, 4) /\ f.text \in Seq(0..(Base - 1))
          /\ NotUtf8 \notin {f.text[k] : k \in DOMAIN f.text}
    /\ f.id = "Aes" =>
          /\ f = [id |-> "Aes", check_crc32 |-> f.check_crc32,
                  method |-> f.method]
          /\ f.check_crc32 \in BOOLEAN /\ IsNum(f.method, 2)
    /\ f.id = "Raw" =>
          /\ IsNum(f.number, 2) /\ f.good \in BOOLEAN
          /\ f.bytes \in Seq(0..(Base - 1))
          /\ ParseData(f.number, f.bytes) = IF f.good THEN Ignored ELSE Cut

ASSUME GivenAssumption ==
    \A fs \in Given : /\ fs \in Seq({fs[k] : k \in DOMAIN fs})
                       /\ \A k \in DOMAIN fs : CanBeLaidOut(fs[k])

-------------------------------------------------------------------------------
\* The header has up to three zeros after its fields, and may be cut.
FieldsInit ==
    /\ given \in Given
    /\ \E n \in 0..3 :
          LET whole == EncodeAll(given) \o Zeros(n)
          IN  \E len \in 0..Len(whole) : data = SubSeq(whole, 1, len)
    /\ rest = data
    /\ fields = << >>
    /\ outcome = "fields"

\* Mutant of Padding: zeros are not accepted.
NoPadding == {<< >>}

\* "Accept padding null bytes although this is not spec compliant"
Padding == { Zeros(n) : n \in 0..3 }

\* Mutant of FieldData: a parser may go on into the next field.
FieldDataOpen(len) == From(rest, 5)

\* read_variable
FieldData(len) == SubSeq(rest, 5, 4 + len)

EndOfFields ==
    /\ outcome = "fields"
    /\ rest \in Padding
    /\ outcome' = "done"
    /\ UNCHANGED << given, data, rest, fields >>

\* ExtraField::parse: the next field, or Invalid, at which
\* parse_extra_fields returns; the iterator would go on.
ParseField ==
    LET len == Num(SubSeq(rest, 3, 4))
        field == IF Len(rest) < 4 \/ Len(rest) < 4 + len THEN Cut
                 ELSE ParseData(Num(SubSeq(rest, 1, 2)), FieldData(len))
    IN  /\ outcome = "fields"
        /\ rest \notin Padding
        /\ \/ /\ field = Cut
              /\ outcome' = "refused"
              /\ UNCHANGED << rest, fields >>
           \/ /\ field # Cut
              /\ fields' = Append(fields, field)
              /\ rest' = From(rest, 5 + len)
              /\ UNCHANGED outcome
        /\ UNCHANGED << given, data >>

FieldsNext == EndOfFields \/ ParseField

FieldsSpec == FieldsInit /\ [][FieldsNext]_fieldVars

-------------------------------------------------------------------------------
Meaning(f) == IF f.id # "Raw" THEN f ELSE IF f.good THEN Ignored ELSE Cut

(***************************************************************************)
(* The fields that the iterator returns are those that were laid out, one  *)
(* after the other, whatever follows them and wherever the header is cut.  *)
(***************************************************************************)
FieldsAsWritten ==
    /\ Len(fields) <= Len(given)
    /\ \A k \in DOMAIN fields : fields[k] = Meaning(given[k])

(***************************************************************************)
(* A header is refused exactly when it is cut inside of a field, or when a *)
(* field in it is one that no parser takes: no field is dropped without a  *)
(* word, and the zeros of a careless writer are no field.                  *)
(***************************************************************************)
EndsAtField(n) ==
    /\ \E zeros \in 0..3 :
          data = EncodeAll(SubSeq(given, 1, n)) \o Zeros(zeros)
    /\ \A k \in 1..n : Meaning(given[k]) # Cut

CutIsRefused ==
    /\ outcome = "done" => EndsAtField(Len(fields))
    /\ outcome = "refused" => \A n \in 0..Len(given) : ~EndsAtField(n)
===============================================================================
