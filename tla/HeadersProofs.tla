---------------------------- MODULE HeadersProofs ----------------------------
(***************************************************************************)
(* Theorems about headers and their extra fields, for fields of any number *)
(* and order: what of the two headers ends up in the entry that is listed, *)
(* that the writer's own headers are accepted and listed as they were      *)
(* given, and that each name finds its entry.                              *)
(***************************************************************************)
EXTENDS WriterHeaders, EntryNames, FiniteSetTheorems, Induction

(***************************************************************************)
(* What one extra field changes.                                           *)
(***************************************************************************)
Keys == {"name", "type", "comment", "enc", "method", "crc", "csize", "usize",
         "offset", "flags", "zip64", "mtime", "atime", "ctime"}

\* The two entries agree in these keys.
Same(o, e, keys) == \A key \in keys : o[key] = e[key]

Sizes == {"usize", "csize", "offset", "zip64"}
TimeKeys == {"mtime", "atime", "ctime"}

LEMMA Zip64Changes ==
    ASSUME NEW e, DOMAIN e = Keys, NEW f, NEW o \in OnZip64(e, f)
    PROVE  /\ DOMAIN o = Keys /\ Same(o, e, Keys \ Sizes)
           /\ Len(f.values) = Saturated(e)
           /\ o.usize = IF e.usize = Sat THEN f.values[1] ELSE e.usize
           /\ o.csize = IF e.csize = Sat
                        THEN f.values[1 + Count(e.usize = Sat)] ELSE e.csize
           /\ o.offset = IF e.offset = Sat THEN f.values[Len(f.values)]
                         ELSE e.offset
           /\ o.zip64 = TRUE
BY DEF OnZip64, Only, Keys, Same, Sizes

LEMMA TimesChange ==
    ASSUME NEW e, DOMAIN e = Keys, NEW times, NEW o \in OnTimes(e, times)
    PROVE  /\ DOMAIN o = Keys /\ Same(o, e, Keys \ TimeKeys)
           /\ \E t \in times : Same(o, t, TimeKeys)
BY DEF OnTimes, Keys, Same, TimeKeys

LEMMA NameChanges ==
    ASSUME NEW e, DOMAIN e = Keys, NEW f, NEW crc,
           NEW o \in OnUnicodeName(e, f, crc)
    PROVE  /\ DOMAIN o = Keys /\ Same(o, e, Keys \ {"name"})
           /\ o.name = f.text /\ {f.crc} = crc
BY DEF OnUnicodeName, ValidateName, Only, Keys, Same

LEMMA CommentChanges ==
    ASSUME NEW e, DOMAIN e = Keys, NEW f, NEW crc,
           NEW o \in OnUnicodeComment(e, f, crc)
    PROVE  DOMAIN o = Keys /\ Same(o, e, Keys \ {"comment"})
BY DEF OnUnicodeComment, Only, Keys, Same

LEMMA AesChanges ==
    ASSUME NEW e, DOMAIN e = Keys, NEW f, NEW o \in OnAes(e, f)
    PROVE  /\ DOMAIN o = Keys /\ Same(o, e, Keys \ {"enc", "method"})
           /\ e.method = "AES" /\ e.enc = "ZipCrypto"
           /\ f.check_crc32 \/ e.crc = 0
           /\ o.enc = "Aes" /\ o.method = f.method
BY DEF OnAes, Only, Keys, Same

\* Two lists of times that a field may be taken for are the same.
LEMMA OneList ==
    ASSUME NEW f
    PROVE  /\ \A s, t \in NtfsTimes(f) : s = t
           /\ \A s, t \in ExtendedTimes(f) : s = t
<1>1. \A s, t \in NtfsTimes(f) : s = t
  BY DEF NtfsTimes, Only
<1>2. \A s, t \in ExtendedTimes(f) : s = t
  BY DEF ExtendedTimes, Only
<1> QED
  BY <1>1, <1>2

LEMMA FieldTimes ==
    ASSUME NEW f, NEW t,
           \/ f.id = "Ntfs" /\ t \in NtfsTimes(f)
           \/ f.id = "Timestamp" /\ t \in ExtendedTimes(f)
    PROVE  TimesIn(f) = t /\ TimesOf(f) = {t}
BY OneList DEF TimesIn, TimesOf

\* The arms of parse_extra_fields leave alone what is not their matter.
LEMMA FieldChanges ==
    ASSUME NEW e, DOMAIN e = Keys, NEW f, f.id \in FieldIds,
           NEW crc, NEW comment_crc, NEW o \in OnField(e, f, crc, comment_crc)
    PROVE  /\ DOMAIN o = Keys
           /\ Same(o, e, {"type", "flags", "crc"})
           /\ f.id = "Zip64" => o \in OnZip64(e, f)
           /\ f.id # "Zip64" => Same(o, e, Sizes)
           /\ f.id \in {"Ntfs", "Timestamp"} =>
                TimesOf(f) # {} /\ Same(o, TimesIn(f), TimeKeys)
           /\ f.id \notin {"Ntfs", "Timestamp"} => Same(o, e, TimeKeys)
           /\ f.id = "UnicodeName" => o.name = f.text /\ {f.crc} = crc
           /\ f.id # "UnicodeName" => o.name = e.name
           /\ f.id # "UnicodeComment" => o.comment = e.comment
           /\ f.id = "Aes" =>
                /\ e.method = "AES" /\ e.enc = "ZipCrypto"
                /\ f.check_crc32 \/ e.crc = 0
                /\ o.enc = "Aes" /\ o.method = f.method
           /\ f.id # "Aes" => o.enc = e.enc /\ o.method = e.method
<1>1. CASE f.id = "Zip64"
  <2>1. o \in OnZip64(e, f)
    BY <1>1 DEF OnField
  <2>2. DOMAIN o = Keys /\ Same(o, e, Keys \ Sizes)
    BY <2>1, Zip64Changes
  <2> QED
    BY <1>1, <2>1, <2>2 DEF Same, Keys, Sizes, TimeKeys
<1>2. CASE f.id = "Ntfs"
  <2>1. o \in OnTimes(e, NtfsTimes(f))
    BY <1>2 DEF OnField
  <2>2. DOMAIN o = Keys /\ Same(o, e, Keys \ TimeKeys)
        /\ \E t \in NtfsTimes(f) : Same(o, t, TimeKeys)
    BY <2>1, TimesChange
  <2>3. Same(o, TimesIn(f), TimeKeys) /\ TimesOf(f) # {}
    BY <1>2, <2>2, FieldTimes
  <2> QED
    BY <1>2, <2>2, <2>3 DEF Same, Keys, Sizes, TimeKeys
<1>3. CASE f.id = "Timestamp"
  <2>1. o \in OnTimes(e, ExtendedTimes(f))
    BY <1>3 DEF OnField
  <2>2. DOMAIN o = Keys /\ Same(o, e, Keys \ TimeKeys)
        /\ \E t \in ExtendedTimes(f) : Same(o, t, TimeKeys)
    BY <2>1, TimesChange
  <2>3. Same(o, TimesIn(f), TimeKeys) /\ TimesOf(f) # {}
    BY <1>3, <2>2, FieldTimes
  <2> QED
    BY <1>3, <2>2, <2>3 DEF Same, Keys, Sizes, TimeKeys
<1>4. CASE f.id = "UnicodeComment"
  <2>1. o \in OnUnicodeComment(e, f, comment_crc)
    BY <1>4 DEF OnField
  <2>2. DOMAIN o = Keys /\ Same(o, e, Keys \ {"comment"})
    BY <2>1, CommentChanges
  <2> QED
    BY <1>4, <2>2 DEF Same, Keys, Sizes, TimeKeys
<1>5. CASE f.id = "UnicodeName"
  <2>1. o \in OnUnicodeName(e, f, crc)
    BY <1>5 DEF OnField
  <2>2. /\ DOMAIN o = Keys /\ Same(o, e, Keys \ {"name"})
        /\ o.name = f.text /\ {f.crc} = crc
    BY <2>1, NameChanges
  <2> QED
    BY <1>5, <2>2 DEF Same, Keys, Sizes, TimeKeys
<1>6. CASE f.id = "Aes"
  <2>1. o \in OnAes(e, f)
    BY <1>6 DEF OnField
  <2>2. /\ DOMAIN o = Keys /\ Same(o, e, Keys \ {"enc", "method"})
        /\ e.method = "AES" /\ e.enc = "ZipCrypto"
        /\ f.check_crc32 \/ e.crc = 0
        /\ o.enc = "Aes" /\ o.method = f.method
    BY <2>1, AesChanges
  <2> QED
    BY <1>6, <2>2 DEF Same, Keys, Sizes, TimeKeys
<1>7. CASE f.id = "Ignored"
  <2>1. o = e
    BY <1>7 DEF OnField
  <2> QED
    BY <1>7, <2>1 DEF Same
<1>8. CASE f.id = "Cut"
  BY <1>8 DEF OnField
<1> QED
  BY <1>1, <1>2, <1>3, <1>4, <1>5, <1>6, <1>7, <1>8 DEF FieldIds

\* What a header says before its extra fields are read.
LEMMA CentralHeader ==
    ASSUME NEW h, NEW e \in FromCentralHeader(h)
    PROVE  /\ DOMAIN e = Keys
           /\ e.name = Text(h.name)
           /\ e.type \in FileTypeTest(h.attr, e.name)
           /\ e.flags = h.flags /\ e.method = h.method /\ e.crc = h.crc
           /\ e.usize = h.usize /\ e.csize = h.csize /\ e.offset = h.offset
           /\ e.zip64 = FALSE /\ Same(e, NoTimes, TimeKeys)
           /\ e.enc \in Encryption(h.flags)
<1>1. PICK n \in NameOf(h) :
         \E t \in FileTypeTest(h.attr, n), enc \in Encryption(h.flags),
            c \in ConvertString(h.comment, ForceUnicode(h)) :
              e = Fresh(h, n, t, c.text, enc, h.offset)
  BY DEF FromCentralHeader
<1>2. n = Text(h.name)
  BY DEF NameOf, ConvertString, ValidateName, Only
<1> QED
  BY <1>1, <1>2 DEF Fresh, Same, NoTimes, TimeKeys, Keys

LEMMA LocalHeader ==
    ASSUME NEW h, NEW e \in FromLocalHeader(h)
    PROVE  /\ DOMAIN e = Keys
           /\ e.name = Text(h.name)
           /\ e.flags = h.flags /\ e.method = h.method /\ e.crc = h.crc
           /\ e.usize = h.usize /\ e.csize = h.csize /\ e.offset = 0
           /\ e.zip64 = FALSE /\ Same(e, NoTimes, TimeKeys)
           /\ e.enc \in Encryption(h.flags)
<1>1. PICK n \in NameOf(h), enc \in Encryption(h.flags) :
         e = Fresh(h, n, "File", NoComment, enc, 0)
  BY DEF FromLocalHeader
<1>2. n = Text(h.name)
  BY DEF NameOf, ConvertString, ValidateName, Only
<1> QED
  BY <1>1, <1>2 DEF Fresh, Same, NoTimes, TimeKeys, Keys

-------------------------------------------------------------------------------
(***************************************************************************)
(* parse_extra_fields as a whole: a fold over the fields, of which the     *)
(* type of the entry is never part and the name only with a Unicode name.  *)
(***************************************************************************)
LEMMA ParsedFields ==
    ASSUME NEW h, HeaderLike(h), NEW e, DOMAIN e = Keys,
           NEW o \in ParseExtraFields(e, h)
    PROVE  /\ DOMAIN o = Keys /\ o.type = e.type
           /\ ~Renamed(h) => o.name = e.name
<1> DEFINE n == Len(h.extra)
           turn(opt, f) ==
               UNION { OnField(p, f, CrcOf(h.name, ForceUnicode(h)),
                               CrcOf(h.comment, ForceUnicode(h))) : p \in opt }
           next1(g, k) == IF k = 0 THEN {e} ELSE turn(g[k - 1], h.extra[k])
           UpTo(g, m) == g = [k \in 0..m |-> next1(g, k)]
           after == CHOOSE g : UpTo(g, n)
           T == {m \in Nat : \E g : UpTo(g, m)}
<1>1. n \in Nat /\ \A k \in 1..n : h.extra[k].id \in FieldIds
  BY DEF HeaderLike, FieldLike
<1>2. 0 \in T
  <2>1. UpTo([k \in 0..0 |-> {e}], 0)
    BY DEF UpTo
  <2> HIDE DEF UpTo
  <2> QED
    BY <2>1
<1>3. ASSUME NEW m \in Nat, m \in T PROVE m + 1 \in T
  <2>1. PICK g : UpTo(g, m)
    BY <1>3
  <2> DEFINE new == turn(g[m], h.extra[m + 1])
             g1 == [k \in 0..(m + 1) |-> IF k = m + 1 THEN new ELSE g[k]]
  <2>2. ASSUME NEW k \in 0..(m + 1) PROVE g1[k] = next1(g1, k)
    <3> HIDE DEF turn
    <3>1. CASE k = m + 1
      <4>1. k - 1 = m /\ k # 0 /\ m \in 0..(m + 1) /\ m # m + 1
        BY <3>1
      <4> QED
        BY <3>1, <4>1
    <3>2. CASE k # m + 1
      <4>1. k \in 0..m /\ g1[k] = g[k]
        BY <3>2
      <4>2. g[k] = next1(g, k)
        BY <2>1, <4>1
      <4>3. k # 0 => k - 1 \in 0..m /\ g1[k - 1] = g[k - 1]
        BY <3>2
      <4> QED
        BY <4>1, <4>2, <4>3
    <3> QED
      BY <3>1, <3>2
  <2>3. UpTo(g1, m + 1)
    <3>1. g1 = [k \in 0..(m + 1) |-> g1[k]]
      OBVIOUS
    <3> HIDE DEF g1, next1
    <3> QED
      BY <2>2, <3>1
  <2>4. m + 1 \in Nat
    OBVIOUS
  <2> HIDE DEF UpTo, g1
  <2> QED
    BY <2>3, <2>4
<1>4. UpTo(after, n)
  <2>1. n \in T
    <3> HIDE DEF T
    <3> QED
      BY <1>1, <1>2, <1>3, NatInductionSet
  <2> HIDE DEF UpTo
  <2> QED
    BY <2>1
<1>5. \A k \in 0..n : after[k] = next1(after, k)
  <2> HIDE DEF after, next1, n
  <2> QED
    BY <1>4
<1>6. o \in after[n]
  BY DEF ParseExtraFields
<1> HIDE DEF after
<1> DEFINE Kept(p) == /\ DOMAIN p = Keys /\ p.type = e.type
                      /\ ~Renamed(h) => p.name = e.name
           U == {k \in 0..n : \A p \in after[k] : Kept(p)}
<1>7. 0 \in U
  <2>1. 0 \in 0..n
    BY <1>1
  <2>2. after[0] = {e}
    <3> HIDE DEF n, turn
    <3> QED
      BY <1>5, <2>1
  <2> QED
    BY <2>1, <2>2
<1>8. ASSUME NEW k \in Nat, k < n, k \in U PROVE k + 1 \in U
  <2>1. k + 1 \in 1..n /\ k + 1 \in 0..n /\ k + 1 # 0 /\ (k + 1) - 1 = k
    BY <1>1, <1>8
  <2> DEFINE f == h.extra[k + 1]
  <2>2. f.id \in FieldIds /\ (~Renamed(h) => f.id # "UnicodeName")
    BY <1>1, <2>1 DEF Renamed, HeaderLike, FieldLike
  <2>3. after[k + 1] = turn(after[k], f)
    <3> HIDE DEF n, turn
    <3> QED
      BY <1>5, <2>1
  <2> SUFFICES ASSUME NEW p \in after[k + 1] PROVE Kept(p)
    BY <2>1
  <2> HIDE DEF n, f
  <2>4. PICK q \in after[k] :
           p \in OnField(q, f, CrcOf(h.name, ForceUnicode(h)),
                         CrcOf(h.comment, ForceUnicode(h)))
    BY <2>3
  <2>5. Kept(q)
    BY <1>8
  <2>6. /\ DOMAIN p = Keys /\ Same(p, q, {"type", "flags", "crc"})
        /\ f.id # "UnicodeName" => p.name = q.name
    BY <2>2, <2>4, <2>5, FieldChanges
  <2> QED
    BY <2>2, <2>5, <2>6 DEF Same
<1>9. \A k \in 0..n : k \in U
  <2> HIDE DEF U, n
  <2> QED
    BY <1>1, <1>7, <1>8, BoundedInduction
<1>10. n \in U
  BY <1>1, <1>9
<1> QED
  BY <1>6, <1>10

-------------------------------------------------------------------------------
(***************************************************************************)
(* Names of entries.                                                       *)
(***************************************************************************)
\* FileType::test lets a name end in '/' for directories only.
LEMMA TypeFitsName ==
    ASSUME NEW attr, NEW name, name.slash \in BOOLEAN,
           NEW type \in FileTypeTest(attr, name)
    PROVE  (type = "Directory") = name.slash
BY DEF FileTypeTest, Only

LEMMA CentralEntry ==
    ASSUME NEW h \in Headers, NEW e \in ReadCentralHeader(h)
    PROVE  ~Renamed(h) => (e.type = "Directory") = e.name.slash
<1>1. HeaderLike(h)
  BY NamesAssumption
<1>2. PICK c \in FromCentralHeader(h) : e \in ParseExtraFields(c, h)
  BY DEF ReadCentralHeader
<1>3. /\ DOMAIN c = Keys /\ c.name = Text(h.name)
      /\ c.type \in FileTypeTest(h.attr, c.name)
  BY <1>2, CentralHeader
<1>4. c.name.slash \in BOOLEAN
  BY <1>1, <1>3 DEF HeaderLike, FieldLike, Text
<1>5. (c.type = "Directory") = c.name.slash
  BY <1>3, <1>4, TypeFitsName
<1>6. e.type = c.type /\ (~Renamed(h) => e.name = c.name)
  BY <1>1, <1>2, <1>3, ParsedFields
<1> QED
  BY <1>5, <1>6

Listed == UNION { ReadCentralHeader(h) : h \in Headers }

(***************************************************************************)
(* The invariant: `entries' is made of the headers read, and `names' has   *)
(* the first of them, no two of which share a name.                        *)
(***************************************************************************)
NamesInv ==
    /\ read \in Seq(Headers) /\ entries \in Seq(Listed)
    /\ Len(read) = Len(entries)
    /\ \A k \in 1..Len(entries) : entries[k] \in ReadCentralHeader(read[k])
    /\ Cardinality(names) \in 0..Len(entries)
    /\ names = 1..Cardinality(names)
    /\ \A j, k \in names :
          entries[j].name.base = entries[k].name.base => j = k
    /\ phase = "headers" => names = {}
    /\ phase = "open" => Cardinality(names) = Len(entries)

LEMMA NamesInitInv == NamesInit => NamesInv
<1> SUFFICES ASSUME NamesInit PROVE NamesInv
  OBVIOUS
<1>1. /\ read = << >> /\ entries = << >> /\ names = {} /\ phase = "headers"
  BY DEF NamesInit
<1>2. Cardinality(names) = 0
  BY <1>1, FS_EmptySet
<1>3. Len(entries) = 0 /\ Len(read) = 0 /\ 1..0 = {} /\ 0 \in 0..0
  BY <1>1
<1>4. read \in Seq(Headers) /\ entries \in Seq(Listed)
  BY <1>1
<1> QED
  BY <1>1, <1>2, <1>3, <1>4 DEF NamesInv

LEMMA ReadEntryInv == NamesInv /\ ReadEntry => NamesInv'
<1> SUFFICES ASSUME NamesInv, ReadEntry PROVE NamesInv'
  OBVIOUS
<1>1. phase = "headers" /\ names = {} /\ names' = names
  BY DEF NamesInv, ReadEntry, RefuseArchive
<1>2. CASE phase' = "refused" /\ UNCHANGED << read, entries >>
  BY <1>1, <1>2 DEF NamesInv
<1>3. ASSUME NEW h \in Headers, NEW e \in ReadCentralHeader(h),
             entries' = Append(entries, e), read' = Append(read, h),
             phase' = phase
      PROVE  NamesInv'
  <2> DEFINE n == Len(entries)
  <2>1. /\ read \in Seq(Headers) /\ entries \in Seq(Listed) /\ n \in Nat
        /\ Len(read) = n /\ e \in Listed
    BY DEF NamesInv, Listed
  <2>2. /\ read' \in Seq(Headers) /\ entries' \in Seq(Listed)
        /\ Len(read') = n + 1 /\ Len(entries') = n + 1
        /\ entries'[n + 1] = e /\ read'[n + 1] = h
        /\ \A k \in 1..n : entries'[k] = entries[k] /\ read'[k] = read[k]
    BY <1>3, <2>1
  <2>3. \A k \in 1..n : entries[k] \in ReadCentralHeader(read[k])
    BY DEF NamesInv
  <2>4. \A k \in 1..(n + 1) : entries'[k] \in ReadCentralHeader(read'[k])
    <3> SUFFICES ASSUME NEW k \in 1..(n + 1)
                 PROVE  entries'[k] \in ReadCentralHeader(read'[k])
      OBVIOUS
    <3>1. CASE k = n + 1
      BY <1>3, <2>2, <3>1
    <3>2. CASE k # n + 1
      <4>1. k \in 1..n
        BY <2>1, <3>2
      <4> QED
        BY <2>2, <2>3, <4>1
    <3> QED
      BY <3>1, <3>2
  <2>5. Cardinality(names) = 0 /\ 0 \in 0..(n + 1) /\ 1..0 = {}
    BY <1>1, <2>1, FS_EmptySet
  <2> QED
    BY <1>1, <1>3, <2>2, <2>4, <2>5 DEF NamesInv
<1> QED
  BY <1>2, <1>3 DEF ReadEntry, RefuseArchive

LEMMA InsertNameInv == NamesInv /\ InsertName => NamesInv'
<1> SUFFICES ASSUME NamesInv, InsertName PROVE NamesInv'
  OBVIOUS
<1> DEFINE k == Cardinality(names)
           new == k + 1
<1>1. /\ phase = "names" /\ k < Len(entries)
      /\ read' = read /\ entries' = entries
  BY DEF InsertName, Insert, RefuseArchive
<1>2. /\ entries \in Seq(Listed) /\ Len(entries) \in Nat /\ k \in Nat
      /\ names = 1..k
  BY DEF NamesInv
<1>3. CASE phase' = "refused" /\ names' = names
  BY <1>1, <1>3 DEF NamesInv
<1>4. CASE /\ Found(entries[new].name.base) = {}
           /\ names' = names \cup {new} /\ phase' = phase
  <2>1. names' = 1..new
    BY <1>2, <1>4
  <2>2. Cardinality(1..new) = new
    BY <1>2, FS_Interval
  <2>3. Cardinality(names') = new /\ new \in 0..Len(entries)
    BY <1>1, <1>2, <2>1, <2>2
  <2>4. \A j \in names : entries[j].name.base # entries[new].name.base
    BY <1>4 DEF Found
  <2>5. \A i, j \in names' :
           entries[i].name.base = entries[j].name.base => i = j
    BY <1>4, <2>4 DEF NamesInv
  <2> QED
    BY <1>1, <1>4, <2>1, <2>3, <2>5 DEF NamesInv
<1> QED
  BY <1>1, <1>3, <1>4 DEF InsertName, Insert, RefuseArchive

LEMMA NamesAlways == NamesSpec => []NamesInv
<1>1. NamesInv /\ [NamesNext]_namesVars => NamesInv'
  <2> SUFFICES ASSUME NamesInv, [NamesNext]_namesVars PROVE NamesInv'
    OBVIOUS
  <2>1. CASE EndHeaders
    BY <2>1 DEF EndHeaders, NamesInv
  <2>2. CASE Open
    BY <2>2 DEF Open, NamesInv
  <2>3. CASE UNCHANGED namesVars
    BY <2>3 DEF namesVars, NamesInv
  <2> QED
    BY <2>1, <2>2, <2>3, ReadEntryInv, InsertNameInv DEF NamesNext
<1> QED
  BY <1>1, NamesInitInv, PTL DEF NamesSpec

\* The table has one entry for each name in an open archive.
LEMMA OneForEachName ==
    ASSUME NamesInv, phase = "open", NEW i \in DOMAIN entries
    PROVE  Found(entries[i].name.base) = {i}
<1>1. i \in names
  BY DEF NamesInv
<1> QED
  BY <1>1 DEF Found, NamesInv

\* RawArchive::index_of finds each entry of an open archive, under its name
\* with a '/' or under its name without one, and no other entry there,
\* however many entries there are and whatever fields name them.
THEOREM EveryEntryFoundOnce == NamesSpec => []FoundOnce
<1>1. ASSUME NamesInv PROVE FoundOnce
  <2> SUFFICES ASSUME phase = "open", NEW i \in DOMAIN entries
               PROVE  \E slash \in BOOLEAN :
                        LET asked(s) == [base |-> entries[i].name.base,
                                         slash |-> s]
                        IN  /\ IndexOf(asked(slash)) = {i}
                            /\ IndexOf(asked(~slash)) = {}
    BY DEF FoundOnce
  <2> DEFINE dir == entries[i].type = "Directory"
             asked(s) == [base |-> entries[i].name.base, slash |-> s]
  <2>1. Found(entries[i].name.base) = {i}
    BY <1>1, OneForEachName
  <2>2. \A s \in BOOLEAN : IndexOf(asked(s)) = {j \in {i} : dir = s}
    BY <2>1 DEF IndexOf
  <2>3. IndexOf(asked(dir)) = {i} /\ IndexOf(asked(~dir)) = {}
    BY <2>2
  <2> QED
    BY <2>3
<1> QED
  BY <1>1, NamesAlways, PTL

\* "Gets the index of a file in [`Self::entries`] by its name" holds for each
\* entry that no Unicode field renames.
THEOREM PlainNamesFound == NamesSpec => []PlainFoundByName
<1>1. ASSUME NamesInv PROVE PlainFoundByName
  <2> SUFFICES ASSUME phase = "open", NEW i \in DOMAIN entries,
                      ~Renamed(read[i])
               PROVE  IndexOf(entries[i].name) = {i}
    BY DEF PlainFoundByName
  <2>1. Found(entries[i].name.base) = {i}
    BY <1>1, OneForEachName
  <2>2. read[i] \in Headers /\ entries[i] \in ReadCentralHeader(read[i])
    BY <1>1 DEF NamesInv
  <2>3. (entries[i].type = "Directory") = entries[i].name.slash
    BY <2>2, CentralEntry
  <2> QED
    BY <2>1, <2>3 DEF IndexOf
<1> QED
  BY <1>1, NamesAlways, PTL

-------------------------------------------------------------------------------
(***************************************************************************)
(* What an entry is like after the first k fields of header h, the one of  *)
(* side s: a part for each kind of field.                                  *)
(***************************************************************************)
Marked(h, k, ids) == {j \in 1..k : h.extra[j].id \in ids}

Offset(s, h) == IF s = "central" THEN h.offset ELSE 0

SizesFit(s, h, e, k) ==
    LET at == Marked(h, k, {"Zip64"})
    IN  /\ e.zip64 = (at # {})
        /\ at = {} => /\ e.usize = h.usize /\ e.csize = h.csize
                      /\ e.offset = Offset(s, h)
        /\ \A j : at = {j} =>
              LET v == h.extra[j].values
              IN  /\ Len(v) = Count(h.usize = Sat) + Count(h.csize = Sat)
                                + Count(Offset(s, h) = Sat)
                  /\ e.usize = IF h.usize = Sat THEN v[1] ELSE h.usize
                  /\ e.csize = IF h.csize = Sat
                               THEN v[1 + Count(h.usize = Sat)] ELSE h.csize
                  /\ e.offset = IF Offset(s, h) = Sat THEN v[Len(v)]
                                ELSE Offset(s, h)

TimesFit(h, e, k) ==
    LET at == Marked(h, k, {"Ntfs", "Timestamp"})
    IN  /\ Same(e, IF at = {} THEN NoTimes ELSE TimesIn(h.extra[Max(at)]),
                TimeKeys)
        /\ at # {} => TimesOf(h.extra[Max(at)]) # {}

NameFits(h, e, k) ==
    LET at == Marked(h, k, {"UnicodeName"})
    IN  /\ e.name = IF at = {} THEN Text(h.name) ELSE h.extra[Max(at)].text
        /\ \A j \in at : ~h.name.utf8 /\ h.extra[j].crc = h.name

AesFits(h, e, k) ==
    LET at == Marked(h, k, {"Aes"})
    IN  /\ at = {} => e.method = h.method /\ e.enc \in Encryption(h.flags)
        /\ at # {} =>
              e.enc = "Aes" /\ h.method = "AES" /\ "encrypted" \in h.flags
        /\ \A j \in at : /\ e.method = h.extra[j].method
                         /\ h.extra[j].check_crc32 \/ h.crc = 0

RestFits(s, h, e, k) ==
    /\ DOMAIN e = Keys
    /\ e.flags = h.flags /\ e.crc = h.crc
    /\ s = "central" => e.type \in FileTypeTest(h.attr, Text(h.name))
    /\ Marked(h, k, {"UnicodeComment"}) = {} =>
          e.comment = IF s = "central" THEN Text(h.comment) ELSE NoComment

Fits(s, h, e, k) ==
    /\ SizesFit(s, h, e, k) /\ TimesFit(h, e, k) /\ NameFits(h, e, k)
    /\ AesFits(h, e, k) /\ RestFits(s, h, e, k)

FromHeader(s, h) ==
    IF s = "central" THEN FromCentralHeader(h) ELSE FromLocalHeader(h)

LEMMA FitsFirst ==
    ASSUME NEW s \in Sides, NEW h, NEW e \in FromHeader(s, h)
    PROVE  Fits(s, h, e, 0)
<1>1. \A ids : Marked(h, 0, ids) = {}
  BY DEF Marked
<1>2. /\ DOMAIN e = Keys
      /\ e.name = Text(h.name)
      /\ e.flags = h.flags /\ e.method = h.method /\ e.crc = h.crc
      /\ e.usize = h.usize /\ e.csize = h.csize /\ e.offset = Offset(s, h)
      /\ e.zip64 = FALSE /\ Same(e, NoTimes, TimeKeys)
      /\ e.enc \in Encryption(h.flags)
      /\ s = "central" => e.type \in FileTypeTest(h.attr, Text(h.name))
  BY CentralHeader, LocalHeader DEF FromHeader, Offset
<1>3. s = "central" => e.comment = Text(h.comment)
  <2> SUFFICES ASSUME s = "central" PROVE e.comment = Text(h.comment)
    OBVIOUS
  <2>1. PICK n \in NameOf(h) :
           \E t \in FileTypeTest(h.attr, n), enc \in Encryption(h.flags),
              c \in ConvertString(h.comment, ForceUnicode(h)) :
                e = Fresh(h, n, t, c.text, enc, h.offset)
    BY DEF FromCentralHeader, FromHeader
  <2>2. \A c \in ConvertString(h.comment, ForceUnicode(h)) :
           c.text = Text(h.comment)
    BY DEF ConvertString, Only
  <2> QED
    BY <2>1, <2>2 DEF Fresh
<1>4. s # "central" => e.comment = NoComment
  BY DEF FromHeader, FromLocalHeader, Fresh
<1>5. SizesFit(s, h, e, 0)
  BY <1>1, <1>2 DEF SizesFit
<1>6. TimesFit(h, e, 0) /\ NameFits(h, e, 0) /\ AesFits(h, e, 0)
  BY <1>1, <1>2 DEF TimesFit, NameFits, AesFits
<1> QED
  BY <1>2, <1>3, <1>4, <1>5, <1>6 DEF Fits, RestFits

LEMMA MarkedNext ==
    ASSUME NEW h, NEW k \in Nat, k > 0, NEW ids
    PROVE  /\ h.extra[k].id \in ids =>
                /\ Marked(h, k, ids) = Marked(h, k - 1, ids) \cup {k}
                /\ Max(Marked(h, k, ids)) = k
           /\ h.extra[k].id \notin ids =>
                Marked(h, k, ids) = Marked(h, k - 1, ids)
           /\ k \notin Marked(h, k - 1, ids)
<1>1. \A j : j \in 1..k <=> j \in 1..(k - 1) \/ j = k
  OBVIOUS
<1>2. h.extra[k].id \in ids =>
        Marked(h, k, ids) = Marked(h, k - 1, ids) \cup {k}
  BY <1>1 DEF Marked
<1>3. h.extra[k].id \notin ids => Marked(h, k, ids) = Marked(h, k - 1, ids)
  BY <1>1 DEF Marked
<1>4. k \notin Marked(h, k - 1, ids)
  BY DEF Marked
<1>5. ASSUME h.extra[k].id \in ids PROVE Max(Marked(h, k, ids)) = k
  <2> DEFINE at == Marked(h, k, ids)
  <2>1. k \in at /\ \A j \in at : j \in Nat /\ j <= k
    BY <1>5 DEF Marked
  <2> HIDE DEF at
  <2>2. \A j \in at : (\A m \in at : j >= m) => j = k
    BY <2>1
  <2>3. \A m \in at : k >= m
    BY <2>1
  <2>4. Max(at) = k
    BY <2>1, <2>2, <2>3 DEF Max
  <2> QED
    BY <2>4 DEF at
<1> QED
  BY <1>2, <1>3, <1>4, <1>5

LEMMA FitsNext ==
    ASSUME NEW s \in Sides, NEW h, HeaderLike(h), NEW k \in 1..Len(h.extra),
           NEW e, Fits(s, h, e, k - 1), NEW comment_crc,
           NEW o \in OnField(e, h.extra[k], CrcOf(h.name, ForceUnicode(h)),
                             comment_crc)
    PROVE  Fits(s, h, o, k)
<1> DEFINE f == h.extra[k]
           crc == CrcOf(h.name, ForceUnicode(h))
<1>1. k \in Nat /\ k > 0 /\ f.id \in FieldIds
  BY DEF HeaderLike, FieldLike
<1>2. DOMAIN e = Keys /\ e.flags = h.flags /\ e.crc = h.crc
  BY DEF Fits, RestFits
<1>3. /\ DOMAIN o = Keys
      /\ Same(o, e, {"type", "flags", "crc"})
      /\ f.id = "Zip64" => o \in OnZip64(e, f)
      /\ f.id # "Zip64" => Same(o, e, Sizes)
      /\ f.id \in {"Ntfs", "Timestamp"} =>
           TimesOf(f) # {} /\ Same(o, TimesIn(f), TimeKeys)
      /\ f.id \notin {"Ntfs", "Timestamp"} => Same(o, e, TimeKeys)
      /\ f.id = "UnicodeName" => o.name = f.text /\ {f.crc} = crc
      /\ f.id # "UnicodeName" => o.name = e.name
      /\ f.id # "UnicodeComment" => o.comment = e.comment
      /\ f.id = "Aes" =>
           /\ e.method = "AES" /\ e.enc = "ZipCrypto"
           /\ f.check_crc32 \/ e.crc = 0
           /\ o.enc = "Aes" /\ o.method = f.method
      /\ f.id # "Aes" => o.enc = e.enc /\ o.method = e.method
  BY <1>1, <1>2, FieldChanges
<1> HIDE DEF f, crc
<1>4. \A ids : /\ f.id \in ids =>
                    /\ Marked(h, k, ids) = Marked(h, k - 1, ids) \cup {k}
                    /\ Max(Marked(h, k, ids)) = k
               /\ f.id \notin ids => Marked(h, k, ids) = Marked(h, k - 1, ids)
               /\ k \notin Marked(h, k - 1, ids)
  BY <1>1, MarkedNext DEF f
<1>5. SizesFit(s, h, o, k)
  <2>1. CASE f.id = "Zip64"
    <3>1. /\ Marked(h, k, {"Zip64"}) = Marked(h, k - 1, {"Zip64"}) \cup {k}
          /\ k \notin Marked(h, k - 1, {"Zip64"})
      BY <1>4, <2>1
    <3>2. /\ Len(f.values) = Saturated(e)
          /\ o.usize = IF e.usize = Sat THEN f.values[1] ELSE e.usize
          /\ o.csize = IF e.csize = Sat
                       THEN f.values[1 + Count(e.usize = Sat)] ELSE e.csize
          /\ o.offset = IF e.offset = Sat THEN f.values[Len(f.values)]
                        ELSE e.offset
          /\ o.zip64 = TRUE
      BY <1>2, <1>3, <2>1, Zip64Changes
    <3>3. ASSUME NEW j, Marked(h, k, {"Zip64"}) = {j}
          PROVE  /\ j = k
                 /\ e.usize = h.usize /\ e.csize = h.csize
                 /\ e.offset = Offset(s, h)
      <4>1. j = k /\ Marked(h, k - 1, {"Zip64"}) = {}
        BY <3>1, <3>3
      <4> QED
        BY <4>1 DEF Fits, SizesFit
    <3>4. Marked(h, k, {"Zip64"}) # {}
      BY <3>1
    <3> QED
      BY <3>2, <3>3, <3>4 DEF SizesFit, Saturated, f
  <2>2. CASE f.id # "Zip64"
    <3>1. Marked(h, k, {"Zip64"}) = Marked(h, k - 1, {"Zip64"})
      BY <1>4, <2>2
    <3>2. /\ o.usize = e.usize /\ o.csize = e.csize
          /\ o.offset = e.offset /\ o.zip64 = e.zip64
      BY <1>3, <2>2 DEF Same, Sizes
    <3> QED
      BY <3>1, <3>2 DEF Fits, SizesFit
  <2> QED
    BY <2>1, <2>2
<1>6. TimesFit(h, o, k)
  <2> DEFINE ids == {"Ntfs", "Timestamp"}
  <2>1. CASE f.id \in ids
    <3>1. Marked(h, k, ids) # {} /\ Max(Marked(h, k, ids)) = k
      BY <1>4, <2>1
    <3>2. Same(o, TimesIn(f), TimeKeys) /\ TimesOf(f) # {}
      BY <1>3, <2>1
    <3> QED
      BY <3>1, <3>2 DEF TimesFit, f
  <2>2. CASE f.id \notin ids
    <3>1. Marked(h, k, ids) = Marked(h, k - 1, ids)
      BY <1>4, <2>2
    <3>2. Same(o, e, TimeKeys)
      BY <1>3, <2>2
    <3> QED
      BY <3>1, <3>2 DEF Fits, TimesFit, Same
  <2> QED
    BY <2>1, <2>2
<1>7. NameFits(h, o, k)
  <2> DEFINE ids == {"UnicodeName"}
  <2>1. CASE f.id = "UnicodeName"
    <3>1. /\ Marked(h, k, ids) = Marked(h, k - 1, ids) \cup {k}
          /\ Max(Marked(h, k, ids)) = k
      BY <1>4, <2>1
    <3>2. o.name = f.text /\ {f.crc} = crc
      BY <1>3, <2>1
    <3>3. ~h.name.utf8 /\ f.crc = h.name
      <4>1. PICK c \in ConvertString(h.name, ForceUnicode(h)) :
               f.crc \in c.crc
        BY <3>2 DEF crc, CrcOf
      <4> QED
        BY <4>1 DEF ConvertString, Only
    <3>4. \A j \in Marked(h, k - 1, ids) :
             ~h.name.utf8 /\ h.extra[j].crc = h.name
      BY DEF Fits, NameFits
    <3> QED
      BY <3>1, <3>2, <3>3, <3>4 DEF NameFits, f
  <2>2. CASE f.id # "UnicodeName"
    <3>1. Marked(h, k, ids) = Marked(h, k - 1, ids) /\ o.name = e.name
      BY <1>3, <1>4, <2>2
    <3> QED
      BY <3>1 DEF Fits, NameFits
  <2> QED
    BY <2>1, <2>2
<1>8. AesFits(h, o, k)
  <2> DEFINE ids == {"Aes"}
  <2>1. CASE f.id = "Aes"
    <3>1. Marked(h, k, ids) = Marked(h, k - 1, ids) \cup {k}
      BY <1>4, <2>1
    <3>2. /\ e.method = "AES" /\ e.enc = "ZipCrypto"
          /\ f.check_crc32 \/ h.crc = 0
          /\ o.enc = "Aes" /\ o.method = f.method
      BY <1>2, <1>3, <2>1
    <3>3. Marked(h, k - 1, ids) = {}
      BY <3>2 DEF Fits, AesFits
    <3>4. h.method = "AES" /\ "encrypted" \in h.flags
      <4>1. e.method = h.method /\ e.enc \in Encryption(h.flags)
        BY <3>3 DEF Fits, AesFits
      <4> QED
        BY <3>2, <4>1 DEF Encryption, Only
    <3> QED
      BY <3>1, <3>2, <3>3, <3>4 DEF AesFits, f
  <2>2. CASE f.id # "Aes"
    <3>1. /\ Marked(h, k, ids) = Marked(h, k - 1, ids)
          /\ o.enc = e.enc /\ o.method = e.method
      BY <1>3, <1>4, <2>2
    <3> QED
      BY <3>1 DEF Fits, AesFits
  <2> QED
    BY <2>1, <2>2
<1>9. RestFits(s, h, o, k)
  <2>1. /\ o.flags = h.flags /\ o.crc = h.crc /\ o.type = e.type
    BY <1>2, <1>3 DEF Same
  <2>2. Marked(h, k, {"UnicodeComment"}) = {} =>
          /\ o.comment = e.comment
          /\ Marked(h, k - 1, {"UnicodeComment"}) = {}
    BY <1>3, <1>4
  <2> QED
    BY <1>3, <2>1, <2>2 DEF Fits, RestFits
<1> QED
  BY <1>5, <1>6, <1>7, <1>8, <1>9 DEF Fits

-------------------------------------------------------------------------------
(***************************************************************************)
(* Every step of the reader has one outcome at most.                       *)
(***************************************************************************)
AtMostOne(S) == \A a, b \in S : a = b

LEMMA OneHeader ==
    ASSUME NEW s \in Sides, NEW h PROVE AtMostOne(FromHeader(s, h))
<1>1. AtMostOne(ConvertString(h.name, ForceUnicode(h)))
  BY DEF AtMostOne, ConvertString, Only
<1>2. AtMostOne(ConvertString(h.comment, ForceUnicode(h)))
  BY DEF AtMostOne, ConvertString, Only
<1>3. AtMostOne(NameOf(h))
  <2>1. \A text : AtMostOne(ValidateName(text))
    BY DEF AtMostOne, ValidateName, Only
  <2> QED
    BY <1>1, <2>1 DEF AtMostOne, NameOf
<1>4. AtMostOne(Encryption(h.flags))
  BY DEF AtMostOne, Encryption, Only
<1>5. \A n : AtMostOne(FileTypeTest(h.attr, n))
  BY DEF AtMostOne, FileTypeTest, Only
<1>6. AtMostOne(FromLocalHeader(h))
  BY <1>3, <1>4 DEF AtMostOne, FromLocalHeader
<1>7. AtMostOne(FromCentralHeader(h))
  <2> SUFFICES ASSUME NEW a \in FromCentralHeader(h),
                      NEW b \in FromCentralHeader(h)
               PROVE  a = b
    BY DEF AtMostOne
  <2>1. PICK n \in NameOf(h) :
           \E t \in FileTypeTest(h.attr, n), enc \in Encryption(h.flags),
              c \in ConvertString(h.comment, ForceUnicode(h)) :
                a = Fresh(h, n, t, c.text, enc, h.offset)
    BY DEF FromCentralHeader
  <2>2. PICK m \in NameOf(h) :
           \E t \in FileTypeTest(h.attr, m), enc \in Encryption(h.flags),
              c \in ConvertString(h.comment, ForceUnicode(h)) :
                b = Fresh(h, m, t, c.text, enc, h.offset)
    BY DEF FromCentralHeader
  <2>3. n = m
    BY <1>3 DEF AtMostOne
  <2> QED
    BY <1>2, <1>4, <1>5, <2>1, <2>2, <2>3 DEF AtMostOne
<1> QED
  BY <1>6, <1>7 DEF FromHeader

LEMMA OneField ==
    ASSUME NEW e, NEW f, f.id \in FieldIds, NEW crc, NEW comment_crc
    PROVE  AtMostOne(OnField(e, f, crc, comment_crc))
<1>1. AtMostOne(OnZip64(e, f)) /\ AtMostOne(OnAes(e, f))
  BY DEF AtMostOne, OnZip64, OnAes, Only
<1>2. /\ AtMostOne(OnTimes(e, NtfsTimes(f)))
      /\ AtMostOne(OnTimes(e, ExtendedTimes(f)))
  BY OneList DEF AtMostOne, OnTimes
<1>3. AtMostOne(OnUnicodeComment(e, f, comment_crc))
  BY DEF AtMostOne, OnUnicodeComment, Only
<1>4. AtMostOne(OnUnicodeName(e, f, crc))
  BY DEF AtMostOne, OnUnicodeName, ValidateName, Only
<1>5. AtMostOne({e}) /\ AtMostOne({})
  BY DEF AtMostOne
<1> QED
  BY <1>1, <1>2, <1>3, <1>4, <1>5 DEF OnField, FieldIds

-------------------------------------------------------------------------------
(***************************************************************************)
(* The invariant: the entry made of a header fits the fields that were     *)
(* read, and an accepted entry is the central one, filled in from the      *)
(* local one that is consistent with it.                                   *)
(***************************************************************************)
Whole(s, e) ==
    Fits(s, headers[s], e, Len(headers[s].extra)) /\ e.method # "AES"

HeadersInv ==
    /\ \A s \in Sides : HeaderLike(headers[s])
    /\ side \in Sides /\ next \in Nat /\ next > 0
    /\ DOMAIN metas = Sides
    /\ status = "fields" =>
          /\ next <= Len(headers[side].extra) + 1
          /\ \E e : /\ metas[side] = {e}
                    /\ Fits(side, headers[side], e, next - 1)
    /\ side = "local" /\ status # "ok" =>
          \E e : metas["central"] = {e} /\ Whole("central", e)
    /\ status \in {"check", "ok"} =>
          side = "local" /\ \E l : metas["local"] = {l} /\ Whole("local", l)
    /\ status = "ok" =>
          \E e, l :
             /\ Whole("central", e) /\ metas["local"] = {l}
             /\ \E d \in ReadDescriptor(l) :
                   Consistent(e, d) /\ metas["central"] = {FillIn(e, d)}

LEMMA HeadersInit == Init => HeadersInv
<1> SUFFICES ASSUME Init PROVE HeadersInv
  OBVIOUS
<1>1. PICK g \in DOMAIN Groups :
         \E c \in Groups[g].central, l \in Groups[g].local :
            headers = [s \in Sides |-> IF s = "central" THEN c ELSE l]
  BY DEF Init
<1>2. \A s \in Sides : HeaderLike(headers[s])
  BY <1>1, GroupsAssumption
<1> QED
  BY <1>2 DEF Init, HeadersInv, Sides

LEMMA ReadHeaderInv == HeadersInv /\ ReadHeader => HeadersInv'
<1> SUFFICES ASSUME HeadersInv, ReadHeader PROVE HeadersInv'
  OBVIOUS
<1> DEFINE h == headers[side]
           new == FromHeader(side, h)
<1>1. /\ side \in Sides /\ status = "header" /\ DOMAIN metas = Sides
      /\ HeaderLike(h)
  BY DEF HeadersInv, ReadHeader
<1>2. Become(new, 1, "fields")
  BY DEF ReadHeader, FromHeader
<1>3. CASE Refuse
  BY <1>1, <1>3 DEF Refuse, HeadersInv, Whole
<1>4. CASE /\ new # {} /\ metas' = [metas EXCEPT ![side] = new]
           /\ next' = 1 /\ status' = "fields"
           /\ headers' = headers /\ side' = side
  <2>1. PICK e : e \in new
    BY <1>4
  <2>2. new = {e}
    BY <1>1, <2>1, OneHeader DEF AtMostOne
  <2>3. Fits(side, h, e, 1 - 1)
    BY <1>1, <2>1, FitsFirst
  <2>4. metas'[side] = {e} /\ DOMAIN metas' = Sides
    BY <1>1, <1>4, <2>2
  <2>5. 1 <= Len(h.extra) + 1
    BY <1>1 DEF HeaderLike, FieldLike
  <2>6. side = "local" =>
          \E c : metas'["central"] = {c} /\ Whole("central", c)
    <3>1. side = "local" => metas'["central"] = metas["central"]
      BY <1>1, <1>4 DEF Sides
    <3> QED
      BY <1>1, <3>1 DEF HeadersInv
  <2> HIDE DEF new
  <2> QED
    BY <1>1, <1>4, <2>3, <2>4, <2>5, <2>6 DEF HeadersInv, Whole
<1> QED
  BY <1>2, <1>3, <1>4 DEF Become

LEMMA ReadFieldInv == HeadersInv /\ ReadField => HeadersInv'
<1> SUFFICES ASSUME HeadersInv, ReadField PROVE HeadersInv'
  OBVIOUS
<1> DEFINE h == headers[side]
           f == h.extra[next]
<1>1. /\ side \in Sides /\ status = "fields" /\ DOMAIN metas = Sides
      /\ HeaderLike(h) /\ next \in Nat /\ next > 0
      /\ next <= Len(h.extra)
  BY DEF HeadersInv, ReadField
<1>2. PICK e : metas[side] = {e} /\ Fits(side, h, e, next - 1)
  BY <1>1 DEF HeadersInv
<1> DEFINE new == OnField(e, f, NameCrc, CommentCrc)
<1>3. Become(new, next + 1, "fields")
  BY <1>2 DEF ReadField
<1>4. CASE Refuse
  BY <1>1, <1>4 DEF Refuse, HeadersInv, Whole
<1>5. CASE /\ new # {} /\ metas' = [metas EXCEPT ![side] = new]
           /\ next' = next + 1 /\ status' = "fields"
           /\ headers' = headers /\ side' = side
  <2>1. PICK o : o \in new
    BY <1>5
  <2>2. next \in 1..Len(h.extra) /\ f.id \in FieldIds
    BY <1>1 DEF HeaderLike, FieldLike
  <2>3. new = {o}
    BY <2>1, <2>2, OneField DEF AtMostOne
  <2>4. Fits(side, h, o, next)
    BY <1>1, <1>2, <2>1, <2>2, FitsNext DEF NameCrc
  <2>5. metas'[side] = {o} /\ DOMAIN metas' = Sides
    BY <1>1, <1>5, <2>3
  <2>6. /\ (next + 1) - 1 = next /\ next + 1 \in Nat /\ next + 1 > 0
        /\ next + 1 <= Len(h.extra) + 1
    BY <1>1 DEF HeaderLike, FieldLike
  <2>7. side = "local" =>
          \E c : metas'["central"] = {c} /\ Whole("central", c)
    <3>1. side = "local" => metas'["central"] = metas["central"]
      BY <1>1, <1>5 DEF Sides
    <3> QED
      BY <1>1, <3>1 DEF HeadersInv
  <2> HIDE DEF new
  <2> QED
    BY <1>1, <1>5, <2>4, <2>5, <2>6, <2>7 DEF HeadersInv, Whole
<1> QED
  BY <1>3, <1>4, <1>5 DEF Become

LEMMA EndFieldsInv == HeadersInv /\ EndFields => HeadersInv'
<1> SUFFICES ASSUME HeadersInv, EndFields PROVE HeadersInv'
  OBVIOUS
<1>1. /\ side \in Sides /\ status = "fields" /\ next > Len(headers[side].extra)
      /\ HeaderLike(headers[side]) /\ next \in Nat
      /\ next <= Len(headers[side].extra) + 1
  BY DEF HeadersInv, EndFields
<1>2. PICK e : metas[side] = {e} /\ Fits(side, headers[side], e, next - 1)
  BY <1>1 DEF HeadersInv
<1>3. CASE Refuse
  BY <1>1, <1>3 DEF Refuse, HeadersInv, Whole
<1>4. CASE /\ e.method # "AES" /\ side' = "local" /\ next' = 1
           /\ status' = IF side = "central" THEN "header" ELSE "check"
           /\ headers' = headers /\ metas' = metas
  <2>1. next - 1 = Len(headers[side].extra)
    BY <1>1 DEF HeaderLike, FieldLike
  <2>2. Whole(side, e)
    BY <1>2, <1>4, <2>1 DEF Whole
  <2>3. CASE side = "central"
    BY <1>1, <1>2, <1>4, <2>2, <2>3 DEF HeadersInv, Whole, Sides
  <2>4. CASE side = "local"
    BY <1>1, <1>2, <1>4, <2>2, <2>4 DEF HeadersInv, Whole, Sides
  <2> QED
    BY <1>1, <2>3, <2>4 DEF Sides
<1> QED
  BY <1>2, <1>3, <1>4 DEF EndFields

LEMMA OneDescriptor ==
    ASSUME NEW e, NEW l PROVE AtMostOne(Checked(e, l))
<1>1. AtMostOne(ReadDescriptor(l))
  BY DEF AtMostOne, ReadDescriptor, Only
<1> QED
  BY <1>1 DEF AtMostOne, Checked

LEMMA CheckLocalEntryInv == HeadersInv /\ CheckLocalEntry => HeadersInv'
<1> SUFFICES ASSUME HeadersInv, CheckLocalEntry PROVE HeadersInv'
  OBVIOUS
<1>1. status = "check" /\ side = "local" /\ DOMAIN metas = Sides
  BY DEF HeadersInv, CheckLocalEntry
<1>2. PICK e : metas["central"] = {e} /\ Whole("central", e)
  BY <1>1 DEF HeadersInv
<1>3. PICK l : metas["local"] = {l} /\ Whole("local", l)
  BY <1>1 DEF HeadersInv
<1>4. CASE Refuse
  BY <1>1, <1>4 DEF Refuse, HeadersInv, Whole
<1>5. CASE /\ Checked(e, l) # {}
           /\ metas' = [metas EXCEPT !["central"] = Checked(e, l)]
           /\ status' = "ok"
           /\ UNCHANGED << headers, descriptor, side, next >>
  <2>1. PICK d \in ReadDescriptor(l) :
           Consistent(e, d) /\ FillIn(e, d) \in Checked(e, l)
    BY <1>5 DEF Checked
  <2>2. Checked(e, l) = {FillIn(e, d)}
    BY <2>1, OneDescriptor DEF AtMostOne
  <2>3. /\ metas'["central"] = {FillIn(e, d)} /\ metas'["local"] = {l}
        /\ DOMAIN metas' = Sides
    BY <1>1, <1>3, <1>5, <2>2 DEF Sides
  <2>4. ReadDescriptor(l)' = ReadDescriptor(l)
    BY <1>5 DEF ReadDescriptor
  <2> QED
    BY <1>1, <1>2, <1>3, <1>5, <2>1, <2>3, <2>4 DEF HeadersInv, Whole
<1> QED
  BY <1>2, <1>3, <1>4, <1>5 DEF CheckLocalEntry

LEMMA HeadersNext == HeadersInv /\ [Next]_vars => HeadersInv'
<1>1. ASSUME HeadersInv, UNCHANGED vars PROVE HeadersInv'
  <2>1. \A l : ReadDescriptor(l)' = ReadDescriptor(l)
    BY <1>1 DEF vars, ReadDescriptor
  <2> QED
    BY <1>1, <2>1 DEF vars, HeadersInv, Whole
<1> QED
  BY <1>1, ReadHeaderInv, ReadFieldInv, EndFieldsInv, CheckLocalEntryInv
  DEF Next

LEMMA HeadersAlways == Spec => []HeadersInv
BY HeadersInit, HeadersNext, PTL DEF Spec

-------------------------------------------------------------------------------
\* What is behind an accepted entry.
LEMMA AcceptedEntry ==
    ASSUME HeadersInv, status = "ok"
    PROVE  \E e, l :
              /\ Whole("central", e) /\ Whole("local", l) /\ Local = l
              /\ \E d \in ReadDescriptor(l) :
                    Consistent(e, d) /\ Entry = FillIn(e, d)
<1>1. PICK e, l :
         /\ Whole("central", e) /\ metas["local"] = {l}
         /\ \E d \in ReadDescriptor(l) :
               Consistent(e, d) /\ metas["central"] = {FillIn(e, d)}
  BY DEF HeadersInv
<1>2. Whole("local", l)
  BY <1>1 DEF HeadersInv
<1>3. Local = l
  BY <1>1 DEF Local
<1>4. \A x : metas["central"] = {x} => Entry = x
  BY DEF Entry
<1> QED
  BY <1>1, <1>2, <1>3, <1>4

LEMMA FilledIn ==
    ASSUME NEW e, NEW d, DOMAIN e = Keys
    PROVE  /\ DOMAIN FillIn(e, d) = Keys
           /\ Same(FillIn(e, d), e, Keys \ {"atime", "ctime"})
           /\ FillIn(e, d).atime = IF e.atime = {} THEN d.atime ELSE e.atime
           /\ FillIn(e, d).ctime = IF e.ctime = {} THEN d.ctime ELSE e.ctime
BY DEF FillIn, Keys, Same

LEMMA Described ==
    ASSUME NEW l, DOMAIN l = Keys, NEW d \in ReadDescriptor(l)
    PROVE  /\ DOMAIN d = Keys
           /\ Same(d, l, Keys \ {"csize", "usize", "crc"})
           /\ Streaming(l) =>
                /\ descriptor.wide = l.zip64
                /\ d.csize = descriptor.csize /\ d.usize = descriptor.usize
                /\ d.crc = descriptor.crc
           /\ ~Streaming(l) => d = l
BY DEF ReadDescriptor, Only, Keys, Same

LEMMA WholeType ==
    ASSUME NEW s, NEW e, Whole(s, e)
    PROVE  DOMAIN e = Keys /\ e.flags = headers[s].flags
BY DEF Whole, Fits, RestFits

LEMMA Positions ==
    ASSUME HeadersInv, NEW s \in Sides, NEW ids
    PROVE  /\ At(s, ids) = Marked(headers[s], Len(headers[s].extra), ids)
           /\ Extra(s) = headers[s].extra
BY DEF HeadersInv, HeaderLike, FieldLike, At, Marked, Extra

\* An entry is listed as AES encrypted exactly when the flags and one field
\* say so, with the method inside; nothing encrypted passes for plain, for
\* any number of fields in any order (parse_extra_fields).
THEOREM EncryptionAsTold == Spec => []EncryptionTold
<1>1. ASSUME HeadersInv PROVE EncryptionTold
  <2> SUFFICES ASSUME status = "ok"
               PROVE  LET aes == At("central", {"Aes"})
                      IN  /\ Entry.method # "AES"
                          /\ Entry.enc = "None"
                                <=> "encrypted" \notin Entry.flags
                          /\ Entry.enc = "Aes" <=> aes # {}
                          /\ \A j \in aes :
                                /\ Entry.method = Extra("central")[j].method
                                /\ Extra("central")[j].check_crc32
                                      \/ Entry.crc = 0
                                /\ headers["central"].method = "AES"
    BY DEF EncryptionTold
  <2> DEFINE h == headers["central"]
             aes == At("central", {"Aes"})
  <2>1. PICK e, l :
           /\ Whole("central", e)
           /\ \E d \in ReadDescriptor(l) : Entry = FillIn(e, d)
    BY <1>1, AcceptedEntry
  <2>2. DOMAIN e = Keys /\ e.flags = h.flags /\ e.crc = h.crc
    BY <2>1 DEF Whole, Fits, RestFits
  <2>3. /\ Entry.method = e.method /\ Entry.enc = e.enc
        /\ Entry.flags = h.flags /\ Entry.crc = h.crc
    BY <2>1, <2>2, FilledIn DEF Same, Keys
  <2>4. /\ aes = Marked(h, Len(h.extra), {"Aes"})
        /\ Extra("central") = h.extra
    BY <1>1, Positions DEF Sides
  <2>5. /\ aes = {} => e.method = h.method /\ e.enc \in Encryption(h.flags)
        /\ aes # {} =>
              e.enc = "Aes" /\ h.method = "AES" /\ "encrypted" \in h.flags
        /\ \A j \in aes : /\ e.method = h.extra[j].method
                          /\ h.extra[j].check_crc32 \/ h.crc = 0
    BY <2>1, <2>4 DEF Whole, Fits, AesFits
  <2>6. aes = {} => /\ e.enc # "Aes"
                    /\ e.enc = "None" <=> "encrypted" \notin h.flags
    BY <2>5 DEF Encryption, Only
  <2>7. Entry.method # "AES"
    BY <2>1, <2>3 DEF Whole
  <2> HIDE DEF aes, h
  <2>8. /\ Entry.enc = "None" <=> "encrypted" \notin Entry.flags
        /\ Entry.enc = "Aes" <=> aes # {}
    BY <2>3, <2>5, <2>6
  <2>9. \A j \in aes : /\ Entry.method = Extra("central")[j].method
                       /\ Extra("central")[j].check_crc32 \/ Entry.crc = 0
                       /\ h.method = "AES"
    BY <2>3, <2>4, <2>5
  <2> QED
    BY <2>7, <2>8, <2>9 DEF aes, h
<1> QED
  BY <1>1, HeadersAlways, PTL

\* The name of an accepted entry is that of the central header or of the last
\* of its Unicode fields, all of which were made for these bytes.
THEOREM NameFromHeader == Spec => []NameOfHeader
<1>1. ASSUME HeadersInv PROVE NameOfHeader
  <2> DEFINE h == headers["central"]
             at == At("central", {"UnicodeName"})
  <2> SUFFICES ASSUME status = "ok"
               PROVE  /\ Entry.name =
                           IF at = {} THEN Text(h.name)
                           ELSE Extra("central")[Max(at)].text
                      /\ \A j \in at : /\ ~h.name.utf8
                                       /\ Extra("central")[j].crc = h.name
                      /\ Entry.name = Local.name
    BY DEF NameOfHeader
  <2>1. PICK e, l :
           /\ Whole("central", e) /\ Whole("local", l) /\ Local = l
           /\ \E d \in ReadDescriptor(l) :
                 Consistent(e, d) /\ Entry = FillIn(e, d)
    BY <1>1, AcceptedEntry
  <2>2. PICK d \in ReadDescriptor(l) :
           Consistent(e, d) /\ Entry = FillIn(e, d)
    BY <2>1
  <2>3. DOMAIN e = Keys /\ DOMAIN l = Keys
    BY <2>1, WholeType
  <2>4. Entry.name = e.name
    BY <2>2, <2>3, FilledIn DEF Same, Keys
  <2>5. d.name = l.name
    BY <2>3, Described DEF Same, Keys
  <2>6. Entry.name = Local.name
    BY <2>1, <2>2, <2>4, <2>5 DEF Consistent
  <2>7. /\ at = Marked(h, Len(h.extra), {"UnicodeName"})
        /\ Extra("central") = h.extra
    BY <1>1, Positions DEF Sides
  <2>8. NameFits(h, e, Len(h.extra))
    BY <2>1 DEF Whole, Fits
  <2> HIDE DEF h, at
  <2> QED
    BY <2>4, <2>6, <2>7, <2>8 DEF NameFits
<1> QED
  BY <1>1, HeadersAlways, PTL

\* A streamed entry is listed with the numbers of its descriptor, which is as
\* wide as the Zip64 field of the local header says (read_data_descriptor).
THEOREM DescriptorIsTold == Spec => []DescriptorTells
<1>1. ASSUME HeadersInv PROVE DescriptorTells
  <2> DEFINE h == headers["local"]
             at == At("local", {"Zip64"})
  <2> SUFFICES ASSUME status = "ok", "streaming" \in h.flags
               PROVE  /\ Entry.usize = descriptor.usize
                      /\ Entry.csize = descriptor.csize
                      /\ Entry.crc = descriptor.crc
                      /\ descriptor.wide = (at # {})
    BY DEF DescriptorTells
  <2>1. PICK e, l :
           /\ Whole("central", e) /\ Whole("local", l) /\ Local = l
           /\ \E d \in ReadDescriptor(l) :
                 Consistent(e, d) /\ Entry = FillIn(e, d)
    BY <1>1, AcceptedEntry
  <2>2. PICK d \in ReadDescriptor(l) :
           Consistent(e, d) /\ Entry = FillIn(e, d)
    BY <2>1
  <2>3. DOMAIN e = Keys /\ DOMAIN l = Keys /\ l.flags = h.flags
    BY <2>1, WholeType
  <2>4. /\ descriptor.wide = l.zip64
        /\ d.csize = descriptor.csize /\ d.usize = descriptor.usize
        /\ d.crc = descriptor.crc
    BY <2>3, Described DEF Streaming
  <2>5. /\ Entry.usize = e.usize /\ Entry.csize = e.csize
        /\ Entry.crc = e.crc
    BY <2>2, <2>3, FilledIn DEF Same, Keys
  <2>6. at = Marked(h, Len(h.extra), {"Zip64"})
    BY <1>1, Positions DEF Sides
  <2>7. l.zip64 = (at # {})
    BY <2>1, <2>6 DEF Whole, Fits, SizesFit
  <2> QED
    BY <2>2, <2>4, <2>5, <2>7 DEF Consistent
<1> QED
  BY <1>1, HeadersAlways, PTL

\* The times of an accepted entry are those of the last field with times, of
\* the local header where the central one has no access or creation time, and
\* the two headers do not contradict each other.
THEOREM LastTimesWin == Spec => []TimesWin
<1>1. ASSUME HeadersInv PROVE TimesWin
  <2> DEFINE c == LastTimes("central")
             t1 == LastTimes("local")
  <2> SUFFICES ASSUME status = "ok"
               PROVE  /\ Entry.mtime = c.mtime
                      /\ Entry.atime = IF c.atime # {} THEN c.atime
                                       ELSE t1.atime
                      /\ Entry.ctime = IF c.ctime # {} THEN c.ctime
                                       ELSE t1.ctime
                      /\ \A t \in {"mtime", "atime", "ctime"} :
                            c[t] # {} /\ t1[t] # {} => c[t] = t1[t]
    BY DEF TimesWin
  <2>1. PICK e, l :
           /\ Whole("central", e) /\ Whole("local", l) /\ Local = l
           /\ \E d \in ReadDescriptor(l) :
                 Consistent(e, d) /\ Entry = FillIn(e, d)
    BY <1>1, AcceptedEntry
  <2>2. PICK d \in ReadDescriptor(l) :
           Consistent(e, d) /\ Entry = FillIn(e, d)
    BY <2>1
  <2>3. DOMAIN e = Keys /\ DOMAIN l = Keys
    BY <2>1, WholeType
  <2>4. ASSUME NEW s \in Sides, NEW x, Whole(s, x)
        PROVE  Same(x, LastTimes(s), TimeKeys)
    <3> DEFINE at == At(s, {"Ntfs", "Timestamp"})
    <3>1. /\ at = Marked(headers[s], Len(headers[s].extra),
                         {"Ntfs", "Timestamp"})
          /\ Extra(s) = headers[s].extra
      BY <1>1, Positions
    <3> QED
      BY <2>4, <3>1 DEF Whole, Fits, TimesFit, LastTimes
  <2>5. /\ e.mtime = c.mtime /\ e.atime = c.atime /\ e.ctime = c.ctime
        /\ l.mtime = t1.mtime /\ l.atime = t1.atime /\ l.ctime = t1.ctime
    BY <2>1, <2>4 DEF Same, TimeKeys, Sides
  <2>6. d.mtime = l.mtime /\ d.atime = l.atime /\ d.ctime = l.ctime
    BY <2>3, Described DEF Same, Keys
  <2>7. /\ Entry.mtime = e.mtime
        /\ Entry.atime = IF e.atime = {} THEN d.atime ELSE e.atime
        /\ Entry.ctime = IF e.ctime = {} THEN d.ctime ELSE e.ctime
    BY <2>2, <2>3, FilledIn DEF Same, Keys
  <2>8. /\ OptEq(e.mtime, d.mtime) /\ OptEq(e.atime, d.atime)
        /\ OptEq(e.ctime, d.ctime)
    BY <2>2 DEF Consistent
  <2> HIDE DEF c, t1
  <2> QED
    BY <2>5, <2>6, <2>7, <2>8 DEF OptEq
<1> QED
  BY <1>1, HeadersAlways, PTL

-------------------------------------------------------------------------------
\* How many of the first numbers of a header are saturated.
LEMMA SaturatedBefore ==
    ASSUME NEW numbers
    PROVE  /\ Cardinality({j \in 1..1 : numbers[j] = Sat})
                = Count(numbers[1] = Sat)
           /\ Cardinality({j \in 1..2 : numbers[j] = Sat})
                = Count(numbers[1] = Sat) + Count(numbers[2] = Sat)
           /\ Cardinality({j \in 1..3 : numbers[j] = Sat})
                = Count(numbers[1] = Sat) + Count(numbers[2] = Sat)
                    + Count(numbers[3] = Sat)
<1> DEFINE S(k) == {j \in 1..k : numbers[j] = Sat}
           C(k) == Count(numbers[k] = Sat)
<1>1. ASSUME NEW k \in 0..2, IsFiniteSet(S(k))
      PROVE  /\ IsFiniteSet(S(k + 1))
             /\ Cardinality(S(k + 1)) = Cardinality(S(k)) + C(k + 1)
             /\ Cardinality(S(k)) \in Nat
             /\ C(k + 1) \in Nat
  <2>1. Cardinality(S(k)) \in Nat
    BY <1>1, FS_CardinalityType
  <2>2. CASE numbers[k + 1] = Sat
    <3>1. k + 1 \notin S(k) /\ S(k + 1) = S(k) \cup {k + 1}
      BY <2>2
    <3>2. C(k + 1) = 1
      BY <2>2 DEF Count
    <3> HIDE DEF S, C
    <3>3. /\ IsFiniteSet(S(k + 1))
          /\ Cardinality(S(k + 1)) = Cardinality(S(k)) + 1
      BY <1>1, <3>1, FS_AddElement
    <3> QED
      BY <2>1, <3>2, <3>3
  <2>3. CASE numbers[k + 1] # Sat
    <3>1. S(k + 1) = S(k)
      BY <2>3
    <3>2. C(k + 1) = 0
      BY <2>3 DEF Count
    <3> HIDE DEF S, C
    <3> QED
      BY <1>1, <2>1, <3>1, <3>2
  <2> QED
    BY <2>2, <2>3
<1>2. S(0) = {} /\ IsFiniteSet(S(0)) /\ Cardinality(S(0)) = 0
  BY FS_EmptySet
<1> HIDE DEF S, C
<1>3. /\ IsFiniteSet(S(1)) /\ Cardinality(S(1)) = C(1) /\ C(1) \in Nat
  <2>1. /\ IsFiniteSet(S(0 + 1)) /\ Cardinality(S(0 + 1)) = 0 + C(0 + 1)
        /\ C(0 + 1) \in Nat
    BY <1>1, <1>2
  <2> QED
    BY <2>1
<1>4. /\ IsFiniteSet(S(2)) /\ Cardinality(S(2)) = C(1) + C(2)
      /\ C(2) \in Nat
  <2>1. /\ IsFiniteSet(S(1 + 1)) /\ Cardinality(S(1 + 1)) = C(1) + C(1 + 1)
        /\ C(1 + 1) \in Nat
    BY <1>1, <1>3
  <2> QED
    BY <2>1
<1>5. Cardinality(S(3)) = C(1) + C(2) + C(3)
  <2>1. Cardinality(S(2 + 1)) = C(1) + C(2) + C(2 + 1)
    BY <1>1, <1>4
  <2> QED
    BY <2>1
<1> QED
  BY <1>3, <1>4, <1>5 DEF S, C

\* With one Zip64 field, each saturated number of the central header is the
\* one that the field has at its rank, and the others are as they stand.
THEOREM EachSizeIsOwn == Spec => []SizesAreOwn
<1>1. ASSUME HeadersInv PROVE SizesAreOwn
  <2> DEFINE h == headers["central"]
             at == At("central", {"Zip64"})
  <2> SUFFICES ASSUME status = "ok", Cardinality(at) = 1, NEW k \in 1..3
               PROVE  Numbers(Entry)[k] = OwnNumber(k)
    BY DEF SizesAreOwn
  <2>1. PICK e, l :
           /\ Whole("central", e)
           /\ \E d \in ReadDescriptor(l) : Entry = FillIn(e, d)
    BY <1>1, AcceptedEntry
  <2>2. DOMAIN e = Keys
    BY <2>1, WholeType
  <2>3. /\ Entry.usize = e.usize /\ Entry.csize = e.csize
        /\ Entry.offset = e.offset
    BY <2>1, <2>2, FilledIn DEF Same, Keys
  <2>4. /\ at = Marked(h, Len(h.extra), {"Zip64"})
        /\ Extra("central") = h.extra /\ Len(h.extra) \in Nat
    BY <1>1, Positions DEF Sides, HeadersInv, HeaderLike, FieldLike
  <2>5. PICK j : at = {j}
    <3>1. IsFiniteSet(at)
      <4>1. at \subseteq 1..Len(h.extra) /\ IsFiniteSet(1..Len(h.extra))
        BY <2>4, FS_Interval DEF Marked
      <4> QED
        BY <4>1, FS_Subset
    <3> HIDE DEF at
    <3> QED
      BY <3>1, FS_Singleton
  <2>6. Max(at) = j
    <3>1. j \in Nat
      BY <2>4, <2>5 DEF Marked
    <3> QED
      BY <2>5, <3>1 DEF Max
  <2> DEFINE v == h.extra[j].values
             rank == Cardinality({m \in 1..k : Numbers(h)[m] = Sat})
             u1 == Count(h.usize = Sat)
             c1 == Count(h.csize = Sat)
             o1 == Count(h.offset = Sat)
  <2>7. /\ Len(v) = u1 + c1 + o1
        /\ e.usize = IF h.usize = Sat THEN v[1] ELSE h.usize
        /\ e.csize = IF h.csize = Sat THEN v[1 + u1] ELSE h.csize
        /\ e.offset = IF h.offset = Sat THEN v[Len(v)] ELSE h.offset
    BY <2>1, <2>4, <2>5 DEF Whole, Fits, SizesFit, Offset
  <2>8. OwnNumber(k) = IF Numbers(h)[k] = Sat THEN v[rank] ELSE Numbers(h)[k]
    BY <2>4, <2>6 DEF OwnNumber
  <2>9. /\ Numbers(h)[1] = h.usize /\ Numbers(h)[2] = h.csize
        /\ Numbers(h)[3] = h.offset
        /\ Numbers(Entry)[1] = Entry.usize /\ Numbers(Entry)[2] = Entry.csize
        /\ Numbers(Entry)[3] = Entry.offset
    BY DEF Numbers
  <2>10. /\ k = 1 => rank = u1
         /\ k = 2 => rank = u1 + c1
         /\ k = 3 => rank = u1 + c1 + o1
    <3> DEFINE numbers == Numbers(h)
    <3> HIDE DEF numbers
    <3>1. /\ Cardinality({m \in 1..1 : numbers[m] = Sat})
               = Count(numbers[1] = Sat)
          /\ Cardinality({m \in 1..2 : numbers[m] = Sat})
               = Count(numbers[1] = Sat) + Count(numbers[2] = Sat)
          /\ Cardinality({m \in 1..3 : numbers[m] = Sat})
               = Count(numbers[1] = Sat) + Count(numbers[2] = Sat)
                   + Count(numbers[3] = Sat)
      BY SaturatedBefore
    <3> QED
      BY <2>9, <3>1 DEF numbers
  <2>11. /\ h.usize = Sat => u1 = 1
         /\ h.csize = Sat => c1 = 1
         /\ u1 \in Nat /\ c1 \in Nat /\ o1 \in Nat
    BY DEF Count
  <2> HIDE DEF rank, u1, c1, o1, v, h
  <2>12. CASE k = 1
    BY <2>3, <2>7, <2>8, <2>9, <2>10, <2>11, <2>12
  <2>13. CASE k = 2
    <3>1. h.csize = Sat => rank = 1 + u1
      BY <2>10, <2>11, <2>13
    <3> QED
      BY <2>3, <2>7, <2>8, <2>9, <2>13, <3>1
  <2>14. CASE k = 3
    <3>1. rank = Len(v)
      BY <2>7, <2>10, <2>11, <2>14
    <3> QED
      BY <2>3, <2>7, <2>8, <2>9, <2>14, <3>1
  <2> QED
    BY <2>12, <2>13, <2>14
<1> QED
  BY <1>1, HeadersAlways, PTL

-------------------------------------------------------------------------------
(***************************************************************************)
(* The two clocks.                                                         *)
(***************************************************************************)
LEMMA TimesMonotonic ==
    ASSUME NEW a \in Int, NEW b \in Int, NEW n \in Nat, a <= b
    PROVE  a * n <= b * n
BY Z3

LEMMA Quotient ==
    ASSUME NEW s \in Nat, NEW n \in Nat \ {0}
    PROVE  /\ s \div n \in Int
           /\ (s \div n) * n <= s /\ s < (s \div n + 1) * n
<1>1. /\ s = n * (s \div n) + (s % n) /\ 0 <= s % n /\ s % n < n
      /\ s \div n \in Int
  BY Z3
<1> DEFINE q == s \div n
<1>2. q * n = n * q /\ (q + 1) * n = n * q + n
  BY <1>1, Z3
<1> QED
  BY <1>1, <1>2

\* Between two multiples that follow each other, division is exact.
LEMMA QuotientIs ==
    ASSUME NEW s \in Nat, NEW u \in Int, NEW n \in Nat \ {0},
           u * n <= s, s < (u + 1) * n
    PROVE  s \div n = u
<1> DEFINE q == s \div n
<1>1. q \in Int /\ q * n <= s /\ s < (q + 1) * n
  BY Quotient
<1> HIDE DEF q
<1>2. CASE q < u
  <2>1. q + 1 <= u /\ q + 1 \in Int
    BY <1>1, <1>2
  <2>2. (q + 1) * n <= u * n
    BY <2>1, TimesMonotonic
  <2> QED
    BY <1>1, <2>2
<1>3. CASE q > u
  <2>1. u + 1 <= q /\ u + 1 \in Int
    BY <1>1, <1>3
  <2>2. (u + 1) * n <= q * n
    BY <1>1, <2>1, TimesMonotonic
  <2> QED
    BY <1>1, <2>2
<1> QED
  BY <1>1, <1>2, <1>3 DEF q

\* from_ntfs leads to the second that the NTFS time is in.
LEMMA NtfsSecond ==
    ASSUME NEW ts \in Nat, NEW unix \in Nat, SameInstant(ts, unix)
    PROVE  FromNtfs(ts) = unix
<1> DEFINE base == NtEpoch * Ticks
<1>1. base \in Nat /\ NtEpoch \in Nat /\ Ticks \in Nat \ {0}
  BY HeaderAssumption
<1>2. CASE ts < base
  <2>1. unix = 0
    BY <1>2 DEF SameInstant
  <2>2. FromNtfs(ts) = 0 \div Ticks
    BY <1>1, <1>2 DEF FromNtfs
  <2>3. 0 * Ticks <= 0 /\ 0 < (0 + 1) * Ticks
    BY <1>1
  <2>4. 0 \div Ticks = 0
    BY <1>1, <2>3, QuotientIs
  <2> QED
    BY <2>1, <2>2, <2>4
<1>3. CASE ~(ts < base)
  <2>1. /\ (NtEpoch + unix) * Ticks <= ts
        /\ ts < (NtEpoch + unix + 1) * Ticks
    BY <1>3 DEF SameInstant
  <2>2. /\ (NtEpoch + unix) * Ticks = base + unix * Ticks
        /\ (NtEpoch + unix + 1) * Ticks = base + (unix + 1) * Ticks
        /\ unix * Ticks \in Nat /\ (unix + 1) * Ticks \in Nat
    BY <1>1
  <2> HIDE DEF base
  <2>3. /\ unix * Ticks <= ts - base /\ ts - base < (unix + 1) * Ticks
        /\ ts - base \in Nat
    BY <1>1, <1>3, <2>1, <2>2
  <2>4. (ts - base) \div Ticks = unix
    BY <1>1, <2>3, QuotientIs
  <2>5. FromNtfs(ts) = (ts - base) \div Ticks
    BY <1>1, <2>3 DEF FromNtfs, base
  <2> QED
    BY <2>4, <2>5
<1> QED
  BY <1>2, <1>3

\* The times of a lone NTFS tag, and of a lone Unix time.
LEMMA LoneClocks ==
    ASSUME NEW n, NEW t, FieldLike(n), FieldLike(t), TwoClocks(n, t),
           TimesOf(n) # {}, TimesOf(t) # {}
    PROVE  OptEq(TimesIn(n).mtime, TimesIn(t).mtime)
<1> DEFINE ts == n.tags[1].times[1]
<1>1. /\ n.id = "Ntfs" /\ n.tags \in Seq([typ: Nat, times: Seq(Nat)])
      /\ Len(n.tags) = 1 /\ n.tags[1].typ = 1
  BY DEF TwoClocks, FieldLike
<1>2. /\ t.id = "Timestamp" /\ t.bits = {1} /\ t.times \in Seq(Nat)
      /\ SameInstant(ts, t.times[1])
  BY DEF TwoClocks, FieldLike
<1>3. DOMAIN n.tags = {1} /\ n.tags[1].times \in Seq(Nat)
  <2>1. DOMAIN n.tags = 1..1
    BY <1>1
  <2>2. \A X : \A s \in Seq(X) : Len(s) = 1 => s[1] \in X
    OBVIOUS
  <2>3. n.tags[1] \in [typ: Nat, times: Seq(Nat)]
    BY <1>1, <2>2, Zenon
  <2> QED
    BY <2>1, <2>3
<1>4. {k \in DOMAIN n.tags : n.tags[k].typ = 1} = {1}
  BY <1>1, <1>3
<1>5. Max({1}) = 1
  BY DEF Max
<1>6. PICK a : a \in NtfsTimes(n)
  BY <1>1 DEF TimesOf
<1>7. Len(n.tags[1].times) >= 3 /\ a.mtime = NtfsTime(ts)
  <2> DEFINE ours == {k \in DOMAIN n.tags : n.tags[k].typ = 1}
             first == n.tags[Max(ours)].times
             times == IF ours = {} THEN NoTimes
                      ELSE [mtime |-> NtfsTime(first[1]),
                            atime |-> NtfsTime(first[2]),
                            ctime |-> NtfsTime(first[3])]
  <2>1. /\ \A k \in ours : Len(n.tags[k].times) >= 3
        /\ a = times
    BY <1>6 DEF NtfsTimes, Only
  <2>2. ours = {1} /\ Max(ours) = 1
    BY <1>4, <1>5
  <2> HIDE DEF ours
  <2> QED
    BY <2>1, <2>2
<1>8. ts \in Nat
  BY <1>3, <1>7
<1>9. TimesIn(n) = a
  BY <1>1, <1>6, FieldTimes
<1>10. Announced(t) = << 1 >>
  BY <1>2 DEF Announced
<1>11. Cardinality(t.bits) = 1
  BY <1>2, FS_Singleton
<1>12. PICK b : b \in ExtendedTimes(t)
  BY <1>2 DEF TimesOf
<1>13. /\ Len(t.times) = Len(Announced(t))
       /\ b.mtime = { t.times[j] : j \in
                       {j \in DOMAIN Announced(t) : Announced(t)[j] = 1} }
  BY <1>11, <1>12 DEF ExtendedTimes, Only
<1>14. Len(t.times) = 1 /\ b.mtime = {t.times[1]}
  BY <1>10, <1>13
<1>15. t.times[1] \in Nat
  BY <1>2, <1>14
<1>16. TimesIn(t) = b
  BY <1>2, <1>12, FieldTimes
<1>17. FromNtfs(ts) = t.times[1]
  BY <1>2, <1>8, <1>15, NtfsSecond
<1> HIDE DEF ts
<1> QED
  BY <1>7, <1>9, <1>14, <1>16, <1>17 DEF OptEq, NtfsTime

\* An NTFS time and a Unix time of the same second never contradict each
\* other, for any epoch and any number of ticks (Timestamp::from_ntfs).
THEOREM ClocksAgree == Spec => []SameInstantAgrees
<1>1. ASSUME HeadersInv PROVE SameInstantAgrees
  <2> DEFINE n == headers["central"].extra[1]
             t == headers["local"].extra[1]
  <2> SUFFICES ASSUME status = "check", Len(Extra("central")) = 1,
                      Len(Extra("local")) = 1,
                      TwoClocks(Extra("central")[1], Extra("local")[1])
               PROVE  OptEq(Entry.mtime, Local.mtime)
    BY DEF SameInstantAgrees
  <2>1. PICK e : metas["central"] = {e} /\ Whole("central", e)
    BY <1>1 DEF HeadersInv
  <2>2. PICK l : metas["local"] = {l} /\ Whole("local", l)
    BY <1>1 DEF HeadersInv
  <2>3. Entry = e /\ Local = l
    BY <2>1, <2>2 DEF Entry, Local
  <2>4. /\ HeaderLike(headers["central"]) /\ HeaderLike(headers["local"])
        /\ Len(headers["central"].extra) = 1
        /\ Len(headers["local"].extra) = 1
        /\ TwoClocks(n, t)
    BY <1>1 DEF HeadersInv, Sides, Extra
  <2>5. FieldLike(n) /\ FieldLike(t)
    BY <2>4 DEF HeaderLike
  <2>6. ASSUME NEW s \in Sides, NEW x, Whole(s, x),
               Len(headers[s].extra) = 1,
               headers[s].extra[1].id \in {"Ntfs", "Timestamp"}
        PROVE  /\ x.mtime = TimesIn(headers[s].extra[1]).mtime
               /\ TimesOf(headers[s].extra[1]) # {}
    <3>1. Marked(headers[s], 1, {"Ntfs", "Timestamp"}) = {1}
      BY <2>6 DEF Marked
    <3>2. Max({1}) = 1
      BY DEF Max
    <3> QED
      BY <2>6, <3>1, <3>2 DEF Whole, Fits, TimesFit, Same, TimeKeys
  <2>7. n.id = "Ntfs" /\ t.id = "Timestamp"
    BY <2>4 DEF TwoClocks
  <2>8. /\ e.mtime = TimesIn(n).mtime /\ TimesOf(n) # {}
        /\ l.mtime = TimesIn(t).mtime /\ TimesOf(t) # {}
    BY <2>1, <2>2, <2>4, <2>6, <2>7 DEF Sides
  <2> HIDE DEF n, t
  <2> QED
    BY <2>3, <2>4, <2>5, <2>8, LoneClocks
<1> QED
  BY <1>1, HeadersAlways, PTL

-------------------------------------------------------------------------------
(***************************************************************************)
(* The writer's own headers.                                               *)
(***************************************************************************)
HeaderOf(s, m) ==
    IF s = "central" THEN PushCentralHeader(m) ELSE WriteLocalHeader(m)

SizeField(s, m) ==
    [id |-> "Zip64", values |->
        IF s = "central" THEN << m.usize, m.csize, m.offset >>
        ELSE IF m.stream THEN << 0, 0 >> ELSE << m.usize, m.csize >>]

StampField(m) ==
    [id |-> "Timestamp", bits |-> {1}, times |-> << m.modified_at >>]

Stamped(m) == m.modified_at \in 1..U32Max

StampTimes(m) ==
    [mtime |-> Only(Stamped(m), m.modified_at), atime |-> {}, ctime |-> {}]

LEMMA HeaderName ==
    ASSUME NEW m, NEW crc, NEW offset, NEW extra
    PROVE  Header(m, crc, offset, extra).name
             = [utf8 |-> TRUE, base |-> m.name.base, slash |-> m.name.slash]
BY DEF Header

LEMMA HeaderComment ==
    ASSUME NEW m, NEW crc, NEW offset, NEW extra
    PROVE  Header(m, crc, offset, extra).comment
             = [utf8 |-> TRUE, base |-> m.comment, slash |-> FALSE]
BY DEF Header

LEMMA HeaderRest ==
    ASSUME NEW m, NEW crc, NEW offset, NEW extra
    PROVE  LET h == Header(m, crc, offset, extra)
           IN  /\ h.attr = Attributes(m.type) /\ h.flags = WriterFlags(m)
               /\ h.method = m.method /\ h.csize = Sat /\ h.usize = Sat
               /\ h.crc = crc /\ h.offset = offset /\ h.disk = 0
               /\ h.extra = extra \o TimeExtra(m.modified_at)
BY DEF Header

LEMMA WriterFields ==
    ASSUME NEW s \in Sides, NEW m
    PROVE  LET h == HeaderOf(s, m)
           IN  /\ h.name = [utf8 |-> TRUE, base |-> m.name.base,
                            slash |-> m.name.slash]
               /\ h.comment
                     = [utf8 |-> TRUE, base |-> m.comment, slash |-> FALSE]
               /\ h.attr = Attributes(m.type) /\ h.flags = WriterFlags(m)
               /\ h.method = m.method /\ h.csize = Sat /\ h.usize = Sat
               /\ h.crc = IF s = "local" /\ m.stream THEN 0 ELSE m.crc
               /\ h.offset = IF s = "central" THEN Sat ELSE 0
               /\ h.disk = 0
               /\ h.extra = << SizeField(s, m) >> \o TimeExtra(m.modified_at)
<1> DEFINE crc == IF s = "local" /\ m.stream THEN 0 ELSE m.crc
           offset == IF s = "central" THEN Sat ELSE 0
           extra == << SizeField(s, m) >>
<1>1. HeaderOf(s, m) = Header(m, crc, offset, extra)
  <2>1. CASE s = "central"
    BY <2>1 DEF HeaderOf, PushCentralHeader, SizeField
  <2>2. CASE s = "local"
    BY <2>2 DEF HeaderOf, WriteLocalHeader, SizeField
  <2> QED
    BY <2>1, <2>2 DEF Sides
<1> HIDE DEF crc, offset, extra
<1> DEFINE h == Header(m, crc, offset, extra)
<1>2. h.name = [utf8 |-> TRUE, base |-> m.name.base, slash |-> m.name.slash]
  BY HeaderName
<1>3. h.comment = [utf8 |-> TRUE, base |-> m.comment, slash |-> FALSE]
  BY HeaderComment
<1>4. /\ h.attr = Attributes(m.type) /\ h.flags = WriterFlags(m)
      /\ h.method = m.method /\ h.csize = Sat /\ h.usize = Sat
      /\ h.crc = crc /\ h.offset = offset /\ h.disk = 0
      /\ h.extra = extra \o TimeExtra(m.modified_at)
  BY HeaderRest
<1> HIDE DEF h
<1>5. HeaderOf(s, m) = h
  BY <1>1 DEF h
<1> QED
  BY <1>2, <1>3, <1>4, <1>5, Zenon DEF crc, offset, extra

LEMMA WriterExtra ==
    ASSUME NEW s \in Sides, NEW m
    PROVE  LET h == HeaderOf(s, m)
           IN  /\ h.extra[1] = SizeField(s, m)
               /\ Len(h.extra) = IF Stamped(m) THEN 2 ELSE 1
               /\ DOMAIN h.extra = 1..Len(h.extra)
               /\ Stamped(m) => h.extra[2] = StampField(m)
<1> DEFINE h == HeaderOf(s, m)
           z == SizeField(s, m)
           t == StampField(m)
<1>1. h.extra = << z >> \o TimeExtra(m.modified_at)
  BY WriterFields
<1> HIDE DEF h, z, t
<1>2. CASE Stamped(m)
  <2>1. h.extra = << z >> \o << t >>
    BY <1>1, <1>2 DEF TimeExtra, Stamped, StampField, t
  <2>2. \A a, b : LET x == << a >> \o << b >>
                  IN  /\ Len(x) = 2 /\ DOMAIN x = 1..2
                      /\ x[1] = a /\ x[2] = b
    OBVIOUS
  <2>3. /\ Len(h.extra) = 2 /\ DOMAIN h.extra = 1..2
        /\ h.extra[1] = z /\ h.extra[2] = t
    BY <2>1, <2>2
  <2> QED
    BY <1>2, <2>3 DEF z, t, h
<1>3. CASE ~Stamped(m)
  <2>1. h.extra = << z >> \o << >>
    BY <1>1, <1>3 DEF TimeExtra, Stamped
  <2>2. h.extra = << z >>
    BY <2>1
  <2> QED
    BY <1>3, <2>2 DEF z, h
<1> QED
  BY <1>2, <1>3 DEF h

LEMMA WriterHeaderLike ==
    ASSUME NEW s \in Sides, NEW m \in Written PROVE HeaderLike(HeaderOf(s, m))
<1> DEFINE h == HeaderOf(s, m)
<1>1. h.name.slash \in BOOLEAN
  <2>1. m.name = [base |-> m.name.base, slash |-> m.type = "Directory"]
    BY WriterHeadersAssumption
  <2>2. m.name.slash = (m.type = "Directory")
    BY <2>1
  <2>3. h.name = [utf8 |-> TRUE, base |-> m.name.base,
                  slash |-> m.name.slash]
    BY WriterFields
  <2> HIDE DEF h
  <2>4. h.name.slash = m.name.slash
    BY <2>3
  <2> QED
    BY <2>2, <2>4
<1>2. /\ h.extra[1] = SizeField(s, m)
      /\ Len(h.extra) = IF Stamped(m) THEN 2 ELSE 1
      /\ DOMAIN h.extra = 1..Len(h.extra)
      /\ Stamped(m) => h.extra[2] = StampField(m)
  BY WriterExtra
<1> HIDE DEF h
<1>3. FieldLike(SizeField(s, m))
  BY DEF FieldLike, SizeField, FieldIds
<1>4. ASSUME Stamped(m) PROVE FieldLike(StampField(m))
  <2>1. m.modified_at \in Nat
    BY <1>4, WriterHeadersAssumption DEF Stamped
  <2>2. << m.modified_at >> \in Seq(Nat)
    BY <2>1
  <2> QED
    BY <2>2 DEF FieldLike, StampField, FieldIds
<1>5. ASSUME NEW k \in 1..Len(h.extra) PROVE FieldLike(h.extra[k])
  <2>1. k = 1 \/ (Stamped(m) /\ k = 2)
    BY <1>2, <1>5
  <2> QED
    BY <1>2, <1>3, <1>4, <2>1
<1>6. Len(h.extra) \in Nat
  BY <1>2
<1> QED
  BY <1>1, <1>2, <1>5, <1>6 DEF HeaderLike, h

LEMMA WriterMarks ==
    ASSUME NEW s \in Sides, NEW m
    PROVE  LET h == HeaderOf(s, m)
           IN  /\ Marked(h, Len(h.extra), {"Zip64"}) = {1}
               /\ Marked(h, Len(h.extra), {"Ntfs", "Timestamp"})
                    = IF Stamped(m) THEN {2} ELSE {}
               /\ \A id \in {"UnicodeName", "UnicodeComment", "Aes"} :
                     Marked(h, Len(h.extra), {id}) = {}
<1> DEFINE h == HeaderOf(s, m)
<1>1. /\ h.extra[1].id = "Zip64"
      /\ Len(h.extra) = IF Stamped(m) THEN 2 ELSE 1
      /\ Stamped(m) => h.extra[2].id = "Timestamp"
  <2>1. /\ h.extra[1] = SizeField(s, m)
        /\ Len(h.extra) = IF Stamped(m) THEN 2 ELSE 1
        /\ Stamped(m) => h.extra[2] = StampField(m)
    BY WriterExtra
  <2>2. SizeField(s, m).id = "Zip64" /\ StampField(m).id = "Timestamp"
    BY DEF SizeField, StampField
  <2> QED
    BY <2>1, <2>2
<1> HIDE DEF h
<1>2. CASE Stamped(m)
  <2>1. \A k : k \in 1..Len(h.extra) <=> k = 1 \/ k = 2
    BY <1>1, <1>2
  <2> QED
    BY <1>1, <1>2, <2>1 DEF Marked, h
<1>3. CASE ~Stamped(m)
  <2>1. \A k : k \in 1..Len(h.extra) <=> k = 1
    BY <1>1, <1>3
  <2> QED
    BY <1>1, <1>3, <2>1 DEF Marked, h
<1> QED
  BY <1>2, <1>3 DEF h

LEMMA StampIsRead ==
    ASSUME NEW m PROVE ExtendedTimes(StampField(m))
                         = {[mtime |-> {m.modified_at}, atime |-> {},
                             ctime |-> {}]}
<1> DEFINE t == StampField(m)
<1>1. t.bits = {1} /\ t.times = << m.modified_at >>
  BY DEF StampField
<1>2. Announced(t) = << 1 >>
  BY <1>1 DEF Announced
<1>3. Cardinality(t.bits) = 1
  BY <1>1, FS_Singleton
<1> HIDE DEF t
<1>4. \A bit : { t.times[k] : k \in
                  {k \in DOMAIN Announced(t) : Announced(t)[k] = bit} }
                = IF bit = 1 THEN {m.modified_at} ELSE {}
  BY <1>1, <1>2
<1>5. Len(t.times) = 1 /\ Len(Announced(t)) = 1
  BY <1>1, <1>2
<1> QED
  BY <1>3, <1>4, <1>5 DEF ExtendedTimes, Only, t

LEMMA WriterName ==
    ASSUME NEW s \in Sides, NEW m \in Written
    PROVE  LET h == HeaderOf(s, m)
           IN  /\ Text(h.name) = m.name /\ NameOf(h) = {m.name}
               /\ Encryption(h.flags) = {"None"}
               /\ \A k : ConvertString(h.comment, k) # {}
               /\ Text(h.comment).base = m.comment
<1> DEFINE h == HeaderOf(s, m)
<1>1. /\ h.name = [utf8 |-> TRUE, base |-> m.name.base, slash |-> m.name.slash]
      /\ h.comment = [utf8 |-> TRUE, base |-> m.comment, slash |-> FALSE]
      /\ h.flags = WriterFlags(m)
  BY WriterFields
<1>2. /\ m.name = [base |-> m.name.base, slash |-> m.type = "Directory"]
      /\ m.name.base \notin BadBases
  BY WriterHeadersAssumption
<1> HIDE DEF h
<1>3. Text(h.name) = m.name
  <2>1. /\ h.name.base = m.name.base /\ h.name.slash = m.name.slash
        /\ m.name.slash = (m.type = "Directory")
    BY <1>1, <1>2
  <2>2. Text(h.name) = [base |-> m.name.base, slash |-> m.type = "Directory"]
    BY <2>1 DEF Text
  <2> QED
    BY <1>2, <2>2
<1>4. NameOf(h) = {m.name}
  <2>1. h.name.utf8
    BY <1>1
  <2>2. \A k : ConvertString(h.name, k) = {[text |-> m.name, crc |-> {}]}
    BY <1>3, <2>1 DEF ConvertString
  <2>3. ValidateName(m.name) = {m.name}
    BY <1>2 DEF ValidateName, Only
  <2> DEFINE r == [text |-> m.name, crc |-> {}]
  <2>4. r.text = m.name
    OBVIOUS
  <2> HIDE DEF r
  <2>5. UNION { ValidateName(x.text) : x \in {r} } = {m.name}
    BY <2>3, <2>4
  <2> QED
    BY <2>2, <2>5 DEF NameOf, r
<1>5. Encryption(h.flags) = {"None"}
  <2>1. "encrypted" \notin h.flags /\ "strong" \notin h.flags
    BY <1>1 DEF WriterFlags
  <2> QED
    BY <2>1 DEF Encryption, Only
<1>6. h.comment.utf8 /\ h.comment.base = m.comment
  BY <1>1
<1>7. \A k : ConvertString(h.comment, k) # {}
  BY <1>6 DEF ConvertString
<1>8. Text(h.comment).base = m.comment
  BY <1>6 DEF Text
<1> QED
  BY <1>3, <1>4, <1>5, <1>7, <1>8 DEF h

LEMMA WriterType ==
    ASSUME NEW m \in Written
    PROVE  FileTypeTest(Attributes(m.type), m.name) = {m.type}
<1> DEFINE a == Attributes(m.type)
<1>1. /\ m.type \in {"File", "Directory", "Symlink"}
      /\ m.name = [base |-> m.name.base, slash |-> m.type = "Directory"]
  BY WriterHeadersAssumption
<1>2. m.name.slash = (m.type = "Directory")
  BY <1>1
<1>3. CASE m.type = "File"
  <2>1. a.dos = {"file"} /\ a.kind = 8
    BY <1>3 DEF Attributes
  <2> HIDE DEF a
  <2>2. m.name.slash = FALSE
    BY <1>2, <1>3
  <2>3. FileTypeTest(a, m.name) = {"File"}
    BY <2>1, <2>2 DEF FileTypeTest, Only
  <2> QED
    BY <1>3, <2>3 DEF a
<1>4. CASE m.type = "Directory"
  <2>1. a.dos = {"dir"} /\ a.kind = 4
    BY <1>4 DEF Attributes
  <2> HIDE DEF a
  <2>2. m.name.slash = TRUE
    BY <1>2, <1>4
  <2>3. FileTypeTest(a, m.name) = {"Directory"}
    BY <2>1, <2>2 DEF FileTypeTest, Only
  <2> QED
    BY <1>4, <2>3 DEF a
<1>5. CASE m.type = "Symlink"
  <2>1. a.dos = {} /\ a.kind = 10
    BY <1>5 DEF Attributes
  <2> HIDE DEF a
  <2>2. m.name.slash = FALSE
    BY <1>2, <1>5
  <2>3. FileTypeTest(a, m.name) = {"Symlink"}
    BY <2>1, <2>2 DEF FileTypeTest, Only
  <2> QED
    BY <1>5, <2>3 DEF a
<1> QED
  BY <1>1, <1>3, <1>4, <1>5

\* The reader takes in a header of the writer, up to the extra fields...
LEMMA WriterHeaderRead ==
    ASSUME NEW s \in Sides, NEW m \in Written
    PROVE  FromHeader(s, HeaderOf(s, m)) # {}
<1> DEFINE h == HeaderOf(s, m)
<1>1. /\ NameOf(h) = {m.name} /\ Encryption(h.flags) = {"None"}
      /\ \A k : ConvertString(h.comment, k) # {}
  BY WriterName
<1>2. h.disk = 0 /\ h.attr = Attributes(m.type)
  BY WriterFields
<1>3. FileTypeTest(h.attr, m.name) = {m.type}
  BY <1>2, WriterType
<1> HIDE DEF h
<1>4. FromLocalHeader(h) # {}
  BY <1>1 DEF FromLocalHeader
<1>5. FromCentralHeader(h) # {}
  <2>1. PICK c : c \in ConvertString(h.comment, ForceUnicode(h))
    BY <1>1
  <2>2. Fresh(h, m.name, m.type, c.text, "None", h.offset)
          \in FromCentralHeader(h)
    BY <1>1, <1>2, <1>3, <2>1 DEF FromCentralHeader
  <2> QED
    BY <2>2
<1> QED
  BY <1>4, <1>5 DEF FromHeader, h

\* ... and each of its extra fields.
LEMMA WriterFieldRead ==
    ASSUME NEW s \in Sides, NEW m \in Written,
           NEW k \in 1..Len(HeaderOf(s, m).extra),
           NEW e, Fits(s, HeaderOf(s, m), e, k - 1), NEW crc, NEW comment_crc
    PROVE  OnField(e, HeaderOf(s, m).extra[k], crc, comment_crc) # {}
<1> DEFINE h == HeaderOf(s, m)
<1>1. /\ h.extra[1] = SizeField(s, m)
      /\ Len(h.extra) = IF Stamped(m) THEN 2 ELSE 1
      /\ Stamped(m) => h.extra[2] = StampField(m)
  BY WriterExtra
<1>2. /\ h.usize = Sat /\ h.csize = Sat
      /\ h.offset = IF s = "central" THEN Sat ELSE 0
  BY WriterFields
<1> HIDE DEF h
<1>3. k = 1 \/ (k = 2 /\ Stamped(m))
  BY <1>1 DEF h
<1>4. CASE k = 1
  <2> DEFINE f == SizeField(s, m)
  <2>1. f.id = "Zip64"
        /\ Len(f.values) = IF s = "central" THEN 3 ELSE 2
    BY DEF SizeField
  <2>2. Marked(h, 0, {"Zip64"}) = {}
    BY DEF Marked
  <2>3. Fits(s, h, e, 0)
    BY <1>4 DEF h
  <2>4. e.usize = Sat /\ e.csize = Sat
        /\ e.offset = IF s = "central" THEN Sat ELSE 0
    BY <1>2, <2>2, <2>3 DEF Fits, SizesFit, Offset
  <2>5. Saturated(e) = IF s = "central" THEN 3 ELSE 2
    BY <2>4, HeaderAssumption DEF Saturated, Count
  <2> HIDE DEF f
  <2>6. OnField(e, f, crc, comment_crc) = OnZip64(e, f)
    BY <2>1 DEF OnField
  <2>7. OnZip64(e, f) # {}
    BY <2>1, <2>5 DEF OnZip64, Only
  <2> QED
    BY <1>1, <1>4, <2>6, <2>7 DEF f, h
<1>5. CASE k = 2 /\ Stamped(m)
  <2> DEFINE f == StampField(m)
  <2>1. f.id = "Timestamp"
    BY DEF StampField
  <2>2. ExtendedTimes(f) # {}
    BY StampIsRead
  <2> HIDE DEF f
  <2>3. OnField(e, f, crc, comment_crc) = OnTimes(e, ExtendedTimes(f))
    BY <2>1 DEF OnField
  <2>4. OnTimes(e, ExtendedTimes(f)) # {}
    BY <2>2 DEF OnTimes
  <2> QED
    BY <1>1, <1>5, <2>3, <2>4 DEF f, h
<1> QED
  BY <1>3, <1>4, <1>5

\* What the reader has made of a header of the writer.
ReadAs(s, m, e) ==
    /\ DOMAIN e = Keys /\ e.name = m.name /\ e.method = m.method
    /\ e.enc = "None" /\ e.flags = WriterFlags(m) /\ e.zip64 = TRUE
    /\ Same(e, StampTimes(m), TimeKeys)
    /\ s = "central" \/ ~m.stream =>
          e.crc = m.crc /\ e.usize = m.usize /\ e.csize = m.csize
    /\ s = "central" => /\ e.type = m.type /\ e.offset = m.offset
                        /\ e.comment.base = m.comment

LEMMA WriterEntry ==
    ASSUME NEW s \in Sides, NEW m \in Written, NEW e,
           Fits(s, HeaderOf(s, m), e, Len(HeaderOf(s, m).extra))
    PROVE  ReadAs(s, m, e)
<1> DEFINE h == HeaderOf(s, m)
           n == Len(h.extra)
<1>1. /\ h.attr = Attributes(m.type) /\ h.flags = WriterFlags(m)
      /\ h.method = m.method /\ h.csize = Sat /\ h.usize = Sat
      /\ h.crc = IF s = "local" /\ m.stream THEN 0 ELSE m.crc
      /\ h.offset = IF s = "central" THEN Sat ELSE 0
  BY WriterFields
<1>2. /\ h.extra[1] = SizeField(s, m)
      /\ Stamped(m) => h.extra[2] = StampField(m)
  BY WriterExtra
<1>3. /\ Marked(h, n, {"Zip64"}) = {1}
      /\ Marked(h, n, {"Ntfs", "Timestamp"})
           = IF Stamped(m) THEN {2} ELSE {}
      /\ Marked(h, n, {"UnicodeName"}) = {}
      /\ Marked(h, n, {"UnicodeComment"}) = {}
      /\ Marked(h, n, {"Aes"}) = {}
  BY WriterMarks
<1>4. /\ Text(h.name) = m.name /\ Encryption(h.flags) = {"None"}
      /\ Text(h.comment).base = m.comment
  BY WriterName
<1> HIDE DEF h, n
<1>5. Fits(s, h, e, n)
  BY DEF h, n
<1>6. /\ DOMAIN e = Keys /\ e.name = m.name /\ e.method = m.method
      /\ e.enc = "None" /\ e.flags = WriterFlags(m)
      /\ e.crc = IF s = "local" /\ m.stream THEN 0 ELSE m.crc
  BY <1>1, <1>3, <1>4, <1>5 DEF Fits, RestFits, NameFits, AesFits
<1>7. s = "central" => e.type = m.type /\ e.comment.base = m.comment
  <2>1. s = "central" => e.type \in {m.type}
    BY <1>1, <1>4, <1>5, WriterType DEF Fits, RestFits
  <2>2. s = "central" => e.comment = Text(h.comment)
    BY <1>3, <1>5 DEF Fits, RestFits
  <2> QED
    BY <1>4, <2>1, <2>2
<1>8. Same(e, StampTimes(m), TimeKeys)
  <2>1. CASE Stamped(m)
    <3>1. TimesIn(StampField(m))
            = [mtime |-> {m.modified_at}, atime |-> {}, ctime |-> {}]
      <4>1. StampField(m).id = "Timestamp"
        BY DEF StampField
      <4> QED
        BY <4>1, StampIsRead, FieldTimes
    <3>2. StampTimes(m)
            = [mtime |-> {m.modified_at}, atime |-> {}, ctime |-> {}]
      BY <2>1 DEF StampTimes, Only
    <3>3. Max({2}) = 2
      BY DEF Max
    <3> QED
      BY <1>2, <1>3, <1>5, <2>1, <3>1, <3>2, <3>3 DEF Fits, TimesFit
  <2>2. CASE ~Stamped(m)
    <3>1. StampTimes(m) = NoTimes
      BY <2>2 DEF StampTimes, NoTimes, Only
    <3> QED
      BY <1>3, <1>5, <2>2, <3>1 DEF Fits, TimesFit
  <2> QED
    BY <2>1, <2>2
<1>9. /\ e.zip64 = TRUE
      /\ s = "central" \/ ~m.stream => e.usize = m.usize /\ e.csize = m.csize
      /\ s = "central" => e.offset = m.offset
  <2> DEFINE v == SizeField(s, m).values
  <2>1. /\ s = "central" \/ ~m.stream => v[1] = m.usize /\ v[2] = m.csize
        /\ s = "central" => Len(v) = 3 /\ v[3] = m.offset
    BY DEF SizeField, Sides
  <2>2. /\ h.extra[1].values = v /\ Count(h.usize = Sat) = 1
        /\ s = "central" => Offset(s, h) = Sat
    BY <1>1, <1>2 DEF Count, Offset
  <2> HIDE DEF v
  <2>3. SizesFit(s, h, e, n)
    BY <1>5 DEF Fits
  <2>4. e.zip64 = TRUE
    BY <1>3, <2>3 DEF SizesFit
  <2>5. /\ e.usize = v[1] /\ e.csize = v[1 + 1]
        /\ s = "central" => e.offset = v[Len(v)]
    BY <1>1, <1>3, <2>2, <2>3 DEF SizesFit
  <2> QED
    BY <2>1, <2>4, <2>5
<1>10. s = "central" \/ ~m.stream => e.crc = m.crc
  BY <1>6 DEF Sides
<1> QED
  BY <1>6, <1>7, <1>8, <1>9, <1>10 DEF ReadAs

\* The two headers of the writer never contradict each other: its descriptor
\* has what the central header has, and both have the same time.
LEMMA WriterChecked ==
    ASSUME NEW m \in Written, descriptor = DescriptorOf(m), NEW e, NEW l,
           Fits("central", HeaderOf("central", m), e,
                Len(HeaderOf("central", m).extra)),
           Fits("local", HeaderOf("local", m), l,
                Len(HeaderOf("local", m).extra))
    PROVE  Checked(e, l) # {}
<1>1. /\ DOMAIN e = Keys /\ e.name = m.name /\ e.method = m.method
      /\ e.flags = WriterFlags(m) /\ Same(e, StampTimes(m), TimeKeys)
      /\ e.crc = m.crc /\ e.usize = m.usize /\ e.csize = m.csize
      /\ e.type = m.type
  <2>1. ReadAs("central", m, e)
    BY WriterEntry DEF Sides
  <2> QED
    BY <2>1 DEF ReadAs
<1>2. /\ DOMAIN l = Keys /\ l.name = m.name /\ l.method = m.method
      /\ l.flags = WriterFlags(m) /\ l.zip64 = TRUE
      /\ Same(l, StampTimes(m), TimeKeys)
      /\ ~m.stream => l.crc = m.crc /\ l.usize = m.usize /\ l.csize = m.csize
  <2>1. ReadAs("local", m, l)
    BY WriterEntry DEF Sides
  <2> QED
    BY <2>1 DEF ReadAs
<1>3. /\ m.method = "Store" => m.csize = m.usize
      /\ m.type = "Directory" => m.usize = 0
      /\ m.stream \in BOOLEAN
  BY WriterHeadersAssumption
<1>4. Streaming(l) <=> m.stream
  BY <1>2, <1>3 DEF Streaming, WriterFlags
<1>5. PICK d : /\ d \in ReadDescriptor(l)
               /\ Same(d, l, Keys \ {"csize", "usize", "crc"})
               /\ d.crc = m.crc /\ d.usize = m.usize /\ d.csize = m.csize
  <2>1. CASE m.stream
    <3>1. /\ descriptor.wide = TRUE /\ descriptor.csize = m.csize
          /\ descriptor.usize = m.usize /\ descriptor.crc = m.crc
      BY DEF DescriptorOf
    <3>2. ReadDescriptor(l)
            = { [l EXCEPT !.csize = descriptor.csize,
                          !.usize = descriptor.usize,
                          !.crc = descriptor.crc] }
      BY <1>2, <1>4, <2>1, <3>1 DEF ReadDescriptor, Only
    <3>3. \E d : d \in ReadDescriptor(l)
      BY <3>2
    <3> QED
      BY <1>2, <1>4, <2>1, <3>1, <3>3, Described
  <2>2. CASE ~m.stream
    <3>1. l \in ReadDescriptor(l)
      BY <1>4, <2>2 DEF ReadDescriptor
    <3> QED
      BY <1>2, <2>2, <3>1 DEF Same
  <2> QED
    BY <2>1, <2>2
<1>6. /\ d.name = m.name /\ d.method = m.method /\ d.flags = WriterFlags(m)
      /\ d.mtime = e.mtime /\ d.atime = e.atime /\ d.ctime = e.ctime
  BY <1>1, <1>2, <1>5 DEF Same, Keys, TimeKeys
<1>7. Consistent(e, d)
  BY <1>1, <1>3, <1>5, <1>6 DEF Consistent, OptEq
<1>8. e.type = "Directory" => e.usize = 0
  BY <1>1, <1>3
<1> QED
  BY <1>5, <1>7, <1>8 DEF Checked

(***************************************************************************)
(* The invariant of SpecW: the headers are the writer's, and none of them  *)
(* has been refused.                                                       *)
(***************************************************************************)
WriterInv ==
    /\ HeadersInv
    /\ \E m \in Written :
          /\ written = {m}
          /\ \A s \in Sides : headers[s] = HeaderOf(s, m)
          /\ descriptor = DescriptorOf(m)
    /\ status # "refused"

LEMMA WriterInit == InitW => WriterInv
<1> SUFFICES ASSUME InitW PROVE WriterInv
  OBVIOUS
<1>1. PICK m \in Written :
         /\ written = {m}
         /\ headers = [s \in Sides |-> IF s = "central"
                          THEN PushCentralHeader(m) ELSE WriteLocalHeader(m)]
         /\ descriptor = DescriptorOf(m)
  BY DEF InitW
<1>2. \A s \in Sides : headers[s] = HeaderOf(s, m)
  BY <1>1 DEF HeaderOf
<1>3. \A s \in Sides : HeaderLike(headers[s])
  BY <1>2, WriterHeaderLike
<1>4. HeadersInv
  BY <1>3 DEF InitW, HeadersInv, Sides
<1>5. status # "refused"
  BY DEF InitW
<1> QED
  BY <1>1, <1>2, <1>4, <1>5 DEF WriterInv

\* No step refuses a header of the writer.
LEMMA WriterNotRefused ==
    WriterInv /\ Next => status' # "refused"
<1> SUFFICES ASSUME WriterInv, Next PROVE status' # "refused"
  OBVIOUS
<1>1. PICK m \in Written :
         /\ written = {m}
         /\ \A s \in Sides : headers[s] = HeaderOf(s, m)
         /\ descriptor = DescriptorOf(m)
  BY DEF WriterInv
<1>2. HeadersInv /\ side \in Sides
  BY DEF WriterInv, HeadersInv
<1>3. headers[side] = HeaderOf(side, m)
  BY <1>1, <1>2
<1>4. ASSUME NEW new, new # {}, NEW k, NEW s, s # "refused", Become(new, k, s)
      PROVE  status' # "refused"
  BY <1>4 DEF Become
<1>5. CASE ReadHeader
  <2> DEFINE new == FromHeader(side, headers[side])
  <2>1. new # {}
    BY <1>2, <1>3, WriterHeaderRead
  <2>2. Become(new, 1, "fields")
    BY <1>5 DEF ReadHeader, FromHeader
  <2> HIDE DEF new
  <2> QED
    BY <1>4, <2>1, <2>2
<1>6. CASE ReadField
  <2>1. /\ status = "fields" /\ next <= Len(headers[side].extra)
        /\ next \in Nat /\ next > 0 /\ Len(headers[side].extra) \in Nat
    BY <1>2, <1>6 DEF ReadField, HeadersInv, HeaderLike
  <2>2. PICK e : metas[side] = {e} /\ Fits(side, headers[side], e, next - 1)
    BY <1>2, <2>1 DEF HeadersInv
  <2> DEFINE new == OnField(e, headers[side].extra[next], NameCrc, CommentCrc)
  <2>3. next \in 1..Len(HeaderOf(side, m).extra)
    BY <1>3, <2>1
  <2>4. new # {}
    BY <1>2, <1>3, <2>2, <2>3, WriterFieldRead
  <2>5. Become(new, next + 1, "fields")
    BY <1>6, <2>2 DEF ReadField
  <2> HIDE DEF new
  <2> QED
    BY <1>4, <2>4, <2>5
<1>7. CASE EndFields
  <2>1. /\ status = "fields" /\ next - 1 = Len(headers[side].extra)
    BY <1>2, <1>7 DEF EndFields, HeadersInv, HeaderLike
  <2>2. PICK e : metas[side] = {e} /\ Fits(side, headers[side], e, next - 1)
    BY <1>2, <2>1 DEF HeadersInv
  <2>3. e.method = m.method
    <3>1. Fits(side, headers[side], e, Len(headers[side].extra))
      BY <2>1, <2>2
    <3>2. ReadAs(side, m, e)
      BY <1>2, <1>3, <3>1, WriterEntry
    <3> QED
      BY <3>2 DEF ReadAs
  <2>4. e.method # "AES"
    BY <2>3, WriterHeadersAssumption
  <2>5. status' = IF side = "central" THEN "header" ELSE "check"
    BY <1>7, <2>2, <2>4 DEF EndFields
  <2> QED
    BY <2>5
<1>8. CASE CheckLocalEntry
  <2>1. status = "check" /\ side = "local"
    BY <1>2, <1>8 DEF CheckLocalEntry, HeadersInv
  <2>2. PICK e : metas["central"] = {e} /\ Whole("central", e)
    BY <1>2, <2>1 DEF HeadersInv
  <2>3. PICK l : metas["local"] = {l} /\ Whole("local", l)
    BY <1>2, <2>1 DEF HeadersInv
  <2>4. Checked(e, l) # {}
    BY <1>1, <2>2, <2>3, WriterChecked DEF Whole, Sides
  <2> QED
    BY <1>8, <2>2, <2>3, <2>4 DEF CheckLocalEntry
<1> QED
  BY <1>5, <1>6, <1>7, <1>8 DEF Next

LEMMA WriterNext == WriterInv /\ [NextW]_<< vars, written >> => WriterInv'
<1> SUFFICES ASSUME WriterInv, [NextW]_<< vars, written >> PROVE WriterInv'
  OBVIOUS
<1>1. [Next]_vars /\ written' = written
  BY DEF NextW
<1>2. HeadersInv'
  BY <1>1, HeadersNext DEF WriterInv
<1>3. headers' = headers /\ descriptor' = descriptor
  BY <1>1 DEF Next, ReadHeader, ReadField, EndFields, CheckLocalEntry, Become,
              Refuse, vars
<1>4. status' # "refused"
  BY <1>1, WriterNotRefused DEF WriterInv, vars
<1>5. PICK m \in Written :
         /\ written = {m}
         /\ \A s \in Sides : headers[s] = HeaderOf(s, m)
         /\ descriptor = DescriptorOf(m)
  BY DEF WriterInv
<1>6. /\ written' = {m}
      /\ \A s \in Sides : headers'[s] = HeaderOf(s, m)
      /\ descriptor' = DescriptorOf(m)
  BY <1>1, <1>3, <1>5
<1> QED
  BY <1>2, <1>4, <1>6 DEF WriterInv

\* Every header pair of the writer is accepted, and the entry is listed as the
\* writer was given it, whatever its sizes, its offset, its method, whether it
\* is streamed, and its time (src/write/raw.rs, read by src/read/).
THEOREM WriterIsListed == SpecW => []WriterListed
<1>1. ASSUME WriterInv PROVE WriterListed
  <2>1. PICK m \in Written :
           /\ written = {m}
           /\ \A s \in Sides : headers[s] = HeaderOf(s, m)
           /\ descriptor = DescriptorOf(m)
    BY <1>1 DEF WriterInv
  <2>2. ASSUME status = "ok" PROVE ListedAs(m)
    <3>1. PICK e, l :
             /\ Whole("central", e) /\ Whole("local", l)
             /\ \E d \in ReadDescriptor(l) :
                   Consistent(e, d) /\ Entry = FillIn(e, d)
      BY <1>1, <2>2, AcceptedEntry DEF WriterInv
    <3>2. PICK d \in ReadDescriptor(l) : Entry = FillIn(e, d)
      BY <3>1
    <3>3. /\ DOMAIN e = Keys /\ e.name = m.name /\ e.method = m.method
          /\ e.enc = "None" /\ Same(e, StampTimes(m), TimeKeys)
          /\ e.crc = m.crc /\ e.usize = m.usize /\ e.csize = m.csize
          /\ e.type = m.type /\ e.offset = m.offset
          /\ e.comment.base = m.comment
      <4>1. ReadAs("central", m, e)
        BY <2>1, <3>1, WriterEntry DEF Whole, Sides
      <4> QED
        BY <4>1 DEF ReadAs
    <3>4. DOMAIN l = Keys /\ Same(l, StampTimes(m), TimeKeys)
      <4>1. ReadAs("local", m, l)
        BY <2>1, <3>1, WriterEntry DEF Whole, Sides
      <4> QED
        BY <4>1 DEF ReadAs
    <3>5. Same(d, l, Keys \ {"csize", "usize", "crc"})
      BY <3>2, <3>4, Described
    <3>6. /\ StampTimes(m).mtime = Only(Stamped(m), m.modified_at)
          /\ StampTimes(m).atime = {} /\ StampTimes(m).ctime = {}
      BY DEF StampTimes
    <3>7. /\ d.atime = {} /\ d.ctime = {} /\ e.atime = {} /\ e.ctime = {}
          /\ e.mtime = Only(Stamped(m), m.modified_at)
      BY <3>3, <3>4, <3>5, <3>6 DEF Same, Keys, TimeKeys
    <3>8. /\ Same(Entry, e, Keys \ {"atime", "ctime"})
          /\ Entry.atime = {} /\ Entry.ctime = {}
      BY <3>2, <3>3, <3>7, FilledIn
    <3>9. /\ Entry.name = m.name /\ Entry.type = m.type
          /\ Entry.method = m.method /\ Entry.comment.base = m.comment
          /\ Entry.enc = "None" /\ Entry.usize = m.usize
          /\ Entry.csize = m.csize /\ Entry.crc = m.crc
          /\ Entry.offset = m.offset
          /\ Entry.mtime = Only(Stamped(m), m.modified_at)
      BY <3>3, <3>7, <3>8 DEF Same, Keys
    <3> QED
      BY <3>8, <3>9 DEF ListedAs, Stamped
  <2> QED
    BY <1>1, <2>1, <2>2 DEF WriterInv, WriterListed
<1> QED
  BY <1>1, WriterInit, WriterNext, PTL DEF SpecW
=============================================================================
