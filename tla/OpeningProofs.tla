---------------------------- MODULE OpeningProofs ----------------------------
(***************************************************************************)
(* Theorems about the two parts of opening an archive that MCOpening       *)
(* checks.                                                                 *)
(*                                                                         *)
(* What EndRecords guarantees for files of every length, records with any  *)
(* contents and sizes, and both builds.                                    *)
(*                                                                         *)
(* The rules for names and links, for paths of every length: a name is     *)
(* refused exactly when it is bad, the canonical name leads to the same    *)
(* place, and a link is accepted exactly when the walk along it stays      *)
(* within the root.                                                        *)
(***************************************************************************)
EXTENDS EndRecords, PathRules, Induction

Searching == {"search_end", "search_all"}
AfterSearch == {"eocd", "locator", "eocd64", "size", "open", "panic"}

\* `at' is the last signature, and starts a record that the second search
\* would have found as well.
LastRecord ==
    /\ at \in SignaturesFrom(0)
    /\ \A q \in SignaturesFrom(0) : q <= at
    /\ at + EocdLen <= Len(file)
    /\ Len(file) - (at + EocdLen) <= MaxComment

\* What the search knows at each step.
Searched ==
    /\ status = "search_all" =>
          /\ Len(file) >= EocdLen
          /\ SignaturesFrom(Len(file) - EocdLen) = {}
    /\ status \in AfterSearch \cup {"comment"} => LastRecord
    /\ status \in AfterSearch =>
          file[at + EocdLen] = Len(file) - (at + EocdLen)
    /\ status = "refused" /\ found = Nothing => ~EndsInRecord
    /\ status \in Searching \cup {"comment", "eocd"} => found = Nothing
    /\ status \in AfterSearch \ {"eocd"} => found # Nothing

\* The records that were read, at each step after the search.
Records(r, l, e) == [eocd |-> r, locator |-> l, eocd64 |-> e]

Sound(r) == ~r.multi /\ r.here = r.total

SoundLocator(l) == l.valid /\ ~l.multi /\ l.offset64 <= LocatorOffset

Meets(l, e) == \E n \in RecordLen(e) : l.offset64 + n = LocatorOffset

ShortPath ==
    \E r \in found.eocd :
        /\ found = Records({r}, {}, {})
        /\ Sound(r) /\ ~IsZip64(r)
        /\ dir = {[offset |-> r.offset, size |-> r.size, eocd_offset |-> at,
                   entries |-> r.total]}

LongPath ==
    \E r \in found.eocd, l \in found.locator, e \in found.eocd64 :
        /\ found = Records({r}, {l}, {e})
        /\ Sound(r) /\ IsZip64(r) /\ SoundLocator(l)
        /\ Sound(e) /\ Meets(l, e)
        /\ l.offset64 + Eocd64Len <= Len(file)
        /\ dir = {[offset |-> e.offset, size |-> e.size, entries |-> e.total,
                   eocd_offset |-> l.offset64]}

Chain ==
    /\ status = "locator" =>
          \E r \in found.eocd :
              found = Records({r}, {}, {}) /\ Sound(r) /\ IsZip64(r)
    /\ status = "eocd64" =>
          \E r \in found.eocd, l \in found.locator :
              /\ found = Records({r}, {l}, {})
              /\ Sound(r) /\ IsZip64(r) /\ SoundLocator(l)
    /\ status \in {"size", "open"} => ShortPath \/ LongPath

Validated == status = "open" => \A d \in dir : ValidSize(d)

IInv == TypeOK /\ Searched /\ Chain /\ Validated /\ OpensExactly

-------------------------------------------------------------------------------
\* What the assumption and the types say of the numbers.
LEMMA Numbers ==
    TypeOK =>
        /\ file \in Seq(Bytes) /\ Len(file) \in Nat /\ Len(file) <= Top64
        /\ EocdLen \in Nat \ {0} /\ MaxComment \in Nat /\ at \in Nat
        /\ CentralLen \in Nat \ {0} /\ Eocd64Len \in Nat \ {0}
        /\ LocatorLen \in Nat \ {0} /\ RecordHead \in Nat
        /\ Top16 \in Nat /\ Top32 \in Nat /\ Top64 \in Nat
<1> HAVE TypeOK
<1>1. file \in Files /\ at \in 0..Len(file)
  BY DEF TypeOK
<1>2. file \in Seq(Bytes) /\ Len(file) <= Top64
  BY <1>1, FilesAssumption
<1>3. Len(file) \in Nat
  BY <1>2
<1> QED
  BY <1>1, <1>2, <1>3, SizesAssumption

LEMMA InitInv == Init => IInv
<1> SUFFICES ASSUME Init PROVE IInv
  OBVIOUS
<1>0. /\ build \in Builds /\ file \in Files /\ at = 0 /\ found = Nothing
      /\ dir = {} /\ status = "search_end"
  BY DEF Init
<1>1. TypeOK
  <2>1. found \in [eocd: SUBSET Eocds, locator: SUBSET Locators,
                   eocd64: SUBSET Eocd64s]
    BY <1>0 DEF Nothing
  <2>2. file \in Seq(Bytes)
    BY <1>0, FilesAssumption
  <2>3. Len(file) \in Nat
    BY <2>2
  <2> QED
    BY <1>0, <2>1, <2>3 DEF TypeOK
<1>2. Searched
  BY <1>0 DEF Searched, Searching, AfterSearch
<1>3. Chain /\ Validated
  BY <1>0 DEF Chain, Validated
<1>4. OpensExactly
  BY <1>0 DEF OpensExactly
<1> QED
  BY <1>1, <1>2, <1>3, <1>4 DEF IInv

\* No record was read: the records do not agree.
LEMMA NothingDisagrees == found = Nothing => ~RecordsAgree
BY DEF RecordsAgree, Nothing

-------------------------------------------------------------------------------
(***************************************************************************)
(* The search.                                                             *)
(***************************************************************************)
LEMMA FindInInv ==
    ASSUME IInv, status \in Searching, NEW from \in Int, FindIn(from),
           from + EocdLen + MaxComment >= Len(file)
    PROVE  IInv'
<1> USE DEF Searching
<1>1. TypeOK /\ Searched /\ found = Nothing
  BY DEF IInv, Searched
<1>2. PICK p \in SignaturesFrom(from) :
         /\ \A q \in SignaturesFrom(from) : q <= p
         /\ \/ p + EocdLen > Len(file) /\ Stop("refused")
            \/ /\ p + EocdLen <= Len(file)
               /\ at' = p
               /\ status' = "comment"
               /\ UNCHANGED << build, file, found, dir >>
  BY DEF FindIn
<1>3. /\ p \in Nat /\ p >= from /\ p < Len(file)
      /\ p \in SignaturesFrom(0)
      /\ \A q \in SignaturesFrom(0) : q <= p
  BY <1>1, <1>2, Numbers DEF SignaturesFrom
<1>4. CASE p + EocdLen > Len(file) /\ Stop("refused")
  <2>1. ~EndsInRecord
    <3> SUFFICES ASSUME NEW last \in SignaturesFrom(0), p <= last,
                        last + EocdLen <= Len(file)
                 PROVE  FALSE
      BY <1>3 DEF EndsInRecord
    <3>1. last \in Nat
      BY DEF SignaturesFrom
    <3> QED
      BY <1>1, <1>3, <1>4, <3>1, Numbers
  <2>2. /\ UNCHANGED << build, file, at, found, dir >>
        /\ status' = "refused"
    BY <1>4 DEF Stop
  <2>3. TypeOK'
    BY <1>1, <2>2 DEF TypeOK
  <2>4. Searched'
    BY <1>1, <2>1, <2>2
       DEF Searched, AfterSearch, EndsInRecord, SignaturesFrom
  <2>5. Chain' /\ Validated'
    BY <2>2 DEF Chain, Validated
  <2>6. OpensExactly'
    BY <1>1, <2>2, NothingDisagrees
       DEF OpensExactly, RecordsAgree, Fits
  <2> QED
    BY <2>3, <2>4, <2>5, <2>6 DEF IInv
<1>5. CASE /\ p + EocdLen <= Len(file)
           /\ at' = p
           /\ status' = "comment"
           /\ UNCHANGED << build, file, found, dir >>
  <2>1. TypeOK'
    <3>1. Len(file) \in Nat /\ EocdLen \in Nat
      BY <1>1, Numbers
    <3>2. p \in 0..Len(file)
      BY <1>3, <3>1
    <3>3. p + EocdLen <= Len(file)
      BY <1>5
    <3> QED
      BY <1>1, <1>5, <3>2, <3>3 DEF TypeOK
  <2>2. LastRecord'
    BY <1>1, <1>3, <1>5, Numbers DEF LastRecord, SignaturesFrom
  <2>3. Searched'
    BY <1>1, <1>5, <2>2 DEF Searched, AfterSearch
  <2>4. Chain' /\ Validated'
    BY <1>5 DEF Chain, Validated
  <2>5. OpensExactly'
    BY <1>5 DEF OpensExactly
  <2> QED
    BY <2>1, <2>3, <2>4, <2>5 DEF IInv
<1> QED
  BY <1>2, <1>4, <1>5

\* The archive is refused before a record is read.
LEMMA RefusedInv ==
    ASSUME IInv, status \in Searching \cup {"comment"}, Stop("refused"),
           ~EndsInRecord
    PROVE  IInv'
<1>1. TypeOK /\ Searched /\ found = Nothing
  BY DEF IInv, Searched
<1>2. UNCHANGED << build, file, at, found, dir >> /\ status' = "refused"
  BY DEF Stop
<1>3. TypeOK'
  BY <1>1, <1>2 DEF TypeOK
<1>4. Searched'
  BY <1>1, <1>2 DEF Searched, Searching, AfterSearch, EndsInRecord,
                    SignaturesFrom
<1>5. Chain' /\ Validated'
  BY <1>2 DEF Chain, Validated
<1>6. OpensExactly'
  BY <1>1, <1>2, NothingDisagrees DEF OpensExactly, RecordsAgree, Fits
<1> QED
  BY <1>3, <1>4, <1>5, <1>6 DEF IInv

LEMMA SearchEndInv == IInv /\ SearchEnd => IInv'
<1> SUFFICES ASSUME IInv, SearchEnd PROVE IInv'
  OBVIOUS
<1>1. TypeOK /\ Searched /\ status = "search_end" /\ found = Nothing
  BY DEF IInv, SearchEnd, Searched, Searching
<1>2. CASE Len(file) < EocdLen /\ Stop("refused")
  <2>1. ~EndsInRecord
    BY <1>1, <1>2, Numbers DEF EndsInRecord, SignaturesFrom
  <2> QED
    BY <1>1, <1>2, <2>1, RefusedInv DEF Searching
<1>3. CASE Len(file) >= EocdLen /\ FindIn(Len(file) - EocdLen)
  BY <1>1, <1>3, Numbers, FindInInv DEF Searching
<1>4. CASE /\ Len(file) >= EocdLen
           /\ SignaturesFrom(Len(file) - EocdLen) = {}
           /\ Stop("search_all")
  <2>1. UNCHANGED << build, file, at, found, dir >> /\ status' = "search_all"
    BY <1>4 DEF Stop
  <2>2. TypeOK'
    BY <1>1, <2>1 DEF TypeOK
  <2>3. Searched'
    BY <1>1, <1>4, <2>1 DEF Searched, Searching, AfterSearch, SignaturesFrom
  <2>4. Chain' /\ Validated'
    BY <2>1 DEF Chain, Validated
  <2>5. OpensExactly'
    BY <2>1 DEF OpensExactly
  <2> QED
    BY <2>2, <2>3, <2>4, <2>5 DEF IInv
<1> QED
  BY <1>2, <1>3, <1>4 DEF SearchEnd

LEMMA SearchAllInv == IInv /\ SearchAll => IInv'
<1> SUFFICES ASSUME IInv, SearchAll PROVE IInv'
  OBVIOUS
<1> DEFINE from == Len(file) - ReadSize
<1>1. TypeOK /\ Searched /\ status = "search_all"
  BY DEF IInv, SearchAll
<1>2. from \in Nat /\ from + EocdLen + MaxComment >= Len(file)
  BY <1>1, Numbers DEF ReadSize
<1>3. CASE FindIn(from)
  BY <1>1, <1>2, <1>3, FindInInv DEF Searching
<1>4. CASE SignaturesFrom(from) = {} /\ Stop("refused")
  <2>1. ~EndsInRecord
    <3> SUFFICES ASSUME NEW p \in SignaturesFrom(0), p + EocdLen <= Len(file),
                        Len(file) - (p + EocdLen) <= MaxComment
                 PROVE  FALSE
      BY DEF EndsInRecord
    <3>1. p \in Nat /\ p < Len(file) /\ file[p + 1] = Sig
      BY <1>1, Numbers DEF SignaturesFrom
    <3>2. p >= from
      BY <1>1, <3>1, Numbers DEF ReadSize
    <3> QED
      BY <1>1, <1>4, <3>1, <3>2, Numbers DEF SignaturesFrom
  <2> QED
    BY <1>1, <1>4, <2>1, RefusedInv DEF Searching
<1> QED
  BY <1>3, <1>4 DEF SearchAll

LEMMA CheckCommentInv == IInv /\ CheckComment => IInv'
<1> SUFFICES ASSUME IInv, CheckComment PROVE IInv'
  OBVIOUS
<1>1. /\ TypeOK /\ Searched /\ status = "comment" /\ found = Nothing
      /\ LastRecord
  BY DEF IInv, CheckComment, Searched
<1>2. CASE file[at + EocdLen] = Len(file) - (at + EocdLen)
  <2>1. UNCHANGED << build, file, at, found, dir >> /\ status' = "eocd"
    BY <1>2 DEF CheckComment, Stop
  <2>2. TypeOK'
    BY <1>1, <2>1 DEF TypeOK
  <2>3. LastRecord'
    BY <1>1, <2>1 DEF LastRecord, SignaturesFrom
  <2>4. Searched'
    BY <1>1, <1>2, <2>1, <2>3 DEF Searched, Searching, AfterSearch
  <2>5. Chain' /\ Validated'
    BY <2>1 DEF Chain, Validated
  <2>6. OpensExactly'
    BY <2>1 DEF OpensExactly
  <2> QED
    BY <2>2, <2>4, <2>5, <2>6 DEF IInv
<1>3. CASE file[at + EocdLen] # Len(file) - (at + EocdLen)
  <2>1. Stop("refused")
    BY <1>3 DEF CheckComment
  <2>2. ~EndsInRecord
    <3> SUFFICES ASSUME NEW p \in SignaturesFrom(0),
                        \A q \in SignaturesFrom(0) : q <= p,
                        file[p + EocdLen] = Len(file) - (p + EocdLen)
                 PROVE  FALSE
      BY DEF EndsInRecord
    <3>1. p <= at /\ at <= p
      BY <1>1 DEF LastRecord
    <3>2. p \in Nat /\ at \in Nat
      BY <1>1, Numbers DEF SignaturesFrom
    <3>3. p = at
      BY <3>1, <3>2
    <3> QED
      BY <1>3, <3>3
  <2> QED
    BY <1>1, <2>1, <2>2, RefusedInv
<1> QED
  BY <1>2, <1>3

-------------------------------------------------------------------------------
(***************************************************************************)
(* The records.                                                            *)
(***************************************************************************)
\* What the search found stays when a record has been read.
LEMMA SearchedStays ==
    ASSUME IInv, status \in {"eocd", "locator", "eocd64", "size"},
           UNCHANGED << build, file, at >>, found' # Nothing,
           status' \in (AfterSearch \ {"eocd"}) \cup {"refused"}
    PROVE  Searched'
<1>1. /\ LastRecord
      /\ file[at + EocdLen] = Len(file) - (at + EocdLen)
  BY DEF IInv, Searched, AfterSearch
<1>2. LastRecord'
  BY <1>1 DEF LastRecord, SignaturesFrom
<1>3. Nothing' = Nothing
  BY DEF Nothing
<1> QED
  BY <1>1, <1>2, <1>3 DEF Searched, Searching, AfterSearch

LEMMA ReadEocdInv == IInv /\ ReadEocd => IInv'
<1> SUFFICES ASSUME IInv, ReadEocd PROVE IInv'
  OBVIOUS
<1>1. TypeOK /\ Searched /\ status = "eocd" /\ found = Nothing
  BY DEF IInv, ReadEocd, Searched
<1>2. PICK r \in Eocds :
         /\ Read("eocd", r)
         /\ IF r.multi \/ r.total # r.here THEN Refuse
            ELSE IF IsZip64(r) THEN status' = "locator" /\ UNCHANGED dir
            ELSE Directory([offset |-> r.offset, size |-> r.size,
                            eocd_offset |-> at, entries |-> r.total])
  BY DEF ReadEocd
<1>3. UNCHANGED << build, file, at >>
  BY DEF ReadEocd
<1>4. found' = Records({r}, {}, {})
  BY <1>1, <1>2 DEF Read, Nothing, Records
<1>5. found' # Nothing
  BY <1>4 DEF Records, Nothing
<1>6. /\ r.multi \in BOOLEAN /\ r.here \in Nat /\ r.total \in Nat
      /\ r.size \in Nat /\ r.offset \in Nat
      /\ r.total <= Top16 /\ r.offset <= Top32 /\ r.size <= Top32
  BY RecordsAssumption, SizesAssumption
<1>7. found' \in [eocd: SUBSET Eocds, locator: SUBSET Locators,
                  eocd64: SUBSET Eocd64s]
  BY <1>4 DEF Records
<1>8. ~Sound(r) => ~RecordsAgree'
  BY <1>4 DEF RecordsAgree, Records, Sound
<1>9. CASE ~Sound(r)
  <2>1. status' = "refused" /\ dir' = dir
    BY <1>2, <1>9 DEF Sound, Refuse
  <2>2. TypeOK'
    BY <1>1, <1>3, <1>7, <2>1 DEF TypeOK
  <2>3. Searched'
    BY <1>1, <1>3, <1>5, <2>1, SearchedStays
  <2>4. Chain' /\ Validated'
    BY <2>1 DEF Chain, Validated
  <2>5. OpensExactly'
    BY <1>8, <1>9, <2>1 DEF OpensExactly
  <2> QED
    BY <2>2, <2>3, <2>4, <2>5 DEF IInv
<1>10. CASE Sound(r) /\ IsZip64(r)
  <2>1. status' = "locator" /\ dir' = dir
    BY <1>2, <1>10 DEF Sound
  <2>2. TypeOK'
    BY <1>1, <1>3, <1>7, <2>1 DEF TypeOK
  <2>3. Searched'
    BY <1>1, <1>3, <1>5, <2>1, SearchedStays DEF AfterSearch
  <2>4. Chain' /\ Validated'
    BY <1>4, <1>10, <2>1 DEF Chain, Validated, Records
  <2>5. OpensExactly'
    BY <2>1 DEF OpensExactly
  <2> QED
    BY <2>2, <2>3, <2>4, <2>5 DEF IInv
<1>11. CASE Sound(r) /\ ~IsZip64(r)
  <2> DEFINE d == [offset |-> r.offset, size |-> r.size,
                   eocd_offset |-> at, entries |-> r.total]
  <2>1. status' = "size" /\ dir' = {d}
    BY <1>2, <1>11 DEF Sound, Directory
  <2>2. d \in Dirs
    BY <1>1, <1>6, Numbers DEF Dirs
  <2>3. TypeOK'
    BY <1>1, <1>3, <1>7, <2>1, <2>2
       DEF TypeOK, Searched, LastRecord, AfterSearch
  <2>4. Searched'
    BY <1>1, <1>3, <1>5, <2>1, SearchedStays DEF AfterSearch
  <2>5. ShortPath'
    BY <1>3, <1>4, <1>11, <2>1 DEF ShortPath, Records
  <2>6. Chain' /\ Validated'
    BY <2>1, <2>5 DEF Chain, Validated
  <2>7. OpensExactly'
    BY <2>1 DEF OpensExactly
  <2> QED
    BY <2>3, <2>4, <2>6, <2>7 DEF IInv
<1> QED
  BY <1>9, <1>10, <1>11

\* A record that switches to 64 bits is not one that the 32-bit path takes.
LEMMA Switches ==
    ASSUME NEW r \in Eocds, IsZip64(r)
    PROVE  ~(r.total < Top16 /\ r.offset < Top32)
<1>1. /\ r.total \in Nat /\ r.offset \in Nat /\ Top16 \in Nat /\ Top32 \in Nat
  BY RecordsAssumption, SizesAssumption
<1> QED
  BY <1>1 DEF IsZip64

LEMMA ReadLocatorInv == IInv /\ ReadLocator => IInv'
<1> SUFFICES ASSUME IInv, ReadLocator PROVE IInv'
  OBVIOUS
<1>1. TypeOK /\ Searched /\ status = "locator" /\ found # Nothing
  BY DEF IInv, ReadLocator, Searched, AfterSearch
<1>2. PICK r \in found.eocd :
         found = Records({r}, {}, {}) /\ Sound(r) /\ IsZip64(r)
  BY <1>1 DEF IInv, Chain
<1>3. r \in Eocds
  BY <1>1 DEF TypeOK
<1>4. ~(r.total < Top16 /\ r.offset < Top32)
  BY <1>2, <1>3, Switches
<1>5. CASE LocatorOffset < 0 /\ Stop("refused")
  <2>1. UNCHANGED << build, file, at, found, dir >> /\ status' = "refused"
    BY <1>5 DEF Stop
  <2>2. TypeOK'
    BY <1>1, <2>1 DEF TypeOK
  <2>3. Searched'
    BY <1>1, <2>1, SearchedStays
  <2>4. Chain' /\ Validated'
    BY <2>1 DEF Chain, Validated
  <2>5. ~RecordsAgree'
    BY <1>2, <1>4, <2>1 DEF RecordsAgree, Records
  <2>6. OpensExactly'
    BY <2>1, <2>5 DEF OpensExactly
  <2> QED
    BY <2>2, <2>3, <2>4, <2>6 DEF IInv
<1>6. CASE /\ LocatorOffset >= 0
           /\ \E l \in Locators :
                /\ Read("locator", l)
                /\ status' = IF ~l.valid \/ l.offset64 > LocatorOffset
                                \/ l.multi
                             THEN "refused" ELSE "eocd64"
           /\ UNCHANGED << build, file, at, dir >>
  <2>1. PICK l \in Locators :
           /\ Read("locator", l)
           /\ status' = IF ~l.valid \/ l.offset64 > LocatorOffset \/ l.multi
                        THEN "refused" ELSE "eocd64"
    BY <1>6
  <2>2. found' = Records({r}, {l}, {})
    BY <1>2, <2>1 DEF Read, Records
  <2>3. found' # Nothing /\ status' \in {"refused", "eocd64"}
    BY <2>1, <2>2 DEF Records, Nothing
  <2>4. found' \in [eocd: SUBSET Eocds, locator: SUBSET Locators,
                    eocd64: SUBSET Eocd64s]
    BY <1>3, <2>2 DEF Records
  <2>5. TypeOK'
    BY <1>1, <1>6, <2>3, <2>4 DEF TypeOK
  <2>6. Searched'
    BY <1>1, <1>6, <2>3, SearchedStays DEF AfterSearch
  <2>7. l.valid \in BOOLEAN /\ l.multi \in BOOLEAN /\ l.offset64 \in Int
    BY RecordsAssumption, SizesAssumption
  <2>8. LocatorOffset \in Int /\ LocatorOffset' = LocatorOffset
    BY <1>1, <1>6, Numbers DEF LocatorOffset
  <2>9. status' = "eocd64" => SoundLocator(l)
    BY <2>1, <2>7, <2>8 DEF SoundLocator
  <2>10. Chain' /\ Validated'
    BY <1>2, <2>2, <2>3, <2>8, <2>9 DEF Chain, Validated, Records, SoundLocator
  <2>11. ~RecordsAgree'
    BY <1>2, <1>4, <2>2 DEF RecordsAgree, Records
  <2>12. OpensExactly'
    BY <2>3, <2>11 DEF OpensExactly
  <2> QED
    BY <2>5, <2>6, <2>10, <2>12 DEF IInv
<1> QED
  BY <1>5, <1>6 DEF ReadLocator

\* The numbers of a locator and of a 64-bit record.
LEMMA LongNumbers ==
    ASSUME NEW l \in Locators, NEW e \in Eocd64s
    PROVE  /\ l.valid \in BOOLEAN /\ l.multi \in BOOLEAN
           /\ l.offset64 \in Nat /\ e.multi \in BOOLEAN
           /\ e.record_size \in Nat /\ e.here \in Nat /\ e.total \in Nat
           /\ e.size \in Nat /\ e.offset \in Nat
BY RecordsAssumption, SizesAssumption

\* A record that fits in front of its locator has a length of 64 bits.
LEMMA FittingMeets ==
    ASSUME TypeOK, NEW l \in Locators, NEW e \in Eocd64s,
           l.offset64 + RecordHead + e.record_size = at - LocatorLen
    PROVE  Meets(l, e)
<1>1. /\ at \in Nat /\ at <= Top64 /\ Top64 \in Nat /\ LocatorLen \in Nat
      /\ RecordHead \in Nat
  BY Numbers DEF TypeOK
<1>2. l.offset64 \in Nat /\ e.record_size \in Nat
  BY LongNumbers
<1>3. e.record_size + RecordHead <= Top64
  BY <1>1, <1>2
<1>4. RecordLen(e) = {e.record_size + RecordHead}
  BY <1>3 DEF RecordLen
<1>5. l.offset64 + (e.record_size + RecordHead) = LocatorOffset
  BY <1>1, <1>2 DEF LocatorOffset
<1> QED
  BY <1>4, <1>5 DEF Meets

LEMMA ReadEocd64Inv == IInv /\ ReadEocd64 => IInv'
<1> SUFFICES ASSUME IInv, ReadEocd64 PROVE IInv'
  OBVIOUS
<1>1. TypeOK /\ Searched /\ status = "eocd64" /\ found # Nothing
  BY DEF IInv, ReadEocd64, Searched, AfterSearch
<1>2. PICK r \in found.eocd, l \in found.locator :
         /\ found = Records({r}, {l}, {})
         /\ Sound(r) /\ IsZip64(r) /\ SoundLocator(l)
  BY <1>1 DEF IInv, Chain
<1>3. r \in Eocds /\ l \in Locators /\ found.locator = {l}
  BY <1>1, <1>2 DEF TypeOK, Records
<1>4. ~(r.total < Top16 /\ r.offset < Top32)
  BY <1>2, <1>3, Switches
<1>5. CASE l.offset64 + Eocd64Len > Len(file) /\ Stop("refused")
  <2>1. UNCHANGED << build, file, at, found, dir >> /\ status' = "refused"
    BY <1>5 DEF Stop
  <2>2. TypeOK'
    BY <1>1, <2>1 DEF TypeOK
  <2>3. Searched'
    BY <1>1, <2>1, SearchedStays
  <2>4. Chain' /\ Validated'
    BY <2>1 DEF Chain, Validated
  <2>5. ~RecordsAgree'
    BY <1>2, <1>4, <2>1 DEF RecordsAgree, Records
  <2>6. OpensExactly'
    BY <2>1, <2>5 DEF OpensExactly
  <2> QED
    BY <2>2, <2>3, <2>4, <2>6 DEF IInv
<1>6. ASSUME NEW e \in Eocd64s,
             l.offset64 + Eocd64Len <= Len(file),
             Read("eocd64", e),
             IF e.multi \/ e.total # e.here THEN Refuse
             ELSE IF RecordLen(e) = {} THEN status' = "panic" /\ UNCHANGED dir
             ELSE IF \E n \in RecordLen(e) : l.offset64 + n = LocatorOffset
                  THEN Directory([offset |-> e.offset, size |-> e.size,
                                  entries |-> e.total,
                                  eocd_offset |-> l.offset64])
             ELSE Refuse,
             UNCHANGED << build, file, at >>
      PROVE  IInv'
  <2> DEFINE d == [offset |-> e.offset, size |-> e.size, entries |-> e.total,
                   eocd_offset |-> l.offset64]
  <2>1. found' = Records({r}, {l}, {e})
    BY <1>2, <1>6 DEF Read, Records
  <2>2. found' # Nothing
    BY <2>1 DEF Records, Nothing
  <2>3. found' \in [eocd: SUBSET Eocds, locator: SUBSET Locators,
                    eocd64: SUBSET Eocd64s]
    BY <1>3, <1>6, <2>1 DEF Records
  <2>4. RecordsAgree' =>
          /\ Sound(e)
          /\ l.offset64 + RecordHead + e.record_size = at - LocatorLen
    BY <1>4, <1>6, <2>1 DEF RecordsAgree, Records, Sound
  <2>5. RecordsAgree' => Sound(e) /\ Meets(l, e)
    BY <1>1, <1>3, <1>6, <2>4, FittingMeets
  <2>6. CASE ~Sound(e) \/ (RecordLen(e) # {} /\ ~Meets(l, e))
    <3>1. status' = "refused" /\ dir' = dir
      BY <1>6, <2>6 DEF Sound, Refuse, Meets
    <3>2. TypeOK'
      BY <1>1, <1>6, <2>3, <3>1 DEF TypeOK
    <3>3. Searched'
      BY <1>1, <1>6, <2>2, <3>1, SearchedStays
    <3>4. Chain' /\ Validated'
      BY <3>1 DEF Chain, Validated
    <3>5. OpensExactly'
      BY <2>5, <2>6, <3>1 DEF OpensExactly
    <3> QED
      BY <3>2, <3>3, <3>4, <3>5 DEF IInv
  <2>7. CASE Sound(e) /\ RecordLen(e) = {}
    <3>1. status' = "panic" /\ dir' = dir
      BY <1>6, <2>7 DEF Sound
    <3>2. TypeOK'
      BY <1>1, <1>6, <2>3, <3>1 DEF TypeOK
    <3>3. Searched'
      BY <1>1, <1>6, <2>2, <3>1, SearchedStays DEF AfterSearch
    <3>4. Chain' /\ Validated'
      BY <3>1 DEF Chain, Validated
    <3>5. OpensExactly'
      BY <3>1 DEF OpensExactly
    <3> QED
      BY <3>2, <3>3, <3>4, <3>5 DEF IInv
  <2>8. CASE Sound(e) /\ Meets(l, e)
    <3>1. RecordLen(e) # {}
      BY <2>8 DEF Meets
    <3>2. status' = "size" /\ dir' = {d}
      BY <1>6, <2>8, <3>1 DEF Sound, Meets, Directory
    <3>3. d \in Dirs
      BY <1>3, <1>6, LongNumbers DEF Dirs
    <3>4. TypeOK'
      BY <1>1, <1>6, <2>3, <3>2, <3>3 DEF TypeOK
    <3>5. Searched'
      BY <1>1, <1>6, <2>2, <3>2, SearchedStays DEF AfterSearch
    <3>6. LocatorOffset' = LocatorOffset /\ RecordLen(e)' = RecordLen(e)
      BY <1>6 DEF LocatorOffset, RecordLen
    <3>7. Meets(l, e)' /\ SoundLocator(l)'
      BY <1>2, <2>8, <3>6 DEF Meets, SoundLocator
    <3>8. /\ found'.eocd = {r} /\ found'.locator = {l} /\ found'.eocd64 = {e}
      BY <2>1 DEF Records
    <3>9. LongPath'
      BY <1>2, <1>6, <2>1, <2>8, <3>2, <3>7, <3>8 DEF LongPath
    <3>10. Chain' /\ Validated'
      BY <3>2, <3>9 DEF Chain, Validated
    <3>11. OpensExactly'
      BY <3>2 DEF OpensExactly
    <3> QED
      BY <3>4, <3>5, <3>10, <3>11 DEF IInv
  <2> QED
    BY <2>6, <2>7, <2>8
<1> QED
  BY <1>1, <1>3, <1>5, <1>6 DEF ReadEocd64

\* The check of the size is the equation and the bound without a width.
LEMMA ValidFits ==
    ASSUME TypeOK, NEW d \in Dirs, d.eocd_offset <= Len(file)
    PROVE  ValidSize(d) <=> Fits(d.size, d.offset, d.entries, d.eocd_offset)
<1>1. /\ Len(file) \in Nat /\ Len(file) <= Top64 /\ Top64 \in Nat
      /\ CentralLen \in Nat
  BY Numbers
<1>2. /\ d.size \in Nat /\ d.offset \in Nat /\ d.entries \in Nat
      /\ d.eocd_offset \in Nat
  BY DEF Dirs
<1> DEFINE product == d.entries * CentralLen
<1>3. product \in Nat
  BY <1>1, <1>2
<1>4. ValidSize(d) <=> /\ product <= Top64
                       /\ d.offset <= d.eocd_offset
                       /\ d.size >= product
                       /\ d.size = d.eocd_offset - d.offset
  BY DEF ValidSize
<1>5. Fits(d.size, d.offset, d.entries, d.eocd_offset)
      <=> d.offset + d.size = d.eocd_offset /\ product <= d.size
  BY DEF Fits
<1> HIDE DEF product
<1> QED
  BY <1>1, <1>2, <1>3, <1>4, <1>5

\* The directory of either path is in the file, and is one of what the
\* records say.
LEMMA PathFacts ==
    ASSUME TypeOK, Searched, status \in {"size", "open"}, ShortPath \/ LongPath
    PROVE  \E d \in Dirs :
              /\ dir = {d}
              /\ d.eocd_offset <= Len(file)
              /\ RecordsAgree =>
                    Fits(d.size, d.offset, d.entries, d.eocd_offset)
              /\ Fits(d.size, d.offset, d.entries, d.eocd_offset) =>
                    \/ RecordsAgree
                    \/ build = "release" /\ \E e \in found.eocd64 :
                                              e.record_size + RecordHead > Top64
<1>1. at \in Nat /\ Len(file) \in Nat /\ at <= Len(file)
  BY Numbers DEF TypeOK
<1>2. CASE ShortPath
  <2>1. PICK r \in found.eocd :
           /\ found = Records({r}, {}, {})
           /\ Sound(r) /\ ~IsZip64(r)
           /\ dir = {[offset |-> r.offset, size |-> r.size,
                      eocd_offset |-> at, entries |-> r.total]}
    BY <1>2 DEF ShortPath
  <2>2. r \in Eocds
    BY DEF TypeOK
  <2>3. /\ r.total \in Nat /\ r.size \in Nat /\ r.offset \in Nat
        /\ r.total <= Top16 /\ r.offset <= Top32
        /\ Top16 \in Nat /\ Top32 \in Nat
    BY <2>2, RecordsAssumption, SizesAssumption
  <2>4. r.total < Top16 /\ r.offset < Top32
    BY <2>1, <2>3 DEF IsZip64
  <2>5. found.eocd = {r}
    BY <2>1 DEF Records
  <2>6. RecordsAgree <=> Fits(r.size, r.offset, r.total, at)
    BY <2>1, <2>4, <2>5 DEF RecordsAgree, Sound
  <2> DEFINE d == [offset |-> r.offset, size |-> r.size,
                   eocd_offset |-> at, entries |-> r.total]
  <2>7. d \in Dirs /\ dir = {d}
    BY <1>1, <2>1, <2>3 DEF Dirs
  <2> QED
    BY <1>1, <2>6, <2>7
<1>3. CASE LongPath
  <2>1. PICK r \in found.eocd, l \in found.locator, e \in found.eocd64 :
           /\ found = Records({r}, {l}, {e})
           /\ Sound(r) /\ IsZip64(r) /\ SoundLocator(l)
           /\ Sound(e) /\ Meets(l, e)
           /\ l.offset64 + Eocd64Len <= Len(file)
           /\ dir = {[offset |-> e.offset, size |-> e.size,
                      entries |-> e.total, eocd_offset |-> l.offset64]}
    BY <1>3 DEF LongPath
  <2>2. r \in Eocds /\ l \in Locators /\ e \in Eocd64s
    BY DEF TypeOK
  <2>3. /\ l.offset64 \in Nat /\ e.record_size \in Nat /\ e.total \in Nat
        /\ e.size \in Nat /\ e.offset \in Nat
    BY <2>2, LongNumbers
  <2>4. ~(r.total < Top16 /\ r.offset < Top32)
    BY <2>1, <2>2, Switches
  <2>5. found.eocd = {r} /\ found.locator = {l} /\ found.eocd64 = {e}
    BY <2>1 DEF Records
  <2> DEFINE d == [offset |-> e.offset, size |-> e.size,
                   entries |-> e.total, eocd_offset |-> l.offset64]
             meets == l.offset64 + RecordHead + e.record_size = at - LocatorLen
  <2>6. RecordsAgree <=> meets /\ Fits(e.size, e.offset, e.total, l.offset64)
    BY <2>1, <2>4, <2>5 DEF RecordsAgree, Sound, SoundLocator
  <2>7. meets \/ (build = "release" /\ e.record_size + RecordHead > Top64)
    <3>1. PICK n \in RecordLen(e) : l.offset64 + n = LocatorOffset
      BY <2>1 DEF Meets
    <3>2. /\ RecordHead \in Nat /\ Top64 \in Nat /\ LocatorLen \in Nat
      BY SizesAssumption
    <3>3. CASE e.record_size + RecordHead <= Top64
      <4>1. n = e.record_size + RecordHead
        BY <3>1, <3>3 DEF RecordLen
      <4> QED
        BY <1>1, <2>3, <3>1, <3>2, <4>1 DEF LocatorOffset
    <3>4. CASE ~(e.record_size + RecordHead <= Top64)
      <4>1. build = "release"
        BY <3>1, <3>4 DEF RecordLen
      <4> QED
        BY <2>3, <3>2, <3>4, <4>1
    <3> QED
      BY <3>3, <3>4
  <2>8. d \in Dirs /\ dir = {d}
    BY <2>1, <2>3 DEF Dirs
  <2>9. l.offset64 <= Len(file)
    BY <1>1, <2>1, <2>3, Numbers
  <2> QED
    BY <2>5, <2>6, <2>7, <2>8, <2>9
<1> QED
  BY <1>2, <1>3

LEMMA ValidateSizeInv == IInv /\ ValidateSize => IInv'
<1> SUFFICES ASSUME IInv, ValidateSize PROVE IInv'
  OBVIOUS
<1>1. /\ TypeOK /\ Searched /\ status = "size" /\ found # Nothing
      /\ ShortPath \/ LongPath
  BY DEF IInv, ValidateSize, Searched, AfterSearch, Chain
<1>2. PICK d \in Dirs :
         /\ dir = {d}
         /\ d.eocd_offset <= Len(file)
         /\ RecordsAgree => Fits(d.size, d.offset, d.entries, d.eocd_offset)
         /\ Fits(d.size, d.offset, d.entries, d.eocd_offset) =>
               \/ RecordsAgree
               \/ build = "release" /\ \E e \in found.eocd64 :
                                         e.record_size + RecordHead > Top64
  BY <1>1, PathFacts
<1>3. ValidSize(d) <=> Fits(d.size, d.offset, d.entries, d.eocd_offset)
  BY <1>1, <1>2, ValidFits
<1>4. /\ UNCHANGED << build, file, at, found, dir >>
      /\ status' = IF ValidSize(d) THEN "open" ELSE "refused"
  BY <1>2 DEF ValidateSize, Stop
<1>5. RecordsAgree' = RecordsAgree
  BY <1>4 DEF RecordsAgree, Fits
<1>6. TypeOK'
  BY <1>1, <1>4 DEF TypeOK
<1>7. Searched'
  BY <1>1, <1>4, SearchedStays DEF AfterSearch
<1>8. (ShortPath \/ LongPath)'
  BY <1>1, <1>4 DEF ShortPath, LongPath, SoundLocator, Meets, LocatorOffset,
                    RecordLen
<1>9. Validated'
  BY <1>2, <1>4 DEF Validated, ValidSize
<1>10. Chain'
  BY <1>4, <1>8 DEF Chain
<1>11. OpensExactly'
  BY <1>2, <1>3, <1>4, <1>5 DEF OpensExactly
<1> QED
  BY <1>6, <1>7, <1>9, <1>10, <1>11 DEF IInv

LEMMA StutterInv == IInv /\ UNCHANGED vars => IInv'
<1> SUFFICES ASSUME IInv, UNCHANGED vars PROVE IInv'
  OBVIOUS
<1>1. /\ build' = build /\ file' = file /\ at' = at /\ found' = found
      /\ dir' = dir /\ status' = status
  BY DEF vars
<1>2. TypeOK'
  BY <1>1 DEF IInv, TypeOK
<1>3. Searched'
  BY <1>1 DEF IInv, Searched, LastRecord, SignaturesFrom, EndsInRecord
<1>4. (ShortPath \/ LongPath) => (ShortPath \/ LongPath)'
  BY <1>1 DEF ShortPath, LongPath, SoundLocator, Meets, LocatorOffset,
              RecordLen
<1>5. Chain'
  BY <1>1, <1>4 DEF IInv, Chain, SoundLocator, LocatorOffset
<1>6. Validated'
  BY <1>1 DEF IInv, Validated, ValidSize
<1>7. OpensExactly'
  BY <1>1 DEF IInv, OpensExactly, RecordsAgree, Fits
<1> QED
  BY <1>2, <1>3, <1>5, <1>6, <1>7 DEF IInv

-------------------------------------------------------------------------------
\* IInv holds in every state.
THEOREM Invariance == Spec => []IInv
<1>1. Init => IInv
  BY InitInv
<1>2. IInv /\ [Next]_vars => IInv'
  BY SearchEndInv, SearchAllInv, CheckCommentInv, ReadEocdInv,
     ReadLocatorInv, ReadEocd64Inv, ValidateSizeInv, StutterInv DEF Next
<1> QED
  BY <1>1, <1>2, PTL DEF Spec

\* The numbers and records stay what they are, and the end record is in the
\* file as a whole (read_pod never reads past the end).
THEOREM TypeCorrect == Spec => []TypeOK
<1>1. IInv => TypeOK
  BY DEF IInv
<1> QED
  BY <1>1, Invariance, PTL

\* The search of find_eocd, in two parts, passes exactly the files that end
\* in a record with the comment it announces.
THEOREM SearchIsExact == Spec => []SearchExact
<1>1. IInv => SearchExact
  <2> SUFFICES ASSUME IInv PROVE SearchExact
    OBVIOUS
  <2>1. LastRecord /\ file[at + EocdLen] = Len(file) - (at + EocdLen)
           => EndsInRecord /\ \A q \in SignaturesFrom(0) : q <= at
    BY DEF LastRecord, EndsInRecord
  <2> QED
    BY <2>1 DEF IInv, Searched, SearchExact, AfterSearch
<1> QED
  BY <1>1, Invariance, PTL

\* A file is refused only if its records disagree, and opened only if they
\* agree or a length was cut to 64 bits.
THEOREM OpeningIsExact == Spec => []OpensExactly
<1>1. IInv => OpensExactly
  BY DEF IInv
<1> QED
  BY <1>1, Invariance, PTL

\* An open archive's directory is in the file and has room for its entries
\* (validate_size), so that what is reserved for them is bounded by it.
THEOREM DirectoryIsInFile == Spec => []DirectoryFits
<1>1. IInv => DirectoryFits
  <2> SUFFICES ASSUME IInv, status = "open" PROVE DirectoryFits
    BY DEF DirectoryFits
  <2>1. /\ TypeOK /\ Searched /\ (ShortPath \/ LongPath)
        /\ \A d \in dir : ValidSize(d)
    BY DEF IInv, Chain, Validated
  <2>2. PICK d \in Dirs :
           /\ dir = {d}
           /\ d.eocd_offset <= Len(file)
           /\ RecordsAgree => Fits(d.size, d.offset, d.entries, d.eocd_offset)
           /\ Fits(d.size, d.offset, d.entries, d.eocd_offset) =>
                 \/ RecordsAgree
                 \/ build = "release" /\ \E e \in found.eocd64 :
                                           e.record_size + RecordHead > Top64
    BY <2>1, PathFacts
  <2>3. Fits(d.size, d.offset, d.entries, d.eocd_offset)
    BY <2>1, <2>2, ValidFits
  <2> DEFINE product == d.entries * CentralLen
  <2>4. product \in Nat
    BY <2>2, SizesAssumption DEF Dirs
  <2>5. d.offset + d.size = d.eocd_offset /\ product <= d.size
    BY <2>3 DEF Fits
  <2>6. /\ d.offset \in Nat /\ d.size \in Nat /\ d.eocd_offset \in Nat
        /\ Len(file) \in Nat
    BY <2>1, <2>2, Numbers DEF Dirs
  <2> HIDE DEF product
  <2>7. product <= Len(file)
    BY <2>2, <2>4, <2>5, <2>6
  <2> QED
    BY <2>2, <2>5, <2>7 DEF DirectoryFits, product
<1> QED
  BY <1>1, Invariance, PTL

-------------------------------------------------------------------------------
(***************************************************************************)
(* What Place does, one part at a time.                                    *)
(***************************************************************************)
LEMMA PlaceEmpty == Place(<< >>) = << >>
<1>1. [k \in DOMAIN << >> |-> Named(<< >>[k])] = << >>
  OBVIOUS
<1> QED
  BY <1>1, FlattenEmpty DEF Place

LEMMA NamedType ==
    ASSUME NEW part \in Parts PROVE Named(part) \in Seq(Parts)
<1>1. << >> \in Seq(Parts)
  OBVIOUS
<1>2. << part >> \in Seq(Parts)
  OBVIOUS
<1>3. Named(part) = << >> \/ Named(part) = << part >>
  BY DEF Named
<1> QED
  BY <1>1, <1>2, <1>3

LEMMA PlaceAppend ==
    ASSUME NEW path \in Seq(Parts), NEW part \in Parts
    PROVE  /\ Place(path) \in Seq(Parts)
           /\ Place(Append(path, part)) = Place(path) \o Named(part)
<1> DEFINE longer == Append(path, part)
           ss == [k \in DOMAIN path |-> Named(path[k])]
           tt == [k \in DOMAIN longer |-> Named(longer[k])]
<1>1. ss \in Seq(Seq(Parts)) /\ Len(ss) = Len(path)
  <2>1. \A k \in 1..Len(path) : Named(path[k]) \in Seq(Parts)
    BY NamedType
  <2> QED
    BY <2>1
<1>2. /\ DOMAIN longer = 1..(Len(path) + 1) /\ Len(path) \in Nat
      /\ longer[Len(path) + 1] = part
      /\ \A k \in 1..Len(path) : longer[k] = path[k]
  OBVIOUS
<1>3. tt = Append(ss, Named(part))
  <2> DEFINE uu == Append(ss, Named(part))
  <2>1. /\ uu \in Seq(Seq(Parts)) /\ Len(uu) = Len(path) + 1
        /\ uu[Len(path) + 1] = Named(part)
        /\ \A k \in 1..Len(path) : uu[k] = Named(path[k])
    BY <1>1, NamedType
  <2>2. \A k \in 1..(Len(path) + 1) : uu[k] = Named(longer[k])
    <3> SUFFICES ASSUME NEW k \in 1..(Len(path) + 1)
                 PROVE  uu[k] = Named(longer[k])
      OBVIOUS
    <3> HIDE DEF uu, longer
    <3>1. CASE k = Len(path) + 1
      BY <1>2, <2>1, <3>1
    <3>2. CASE k # Len(path) + 1
      <4>1. k \in 1..Len(path)
        BY <1>2, <3>2
      <4> QED
        BY <1>2, <2>1, <4>1
    <3> QED
      BY <3>1, <3>2
  <2>3. uu = [k \in 1..(Len(path) + 1) |-> uu[k]]
    BY <2>1
  <2> HIDE DEF uu, longer
  <2> QED
    BY <1>2, <2>2, <2>3 DEF uu
<1>4. FlattenSeq(Append(ss, Named(part))) = FlattenSeq(ss) \o Named(part)
  <2> HIDE DEF ss
  <2> QED
    BY <1>1, NamedType, FlattenAppend
<1>5. FlattenSeq(ss) \in Seq(Parts)
  <2> HIDE DEF ss
  <2> QED
    BY <1>1, FlattenType
<1> QED
  BY <1>3, <1>4, <1>5 DEF Place

\* One more part of a path.
LEMMA OneMore ==
    ASSUME NEW path \in Seq(Parts), NEW k \in 1..Len(path)
    PROVE  /\ SubSeq(path, 1, k - 1) \in Seq(Parts)
           /\ SubSeq(path, 1, (k + 1) - 1)
                  = Append(SubSeq(path, 1, k - 1), path[k])
<1> DEFINE less == SubSeq(path, 1, k - 1)
           more == SubSeq(path, 1, (k + 1) - 1)
<1>1. /\ Len(path) \in Nat /\ k - 1 \in Nat /\ k - 1 <= Len(path)
      /\ (k + 1) - 1 = k /\ k \in Nat /\ k <= Len(path)
  OBVIOUS
<1>2. /\ less \in Seq(Parts) /\ Len(less) = k - 1
      /\ \A m \in 1..(k - 1) : less[m] = path[m]
  BY <1>1
<1>3. /\ more \in Seq(Parts) /\ Len(more) = k
      /\ \A m \in 1..k : more[m] = path[m]
  BY <1>1
<1>4. Append(less, path[k]) = more
  <2> DEFINE app == Append(less, path[k])
  <2>1. path[k] \in Parts
    OBVIOUS
  <2> HIDE DEF less, more
  <2>2. /\ app \in Seq(Parts) /\ Len(app) = k /\ app[k] = path[k]
        /\ \A m \in 1..(k - 1) : app[m] = less[m]
    BY <1>1, <1>2, <2>1
  <2>3. \A m \in 1..k : app[m] = more[m]
    <3> SUFFICES ASSUME NEW m \in 1..k PROVE app[m] = more[m]
      OBVIOUS
    <3> HIDE DEF app
    <3>1. CASE m = k
      BY <1>1, <1>3, <2>2, <3>1
    <3>2. CASE m # k
      <4>1. m \in 1..(k - 1)
        BY <1>1, <3>2
      <4> QED
        BY <1>2, <1>3, <2>2, <4>1
    <3> QED
      BY <3>1, <3>2
  <2> HIDE DEF app
  <2>4. app = more
    BY <1>1, <1>3, <2>2, <2>3, SeqEqual
  <2> QED
    BY <2>4 DEF app
<1> QED
  BY <1>2, <1>4

LEMMA WholePath ==
    ASSUME NEW path \in Seq(Parts)
    PROVE  /\ SubSeq(path, 1, 0) = << >>
           /\ SubSeq(path, 1, Len(path)) = path
OBVIOUS

\* The depth of a walk, one part at a time.
LEMMA LevelsStep ==
    ASSUME NEW path \in Seq(Parts), NEW start \in Int
    PROVE  /\ Levels(path, start)[0] = start
           /\ \A k \in 1..Len(path) :
                 /\ Levels(path, start)[k - 1] \in Int
                 /\ Levels(path, start)[k]
                        = Levels(path, start)[k - 1] + Rise(path[k])
<1> DEFINE n == Len(path)
           D == [p \in Int \X (1..n) |-> p[1] + Rise(path[p[2]])]
           next(f, k) == IF k = 0 THEN start ELSE f[k - 1] + Rise(path[k])
           Is(f) == f = [k \in 0..n |-> next(f, k)]
           level == CHOOSE f : Is(f)
<1>1. n \in Nat /\ \A k \in 1..n : Rise(path[k]) \in Int
  BY DEF Rise
<1>2. D \in [Int \X (1..n) -> Int]
  <2>1. \A p \in Int \X (1..n) : p[1] + Rise(path[p[2]]) \in Int
    BY <1>1
  <2> QED
    BY <2>1
<1>3. PICK g \in Solutions(Int, start, n, D) : TRUE
  <2> HIDE DEF D, n
  <2> QED
    BY <1>1, <1>2, Recursion
<1>4. /\ g \in [0..n -> Int] /\ g[0] = start
      /\ \A k \in 1..n : g[k] = D[<< g[k - 1], k >>]
  BY <1>3 DEF Solutions
<1>5. \A k \in 1..n : g[k] = g[k - 1] + Rise(path[k])
  <2>1. \A k \in 1..n : k - 1 \in 0..n
    BY <1>1
  <2> HIDE DEF n
  <2>2. \A k \in 1..n : D[<< g[k - 1], k >>] = g[k - 1] + Rise(path[k])
    BY <1>4, <2>1
  <2> HIDE DEF D
  <2> QED
    BY <1>4, <2>2
<1>6. Is(g)
  <2>1. \A k \in 0..n : g[k] = next(g, k)
    <3> SUFFICES ASSUME NEW k \in 0..n PROVE g[k] = next(g, k)
      OBVIOUS
    <3>1. CASE k = 0
      BY <1>4, <3>1
    <3>2. CASE k # 0
      <4>1. k \in 1..n
        BY <1>1, <3>2
      <4> HIDE DEF n
      <4> QED
        BY <1>5, <3>2, <4>1
    <3> QED
      BY <3>1, <3>2
  <2> HIDE DEF next, n
  <2> QED
    BY <1>4, <2>1
<1>7. Is(level)
  <2> HIDE DEF Is
  <2> QED
    BY <1>6
<1>8. level = Levels(path, start)
  BY DEF Levels
<1>9. \A k \in 0..n : level[k] = next(level, k)
  <2> HIDE DEF level, next, n
  <2> QED
    BY <1>7
<1> HIDE DEF level
<1>10. level[0] = start
  BY <1>1, <1>9
<1>11. \A k \in 1..n : level[k] = level[k - 1] + Rise(path[k])
  <2> SUFFICES ASSUME NEW k \in 1..n
               PROVE  level[k] = level[k - 1] + Rise(path[k])
    OBVIOUS
  <2>1. k \in 0..n /\ k # 0
    BY <1>1
  <2> HIDE DEF n
  <2> QED
    BY <1>9, <2>1
<1>12. \A k \in 0..n : level[k] \in Int
  <2> DEFINE T == {k \in 0..n : level[k] \in Int}
  <2>1. 0 \in T
    BY <1>1, <1>10
  <2>2. ASSUME NEW k \in Nat, k < n, k \in T PROVE k + 1 \in T
    <3>1. k + 1 \in 1..n /\ k + 1 \in 0..n /\ (k + 1) - 1 = k
      BY <1>1, <2>2
    <3> HIDE DEF n
    <3>2. level[k + 1] = level[k] + Rise(path[k + 1]) /\ level[k] \in Int
      BY <1>11, <2>2, <3>1
    <3>3. Rise(path[k + 1]) \in Int
      BY <1>1, <3>1
    <3> QED
      BY <3>1, <3>2, <3>3
  <2>3. \A k \in 0..n : k \in T
    <3> HIDE DEF T, n
    <3> QED
      BY <1>1, <2>1, <2>2, BoundedInduction
  <2> QED
    BY <2>3
<1>13. \A k \in 1..n : k - 1 \in 0..n
  BY <1>1
<1> QED
  BY <1>8, <1>10, <1>11, <1>12, <1>13

-------------------------------------------------------------------------------
(***************************************************************************)
(* The invariant: what each phase knows of the parts it has seen.          *)
(***************************************************************************)
PathType ==
    /\ name \in Seq(Parts) /\ Len(name) > 0
    /\ target \in Seq(Parts) /\ Len(target) > 0
    /\ dst.parts \in Seq(Parts) /\ dst.slash \in BOOLEAN
    /\ i \in Nat

\* The name up to part i is good, and dst is the canonical form of it.
NameSoFar ==
    verdict = "name" =>
        /\ i <= Len(name) + 1
        /\ i = 0 => dst.parts = << >>
        /\ i > 0 =>
              /\ ~Absolute(name)
              /\ \A k \in DOMAIN name : name[k] # "odd"
              /\ \A k \in 1..(i - 1) : ~Forbidden(k)
              /\ dst.parts = Place(SubSeq(name, 1, i - 1))
              /\ Place(dst.parts) = dst.parts
              /\ dst.parts # << >> =>
                    dst.slash = (i <= Len(name) \/ name[Len(name)] = "")

NameChecked ==
    /\ verdict = "badName" => BadName
    /\ verdict \in {"target", "accepted", "badTarget"} =>
          /\ ~BadName
          /\ dst.parts = Place(name) /\ dst.parts # << >>
          /\ Place(dst.parts) = dst.parts
          /\ dst.slash = (name[Len(name)] = "")

Down(part) == part \notin {"", ".", ".."}

\* The walk up to part i of the target is good, depth is None once it went
\* down and the depth of the walk before that.
TargetSoFar ==
    verdict = "target" /\ i > 0 =>
        /\ i <= Len(target) + 1
        /\ ~Absolute(target)
        /\ \A k \in 0..(i - 1) : Level[k] >= Floor
        /\ \A j, k \in 1..(i - 1) :
              j < k /\ Down(target[j]) => target[k] # ".."
        /\ IF \E j \in 1..(i - 1) : Down(target[j])
           THEN depth = {}
           ELSE depth = {Level[i - 1] - Floor}

TargetChecked ==
    /\ verdict = "badTarget" => ~GoodTarget
    /\ verdict = "accepted" => GoodTarget

PathInv ==
    /\ PathType
    /\ verdict \in {"name", "target", "accepted", "badName", "badTarget"}
    /\ NameSoFar
    /\ NameChecked
    /\ TargetSoFar
    /\ TargetChecked

LEMMA Refused ==
    ASSUME RefusePath
    PROVE  /\ name' = name /\ target' = target /\ dst' = dst
           /\ depth' = depth /\ i' = i
           /\ verdict = "name" => verdict' = "badName"
           /\ verdict # "name" => verdict' = "badTarget"
BY DEF RefusePath

LEMMA PathsAreSequences ==
    ASSUME NEW path \in Paths
    PROVE  path \in Seq(Parts) /\ Len(path) \in Nat /\ Len(path) > 0
<1>1. PICK n \in 1..MaxParts : path \in [1..n -> Parts]
  BY DEF Paths
<1>2. n \in Nat /\ n > 0
  <2>1. MaxParts \in Nat
    BY PathAssumption
  <2> QED
    BY <2>1
<1>3. path \in Seq(Parts) /\ Len(path) = n
  BY <1>1, <1>2
<1> QED
  BY <1>2, <1>3

LEMMA InitKept == PathInit => PathInv
<1> SUFFICES ASSUME PathInit PROVE PathInv
  OBVIOUS
<1>1. name \in Seq(Parts) /\ Len(name) \in Nat /\ Len(name) > 0
  BY PathsAreSequences DEF PathInit
<1>2. target \in Seq(Parts) /\ Len(target) > 0
  <2>1. PICK part \in Parts : target = << part >>
    BY DEF PathInit, Parts
  <2> QED
    BY <2>1
<1>3. /\ dst.parts = << >> /\ dst.slash = FALSE /\ i = 0
      /\ verdict = "name"
  BY DEF PathInit
<1>4. PathType
  <2>1. << >> \in Seq(Parts)
    OBVIOUS
  <2>2. dst.parts \in Seq(Parts)
    BY <1>3, <2>1, Zenon
  <2>3. dst.slash \in BOOLEAN
    BY <1>3
  <2> QED
    BY <1>1, <1>2, <1>3, <2>2, <2>3 DEF PathType
<1>5. NameSoFar
  BY <1>1, <1>3 DEF NameSoFar
<1> QED
  BY <1>3, <1>4, <1>5
  DEF PathInv, NameChecked, TargetSoFar, TargetChecked

LEMMA StartNameKept == PathInv /\ StartName => PathInv'
<1> SUFFICES ASSUME PathInv, StartName PROVE PathInv'
  OBVIOUS
<1>1. name' = name /\ target' = target /\ dst' = dst /\ depth' = depth
  BY Refused DEF StartName
<1>2. PathType'
  BY <1>1, Refused DEF PathInv, PathType, StartName
<1>3. CASE Absolute(name) \/ "odd" \in {name[k] : k \in DOMAIN name}
  <2>1. verdict' = "badName"
    BY <1>3, Refused DEF StartName
  <2>2. BadName'
    BY <1>1, <1>3 DEF BadName, Absolute
  <2> QED
    BY <1>2, <2>1, <2>2
    DEF PathInv, NameSoFar, NameChecked, TargetSoFar, TargetChecked
<1>4. CASE ~Absolute(name) /\ "odd" \notin {name[k] : k \in DOMAIN name}
  <2>1. verdict' = "name" /\ i' = 1 /\ verdict = "name" /\ i = 0
    BY <1>4 DEF StartName
  <2>2. dst.parts = << >>
    BY <2>1 DEF PathInv, NameSoFar
  <2>3. /\ Len(name) \in Nat /\ Len(name) > 0
        /\ SubSeq(name, 1, 0) = << >>
    BY DEF PathInv, PathType
  <2>4. \A k \in DOMAIN name : name[k] # "odd"
    BY <1>4
  <2>5. NameSoFar'
    <3>1. 1..(1 - 1) = {} /\ 1 - 1 = 0 /\ 1 <= Len(name) + 1
      BY <2>3
    <3> QED
      BY <1>1, <1>4, <2>1, <2>2, <2>3, <2>4, <3>1, PlaceEmpty
      DEF NameSoFar, Absolute
  <2> QED
    BY <1>2, <2>1, <2>5 DEF PathInv, NameChecked, TargetSoFar, TargetChecked
<1> QED
  BY <1>3, <1>4

LEMMA NamePartKept == PathInv /\ NamePart => PathInv'
<1> SUFFICES ASSUME PathInv, NamePart PROVE PathInv'
  OBVIOUS
<1> DEFINE n == Len(name)
<1>1. /\ name' = name /\ target' = target /\ depth' = depth
      /\ verdict = "name" /\ i \in DOMAIN name
  BY Refused DEF NamePart
<1>2. /\ name \in Seq(Parts) /\ n \in Nat /\ n > 0
      /\ i \in 1..n /\ i \in Nat /\ i > 0
      /\ dst.parts \in Seq(Parts) /\ dst.slash \in BOOLEAN
  BY <1>1 DEF PathInv, PathType
<1>3. /\ ~Absolute(name)
      /\ \A k \in DOMAIN name : name[k] # "odd"
      /\ \A k \in 1..(i - 1) : ~Forbidden(k)
      /\ dst.parts = Place(SubSeq(name, 1, i - 1))
      /\ Place(dst.parts) = dst.parts
      /\ dst.parts # << >> => dst.slash
  <2>1. i <= n
    BY <1>2
  <2>2. /\ ~Absolute(name)
        /\ \A k \in DOMAIN name : name[k] # "odd"
        /\ \A k \in 1..(i - 1) : ~Forbidden(k)
        /\ dst.parts = Place(SubSeq(name, 1, i - 1))
        /\ Place(dst.parts) = dst.parts
        /\ dst.parts # << >> =>
              dst.slash = (i <= Len(name) \/ name[Len(name)] = "")
    BY <1>1, <1>2 DEF PathInv, NameSoFar
  <2> QED
    BY <2>1, <2>2
<1>4. CASE Forbidden(i)
  <2>1. verdict' = "badName" /\ dst' = dst /\ i' = i
    BY <1>1, <1>4, Refused DEF NamePart
  <2>2. name[i] = ".." \/ name[n] = "."
    BY <1>4 DEF Forbidden, IsLast
  <2>3. BadName'
    BY <1>1, <2>2 DEF BadName
  <2>4. PathType'
    BY <1>1, <2>1 DEF PathInv, PathType
  <2> QED
    BY <2>1, <2>3, <2>4
    DEF PathInv, NameSoFar, NameChecked, TargetSoFar, TargetChecked
<1>5. CASE ~Forbidden(i)
  <2>1. /\ verdict' = "name" /\ i' = i + 1
        /\ dst' = IF Dropped(i) THEN dst
                  ELSE [parts |-> Append(dst.parts, name[i]),
                        slash |-> ~IsLast(i)]
    BY <1>1, <1>5 DEF NamePart
  <2>2. name[i] \in Parts
    BY <1>2
  <2>3. Place(SubSeq(name, 1, (i + 1) - 1)) = dst.parts \o Named(name[i])
    <3>1. /\ SubSeq(name, 1, i - 1) \in Seq(Parts)
          /\ SubSeq(name, 1, (i + 1) - 1)
                 = Append(SubSeq(name, 1, i - 1), name[i])
      BY <1>2, OneMore
    <3>2. Place(Append(SubSeq(name, 1, i - 1), name[i]))
             = Place(SubSeq(name, 1, i - 1)) \o Named(name[i])
      BY <2>2, <3>1, PlaceAppend
    <3> QED
      BY <1>3, <3>1, <3>2
  <2>4. Place(Append(dst.parts, name[i])) = dst.parts \o Named(name[i])
    BY <1>2, <1>3, <2>2, PlaceAppend
  <2>5. \A k \in 1..((i + 1) - 1) : ~Forbidden(k)'
    <3>1. \A k \in 1..((i + 1) - 1) : k = i \/ k \in 1..(i - 1)
      BY <1>2
    <3> QED
      BY <1>1, <1>3, <1>5, <3>1 DEF Forbidden, IsLast
  <2>6. /\ dst'.parts = Place(SubSeq(name, 1, (i + 1) - 1))
        /\ Place(dst'.parts) = dst'.parts
        /\ dst'.parts \in Seq(Parts) /\ dst'.slash \in BOOLEAN
        /\ dst'.parts # << >> =>
              dst'.slash = (i + 1 <= n \/ name[n] = "")
    <3>1. CASE Dropped(i)
      <4>1. Named(name[i]) = << >> /\ dst' = dst
        BY <2>1, <3>1 DEF Dropped, Named
      <4>2. dst.parts \o << >> = dst.parts
        BY <1>2
      <4>3. i + 1 <= n \/ name[n] = ""
        <5>1. i + 1 <= n \/ i = n
          BY <1>2
        <5> QED
          BY <1>5, <3>1, <5>1 DEF Dropped, Forbidden, IsLast
      <4> QED
        BY <1>2, <1>3, <2>3, <4>1, <4>2, <4>3
    <3>2. CASE ~Dropped(i)
      <4>1. /\ Named(name[i]) = << name[i] >>
            /\ dst' = [parts |-> Append(dst.parts, name[i]),
                       slash |-> ~IsLast(i)]
        BY <2>1, <3>2 DEF Dropped, Named
      <4>2. Append(dst.parts, name[i]) = dst.parts \o << name[i] >>
        BY <1>2, <2>2
      <4>3. Append(dst.parts, name[i]) \in Seq(Parts)
        BY <1>2, <2>2
      <4>4. (~IsLast(i)) = (i + 1 <= n \/ name[n] = "")
        <5>1. i + 1 <= n <=> ~IsLast(i)
          BY <1>2 DEF IsLast
        <5>2. IsLast(i) => name[n] # ""
          BY <3>2 DEF IsLast, Dropped
        <5> QED
          BY <5>1, <5>2
      <4> QED
        BY <2>3, <2>4, <4>1, <4>2, <4>3, <4>4
    <3> QED
      BY <3>1, <3>2
  <2>7. PathType'
    <3>1. i + 1 \in Nat
      BY <1>2
    <3>2. PathType
      BY DEF PathInv
    <3> QED
      BY <1>1, <2>1, <2>6, <3>1, <3>2 DEF PathType
  <2>8. NameSoFar'
    <3>1. i + 1 <= n + 1 /\ i + 1 # 0
      BY <1>2
    <3> QED
      BY <1>1, <1>3, <2>1, <2>5, <2>6, <3>1 DEF NameSoFar, Absolute
  <2> QED
    BY <2>1, <2>7, <2>8 DEF PathInv, NameChecked, TargetSoFar, TargetChecked
<1> QED
  BY <1>4, <1>5

LEMMA EndNameKept == PathInv /\ EndName => PathInv'
<1> SUFFICES ASSUME PathInv, EndName PROVE PathInv'
  OBVIOUS
<1> DEFINE n == Len(name)
<1>1. /\ name' = name /\ target' = target /\ depth' = depth /\ dst' = dst
      /\ verdict = "name" /\ i > n
  BY Refused DEF EndName
<1>2. name \in Seq(Parts) /\ n \in Nat /\ n > 0 /\ i = n + 1 /\ i > 0
  <2>1. name \in Seq(Parts) /\ n > 0 /\ i \in Nat /\ n \in Nat
    BY DEF PathInv, PathType
  <2>2. i <= n + 1
    BY <1>1 DEF PathInv, NameSoFar
  <2> QED
    BY <1>1, <2>1, <2>2
<1>3. PathType'
  BY <1>1, Refused DEF PathInv, PathType, EndName
<1>4. /\ ~Absolute(name)
      /\ \A k \in DOMAIN name : name[k] # "odd"
      /\ \A k \in 1..n : ~Forbidden(k)
      /\ dst.parts = Place(name)
      /\ Place(dst.parts) = dst.parts
      /\ dst.parts # << >> => dst.slash = (name[n] = "")
  <2>1. i - 1 = n /\ ~(i <= n)
    BY <1>2
  <2>2. SubSeq(name, 1, n) = name
    BY <1>2
  <2> QED
    BY <1>1, <1>2, <2>1, <2>2 DEF PathInv, NameSoFar
<1>5. CASE dst.parts = << >>
  <2>1. verdict' = "badName"
    BY <1>1, <1>5, Refused DEF EndName
  <2>2. BadName'
    BY <1>1, <1>4, <1>5 DEF BadName
  <2> QED
    BY <1>3, <2>1, <2>2
    DEF PathInv, NameSoFar, NameChecked, TargetSoFar, TargetChecked
<1>6. CASE dst.parts # << >>
  <2>1. verdict' = "target" /\ i' = 0
    BY <1>1, <1>6 DEF EndName
  <2>2. name[n] # "." /\ \A k \in DOMAIN name : name[k] # ".."
    <3>1. n \in 1..n /\ DOMAIN name = 1..n
      BY <1>2
    <3> QED
      BY <1>4, <3>1 DEF Forbidden, IsLast
  <2>3. ~BadName'
    BY <1>1, <1>4, <1>6, <2>2 DEF BadName, Absolute
  <2>4. NameChecked'
    BY <1>1, <1>4, <1>6, <2>1, <2>3 DEF NameChecked
  <2>5. ~(i' > 0)
    BY <2>1
  <2> QED
    BY <1>3, <2>1, <2>4, <2>5
    DEF PathInv, NameSoFar, TargetSoFar, TargetChecked
<1> QED
  BY <1>5, <1>6

\* Past the name, what is known of the name stays.
LEMMA NameStays ==
    ASSUME PathInv, name' = name, dst' = dst,
           verdict = "target", verdict' \in {"target", "accepted", "badTarget"}
    PROVE  NameChecked' /\ NameSoFar'
<1>1. BadName' = BadName
  BY DEF BadName, Absolute
<1> QED
  BY <1>1 DEF PathInv, NameChecked, NameSoFar

LEMMA StartTargetKept == PathInv /\ StartTarget => PathInv'
<1> SUFFICES ASSUME PathInv, StartTarget PROVE PathInv'
  OBVIOUS
<1>1. /\ name' = name /\ dst' = dst /\ target' \in Paths
      /\ verdict = "target"
      /\ verdict' \in {"target", "badTarget"}
      /\ i' \in Nat
  BY DEF StartTarget, PathInv, PathType
<1>3. target' \in Seq(Parts) /\ Len(target') > 0 /\ Len(target') \in Nat
  BY <1>1, PathsAreSequences
<1>4. PathType'
  BY <1>1, <1>3 DEF PathInv, PathType
<1>5. NameChecked' /\ NameSoFar'
  BY <1>1, NameStays
<1>6. CASE Absolute(target')
  <2>1. verdict' = "badTarget"
    BY <1>6 DEF StartTarget
  <2>2. ~GoodTarget'
    BY <1>6 DEF GoodTarget, Absolute
  <2> QED
    BY <1>4, <1>5, <2>1, <2>2 DEF PathInv, TargetSoFar, TargetChecked
<1>7. CASE ~Absolute(target')
  <2>1. verdict' = "target" /\ i' = 1 /\ depth' = {Slashes}
    BY <1>1, <1>7 DEF StartTarget
  <2> SUFFICES TargetSoFar'
    BY <1>1, <1>4, <1>5, <2>1 DEF PathInv, TargetChecked
  <2>2. /\ Len(dst.parts) \in Nat /\ Len(dst.parts) > 0
        /\ Len(dst.parts) - 1 \in Int
    <3>1. dst.parts \in Seq(Parts) /\ dst.parts # << >>
      BY <1>1 DEF PathInv, PathType, NameChecked
    <3> QED
      BY <3>1
  <2>3. /\ Slashes = (Len(dst.parts) - 1) - Floor
        /\ Len(dst.parts) - 1 >= Floor /\ Floor' = Floor
    <3>1. Floor' = Floor
      BY <1>1 DEF Floor
    <3> DEFINE n == Len(dst.parts)
    <3>2. n \in Nat /\ n > 0
      BY <2>2
    <3>3. CASE dst.slash
      <4>1. Slashes = n - 0 /\ Floor = -1
        BY <3>3 DEF Slashes, Floor
      <4> HIDE DEF n
      <4>2. n - 0 = (n - 1) - (-1) /\ n - 1 >= -1
        BY <3>2
      <4> QED
        BY <3>1, <4>1, <4>2 DEF n
    <3>4. CASE ~dst.slash
      <4>1. Slashes = n - 1 /\ Floor = 0
        BY <3>4 DEF Slashes, Floor
      <4> HIDE DEF n
      <4>2. n - 1 = (n - 1) - 0 /\ n - 1 >= 0
        BY <3>2
      <4> QED
        BY <3>1, <4>1, <4>2 DEF n
    <3> QED
      BY <3>3, <3>4
  <2>4. Levels(target', Len(dst.parts) - 1)[0] = Len(dst.parts) - 1
    BY <1>3, <2>2, LevelsStep
  <2>5. Level'[0] = Len(dst.parts) - 1
    BY <1>1, <2>4 DEF Level
  <2>6. 1 <= Len(target') + 1
    BY <1>3
  <2>7. \A k \in 0..(1 - 1) : Level'[k] >= Floor'
    BY <2>2, <2>3, <2>5
  <2>8. 1..(1 - 1) = {} /\ 1 - 1 = 0
    OBVIOUS
  <2>9. depth' = {Level'[0] - Floor'}
    BY <2>1, <2>3, <2>5
  <2> HIDE DEF Level
  <2> QED
    BY <1>7, <2>1, <2>6, <2>7, <2>8, <2>9 DEF TargetSoFar, Absolute
<1> QED
  BY <1>6, <1>7

LEMMA TargetPartKept == PathInv /\ TargetPart => PathInv'
<1> SUFFICES ASSUME PathInv, TargetPart PROVE PathInv'
  OBVIOUS
<1> DEFINE n == Len(target)
           part == target[i]
<1>1. /\ name' = name /\ dst' = dst /\ target' = target
      /\ verdict = "target" /\ i \in DOMAIN target
      /\ verdict' \in {"target", "badTarget"}
      /\ i' = i \/ i' = i + 1
  BY Refused DEF TargetPart
<1>2. PathType'
  <2>1. i' \in Nat
    BY <1>1 DEF PathInv, PathType
  <2> QED
    BY <1>1, <2>1 DEF PathInv, PathType
<1>3. NameChecked' /\ NameSoFar'
  BY <1>1, NameStays
<1>4. /\ target \in Seq(Parts) /\ n \in Nat /\ i \in 1..n
      /\ i \in Nat /\ i > 0 /\ part \in Parts
  BY <1>1 DEF PathInv, PathType
<1> SUFFICES TargetSoFar' /\ TargetChecked'
  BY <1>1, <1>2, <1>3 DEF PathInv
<1>5. /\ ~Absolute(target)
      /\ \A k \in 0..(i - 1) : Level[k] >= Floor
      /\ \A j, k \in 1..(i - 1) :
            j < k /\ Down(target[j]) => target[k] # ".."
      /\ IF \E j \in 1..(i - 1) : Down(target[j])
         THEN depth = {}
         ELSE depth = {Level[i - 1] - Floor}
  BY <1>1, <1>4 DEF PathInv, TargetSoFar
<1>6. Level[i - 1] \in Int /\ Level[i] = Level[i - 1] + Rise(part)
  <2>1. Len(dst.parts) - 1 \in Int
    BY DEF PathInv, PathType
  <2> QED
    BY <1>4, <2>1, LevelsStep DEF Level
<1>7. Level[i - 1] >= Floor /\ Floor \in Int
  BY <1>4, <1>5 DEF Floor
<1>8. Level' = Level /\ Floor' = Floor
  BY <1>1 DEF Level, Floor
<1>9. CASE part = ".." /\ Up(depth)
  <2>1. verdict' = "badTarget"
    BY <1>1, <1>9, Refused DEF TargetPart
  <2>2. ~GoodTarget
    <3>1. CASE \E j \in 1..(i - 1) : Down(target[j])
      <4>1. PICK j \in 1..(i - 1) : Down(target[j])
        BY <3>1
      <4>2. j \in DOMAIN target /\ j < i
        BY <1>4
      <4> QED
        BY <1>1, <1>9, <4>1, <4>2 DEF GoodTarget, Down
    <3>2. CASE ~\E j \in 1..(i - 1) : Down(target[j])
      <4>1. depth = {Level[i - 1] - Floor}
        BY <1>5, <3>2
      <4>2. Level[i - 1] = Floor
        <5>1. Level[i - 1] - Floor = 0
          BY <1>9, <4>1 DEF Up
        <5> QED
          BY <1>6, <1>7, <5>1
      <4>3. Rise(part) = -1
        BY <1>9 DEF Rise
      <4>4. Level[i] = Floor - 1
        BY <1>6, <1>7, <4>2, <4>3
      <4>5. ~(Level[i] >= Floor)
        BY <1>7, <4>4
      <4>6. i \in 0..n
        BY <1>4
      <4> QED
        BY <4>6, <4>5 DEF GoodTarget
    <3> QED
      BY <3>1, <3>2
  <2>3. ~GoodTarget'
    BY <1>1, <1>8, <2>2 DEF GoodTarget, Absolute
  <2> QED
    BY <2>1, <2>3 DEF TargetSoFar, TargetChecked
<1>10. CASE ~(part = ".." /\ Up(depth))
  <2>1. /\ verdict' = "target" /\ i' = i + 1
        /\ part = ".." => ~Up(depth)
        /\ depth' = CASE part \in {"", "."} -> depth
                      [] part = ".." -> {d - 1 : d \in depth}
                      [] OTHER -> {}
    BY <1>1, <1>10, Refused DEF TargetPart
  <2>2. /\ (i + 1) - 1 = i
        /\ \A k \in 0..i : k = i \/ k \in 0..(i - 1)
        /\ \A k \in 1..i : k = i \/ k \in 1..(i - 1)
        /\ \A k \in 1..(i - 1) : k \in 1..i
        /\ i \in 1..i /\ i + 1 <= n + 1
    BY <1>4
  <2> DEFINE down == \E j \in 1..(i - 1) : Down(target[j])
  <2>3. CASE part \in {"", "."}
    <3>1. depth' = depth /\ ~Down(part) /\ part # ".." /\ Rise(part) = 0
      BY <2>1, <2>3 DEF Down, Rise
    <3>2. Level[i] = Level[i - 1]
      BY <1>6, <3>1
    <3>3. \A k \in 0..i : Level[k] >= Floor
      BY <1>5, <1>7, <2>2, <3>2
    <3>4. \A j, k \in 1..i : j < k /\ Down(target[j]) => target[k] # ".."
      BY <1>5, <2>2, <3>1
    <3>5. (\E j \in 1..i : Down(target[j])) <=> down
      BY <2>2, <3>1
    <3>6. TargetSoFar'
      BY <1>1, <1>4, <1>5, <1>8, <2>1, <2>2, <3>1, <3>2, <3>3, <3>4, <3>5
      DEF TargetSoFar, Absolute
    <3> QED
      BY <2>1, <3>6 DEF TargetChecked
  <2>4. CASE part = ".."
    <3>1. ~Up(depth) /\ ~Down(part) /\ Rise(part) = -1
          /\ depth' = {d - 1 : d \in depth}
      BY <2>1, <2>4 DEF Down, Rise
    <3>2. ~down /\ depth = {Level[i - 1] - Floor} /\ Level[i - 1] # Floor
      BY <1>5, <1>7, <3>1 DEF Up
    <3>3. Level[i] = Level[i - 1] - 1
      BY <1>6, <3>1
    <3>4. Level[i] >= Floor /\ depth' = {Level[i] - Floor}
      <4>1. depth' = {(Level[i - 1] - Floor) - 1}
        BY <3>1, <3>2
      <4>2. (Level[i - 1] - Floor) - 1 = Level[i] - Floor
        BY <1>6, <1>7, <3>3
      <4> QED
        BY <1>6, <1>7, <3>2, <3>3, <4>1, <4>2
    <3>5. \A k \in 0..i : Level[k] >= Floor
      BY <1>5, <2>2, <3>4
    <3>6. \A j \in 1..i : ~Down(target[j])
      BY <2>2, <3>1, <3>2
    <3>7. TargetSoFar'
      BY <1>1, <1>4, <1>5, <1>8, <2>1, <2>2, <3>4, <3>5, <3>6
      DEF TargetSoFar, Absolute
    <3> QED
      BY <2>1, <3>7 DEF TargetChecked
  <2>5. CASE part \notin {"", ".", ".."}
    <3>1. depth' = {} /\ Down(part) /\ Rise(part) = 1
      BY <2>1, <2>5 DEF Down, Rise
    <3>2. Level[i] = Level[i - 1] + 1
      BY <1>6, <3>1
    <3>3. Level[i] >= Floor
      BY <1>6, <1>7, <3>2
    <3>4. \A k \in 0..i : Level[k] >= Floor
      BY <1>5, <2>2, <3>3
    <3>5. \A j, k \in 1..i : j < k /\ Down(target[j]) => target[k] # ".."
      <4> SUFFICES ASSUME NEW j \in 1..i, NEW k \in 1..i,
                          j < k, Down(target[j])
                   PROVE  target[k] # ".."
        OBVIOUS
      <4>1. CASE k = i
        BY <2>5, <4>1
      <4>2. CASE k # i
        <5>1. k \in 1..(i - 1) /\ j \in 1..(i - 1)
          BY <1>4, <4>2
        <5> QED
          BY <1>5, <5>1
      <4> QED
        BY <4>1, <4>2
    <3>6. \E j \in 1..i : Down(target[j])
      BY <2>2, <3>1
    <3>7. TargetSoFar'
      BY <1>1, <1>4, <1>5, <1>8, <2>1, <2>2, <3>1, <3>4, <3>5, <3>6
      DEF TargetSoFar, Absolute
    <3> QED
      BY <2>1, <3>7 DEF TargetChecked
  <2> QED
    BY <2>3, <2>4, <2>5
<1> QED
  BY <1>9, <1>10

LEMMA AcceptKept == PathInv /\ Accept => PathInv'
<1> SUFFICES ASSUME PathInv, Accept PROVE PathInv'
  OBVIOUS
<1>1. /\ name' = name /\ dst' = dst /\ target' = target /\ i' = i
      /\ verdict = "target" /\ i > Len(target)
      /\ verdict' = "accepted"
  BY DEF Accept
<1>2. PathType'
  BY <1>1 DEF PathInv, PathType
<1>3. NameChecked' /\ NameSoFar'
  BY <1>1, NameStays
<1> SUFFICES GoodTarget'
  BY <1>1, <1>2, <1>3 DEF PathInv, TargetSoFar, TargetChecked
<1>4. Len(target) \in Nat /\ DOMAIN target = 1..Len(target) /\ i > 0
  BY <1>1 DEF PathInv, PathType
<1>5. i - 1 = Len(target)
  BY <1>1, <1>4 DEF PathInv, PathType, TargetSoFar
<1>6. GoodTarget
  BY <1>1, <1>4, <1>5 DEF PathInv, TargetSoFar, GoodTarget, Down
<1> QED
  BY <1>1, <1>6 DEF GoodTarget, Absolute, Level, Floor

LEMMA PathInductive == PathSpec => []PathInv
<1>1. ASSUME PathInv, UNCHANGED pathVars PROVE PathInv'
  BY <1>1 DEF pathVars, PathInv, PathType, NameSoFar, NameChecked,
    TargetSoFar, TargetChecked, BadName, GoodTarget, Absolute, Level, Floor,
    Forbidden, IsLast
<1>2. PathInv /\ [PathNext]_pathVars => PathInv'
  BY <1>1, StartNameKept, NamePartKept, EndNameKept, StartTargetKept,
    TargetPartKept, AcceptKept DEF PathNext
<1> QED
  BY <1>2, InitKept, PTL DEF PathSpec

-------------------------------------------------------------------------------
\* The canonical name leads to the same place as the name, ends in '/' when
\* the name does, and is its own canonical form (validate_name).
THEOREM CanonicalNames == PathSpec => []Canonical
<1>1. PathInv => Canonical
  BY DEF PathInv, NameChecked, Canonical
<1> QED
  BY <1>1, PathInductive, PTL

\* validate_name refuses exactly the names that are absolute, go up, have an
\* odd character, lead nowhere or end in a `.', whatever their length.
THEOREM NamesAreChecked == PathSpec => []RefusedNames
<1>1. PathInv => RefusedNames
  BY DEF PathInv, NameChecked, RefusedNames
<1> QED
  BY <1>1, PathInductive, PTL

\* validate_symlink accepts exactly the targets along which the walk from
\* the directory of the link stays within the root and never turns up again
\* after a step down, however long the target and deep the link.  A link
\* whose name ends in '/', as a Unicode name may give it, is taken to lie one
\* level deeper, and its walk may leave the root by one step.
THEOREM LinksAreChecked == PathSpec => []LinkRule
<1>1. PathInv => LinkRule
  BY DEF PathInv, TargetChecked, LinkRule
<1> QED
  BY <1>1, PathInductive, PTL
=============================================================================
