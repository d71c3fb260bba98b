----------------------------- MODULE EntryHeaders -----------------------------
(***************************************************************************)
(* The two headers of one entry, as the reader takes them in: the central  *)
(* one with its extra fields, one at a time, then the local one with its   *)
(* own, then the comparison of both (src/read/mod.rs and check_local_entry *)
(* of src/read/raw.rs).  Whatever is not as it should be refuses the       *)
(* archive.                                                                *)
(***************************************************************************)
EXTENDS ExtraFields

CONSTANTS
    Groups       \* the headers and descriptors that a file may have, in
                 \* groups that vary one matter each

ASSUME GroupsAssumption ==
    \A g \in DOMAIN Groups :
        \A h \in Groups[g].central \cup Groups[g].local : HeaderLike(h)

VARIABLES
    headers,     \* the two headers in the file, by side
    descriptor,  \* the data descriptor in the file
    side,        \* the header that is being read
    next,        \* its next extra field
    metas,       \* the Metadata made of each header, as an Option
    status       \* "header", "fields", "check", "ok" or "refused"

vars == << headers, descriptor, side, next, metas, status >>

Sides == {"central", "local"}

Init ==
    /\ \E g \in DOMAIN Groups :
          /\ \E c \in Groups[g].central, l \in Groups[g].local :
                headers = [s \in Sides |-> IF s = "central" THEN c ELSE l]
          /\ descriptor \in Groups[g].descriptors
    /\ side = "central"
    /\ next = 1
    /\ metas = [s \in Sides |-> {}]
    /\ status = "header"

Refuse ==
    /\ status' = "refused"
    /\ UNCHANGED << headers, descriptor, side, next, metas >>

\* The header goes on as `new', or is refused when that is None.
Become(new, nextField, newStatus) ==
    \/ /\ new # {}
       /\ metas' = [metas EXCEPT ![side] = new]
       /\ next' = nextField
       /\ status' = newStatus
       /\ UNCHANGED << headers, descriptor, side >>
    \/ new = {} /\ Refuse

\* from_central_header, from_local_header
ReadHeader ==
    /\ status = "header"
    /\ Become(IF side = "central" THEN FromCentralHeader(headers[side])
              ELSE FromLocalHeader(headers[side]), 1, "fields")

\* The comment of a local entry is the empty one and has no CRC.
NameCrc == CrcOf(headers[side].name, ForceUnicode(headers[side]))
CommentCrc ==
    IF side = "local" THEN {}
    ELSE CrcOf(headers[side].comment, ForceUnicode(headers[side]))

\* One turn of the loop of parse_extra_fields.
ReadField ==
    /\ status = "fields"
    /\ next <= Len(headers[side].extra)
    /\ \E e \in metas[side] :
          Become(OnField(e, headers[side].extra[next], NameCrc, CommentCrc),
                 next + 1, "fields")

\* The end of parse_extra_fields; the central header is read before the
\* local one.
EndFields ==
    /\ status = "fields"
    /\ next > Len(headers[side].extra)
    /\ \E e \in metas[side] :
          \/ e.method = "AES" /\ Refuse
          \/ /\ e.method # "AES"
             /\ side' = "local"
             /\ next' = 1
             /\ status' = IF side = "central" THEN "header" ELSE "check"
             /\ UNCHANGED << headers, descriptor, metas >>

-------------------------------------------------------------------------------
\* opt_eq
OptEq(a, b) == a = {} \/ b = {} \/ a = b

Streaming(e) == "streaming" \in e.flags

\* Mutant of ReadDescriptor: the descriptor of a stream is not read.
NoDescriptor(l) == {l}

\* read_data_descriptor.  Its width is that of the local header; one of
\* the other width has other values, or ends where no next record starts.
ReadDescriptor(l) ==
    IF ~Streaming(l) THEN {l}
    ELSE Only(descriptor.wide = l.zip64,
              [l EXCEPT !.csize = descriptor.csize,
                        !.usize = descriptor.usize, !.crc = descriptor.crc])

Consistent(e, l) ==
    /\ e.method = l.method
    /\ e.name = l.name
    /\ e.csize = l.csize
    /\ e.usize = l.usize
    /\ e.crc = l.crc
    /\ e.flags = l.flags
    /\ OptEq(e.mtime, l.mtime)
    /\ OptEq(e.atime, l.atime)
    /\ OptEq(e.ctime, l.ctime)
    /\ e.method = "Store" => e.csize = e.usize \/ e.enc # "None"

\* Extended timestamps have these two in local headers only, usually.
FillIn(e, l) ==
    [e EXCEPT !.ctime = IF @ = {} THEN l.ctime ELSE @,
              !.atime = IF @ = {} THEN l.atime ELSE @]

\* check_local_entry
Checked(e, l) ==
    { FillIn(e, d) : d \in
        {d \in ReadDescriptor(l) :
            (e.type = "Directory" => e.usize = 0) /\ Consistent(e, d)} }

CheckLocalEntry ==
    /\ status = "check"
    /\ \E e \in metas["central"], l \in metas["local"] :
          \/ /\ Checked(e, l) # {}
             /\ metas' = [metas EXCEPT !["central"] = Checked(e, l)]
             /\ status' = "ok"
             /\ UNCHANGED << headers, descriptor, side, next >>
          \/ Checked(e, l) = {} /\ Refuse

Next == ReadHeader \/ ReadField \/ EndFields \/ CheckLocalEntry

Spec == Init /\ [][Next]_vars

-------------------------------------------------------------------------------
(***************************************************************************)
(* Properties.                                                             *)
(***************************************************************************)
Entry == CHOOSE e \in metas["central"] : TRUE
Local == CHOOSE l \in metas["local"] : TRUE
Extra(s) == headers[s].extra

\* The positions of the fields with an id in `ids'.
At(s, ids) == {i \in DOMAIN Extra(s) : Extra(s)[i].id \in ids}

(***************************************************************************)
(* Each number of an accepted entry is the 32-bit one of the central       *)
(* header, or, where that is saturated, its own 64-bit one: the k-th value *)
(* of the Zip64 field belongs to the k-th saturated number, whichever of   *)
(* the three they are.  Stated for a central header with one such field.   *)
(***************************************************************************)
Numbers(h) == << h.usize, h.csize, h.offset >>

OwnNumber(k) ==
    LET h == headers["central"]
        field == Extra("central")[Max(At("central", {"Zip64"}))]
        rank == Cardinality({j \in 1..k : Numbers(h)[j] = Sat})
    IN  IF Numbers(h)[k] = Sat THEN field.values[rank] ELSE Numbers(h)[k]

SizesAreOwn ==
    status = "ok" /\ Cardinality(At("central", {"Zip64"})) = 1 =>
        \A k \in 1..3 : Numbers(Entry)[k] = OwnNumber(k)

(***************************************************************************)
(* A stream is listed with what its descriptor says, and a descriptor that *)
(* says something else than the central header refuses the archive.        *)
(***************************************************************************)
DescriptorTells ==
    status = "ok" /\ "streaming" \in headers["local"].flags =>
        /\ Entry.usize = descriptor.usize
        /\ Entry.csize = descriptor.csize
        /\ Entry.crc = descriptor.crc
        /\ descriptor.wide = (At("local", {"Zip64"}) # {})

(***************************************************************************)
(* Which times win, in any order of fields: those of the last field with   *)
(* times, all three of them; the local header adds an access or creation   *)
(* time that the central one lacks, and never contradicts one it has.      *)
(***************************************************************************)
TimesOf(f) == IF f.id = "Ntfs" THEN NtfsTimes(f) ELSE ExtendedTimes(f)
TimesIn(f) == CHOOSE t \in TimesOf(f) : TRUE

LastTimes(s) ==
    LET at == At(s, {"Ntfs", "Timestamp"})
    IN  IF at = {} THEN NoTimes ELSE TimesIn(Extra(s)[Max(at)])

TimesWin ==
    status = "ok" =>
        LET c == LastTimes("central")
            l == LastTimes("local")
        IN  /\ Entry.mtime = c.mtime
            /\ Entry.atime = IF c.atime # {} THEN c.atime ELSE l.atime
            /\ Entry.ctime = IF c.ctime # {} THEN c.ctime ELSE l.ctime
            /\ \A t \in {"mtime", "atime", "ctime"} :
                  c[t] # {} /\ l[t] # {} => c[t] = l[t]

(***************************************************************************)
(* An instant may be written as an NTFS time in one header and as a Unix   *)
(* time in the other.  When both stand for the same second, or the NTFS    *)
(* time is before 1970 and the Unix time is 0, the headers do not          *)
(* contradict each other.                                                  *)
(***************************************************************************)
SameInstant(ts, unix) ==
    IF ts < NtEpoch * Ticks THEN unix = 0
    ELSE (NtEpoch + unix) * Ticks <= ts /\ ts < (NtEpoch + unix + 1) * Ticks

TwoClocks(n, t) ==
    /\ n.id = "Ntfs" /\ Len(n.tags) = 1
    /\ n.tags[1].typ = 1
    /\ t.id = "Timestamp" /\ t.bits = {1}
    /\ SameInstant(n.tags[1].times[1], t.times[1])

SameInstantAgrees ==
    status = "check" /\ Len(Extra("central")) = 1 /\ Len(Extra("local")) = 1
        /\ TwoClocks(Extra("central")[1], Extra("local")[1])
        => OptEq(Entry.mtime, Local.mtime)

(***************************************************************************)
(* An entry that is listed as AES encrypted was announced so by both the   *)
(* flags and a field, is listed with the method inside, and is a CRC32     *)
(* that is to be ignored only if it is 0; no other entry is listed with    *)
(* the method AES, and none that is encrypted passes for one that is not.  *)
(***************************************************************************)
EncryptionTold ==
    status = "ok" =>
        LET aes == At("central", {"Aes"})
        IN  /\ Entry.method # "AES"
            /\ Entry.enc = "None" <=> "encrypted" \notin Entry.flags
            /\ Entry.enc = "Aes" <=> aes # {}
            /\ \A i \in aes : /\ Entry.method = Extra("central")[i].method
                              /\ Extra("central")[i].check_crc32
                                    \/ Entry.crc = 0
                              /\ headers["central"].method = "AES"

(***************************************************************************)
(* The name of an accepted entry is that of its central header, or that of *)
(* a Unicode field made for these bytes; a field made for another name, or *)
(* next to a name that is Unicode already, refuses the archive.            *)
(***************************************************************************)
NameOfHeader ==
    status = "ok" =>
        LET h == headers["central"]
            at == At("central", {"UnicodeName"})
        IN  /\ Entry.name = IF at = {} THEN Text(h.name)
                            ELSE Extra("central")[Max(at)].text
            /\ \A i \in at : ~h.name.utf8 /\ Extra("central")[i].crc = h.name
            /\ Entry.name = Local.name
===============================================================================
