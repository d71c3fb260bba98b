------------------------------ MODULE EntryNames ------------------------------
(***************************************************************************)
(* The names of an archive: the central headers are read one by one, every *)
(* entry is put into the table of names, and the open archive answers      *)
(* index_of (read_central_directory and read_archive of src/read/raw.rs,   *)
(* NameTable of src/utils/mod.rs, RawArchive of src/read/mod.rs).  Local   *)
(* headers, which have to repeat the names, are the matter of EntryHeaders.*)
(***************************************************************************)
EXTENDS ExtraFields, SequencesExt

CONSTANTS
    Headers,      \* the central headers that a file may have
    MaxEntries    \* bound: the number of entries

ASSUME NamesAssumption ==
    MaxEntries \in Nat /\ \A h \in Headers : HeaderLike(h)

VARIABLES
    read,        \* the headers read
    entries,     \* RawArchive::entries
    names,       \* RawArchive::names: indices into `entries'
    phase        \* "headers", "names", "open" or "refused"

namesVars == << read, entries, names, phase >>

NamesInit ==
    /\ read = << >>
    /\ entries = << >>
    /\ names = {}
    /\ phase = "headers"

RefuseArchive == phase' = "refused" /\ UNCHANGED << read, entries, names >>

\* parse_extra_fields as a whole.
ParseExtraFields(e, h) ==
    LET turn(opt, f) ==
            UNION { OnField(o, f, CrcOf(h.name, ForceUnicode(h)),
                            CrcOf(h.comment, ForceUnicode(h))) : o \in opt }
        after[k \in 0..Len(h.extra)] ==
            IF k = 0 THEN {e} ELSE turn(after[k - 1], h.extra[k])
    IN  { o \in after[Len(h.extra)] : o.method # "AES" }

ReadCentralHeader(h) ==
    UNION { ParseExtraFields(e, h) : e \in FromCentralHeader(h) }

\* One turn of the first loop of read_central_directory.
ReadEntry ==
    /\ phase = "headers"
    /\ Len(entries) < MaxEntries
    /\ \E h \in Headers :
          \/ \E e \in ReadCentralHeader(h) :
                /\ entries' = Append(entries, e)
                /\ read' = Append(read, h)
                /\ UNCHANGED << names, phase >>
          \/ ReadCentralHeader(h) = {} /\ RefuseArchive

EndHeaders ==
    /\ phase = "headers"
    /\ phase' = "names"
    /\ UNCHANGED << read, entries, names >>

\* NameTable::get with stripped_name.
Found(base) == {i \in names : entries[i].name.base = base}

\* Mutant of Insert: the table keeps the '/' of directories.
InsertWithSlash(i) ==
    IF \E j \in names : entries[j].name = entries[i].name THEN RefuseArchive
    ELSE /\ names' = names \cup {i}
         /\ UNCHANGED << read, entries, phase >>

\* NameTable::insert
Insert(i) ==
    IF Found(entries[i].name.base) # {} THEN RefuseArchive
    ELSE /\ names' = names \cup {i}
         /\ UNCHANGED << read, entries, phase >>

\* The loop of read_archive: entries are inserted in their order.
InsertName ==
    /\ phase = "names"
    /\ Cardinality(names) < Len(entries)
    /\ Insert(Cardinality(names) + 1)

Open ==
    /\ phase = "names"
    /\ Cardinality(names) = Len(entries)
    /\ phase' = "open"
    /\ UNCHANGED << read, entries, names >>

NamesNext == ReadEntry \/ EndHeaders \/ InsertName \/ Open

NamesSpec == NamesInit /\ [][NamesNext]_namesVars

-------------------------------------------------------------------------------
\* Mutant of IndexOf: whether the '/' fits the type is not compared.
IndexOfAny(name) == Found(name.base)

\* index_of: directories are asked for with a '/', other entries without.
IndexOf(name) ==
    {i \in Found(name.base) :
        (entries[i].type = "Directory") = name.slash}

-------------------------------------------------------------------------------
(***************************************************************************)
(* Each entry is found, and by one spelling of its name only: with the '/' *)
(* or without it, but not by both, and no other entry is.  So no two names *)
(* are the same, however they were encoded.                                *)
(***************************************************************************)
FoundOnce ==
    phase = "open" =>
        \A i \in DOMAIN entries :
            \E slash \in BOOLEAN :
                LET asked(s) == [base |-> entries[i].name.base, slash |-> s]
                IN  IndexOf(asked(slash)) = {i} /\ IndexOf(asked(~slash)) = {}

(***************************************************************************)
(* "Gets the index of a file in [`Self::entries`] by its name": each entry *)
(* is found by the name that it has.                                       *)
(***************************************************************************)
FoundByName ==
    phase = "open" =>
        \A i \in DOMAIN entries : IndexOf(entries[i].name) = {i}

(***************************************************************************)
(* The same for archives without Unicode names, decoded ones included.     *)
(***************************************************************************)
Renamed(h) == \E k \in DOMAIN h.extra : h.extra[k].id = "UnicodeName"

PlainFoundByName ==
    phase = "open" =>
        \A i \in DOMAIN entries :
            ~Renamed(read[i]) => IndexOf(entries[i].name) = {i}
===============================================================================
