---------------------------- MODULE WriterHeaders ----------------------------
(***************************************************************************)
(* The headers that the writer lays out for an entry (write_local_header,  *)
(* push_central_header and RawFileStreamer::finish of src/write/raw.rs),   *)
(* taken in by the reader of EntryHeaders.                                 *)
(***************************************************************************)
EXTENDS EntryHeaders

CONSTANTS
    Written,     \* the Metadata of write/raw.rs that an entry may have
    U32Max       \* the largest value of a 32-bit timestamp

\* What check_name and the callers in write/mod.rs see to: the '/' of a name
\* tells its type, validate_name accepts it, Compressor::new the method, and
\* STORE keeps the size.
ASSUME WriterHeadersAssumption ==
    /\ U32Max \in Nat
    /\ \A m \in Written :
          /\ m.type \in {"File", "Directory", "Symlink"}
          /\ m.name = [base |-> m.name.base, slash |-> m.type = "Directory"]
          /\ m.name.base \notin BadBases
          /\ m.method # "AES"
          /\ m.method = "Store" => m.csize = m.usize
          /\ m.type = "Directory" => m.usize = 0
          /\ m.stream \in BOOLEAN

VARIABLE
    written      \* the entry whose headers these are, as an Option: headers
                 \* of another writer have none

\* Mutant of TimeExtra: a later time is cut to 32 bits.
TimeExtraCut(modified_at) ==
    IF modified_at = 0 THEN << >>
    ELSE << [id |-> "Timestamp", bits |-> {1},
             times |-> << modified_at % (U32Max + 1) >>] >>

\* ExtendedTimestamp::new: 0, and what does not fit, is not written.
TimeExtra(modified_at) ==
    IF modified_at \in 1..U32Max
    THEN << [id |-> "Timestamp", bits |-> {1}, times |-> << modified_at >>] >>
    ELSE << >>

WriterFlags(m) == {"unicode"} \cup (IF m.stream THEN {"streaming"} ELSE {})

Attributes(type) ==
    CASE type = "File" -> [dos |-> {"file"}, kind |-> 8]
      [] type = "Directory" -> [dos |-> {"dir"}, kind |-> 4]
      [] type = "Symlink" -> [dos |-> {}, kind |-> 10]

Header(m, crc, offset, extra) ==
    [name |-> [utf8 |-> TRUE, base |-> m.name.base, slash |-> m.name.slash],
     comment |-> [utf8 |-> TRUE, base |-> m.comment, slash |-> FALSE],
     attr |-> Attributes(m.type), flags |-> WriterFlags(m),
     method |-> m.method, crc |-> crc, csize |-> Sat, usize |-> Sat,
     offset |-> offset, disk |-> 0,
     extra |-> extra \o TimeExtra(m.modified_at)]

\* A stream is announced with no sizes, and told in its descriptor.
WriteLocalHeader(m) ==
    Header(m, IF m.stream THEN 0 ELSE m.crc, 0,
           << [id |-> "Zip64", values |->
                 IF m.stream THEN << 0, 0 >> ELSE << m.usize, m.csize >>] >>)

\* Mutant of PushCentralHeader: the offset, which is mostly small, is not
\* saturated in the header.
PushCentralHeaderShort(m) ==
    Header(m, m.crc, m.offset,
           << [id |-> "Zip64", values |-> << m.usize, m.csize, m.offset >>] >>)

PushCentralHeader(m) ==
    Header(m, m.crc, Sat,
           << [id |-> "Zip64", values |-> << m.usize, m.csize, m.offset >>] >>)

DescriptorOf(m) ==
    [wide |-> TRUE, csize |-> m.csize, usize |-> m.usize, crc |-> m.crc]

InitW ==
    /\ \E m \in Written :
          /\ written = {m}
          /\ headers = [s \in Sides |-> IF s = "central"
                           THEN PushCentralHeader(m) ELSE WriteLocalHeader(m)]
          /\ descriptor = DescriptorOf(m)
    /\ side = "central"
    /\ next = 1
    /\ metas = [s \in Sides |-> {}]
    /\ status = "header"

NextW == Next /\ UNCHANGED written

SpecW == InitW /\ [][NextW]_<< vars, written >>

-------------------------------------------------------------------------------
(***************************************************************************)
(* Every header pair of the writer is accepted, with sizes and offsets     *)
(* below, at and above 0xffff_ffff, and what the writer was given is what  *)
(* the reader lists.  A modification time is listed as it was given or not *)
(* at all: 0 stands for none, and a time after 2106 is never listed as     *)
(* another time.                                                           *)
(***************************************************************************)
ListedAs(m) ==
    /\ Entry.name = m.name
    /\ Entry.type = m.type
    /\ Entry.method = m.method
    /\ Entry.comment.base = m.comment
    /\ Entry.enc = "None"
    /\ << Entry.usize, Entry.csize, Entry.crc, Entry.offset >>
         = << m.usize, m.csize, m.crc, m.offset >>
    /\ Entry.mtime = Only(m.modified_at \in 1..U32Max, m.modified_at)
    /\ Entry.atime = {} /\ Entry.ctime = {}

WriterListed ==
    \A m \in written :
        status # "refused" /\ (status = "ok" => ListedAs(m))
=============================================================================
