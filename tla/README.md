# Verification of eazip

TLA+ models, model-checking runs and machine-checked proofs for `eazip`
(version 0.2.6, in `src/`), a library that writes, opens and extracts ZIP
archives. Paths below are relative to the repository root, `src/src/` being the
crate's source directory.

## 1. The system

| Component | Source | State it keeps | Operations |
|---|---|---|---|
| Archive writer | `write/mod.rs`, `write/raw.rs` | `state` (`Default` or `Writing(pos)`), `position`, `entries` (name table), `central_headers`, the underlying writer and its position | `add_file`, `add_directory`, `add_symlink`, `stream_file`, `recover`, `finish` |
| File streamer | `write/mod.rs:242`, `write/raw.rs:426` | byte counters above and below the compressor, CRC, the compressor's buffer | `write`, `flush`, `finish`, drop |
| Vectored writes | `write/raw.rs:17`, `utils/crc32.rs:98`, `utils/mod.rs:217` | the buffers that are left | `_write_all_many`, `write_vectored` |
| ZIP records | `types.rs`, `write/raw.rs:43` | none (layouts) | |
| Archive opening | `read/raw.rs`, `read/mod.rs` | none while opening; then the immutable list of `Metadata` and the name table | `read_archive`, `Metadata::read`, `read_stored`, `read_raw` |
| Content checking | `utils/mod.rs:230`, `utils/crc32.rs` | bytes still expected, CRC so far | `read`, `read_to_end`, `read_to_string` |
| Extraction | `read/mod.rs:127`, `:516` | the directory tree on disk, shared by threads | `extract`, `parallel_extract` |
| Compression | `compression.rs` | buffers of flate2 and zstd | `Compressor`, `Decompressor` |
| Names | `utils/mod.rs:1`, `:292`, `read/mod.rs:82`, `utils/cp437.rs` | the name table | `validate_name`, `validate_symlink`, `convert_string`, `NameTable`, `index_of` |
| Extra fields, timestamps | `read/extra_field.rs`, `read/mod.rs:340`, `utils/mod.rs:105` | none | the iterator over fields, `parse_extra_fields`, conversions |

How they interact: every method of the writer takes `&mut self`; a
`FileStreamer` borrows the archive until it is finished or dropped, so calls
never overlap. What makes the writer hard is failure: a call may stop after
any byte, the caller may go on, repeat, `recover` or give up, and the three
records of what happened (the file, `position`/`state`, and
`entries`/`central_headers`) must still agree. The file is then what the reader
gets, which trusts nothing: it finds the directory from the end of the file,
takes in every header with its extra fields in any order, compares the two
descriptions of every entry and demands that entries follow each other without
a gap. The only concurrency is `parallel_extract`: threads of a pool that share
nothing but the directory tree.

What makes each part correct:

* writer: entries whose call returned `Ok` are never damaged; a failed call
  leaves an archive that is blocked until `recover`, and whole after it; all
  buffers of a call are written once, and counted and hashed as written;
* opening: a finished archive lists and reads exactly what was written, an
  unfinished one is refused, unless content that is an archive itself passes
  for its end; of any file, the directory that its records agree
  on is the one that is read;
* headers: what an accepted entry is listed with is what its headers state,
  whatever order, width or field states it;
* names: entries are found by their names and by no other, lead to the place
  that they spell, and links stay under the root;
* content checking: the end of a content is only reported to a caller who holds
  what has the announced CRC, also after failed calls, and matching content is
  only refused to a caller who does not hold it;
* extraction: `Ok` means that everything is there, nothing that was there is
  overwritten, the call returns, and a good archive is extracted.

The hazards behind these properties, each at its line, are in `PROJECT.json`.

## 2. Modules

| Module | What it is |
|---|---|
| `ZipFormat` | records and images of entries; a file as a sequence of cells |
| `ArchiveLog` | abstract: an append-only log of uniquely named entries |
| `ArchiveWriter` | the writer and the streamer, one action per method; implements `ArchiveLog` |
| `VectoredWrite` | several buffers with one call, under the counter and the CRC of a stream |
| `ArchiveReader` | `read_archive` and `Metadata::read` as operators on a file of this writer |
| `RoundTrip` | writer and reader together |
| `EndRecords` | from any file to the offset and size of its directory, with the widths of numbers |
| `ExtraFields` | operators: names, types, flags, times, and the arms of `parse_extra_fields` |
| `FieldParser` | the iterator over extra fields and their parsers, on bytes |
| `EntryHeaders` | the two headers of one entry, and their comparison |
| `WriterHeaders` | the headers that the writer lays out, taken in by `EntryHeaders` |
| `EntryNames` | the headers of several entries, the name table, `index_of` |
| `PathRules` | `validate_name` and `validate_symlink` |
| `ContentChecker` | `Crc32Checker` over `LengthChecker` |
| `Extract` | `extract` and `parallel_extract`, one action per file system call |
| `MC*` | instances for TLC |
| `Induction` | induction over numbers as facts about sets, and what `FlattenSeq` computes, with proofs |
| `ArchiveWriterProofs` | the writer: cells and images, types, committed entries, streams |
| `RoundTripProofs` | the writer implements the log, and the reader reads back what it wrote |
| `OpeningProofs`, `FieldParserProofs`, `HeadersProofs` | the reader on files of any writer: end records, and names and links; extra fields as bytes; headers, name table and the writer's headers |
| `ContentsProofs` | the checkers, and vectored writes |
| `ExtractProofs` | extraction |

### ZipFormat

A file is a sequence of *cells*: a fixed record is one cell, a local header two
(the second is the name with the Zip64 field), content one cell per symbol. All
offsets and sizes count cells; their relations are those of the code, their
values are not. A record holds the fields that tell entries apart. A checksum is
the content itself (no collisions). `STORE` is the identity; the other method
is a buffered encoding that is complete only with the terminator that
`Compressor::finish` writes, and a stream without it decodes to an error. A
symbol of content stands for any bytes, those of a record among them. The
empty blocks that a flush of a deflate stream inserts are not represented.

### ArchiveWriter

| Variable | Code |
|---|---|
| `disk`, `cursor` | the underlying writer and its position |
| `state`, `position`, `entries`, `headers` | the fields of `RawArchiveWriter` |
| `streamer` | the live `FileStreamer`: `started`, `amt` of `RawFileStreamer`; `given` is what `Counter` and `Crc32Writer` above the compressor have seen |
| `phase` | whether the `ArchiveWriter` still exists, and what `finish` returned |

A call is one action, which chooses where it stops: `Put(w, k)` writes the first
`k` cells of an image, so that every prefix is a possible failure and also what
a crash leaves behind. `push_central_header` fails without a trace;
`stream_file` fails after the local header when the method is not supported;
`StreamFlush` is a flush, and also a
`write` that fails below the compressor: bytes that were held back are sent,
nothing new is accepted; `StreamFinish` moves `position` before its last failure point, as
`write/raw.rs:462` does; `StreamDrop` lets a buffered compressor write from its
destructor. A call that is refused before it changes anything is a stuttering
step. `Truncate` is what the documentation of `recover` asks of the caller, who
may also forget it. A device of `Capacity` cells bounds the file, as a full
disk does.

`PushCentralHeader` stands for two appends (headers and name table) that
cannot fail after their reservations; the result of `insert`, which the code
ignores, is never "occupied" by `NamesExact`.

### VectoredWrite

`Put` of `ArchiveWriter` says that a prefix of the bytes is written; this module
says why. `bufs` are the `IoSlice`s that are left, `Taken(n)` is one
`write_vectored` of the writer below, which took `n` bytes of any number of
buffers, and `Advance` is `IoSlice::advance_slices` (of the standard library, by
its documentation). `SummedOf` is the loop of `Crc32Writer` that goes through
the same buffers on its own, `amt` is that of `Counter`. The state `panic` is
the `assert!` after that loop.

### ArchiveReader and RoundTrip

Each check of `read_archive` whose failure is an error is a conjunct of
`Accepts`; `WalkOf` is the single pass over the local entries, which starts at
the first header's offset and ignores the others. `RoundTrip` evaluates the
reader in every state of the writer, which is why `UnfinishedRefused` speaks
about crashes as well as about failed calls. `AsRead` is the file as the reader
finds it: the symbols of content in the domain of the constant `AsRecord` are
the records that they are mapped to, wherever they stand. An entry may thus
hold an archive, and a file that is torn right after it, or a stale tail that
ends with it, may be opened as that archive: `EndInContent` is the exception
that the properties name. Names are taken to contain no record, which they
cannot, since `validate_name` refuses a NUL; comments too, though the caller of
`finish_with_comment` may give one that does. Only checks that a file of this
writer, torn or stale, can fail are in `Accepts`; what files of other writers
can fail is in the next modules.

### EndRecords

For the search a file is its bytes: a signature is one byte of its own value
`Sig` and the last byte of an end record is the length of the comment, so that
signatures in comments, in front of the record and cut off at the end all
occur. `SearchEnd` and `SearchAll` are the two windows of `find_eocd`. What the
records hold is chosen when they are read (`ReadEocd`, `ReadLocator`,
`ReadEocd64`) from sets with numbers of 16, 32 and 64 bits, which end at
`Top16`, `Top32` and `Top64`. `RecordLen` is the unchecked `record_size + 12`:
it wraps in a release build and panics in a debug build (`build`). `ValidSize`
has the checked arithmetic of `validate_size`.

### ExtraFields, EntryHeaders, WriterHeaders, EntryNames

`ExtraFields` holds operators only. An `Option` of the code is a set with at
most one element, so that `?` is the choice of an element and `None` is the
empty set that `Become` turns into a refusal. Strings are a base with or
without a `/` and marked as UTF-8 or not; a CRC32 is the string it was made of.
`OnField` is the match of `parse_extra_fields`, one arm per operator.

`EntryHeaders` has one action per header, per field, for the end of the fields
(where a method that is still AES is refused) and for `check_local_entry`.
Groups of headers that a file may have are a constant. `WriterHeaders` starts
the same machine from what `write_local_header` and `push_central_header` lay
out for an entry, so that what the writer states and what the reader
understands meet: all three numbers are saturated and stand in the Zip64 field,
times go through the 32-bit field.

A descriptor follows the width of the local header. One of the other width is
refused at once here; in a file its bytes would be read with the wrong width
and differ from the central header, or the next record would not be found.

`EntryNames` reads headers one by one, then inserts the names in order, as
`read_archive` does; the archive is then open and `IndexOf` is what `index_of`
answers. A name that a Unicode field has replaced keeps the `file_type` of the
one before: `OnUnicodeName` changes the name only.

### FieldParser

From bytes to fields: `Layout` and `Encode` say how a list of fields is laid out
(they stand for any writer), the data is cut anywhere and may have up to three
zeros after it, and `ParseField` is one turn of the iterator with the parser of
its kind. The iterator answers `Invalid` for ever after an error, since it
does not move on; its caller returns at the first one, and the model ends
there. Zeros where a field may start are its end, as in the code: up to three
zero bytes that are left are padding.

### PathRules

A path is the sequence of what is between its slashes. `validate_name` and
`validate_symlink` take one part per action. `validate_symlink` gets the
canonical name; it looks for odd characters in that name, where there are none
any more, and not in the target, and so does the model. The rules are lexical:
a target is followed part by part, no directory is looked at. The level of the
directory of a link is counted as the slashes of its name, which is one too
many when the name ends in `/`; only a Unicode name, which is not compared with
the type (`ExtraFields!OnUnicodeName`), gives a link such a name. `Floor` is how
far below the root the walk of an accepted target may then come.

### ContentChecker

A call is one action; the reader below returns any number of bytes or an error.
`expected` and `hashed` are the fields of the two checkers. `read_to_end` hashes
its whole buffer, zeros included, and takes the bytes it did get off `expected`
even when it then fails; `read_to_string` forwards to the library's loop over
`LengthChecker::read`. After any failure the caller may go on with any call, and
the model does. Three variables are only read by the properties: `given` is
what the successful calls returned, `held` what all of them left in the caller's
buffers, the zeros and the bytes of a failed call included, and `lost` says that
a call has read bytes and dropped them: a `read_to_string` that meets no string,
or a call that reads beyond the announced length.

### Extract

The steps of `_extract`: the test of the root, `create_dir_all` one directory at
a time, then `create_new`, `create_dir` or `symlink`, then `io::copy` in `Chunks`
pieces. Between two steps any other thread may take one. Each call of the
caller chooses its `method`: with `extract` the entries are taken in order and
one at a time (`Turn`), with `parallel_extract` any thread takes any entry that
is left. A call after a failed one may use the other method. `tree` maps a path
to a node, with the entry that made it (0 for what was there before and for
parents). `Faulty` lets any step fail, and the call
itself when it makes the root (`StartFails`). Links are never followed.

## 3. Runs

| Run | Configuration | Shows |
|---|---|---|
| `writer` | `MCRoundTrip.cfg` | two names, a refused one, contents of up to 1 byte, 15 cells. The writer: `CommittedIntact`, `Contiguous`, `ResumePoint`, `NamesExact`, `BlockedUntilRecovered`, `TypeOK`, and the refinement of `ArchiveLog` (`ImplementsLog`); and its finished file in the hands of the reader, with content that may be an end record: `FinishedListed`, `FinishedReadsBack` |
| `streams` | `MCStreams.cfg` | one name, contents of up to 2 bytes of which one is an end record, 10 cells: `StreamFaithful`; and the file in the hands of the reader in every state: `UnfinishedRefused`, `StaleTailRefused` |
| `contents` | `MCContents.cfg` | reading: contents, announced lengths and buffers of up to 3, failures and repeated calls: `VerifiedAtEof`, `NeverTooMuch`, `NoFalseAlarm`; writing: up to 4 buffers of up to 2 bytes, cut anywhere: `NothingLostOrTwice`, `CountedAsSent`, `NeverOffersNothing` |
| `headers` | `MCHeaders.cfg` | two headers of an entry: `SizesAreOwn`, `DescriptorTells`, `TimesWin`, `SameInstantAgrees`, `NameOfHeader`, `EncryptionTold`, and `WriterListed` for the headers of this writer; up to 3 names: `FoundOnce`, `PlainFoundByName`; fields as bytes: `FieldsAsWritten`, `CutIsRefused` |
| `opening` | `MCOpening.cfg` | the search for the directory: `SearchExact`, `DirectoryFits`, `OpensExactly`; names and links of up to 4 parts: `Canonical`, `RefusedNames`, `LinkRule` |
| `extract_safe` | `MCExtractSafe.cfg` | 2 threads, any 2 entries, any earlier tree, a faulty file system, 2 calls of either method: `OkMeansComplete`, `NothingOverwritten` |
| `extract_live` | `MCExtractLive.cfg` | both methods, up to 3 entries: `ExtractSucceeds`, `ExtractsWithoutDirectories`, `Returns` |
| `embedded`, `empty_buffer`, `extract_race`, `unicode_name`, `end_overflow` | `MCEmbedded.cfg`, `MCEmptyBuffer.cfg`, `MCExtractRace.cfg`, `MCUnicodeName.cfg`, `MCEndOverflow.cfg` | the findings of section 5 |

`MCContents`, `MCHeaders` and `MCOpening` put modules into one run that share no
state: a variable `part` says which of them a behaviour is about, and the
others stay as they start. This multiplies nothing, and each property speaks
about its part only.

**Bounds.** 15 cells hold two entries of either kind with content and the
trailer, and a failed attempt at one of them before it; with fewer the trailer
never fits after a recover, and with two names every interaction of a
committed, a failed and a repeated name occurs. The device being full at a cell
is the same as a write failing there. Two bytes per stream are the least with
which the compressor holds back one symbol while another is sent, so a repeated
write could duplicate or lose one. Contents of three bytes give reads that end
before, at and after the announced length, with a short read in between;
`MaxHashed` only cuts off callers who repeat a failing `read_to_end` for ever.
Four buffers of 0 to 2 bytes give empty ones in front, between and at the end,
and cuts before, inside and after each; all their bytes differ, so that an
order or a repetition shows.
`d`, `d/f`, `d/g` with two threads are the least tree in which two threads need
the same parent, one of them in the middle of another's entry for it; two
attempts are the least in which a left-over file meets a second call.
In `extract_live` archives of three entries are only those that can be
extracted at all; the others, for which only `Returns` says something, have up
to two. `MaxComment` is 2 so that both searches of `find_eocd` (at the end, and
through a comment) exist; in `streams` a stale tail may be shorter or longer
than the window. There `EndAt` is 3, so that a content of two bytes whose second
is the record of an empty archive at offset 3 is one that the reader opens, torn
right after it or at the end of a stale tail; in `writer`, where only finished
files are read, the record is in the middle of them. Files of seven bytes in
`opening` are longer than both windows. The 64-bit records are read in three files: one with room for all of them, one
without room for the locator, and one that is cut off. Numbers end at 3 (16 bits)
and 15 (32 and 64 bits), so that a count times the size of a header, and
`record_size + 12` (here `+ 2`), go over the top.
`Sat` is 9 and sizes of the writer go up to 10, one below, at and above it.
`NtEpoch` = 2 and `Ticks` = 3 give NTFS times before 1970, at it, and inside of a
second after it; `U32Max` is 3 with times up to twice that. A header has at most
two fields with times, two Unicode or two AES fields, which is enough for one
to follow, contradict or erase another. Fields as bytes keep the real widths of
lengths and numbers, with bytes of eight values; the list of malformed fields in
`MCFieldParser` has one for each reason to refuse, and a field after each kind.
Three names are enough for a duplicate next to an entry that is none; four
parts of a path for two steps down and up again in each order.

**Symmetry.** Names (without the refused one) and threads are
interchangeable, and bytes where none is a record; symmetry is used with
invariants and action properties only, never with the liveness run.

**Deadlock.** An archive that is finished or given up, an extraction whose
caller makes no further call, a file that was opened or refused and a call that
returned have no step left: these runs do not check deadlock. The run
`empty_buffer` does.

**Fairness.** `Extract!FairSpec` is weak fairness of each thread's step and of
`Return`: a call into the file system returns, and rayon does not leave a
runnable thread idle while there is work. Nothing makes a caller start a call,
so `Start` is not fair. Everything else is sequential and each call ends by
itself, or is repeated by a caller or a writer that nothing obliges to
stop (an interrupted write is tried again for as long as it is interrupted);
there is no liveness to state.

**Mutants.** Each property of a passing run comes with a plausible bug (the
operators commented "Mutant of ..." next to the definition they change) under
which TLC finds it violated.

## 4. Proofs

TLAPS proves the following for every value of the constants that their named
assumptions allow: every set of names and bytes, every capacity of the device,
every number of entries, fields, parts and buffers, every length of content.

| Theorems | Of | Properties |
|---|---|---|
| `ArchiveWriterProofs!TypeCorrect` | the writer, any `Start` | `TypeOK`, and that position, recovery point and streamer counters stay within the file |
| `EntriesSafe`, `EntriesContiguous`, `ResumesAtEnd`, `NamesAreExact`, `StreamsAreFaithful` | the writer, `Start = 0` | `CommittedIntact`, `Contiguous`, `ResumePoint`, `NamesExact`, `StreamFaithful` |
| `NoCommitWhileBlocked` | the writer | the action property `BlockedUntilRecovered` |
| `RoundTripProofs!WriterImplementsLog` | the writer, `Start = 0` | the refinement `ImplementsLog` |
| `FinishedIsListed`, `FinishedIsReadBack`, `UnfinishedIsRefused`, `StaleTailIsRefused` | writer and reader, `Start = 0` | `FinishedListed`, `FinishedReadsBack`, `UnfinishedRefused`, `StaleTailRefused` |
| `OpeningProofs!SearchIsExact`, `OpeningIsExact`, `DirectoryIsInFile`, `TypeCorrect` | the end records | `SearchExact`, `OpensExactly`, `DirectoryFits` |
| `CanonicalNames`, `NamesAreChecked`, `LinksAreChecked` | names and links | `Canonical`, `RefusedNames`, `LinkRule` |
| `FieldParserProofs!ReadsFieldsAsWritten`, `RefusesOnlyCutFields`, `ReturnsKnownFields` | extra fields as bytes | `FieldsAsWritten`, `CutIsRefused`, and that the fields are those that the theorems about headers assume (`FieldLike`) |
| `HeadersProofs!EachSizeIsOwn`, `DescriptorIsTold`, `LastTimesWin`, `ClocksAgree`, `NameFromHeader`, `EncryptionAsTold` | two headers of an entry | `SizesAreOwn`, `DescriptorTells`, `TimesWin`, `SameInstantAgrees`, `NameOfHeader`, `EncryptionTold` |
| `WriterIsListed` | the writer's headers | `WriterListed` |
| `EveryEntryFoundOnce`, `PlainNamesFound` | the name table | `FoundOnce`, `PlainFoundByName` |
| `ContentsProofs!TypeCorrect`, `EofIsVerified`, `NeverMoreThanAnnounced`, `MatchingContentPasses` | the checkers, the last for `MinBuffer > 0` | `VerifiedAtEof`, `NeverTooMuch`, `NoFalseAlarm` |
| `NothingIsLost`, `SumsWhatIsSent`, `AlwaysOffersAByte` | vectored writes | `NothingLostOrTwice`, `CountedAsSent`, `NeverOffersNothing` |
| `ExtractProofs!OkIsComplete`, `NothingIsOverwritten`, `TypeCorrect` | extraction | `OkMeansComplete`, `NothingOverwritten` |

The finding `embedded` of section 5 is why `Start = 0` is needed: with another
start, `recover` seeks in front of the entry it erases. `MatchingContentPasses`
does not hold with an empty buffer (finding `empty_buffer`).

*Induction.* The reader's walk, the place that a path leads to, the level along
a link, the loop over buffers, the bytes of a number and the loop over the tags
of an NTFS field are recursive functions. The prover has no
induction rule that takes a predicate, but it does not need one: `Induction`
states induction as a fact about the *set* of the numbers for which something
holds (`NatInductionSet`, `BoundedInduction`), and gets from it that a recursive
definition has a solution (`Recursion`), so that the `CHOOSE` it stands for can
be used. `FlattenUpTo` does this for the fold under `FlattenSeq`, and
`FlattenAppend`, `FlattenConcat` and `FlattenCut` are the equations that the
other modules use.

*Writer.* `CommittedIntact` is not inductive: that a write does not touch a
committed entry needs that every write starts behind the last one. `Safe` adds
`Anchored` (the cursor is never before the end of the last committed entry),
`Below` (no entry reaches further than the last), `Resume` (`recover` goes
exactly to that end; so does `position` when the archive is ready), and
`StreamInv`, which says what a live streamer has put into the file, so that its
finish commits an entry that is already there. `KeepEntries` (a step that writes
behind the last entry keeps everything) and `PushEntry` (appending a header
whose image is in the file) are the two lemmas that each action uses.

*Log and round trip.* `Kept` is `Safe` with `HeadersTrue` (what a central header
says is what was given), `OneEnd` (the only end record that was written as one
lies where the trailer of `finish` put it) and `Sealed` (the trailer is whole
once the phase is `finished`). Each action is then a step of the log or a stutter (`StepKinds`,
`LogImplemented`). For the reader, `EndFound` and `DirectoryFound` say that the
search meets the trailer, `WalkFollows`, by induction over the headers, that the
walk stands at entry `k + 1` after `k` of them because they are contiguous, and
`EntryAccepted` that both descriptions of each agree. The reader sees
`AsRead(disk)`, which differs from `disk` at content only (`SeenFacts`): records
are found where the walk looks for them, and content is compared as it was
written. The end record that the reader takes is the last one it sees
(`EndTaken`), so it is either that of `finish` or content (`EndsAtCursor`). A file
that is not finished has none of `finish`, and behind one with a stale tail
there is something that its comment length does not account for; so neither is
opened, unless through content.

*End records.* `Searched` says what is known of the signatures after each of the
two windows. What was read is kept in `found`, and `Chain` says of it that each
record was sound and led to the next, so that an open archive has come along the
short or the long path (`ShortPath`, `LongPath`). `OpensExactly` is in the
invariant itself, since a refusal is final: `FittingMeets` and `ValidFits` carry
the equations in numbers without a width over to those of the code and back,
using that the file is not longer than `Top64`.

*Fields.* `NumBytes` says that a number is read as it was laid out, whatever its
width: `Without` goes down from the number by one byte per step, `Num` comes back
up the same steps. `WordsOf` makes sequences of it, and `ThreeParts` cuts a
concatenation where it was put together. On these rests one lemma for each kind
of field (`Zip64Read`, `TagsRead`, `TimestampRead`, `UnicodeRead`, `AesRead`):
its parser undoes its layout. `FieldsInv` says that the data is what the fields
read so far were laid out as, and then a rest, which is a prefix of the other
fields and of the zeros (`RestIsLeft`). The next field is then there in full
(`WholeField`) or too short by its own length (`CutField`). The other direction
of `CutIsRefused` is `NextIsRead`: if the header ends at any field at all, the
field at which the iterator stands can be read, or only zeros are left.

*Headers.* None of the properties of an entry is inductive: they speak of the
last field of a kind, or of the only one, and are stated of accepted entries
only. `Fits(s, h, e, k)` says what entry `e` is when the first `k` fields of header
`h` have been taken in: which numbers, times, name and encryption it has,
according to which kinds occurred so far. `FitsFirst` shows it for a header
without fields, `FitsNext` for one more field of any kind. `HeadersInv` then says
it of both sides, and of an accepted entry that it is the central one, filled in
from a local one that is consistent with it. `ClocksAgree` adds the arithmetic
of the two clocks: a quotient between two multiples is determined
(`QuotientIs`), so that both times round to the same second.
`WriterInv` says in addition that nothing is refused; it needs that the writer's
Zip64 field has one number for each saturated one (`WriterMarks`) and that both
sides are consistent (`WriterChecked`).

*Names.* `NamesInv`: the entries in the table are the first of those that were
read, and no two of them have one base. That an entry is found by its own
spelling needs that its type fits its name (`CentralEntry`), which a Unicode
name breaks: finding `unicode_name`.

*Paths.* `PathInv` says that the parts taken so far spell the place that the
prefix of the name leads to, that no refused part was in it, and of a link that
`depth` is the level of the walk until it first goes down, and `None` after it.

*Checkers.* `Inv` says of every checker, whatever has failed: `Counted` (what was
handed out is within what was counted down), `Hashed` (the hash is that of
`held`), `NothingMissing` (unless bytes were lost, `held` is at least as long as
what was counted down, and exactly as long only if it is what was read so far),
`AtEnd` (a caller is told the end when nothing is expected any more and the hash
is that announced) and `InStep` (content of the announced length is counted down
as it is read). The lemma `Call` shows it for what all calls have in common,
`Delivers` and `Fails` for those that succeed and fail.

*Vectored writes.* `WriteInv` is the three properties with the types and
`phase = "ok" => bufs = << >>`. The work is in three facts: `AdvanceFacts` (what
`advance_slices` leaves is exactly the rest of the bytes, and is nothing or has a
byte), `LeftIs` (what the loop of `Crc32Writer` has left after `k` buffers, without
the loop) and `SummedIs` (it comes out at 0, with exactly the bytes taken).

*Extraction.* `Busy` (a thread has an entry only while a call runs), `Owned`
(what a thread copies into is the file that it made) and `Covered` (while nothing
has failed, every entry is pending, in work, or complete) make
`OkMeansComplete` inductive. The lemma `Worked` collects what the step of any
thread does to the tree and to its own task, once for each kind of step, so that
the invariant is shown once for all of them; `CompleteStays` is where the
exclusive creation of files is used.

*Assumptions.* All are named, stand in the module of their constants and are
checked by TLC in every run: `WriterAssumption`, `CheckerAssumption`,
`ReaderAssumption`, `SizesAssumption`, `FilesAssumption`, `RecordsAssumption`,
`ExtractAssumption`, `PathAssumption`, `InputsAssumption` (buffers are
sequences of bytes);
`ParserAssumption` and `GivenAssumption` (numbers of fields differ and fit two
bytes; what is laid out fits its width and is of a form that a parser takes, and
a field given by its bytes is marked good exactly when it is taken);
`HeaderAssumption`, `GroupsAssumption` and `NamesAssumption` (a field is of a
known kind, its times are natural numbers, a name ends in `/` or not:
`HeaderLike`, `FieldLike`), and
`WriterHeadersAssumption`, which is what `check_name` and the callers in
`write/mod.rs` see to before a header is laid out.

*Only model-checked.* `Returns`, `ExtractSucceeds` and
`ExtractsWithoutDirectories` are about what eventually happens, which is out of
the prover's reach with fairness. Every other property of a passing run is a
theorem.

## 5. Findings

* `parallel_extract` may fail on an archive that `extract` extracts: the entry of
  a directory is made with `create_dir`, which fails when another thread has
  already made the directory as a parent of its own entry (`extract_race`,
  `ParallelSucceeds`). Archives without entries for directories that have
  something in them are not affected (`ExtractsWithoutDirectories`).
* A `read` with an empty buffer before the end of a content fails with
  "unexpected file length" although nothing is wrong (`empty_buffer`).
* `recover` mixes an offset of the archive with one of the file: when the writer
  did not stand at offset 0 at the start, it seeks into what was there before
  (`embedded`). This library's reader does not open an archive behind other
  bytes, but the bytes in front are lost.
* A Unicode name replaces the name after `file_type` was derived from the former
  one (`read/mod.rs:386`). When only one of them ends in `/`, `index_of` does not
  find the entry by the name that it has (`unicode_name`, `FoundByName`; the run
  shows a file `b` whose Unicode name is `b/`), while it does find it by the other
  spelling (`FoundOnce`).
* `record_size + 12` is added outside of the checked addition around it
  (`read/raw.rs:160`). With a number near 2^64 a build with overflow checks
  panics, where the repository's README says "Don't panic under any input."
  (`end_overflow`); another build wraps and compares on, which is the exception
  in `OpensExactly`.

Borders of the properties, which are no bugs by any word of the repository, but
which a user of the crate may not expect:

* A file that was not finished may be opened as an archive after all: when it
  ends in stored content that is an archive and whose offsets fit where it
  stands (`UnfinishedRefused`). "It is necessary to call this method or the
  resulting archive will not be readable" (`write/mod.rs`) holds for any other
  content. The same is true of a stale tail (`StaleTailRefused`).
* After a failed `read_to_end` its buffer holds zeros for what was not read, and
  they are hashed. A caller who repeats it is refused although the content
  matches (`NoFalseAlarm`): what he holds by then is not the content.
* After a `read_to_string` that met no string, or a call that read beyond the
  announced length, the bytes are gone. A caller who goes on is told the end when
  the CRC is that of what he holds, which may be less than was announced
  (`VerifiedAtEof`, `lost`).
* A symlink whose name ends in `/` (by a Unicode name) is taken to lie one level
  deeper than it does (`LinkRule`, `Floor`). Where a link cannot be made at a path
  that ends in `/`, as on Linux, its extraction fails.

## 6. Not modelled

* Signatures, versions and the byte layout of the fixed part of a record; the
  compression levels and what flate2 and zstd compute; the values of the CP437
  table (a total function that keeps `/`).
* Where a link leads once it is in a tree: links are checked as text
  (`PathRules`), and `Extract` follows none.
* `SystemTime`, its conversions, and the times that extraction sets on files;
  Windows and the `:` that is refused there; accessors, `Debug` and features.
* The comments of entries, but for their length, which `push_central_header` may
  refuse; so a comment given to `finish_with_comment` that contains a record.
* Counters of more than 2^64 bytes: a writer would have to write that many.
* Encryption is only an error for this library; it is in `EntryHeaders` as what
  an entry is listed with and in `Extract` as content that cannot be read.
* Direct writes through `get_mut` (other than truncation), and other programs
  that change the tree or the file at the same time, are outside the contract.

## 7. Plan

Done: the writer with its log and the round trip, checkers, extraction, the
reader for files of any writer, names, paths, fields, vectored writes; proofs
of every invariant and action property of these. Next:

1. `Extract` with links that are followed, composed with `PathRules`: what is
   made lies under the root, for trees in which nothing pointed out before.
2. The safety half of `ExtractSucceeds` as an invariant with a proof: that no
   step of `extract` can fail on a consistent archive without a fault.
