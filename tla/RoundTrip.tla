------------------------------ MODULE RoundTrip ------------------------------
(***************************************************************************)
(* The writer and the reader together: in every state of ArchiveWriter,    *)
(* what does ArchiveReader::new make of the file as it is now?  A state    *)
(* where a call failed holds the file that a crash at that point leaves.   *)
(***************************************************************************)
EXTENDS ArchiveWriter, ArchiveReader

\* The file ends where the writer stands: the caller has truncated it, or
\* there was nothing to truncate.
Truncated == Len(disk) = cursor

\* What the reader sees, and the entries it lists.
Seen == AsRead(disk)
Listed == Listing(Seen)

\* The end record that the reader finds is made of file content.
EndInContent == disk[EocdOffset(Seen) + 1].kind = "data"

\* When finish has returned Ok on a file without a stale tail, the reader
\* accepts it and lists exactly the entries whose calls returned Ok, in
\* order, with their names and types, also when the content of some is made
\* of records.
FinishedListed ==
    phase = "finished" /\ Truncated =>
        /\ Accepts(Seen)
        /\ Len(Listed) = Len(headers)
        /\ \A i \in DOMAIN headers :
              /\ Listed[i].name = headers[i].name
              /\ Listed[i].type = headers[i].type

\* ... and the content of each of them reads back as it was given, the
\* length and CRC check included; read_stored gives the same content, and
\* refuses what is compressed.
FinishedReadsBack ==
    phase = "finished" /\ Truncated =>
        \A i \in DOMAIN headers :
            /\ ContentChecked(disk, Listed[i])
            /\ Content(disk, Listed[i]) = headers[i].sum
            /\ ReadStored(disk, Listed[i]) =
                  IF headers[i].method = "Store" THEN {headers[i].sum} ELSE {}

\* Only finish makes the file the writer's archive: before it, and when it
\* failed at whatever point, the reader refuses the file ("It is necessary to
\* call this method or the resulting archive will not be readable"), unless
\* content of an entry is an end record itself and is what the file ends
\* with: then the reader opens what that content describes.
UnfinishedRefused == phase # "finished" /\ Accepts(Seen) => EndInContent

\* The footgun of recover: when the caller forgot to truncate and the new
\* end lies before the old one, the reader refuses the whole archive, and
\* never lists part of it or an entry that failed, unless content that was
\* left behind the new end is an end record itself.
StaleTailRefused ==
    phase = "finished" /\ ~Truncated /\ Accepts(Seen) =>
        EndInContent /\ EocdOffset(Seen) >= cursor
=============================================================================
