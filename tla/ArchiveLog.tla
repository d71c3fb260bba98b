------------------------------ MODULE ArchiveLog ------------------------------
(***************************************************************************)
(* What an ArchiveWriter promises to its caller: a log of uniquely named   *)
(* entries that only grows.  An entry is in the log when the call that     *)
(* writes it (or the finish of its stream) returns Ok, with the content    *)
(* the caller gave.  A call that fails leaves the log as it was and blocks *)
(* the archive until it is recovered or given up.                          *)
(***************************************************************************)
EXTENDS Integers, Sequences

CONSTANTS Names, FileTypes, Bytes

VARIABLES log, mode

Entries == [name: Names, type: FileTypes, content: Seq(Bytes)]

Modes == {"ready", "streaming", "blocked", "finished", "failed"}

Init == log = << >> /\ mode = "ready"

\* add_file, add_directory, add_symlink, or the finish of a stream.
Commit ==
    /\ mode \in {"ready", "streaming"}
    /\ Len(log') = Len(log) + 1
    /\ SubSeq(log', 1, Len(log)) = log
    /\ log'[Len(log')] \in Entries
    /\ \A i \in DOMAIN log : log[i].name.base # log'[Len(log')].name.base
    /\ mode' = "ready"

OpenStream == mode = "ready" /\ mode' = "streaming" /\ UNCHANGED log

Fail ==
    mode \in {"ready", "streaming"} /\ mode' = "blocked" /\ UNCHANGED log

Recover == mode = "blocked" /\ mode' = "ready" /\ UNCHANGED log

Seal == mode = "ready" /\ mode' = "finished" /\ UNCHANGED log

GiveUp ==
    mode \in {"ready", "blocked"} /\ mode' = "failed" /\ UNCHANGED log

Next == Commit \/ OpenStream \/ Fail \/ Recover \/ Seal \/ GiveUp

Spec == Init /\ [][Next]_<< log, mode >>
=============================================================================
