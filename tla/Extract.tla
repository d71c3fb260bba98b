------------------------------- MODULE Extract -------------------------------
(***************************************************************************)
(* RawArchive::extract and RawArchive::parallel_extract, that is           *)
(* Metadata::_extract for every entry (src/read/mod.rs), on a file system  *)
(* that other threads of the same call change between two system calls.    *)
(* Every action is one call into the file system.                          *)
(*                                                                         *)
(* A thread of the pool takes any entry that is left (rayon splits the     *)
(* list and lets idle threads steal halves of it); extract takes the       *)
(* entries in order, one at a time.  Symlinks point to nothing that is a   *)
(* directory, and nobody else changes the tree.                            *)
(***************************************************************************)
EXTENDS Integers, Sequences, FiniteSets, FiniteSetsExt

CONSTANTS
    Paths,         \* non-empty sequences of name parts, prefixes included
    Workers,       \* the threads
    Methods,       \* the methods that the caller may call
    Faulty,        \* whether the file system may report other errors
    Chunks,        \* io::copy writes a file's content in that many pieces
    MaxEntries,    \* bound of the model on the entries of the archive
    MaxAttempts    \* bound of the model on the calls the caller makes

Root == << >>

Prefix(p, n) == SubSeq(p, 1, n)

ASSUME ExtractAssumption ==
    /\ \A p \in Paths : p # Root
    /\ \A p \in Paths : \A n \in 1..Len(p) : Prefix(p, n) \in Paths
    /\ {Chunks, MaxEntries, MaxAttempts} \subseteq Nat
    /\ Methods \subseteq {"extract", "parallel_extract"}
    /\ Faulty \in BOOLEAN

VARIABLES
    entries,     \* RawArchive.entries
    tree,        \* what is at `at' (the root) and at every path below it
    phase,       \* of the call: not made, running, returned Ok or Err
    attempts,    \* the number of calls made
    method,      \* of the last call, as an Option
    pending,     \* the entries that no thread has taken
    failed,      \* a thread has returned an error: no more entry is taken
    task         \* what each thread does

vars == << entries, tree, phase, attempts, method, pending, failed, task >>

(***************************************************************************)
(* The archive and the tree.                                               *)
(***************************************************************************)
\* An entry with its name's parts.  `good' is FALSE when its content cannot
\* be read to the end: encrypted, not supported, or corrupted.
Entries ==
    [path: Paths, type: {"File", "Symlink"}, good: BOOLEAN]
        \cup [path: Paths, type: {"Directory"}, good: {TRUE}]

\* The reader accepts no two entries of one name.
Archives ==
    { es \in UNION { [1..n -> Entries] : n \in 0..MaxEntries } :
        \A i, j \in DOMAIN es : es[i].path = es[j].path => i = j }

\* A node: of the entry of that index, 0 for what was there before or what
\* was made as a parent; `size' of the pieces of a file are written.
Absent == [kind |-> "absent", by |-> 0, size |-> 0]
NodeOf(kind, by) == [kind |-> kind, by |-> by, size |-> 0]
Dir == NodeOf("Directory", 0)

Nodes ==
    [kind: {"absent", "File", "Directory", "Symlink"}, by: 0..MaxEntries,
     size: 0..Chunks]

Places == Paths \cup {Root}

Parent(p) == Prefix(p, Len(p) - 1)

\* What exists is in directories.
Rooted(t) ==
    \A p \in Paths :
        t[p].kind # "absent" => t[Parent(p)].kind = "Directory"

Trees == { t \in [Places -> {Absent, Dir, NodeOf("File", 0)}] : Rooted(t) }

\* Threads: without an entry, or at a step of the extraction of `entry'.
Free == [step |-> "free", entry |-> 0]
At(step, i) == [step |-> step, entry |-> i]
Tasks == {Free} \cup [step: {"parents", "node", "copy"}, entry: 1..MaxEntries]

TypeOK ==
    /\ entries \in Archives
    /\ tree \in [Places -> Nodes]
    /\ phase \in {"idle", "running", "ok", "err"}
    /\ attempts \in 0..MaxAttempts
    /\ method \subseteq Methods
    /\ pending \subseteq DOMAIN entries
    /\ failed \in BOOLEAN
    /\ task \in [Workers -> Tasks]

Init ==
    /\ entries \in Archives
    /\ tree \in Trees
    /\ phase = "idle"
    /\ attempts = 0
    /\ method = {}
    /\ pending = {}
    /\ failed = FALSE
    /\ task = [w \in Workers |-> Free]

-----------------------------------------------------------------------------
(***************************************************************************)
(* The call: create_dir(at), whose AlreadyExists is ignored.  A caller     *)
(* whose call failed may call again, either method.                        *)
(***************************************************************************)
Call ==
    /\ phase = "idle" \/ phase = "err"
    /\ attempts < MaxAttempts
    /\ attempts' = attempts + 1
    /\ \E m \in Methods : method' = {m}
    /\ UNCHANGED << entries, task >>

Start ==
    /\ Call
    /\ tree' = IF tree[Root] = Absent THEN [tree EXCEPT ![Root] = Dir]
               ELSE tree
    /\ phase' = "running"
    /\ pending' = DOMAIN entries
    /\ failed' = FALSE

\* Any other error of create_dir: no parent, no right to make it.
StartFails ==
    /\ Faulty
    /\ Call
    /\ phase' = "err"
    /\ pending' = {}
    /\ failed' = TRUE
    /\ UNCHANGED tree

\* Mutant of Exhausted: an error does not end the call.
AllTaken == pending = {}

\* No entry will be taken any more.
Exhausted == pending = {} \/ failed

Return ==
    /\ phase = "running"
    /\ \A w \in Workers : task[w] = Free
    /\ Exhausted
    /\ phase' = IF failed THEN "err" ELSE "ok"
    /\ UNCHANGED << entries, tree, attempts, method, pending, failed, task >>

(***************************************************************************)
(* _extract of one entry by thread w.                                      *)
(***************************************************************************)
Entry(w) == entries[task[w].entry]

Set(p, node) == tree' = [tree EXCEPT ![p] = node]

\* The thread goes on at the next step.
Goto(w, step) ==
    /\ task' = [task EXCEPT ![w] = At(step, task[w].entry)]
    /\ UNCHANGED failed

Done(w) == task' = [task EXCEPT ![w] = Free] /\ UNCHANGED failed

Error(w) == task' = [task EXCEPT ![w] = Free] /\ failed' = TRUE

InOrder == method = {"extract"}

\* Mutant of Turn: extract takes the entries in any order.
AnyTurn(i) == InOrder => \A w \in Workers : task[w] = Free

\* The loop of extract, or any entry that is left.
Turn(i) ==
    InOrder => i = Min(pending) /\ \A w \in Workers : task[w] = Free

\* It starts with the test that the root is a directory.
Take(w) ==
    /\ phase = "running" /\ ~failed
    /\ task[w] = Free
    /\ \E i \in pending :
        /\ Turn(i)
        /\ pending' = pending \ {i}
        /\ IF tree[Root].kind = "Directory"
           THEN /\ task' = [task EXCEPT ![w] = At("parents", i)]
                /\ failed' = failed
           ELSE task' = task /\ failed' = TRUE
    /\ UNCHANGED << entries, tree, phase, attempts, method >>

\* Mutant of MakeParents: create_dir instead of create_dir_all.
MakeParent(w) ==
    LET p == Parent(Entry(w).path)
    IN  /\ task[w].step = "parents"
        /\ \/ p = Root /\ UNCHANGED tree /\ Goto(w, "node")
           \/ p # Root /\ tree[p] = Absent /\ Set(p, Dir) /\ Goto(w, "node")
           \/ p # Root /\ tree[p] # Absent /\ UNCHANGED tree /\ Error(w)
        /\ UNCHANGED << entries, phase, attempts, method, pending >>

\* create_dir_all(parent): one mkdir after the other; one that fails is an
\* error unless a directory is there.
MakeParents(w) ==
    LET path == Entry(w).path
        missing == { n \in 1..(Len(path) - 1) :
                        tree[Prefix(path, n)].kind # "Directory" }
        p == Prefix(path, Min(missing))
    IN  /\ task[w].step = "parents"
        /\ \/ missing = {} /\ UNCHANGED tree /\ Goto(w, "node")
           \/ /\ missing # {}
              /\ tree[p] = Absent
              /\ Set(p, Dir)
              /\ UNCHANGED << task, failed >>
           \/ /\ missing # {}
              /\ tree[p] # Absent
              /\ UNCHANGED tree
              /\ Error(w)
        /\ UNCHANGED << entries, phase, attempts, method, pending >>

\* Mutant of Occupied: what exists is overwritten.
NeverOccupied(i) == FALSE

\* create_new, create_dir and symlink all refuse what exists.
Occupied(i) == tree[entries[i].path] # Absent

\* Mutant of MakeNode: an entry whose path exists is skipped.
MakeNodeUnlessThere(w) ==
    LET i == task[w].entry
        e == Entry(w)
    IN  /\ task[w].step = "node"
        /\ \/ Occupied(i) /\ UNCHANGED tree /\ Done(w)
           \/ /\ ~Occupied(i)
              /\ Set(e.path, NodeOf(e.type, i))
              /\ IF e.type = "File" THEN Goto(w, "copy") ELSE Done(w)
        /\ UNCHANGED << entries, phase, attempts, method, pending >>

\* A symlink's target is read before the link is made.
MakeNode(w) ==
    LET i == task[w].entry
        e == Entry(w)
    IN  /\ task[w].step = "node"
        /\ \/ /\ Occupied(i) \/ (e.type = "Symlink" /\ ~e.good)
              /\ UNCHANGED tree
              /\ Error(w)
           \/ /\ ~Occupied(i)
              /\ e.type = "Symlink" => e.good
              /\ Set(e.path, NodeOf(e.type, i))
              /\ IF e.type = "File" THEN Goto(w, "copy") ELSE Done(w)
        /\ UNCHANGED << entries, phase, attempts, method, pending >>

\* Mutant of MoreToWrite: one piece too many.
MoreOrLast(n) == n <= Chunks

MoreToWrite(n) == n < Chunks

\* io::copy through the content checker, then the times.
Copy(w) ==
    LET e == Entry(w)
        n == tree[e.path].size
    IN  /\ task[w].step = "copy"
        /\ \/ /\ MoreToWrite(n)
              /\ Set(e.path, [tree[e.path] EXCEPT !.size = n + 1])
              /\ UNCHANGED << task, failed >>
           \/ ~MoreToWrite(n) /\ e.good /\ UNCHANGED tree /\ Done(w)
           \/ ~e.good /\ UNCHANGED tree /\ Error(w)
        /\ UNCHANGED << entries, phase, attempts, method, pending >>

\* Any other error of the file system, at any step.
DeviceError(w) ==
    /\ Faulty
    /\ task[w] # Free
    /\ Error(w)
    /\ UNCHANGED << entries, tree, phase, attempts, method, pending >>

Step(w) == Take(w) \/ MakeParents(w) \/ MakeNode(w) \/ Copy(w) \/ DeviceError(w)

Next == Start \/ StartFails \/ Return \/ \E w \in Workers : Step(w)

Spec == Init /\ [][Next]_vars

\* A thread that can go on does, and a call that is over returns: the calls
\* into the file system return, and rayon leaves no thread idle for ever
\* while there is work.
Fairness == WF_vars(Return) /\ \A w \in Workers : WF_vars(Step(w))

FairSpec == Spec /\ Fairness

-----------------------------------------------------------------------------
(***************************************************************************)
(* Properties.                                                             *)
(***************************************************************************)
\* When the call returns Ok, every entry is at its path: a directory, a
\* symlink, or a file with the whole of its content, also when an earlier
\* call had failed and left some of them.
OkMeansComplete ==
    phase = "ok" =>
        \A i \in DOMAIN entries :
            LET e == entries[i]
                node == tree[e.path]
            IN  /\ node.kind = e.type
                /\ e.type # "Directory" => node.by = i /\ e.good
                /\ e.type = "File" => node.size = Chunks

\* Whatever runs at the same time, a node that exists stays what it is: a
\* file only grows, and only by the thread that made it.
NothingOverwritten ==
    [][ \A p \in Places : tree[p] # Absent =>
            /\ tree'[p].kind = tree[p].kind /\ tree'[p].by = tree[p].by
            /\ tree'[p].size >= tree[p].size
            /\ tree'[p] # tree[p] =>
                 \E w \in Workers :
                    task[w] = At("copy", tree[p].by)
                        /\ entries[tree[p].by].path = p ]_vars

\* A call returns: threads do not wait for each other, and an error in one
\* of them stops them all.
Returns == phase = "running" ~> phase \in {"ok", "err"}

(***************************************************************************)
(* When must a call succeed?                                               *)
(***************************************************************************)
IsBelow(p, q) == Len(p) > Len(q) /\ Prefix(p, Len(q)) = q

\* All content is good, no entry is below a file or a symlink, and what is
\* there before the call is at most an empty directory.
Consistent ==
    /\ \A i \in DOMAIN entries : entries[i].good
    /\ \A i, j \in DOMAIN entries :
            IsBelow(entries[i].path, entries[j].path)
                => entries[j].type = "Directory"
    /\ \A p \in Paths : tree[p] = Absent
    /\ tree[Root] \in {Absent, Dir}

\* Directories come before what is in them, as archivers write them.
DirectoriesFirst ==
    \A i, j \in DOMAIN entries :
        IsBelow(entries[i].path, entries[j].path) => j < i

\* No directory that something is in has an entry of its own.
NoDirectoryEntries ==
    \A i, j \in DOMAIN entries : ~IsBelow(entries[i].path, entries[j].path)

\* extract succeeds on a consistent archive that lists directories first.
ExtractSucceeds ==
    phase = "idle" /\ Consistent /\ DirectoriesFirst
        => /\ [](InOrder => phase # "err")
           /\ InOrder /\ phase = "running" ~> phase = "ok"

\* parallel_extract promises the same ("Extracts the archive to the given
\* directory, using multiple threads") of the same archive.
ParallelSucceeds ==
    phase = "idle" /\ Consistent /\ DirectoriesFirst
        => [](phase # "err")

\* Both succeed on a consistent archive of files and symlinks in implied
\* parents, which the threads make at the same time.
ExtractsWithoutDirectories ==
    phase = "idle" /\ Consistent /\ NoDirectoryEntries
        => [](phase # "err") /\ (phase = "running" ~> phase = "ok")
=============================================================================
