---------------------------- MODULE ExtractProofs ----------------------------
(***************************************************************************)
(* What extraction guarantees for any archive, any tree, any number of     *)
(* threads and of calls: Extract's safety properties.                      *)
(***************************************************************************)
EXTENDS Extract, TLAPS

\* A thread has an entry only while the call runs.
Busy ==
    \A w \in Workers :
        task[w] # Free => phase = "running" /\ task[w].entry \in DOMAIN entries

\* The file that a thread writes is there, and is that of its entry.
Owned ==
    \A w \in Workers :
        task[w].step = "copy" =>
            /\ entries[task[w].entry].type = "File"
            /\ tree[entries[task[w].entry].path].kind = "File"
            /\ tree[entries[task[w].entry].path].by = task[w].entry

\* An entry is extracted.
Complete(i) ==
    /\ tree[entries[i].path].kind = entries[i].type
    /\ entries[i].type # "Directory" =>
          tree[entries[i].path].by = i /\ entries[i].good
    /\ entries[i].type = "File" => tree[entries[i].path].size = Chunks

\* While nothing has failed, an entry is left, or in work, or extracted.
Covered ==
    phase = "running" /\ ~failed =>
        \A i \in DOMAIN entries :
            \/ i \in pending
            \/ \E w \in Workers : task[w] # Free /\ task[w].entry = i
            \/ Complete(i)

IInv == TypeOK /\ Busy /\ Owned /\ Covered /\ OkMeansComplete

\* What exists at p stays what it is.
Kept(p) ==
    tree[p] # Absent =>
        /\ tree'[p].kind = tree[p].kind /\ tree'[p].by = tree[p].by
        /\ tree'[p].size >= tree[p].size
        /\ tree'[p] # tree[p] =>
             \E w \in Workers :
                task[w] = At("copy", tree[p].by)
                    /\ entries[tree[p].by].path = p

-------------------------------------------------------------------------------
(***************************************************************************)
(* The archive, the nodes and the tasks.                                   *)
(***************************************************************************)
LEMMA EntryFacts ==
    ASSUME entries \in Archives, NEW i \in DOMAIN entries
    PROVE  /\ i \in 1..MaxEntries
           /\ entries[i].path \in Paths /\ entries[i].path \in Places
           /\ entries[i].type \in {"File", "Directory", "Symlink"}
<1>1. PICK n \in 0..MaxEntries : entries \in [1..n -> Entries]
  BY DEF Archives
<1>2. i \in 1..n /\ entries[i] \in Entries
  BY <1>1
<1>3. i \in 1..MaxEntries
  BY <1>1, <1>2, ExtractAssumption
<1>4. /\ entries[i].path \in Paths
      /\ entries[i].type \in {"File", "Directory", "Symlink"}
  BY <1>2 DEF Entries
<1> QED
  BY <1>3, <1>4 DEF Places

LEMMA NodeFacts ==
    /\ Absent \in Nodes /\ Dir \in Nodes /\ Absent.kind = "absent"
    /\ \A kind \in {"File", "Directory", "Symlink"}, i \in 0..MaxEntries :
          /\ NodeOf(kind, i) \in Nodes
          /\ NodeOf(kind, i).kind = kind
          /\ NodeOf(kind, i).by = i
<1>1. Chunks \in Nat /\ MaxEntries \in Nat
  BY ExtractAssumption
<1> QED
  BY <1>1 DEF Absent, Dir, NodeOf, Nodes

LEMMA TaskFacts ==
    /\ Free.step = "free" /\ Free \in Tasks
    /\ \A step \in {"parents", "node", "copy"}, i \in 1..MaxEntries :
          /\ At(step, i) \in Tasks /\ At(step, i) # Free
          /\ At(step, i).step = step /\ At(step, i).entry = i
    /\ \A t \in Tasks : t # Free => t = At(t.step, t.entry)
    /\ \A t \in Tasks :
          t.step \in {"parents", "node", "copy"} => t # Free
BY DEF Free, At, Tasks

\* A node that is replaced, whether or not the place is one of the tree.
LEMMA SetFacts ==
    ASSUME tree \in [Places -> Nodes], NEW p, NEW node \in Nodes, Set(p, node)
    PROVE  /\ tree' \in [Places -> Nodes]
           /\ \A q \in Places : tree'[q] = IF q = p THEN node ELSE tree[q]
BY DEF Set

\* A thread ends its step: its task and `failed'.
LEMMA EndsFacts ==
    ASSUME task \in [Workers -> Tasks], failed \in BOOLEAN, NEW w \in Workers,
           task[w] # Free,
           \/ Done(w) \/ Error(w)
           \/ \E step \in {"parents", "node", "copy"} : Goto(w, step)
    PROVE  /\ task' \in [Workers -> Tasks] /\ failed' \in BOOLEAN
           /\ \A v \in Workers : v # w => task'[v] = task[v]
           /\ \/ task'[w] = Free
              \/ /\ task'[w] # Free
                 /\ task'[w].entry = task[w].entry
<1>1. task[w] \in Tasks
  OBVIOUS
<1>2. task[w].entry \in 1..MaxEntries
  BY <1>1 DEF Tasks, Free
<1>3. CASE Done(w)
  BY <1>3, TaskFacts DEF Done
<1>4. CASE Error(w)
  BY <1>4, TaskFacts DEF Error
<1>5. ASSUME NEW step \in {"parents", "node", "copy"}, Goto(w, step)
      PROVE  /\ task' \in [Workers -> Tasks] /\ failed' \in BOOLEAN
             /\ \A v \in Workers : v # w => task'[v] = task[v]
             /\ task'[w] # Free /\ task'[w].entry = task[w].entry
  <2>1. At(step, task[w].entry) \in Tasks
    BY <1>2, TaskFacts
  <2> QED
    BY <1>2, <1>5, <2>1, TaskFacts DEF Goto
<1> QED
  BY <1>3, <1>4, <1>5

-------------------------------------------------------------------------------
(***************************************************************************)
(* What the steps of a thread at an entry have in common.                  *)
(***************************************************************************)
Worked(w) ==
    /\ task[w] # Free
    /\ UNCHANGED << entries, phase, attempts, method, pending >>
    /\ tree' \in [Places -> Nodes]
    /\ \A p \in Places : Kept(p)
    /\ task' \in [Workers -> Tasks] /\ failed' \in BOOLEAN
    /\ \A v \in Workers : v # w => task'[v] = task[v]
    /\ \/ task'[w] = Free
       \/ task'[w] # Free /\ task'[w].entry = task[w].entry
    /\ task'[w].step = "copy" =>
          /\ entries[task[w].entry].type = "File"
          /\ tree'[entries[task[w].entry].path].kind = "File"
          /\ tree'[entries[task[w].entry].path].by = task[w].entry
    /\ failed => failed'
    /\ task'[w] = Free /\ ~failed' =>
          \A i : i = task[w].entry => Complete(i)'

\* A thread's task at a step, and its entry.
LEMMA AtFacts ==
    ASSUME IInv, NEW w \in Workers, task[w] # Free
    PROVE  /\ phase = "running"
           /\ task[w] \in Tasks /\ task[w].entry \in 1..MaxEntries
           /\ task[w].entry \in DOMAIN entries
           /\ Entry(w).path \in Places /\ Entry(w).path \in Paths
           /\ Entry(w).type \in {"File", "Directory", "Symlink"}
           /\ tree \in [Places -> Nodes]
<1>1. TypeOK /\ Busy
  BY DEF IInv
<1>2. task[w].entry \in DOMAIN entries /\ phase = "running"
  BY <1>1 DEF Busy
<1>3. entries \in Archives /\ task[w] \in Tasks /\ tree \in [Places -> Nodes]
  BY <1>1 DEF TypeOK
<1> QED
  BY <1>2, <1>3, EntryFacts DEF Entry

\* The tree does not change, or only where nothing was.
LEMMA AbsentKept ==
    ASSUME tree \in [Places -> Nodes],
           \/ UNCHANGED tree
           \/ \E q : \E node \in Nodes : Set(q, node) /\ tree[q] = Absent
    PROVE  tree' \in [Places -> Nodes] /\ \A p \in Places : Kept(p)
<1>1. \A p \in Places : tree[p] \in Nodes /\ tree[p].size \in Nat
  BY ExtractAssumption DEF Nodes
<1>2. CASE UNCHANGED tree
  BY <1>1, <1>2 DEF Kept
<1>3. ASSUME NEW q, NEW node \in Nodes, Set(q, node), tree[q] = Absent
      PROVE  tree' \in [Places -> Nodes] /\ \A p \in Places : Kept(p)
  <2>1. /\ tree' \in [Places -> Nodes]
        /\ \A p \in Places : tree'[p] = IF p = q THEN node ELSE tree[p]
    BY <1>3, SetFacts
  <2>2. ASSUME NEW p \in Places, tree[p] # Absent
        PROVE  tree'[p] = tree[p]
    BY <1>3, <2>1, <2>2
  <2> QED
    BY <1>1, <2>1, <2>2 DEF Kept
<1> QED
  BY <1>2, <1>3

LEMMA ErrorWorked ==
    ASSUME IInv, NEW w \in Workers, task[w] # Free, Error(w), UNCHANGED tree,
           UNCHANGED << entries, phase, attempts, method, pending >>
    PROVE  Worked(w)
<1>1. /\ tree \in [Places -> Nodes] /\ task \in [Workers -> Tasks]
      /\ failed \in BOOLEAN
  BY DEF IInv, TypeOK
<1>2. task'[w] = Free /\ failed' /\ task'[w].step = "free"
  BY <1>1, TaskFacts DEF Error
<1>3. tree' \in [Places -> Nodes] /\ \A p \in Places : Kept(p)
  BY <1>1, AbsentKept
<1>4. /\ task' \in [Workers -> Tasks] /\ failed' \in BOOLEAN
      /\ \A v \in Workers : v # w => task'[v] = task[v]
  BY <1>1, EndsFacts
<1> QED
  BY <1>2, <1>3, <1>4 DEF Worked

LEMMA MakeParentsWorked ==
    ASSUME IInv, NEW w \in Workers, MakeParents(w)
    PROVE  Worked(w)
<1>1. /\ tree \in [Places -> Nodes] /\ task \in [Workers -> Tasks]
      /\ failed \in BOOLEAN
  BY DEF IInv, TypeOK
<1>2. task[w].step = "parents" /\ task[w] # Free
  BY <1>1, TaskFacts DEF MakeParents
<1>3. UNCHANGED << entries, phase, attempts, method, pending >>
  BY DEF MakeParents
<1>4. CASE UNCHANGED tree /\ Goto(w, "node")
  <2>1. task'[w].step = "node" /\ task'[w] # Free /\ failed' = failed
    BY <1>1, <1>2, <1>4, AtFacts, TaskFacts DEF Goto
  <2>2. /\ task' \in [Workers -> Tasks] /\ failed' \in BOOLEAN
        /\ \A v \in Workers : v # w => task'[v] = task[v]
        /\ task'[w] # Free => task'[w].entry = task[w].entry
    BY <1>1, <1>2, <1>4, <2>1, EndsFacts
  <2>3. tree' \in [Places -> Nodes] /\ \A p \in Places : Kept(p)
    BY <1>1, <1>4, AbsentKept
  <2> QED
    BY <1>2, <1>3, <2>1, <2>2, <2>3 DEF Worked
<1>5. ASSUME NEW p, tree[p] = Absent, Set(p, Dir), UNCHANGED << task, failed >>
      PROVE  Worked(w)
  <2>1. tree' \in [Places -> Nodes] /\ \A q \in Places : Kept(q)
    BY <1>1, <1>5, NodeFacts, AbsentKept
  <2> QED
    BY <1>1, <1>2, <1>3, <1>5, <2>1 DEF Worked
<1>6. CASE UNCHANGED tree /\ Error(w)
  BY <1>2, <1>3, <1>6, ErrorWorked
<1> QED
  BY <1>4, <1>5, <1>6 DEF MakeParents

LEMMA MakeNodeWorked ==
    ASSUME IInv, NEW w \in Workers, MakeNode(w)
    PROVE  Worked(w)
<1> DEFINE i == task[w].entry
           e == Entry(w)
           node == NodeOf(e.type, i)
<1>1. /\ tree \in [Places -> Nodes] /\ task \in [Workers -> Tasks]
      /\ failed \in BOOLEAN
  BY DEF IInv, TypeOK
<1>2. task[w].step = "node" /\ task[w] # Free
  BY <1>1, TaskFacts DEF MakeNode
<1>3. UNCHANGED << entries, phase, attempts, method, pending >>
  BY DEF MakeNode
<1>4. /\ i \in 1..MaxEntries /\ i \in 0..MaxEntries /\ i \in DOMAIN entries
      /\ e.path \in Places /\ e.type \in {"File", "Directory", "Symlink"}
  BY <1>2, AtFacts, ExtractAssumption
<1>5. node \in Nodes /\ node.kind = e.type /\ node.by = i
  BY <1>4, NodeFacts
<1>6. CASE UNCHANGED tree /\ Error(w)
  BY <1>2, <1>3, <1>6, ErrorWorked
<1>7. CASE /\ ~Occupied(i)
           /\ e.type = "Symlink" => e.good
           /\ Set(e.path, node)
           /\ IF e.type = "File" THEN Goto(w, "copy") ELSE Done(w)
  <2>1. tree[e.path] = Absent
    BY <1>7 DEF Occupied, Entry
  <2>2. tree' \in [Places -> Nodes] /\ \A q \in Places : Kept(q)
    BY <1>1, <1>5, <1>7, <2>1, AbsentKept
  <2>3. tree'[e.path] = node
    BY <1>1, <1>4, <1>5, <1>7, SetFacts
  <2>4. /\ task' \in [Workers -> Tasks] /\ failed' \in BOOLEAN
        /\ \A v \in Workers : v # w => task'[v] = task[v]
        /\ task'[w] # Free => task'[w].entry = task[w].entry
    BY <1>1, <1>2, <1>7, EndsFacts
  <2>5. failed' = failed
    BY <1>7 DEF Goto, Done
  <2>6. /\ tree'[entries[i].path].kind = e.type
        /\ tree'[entries[i].path].by = i
    BY <1>5, <2>3 DEF Entry
  <2>7. CASE e.type = "File"
    <3>1. task'[w] = At("copy", i)
      BY <1>1, <1>7, <2>7 DEF Goto
    <3>2. task'[w] # Free
      BY <1>4, <3>1, TaskFacts
    <3> QED
      BY <1>2, <1>3, <2>2, <2>4, <2>5, <2>6, <2>7, <3>2 DEF Worked, Entry
  <2>8. CASE e.type # "File"
    <3>1. task'[w] = Free /\ task'[w].step = "free"
      BY <1>1, <1>7, <2>8, TaskFacts DEF Done
    <3>2. e.type # "Directory" => e.good
      BY <1>4, <1>7, <2>8
    <3>3. ASSUME NEW k, k = i PROVE Complete(k)'
      BY <1>3, <2>6, <2>8, <3>2, <3>3 DEF Complete, Entry
    <3> QED
      BY <1>2, <1>3, <2>2, <2>4, <2>5, <3>1, <3>3 DEF Worked
  <2> QED
    BY <2>7, <2>8
<1> QED
  BY <1>6, <1>7 DEF MakeNode

LEMMA CopyWorked ==
    ASSUME IInv, NEW w \in Workers, Copy(w)
    PROVE  Worked(w)
<1> DEFINE i == task[w].entry
           e == Entry(w)
           n == tree[e.path].size
           node == [tree[e.path] EXCEPT !.size = n + 1]
<1>1. /\ tree \in [Places -> Nodes] /\ task \in [Workers -> Tasks]
      /\ failed \in BOOLEAN
  BY DEF IInv, TypeOK
<1>2. task[w].step = "copy" /\ task[w] # Free
  BY <1>1, TaskFacts DEF Copy
<1>3. UNCHANGED << entries, phase, attempts, method, pending >>
  BY DEF Copy
<1>4. i \in DOMAIN entries /\ e.path \in Places /\ e = entries[i]
  BY <1>2, AtFacts DEF Entry
<1>5. tree[e.path].kind = "File" /\ tree[e.path].by = i /\ e.type = "File"
  BY <1>2 DEF IInv, Owned, Entry
<1>6. tree[e.path] \in Nodes /\ n \in 0..Chunks /\ Chunks \in Nat
  BY <1>1, <1>4, ExtractAssumption DEF Nodes
<1>7. CASE MoreToWrite(n) /\ Set(e.path, node) /\ UNCHANGED << task, failed >>
  <2>1. node \in Nodes /\ node.kind = "File" /\ node.by = i /\ node.size = n + 1
    BY <1>5, <1>6, <1>7 DEF Nodes, MoreToWrite
  <2>2. /\ tree' \in [Places -> Nodes]
        /\ \A q \in Places :
              tree'[q] = IF q = e.path THEN node ELSE tree[q]
    BY <1>1, <1>7, <2>1, SetFacts
  <2>3. task[w] = At("copy", i)
    BY <1>1, <1>2, TaskFacts
  <2>4. \A q \in Places : Kept(q)
    <3> SUFFICES ASSUME NEW q \in Places PROVE Kept(q)
      OBVIOUS
    <3>1. CASE q = e.path
      <4>1. tree'[q] = node /\ tree[q] = tree[e.path] /\ node.size >= n
        BY <1>6, <2>1, <2>2, <3>1
      <4> QED
        BY <1>4, <1>5, <2>1, <2>3, <3>1, <4>1 DEF Kept
    <3>2. CASE q # e.path
      <4>1. tree'[q] = tree[q] /\ tree[q].size \in Nat
        BY <1>1, <2>2, <3>2, ExtractAssumption DEF Nodes
      <4> QED
        BY <4>1 DEF Kept
    <3> QED
      BY <3>1, <3>2
  <2>5. tree'[entries[i].path] = node
    BY <1>4, <2>2
  <2> QED
    BY <1>1, <1>2, <1>3, <1>4, <1>5, <1>7, <2>1, <2>2, <2>4, <2>5 DEF Worked
<1>8. CASE ~MoreToWrite(n) /\ e.good /\ UNCHANGED tree /\ Done(w)
  <2>1. /\ task' \in [Workers -> Tasks] /\ failed' \in BOOLEAN
        /\ \A v \in Workers : v # w => task'[v] = task[v]
    BY <1>1, <1>2, <1>8, EndsFacts
  <2>2. task'[w] = Free /\ task'[w].step = "free" /\ failed' = failed
    BY <1>1, <1>8, TaskFacts DEF Done
  <2>3. tree' \in [Places -> Nodes] /\ \A q \in Places : Kept(q)
    BY <1>1, <1>8, AbsentKept
  <2>4. n = Chunks
    BY <1>6, <1>8 DEF MoreToWrite
  <2>5. e.type = "File"
    BY <1>5
  <2>6. ASSUME NEW k, k = i PROVE Complete(k)'
    BY <1>3, <1>4, <1>5, <1>8, <2>4, <2>5, <2>6 DEF Complete
  <2> QED
    BY <1>2, <1>3, <2>1, <2>2, <2>3, <2>6 DEF Worked
<1>9. CASE UNCHANGED tree /\ Error(w)
  BY <1>2, <1>3, <1>9, ErrorWorked
<1> QED
  BY <1>7, <1>8, <1>9 DEF Copy

-------------------------------------------------------------------------------
(***************************************************************************)
(* The invariant is inductive.                                             *)
(***************************************************************************)
\* An extracted entry stays extracted.
LEMMA CompleteStays ==
    ASSUME IInv, tree' \in [Places -> Nodes], entries' = entries,
           \A p \in Places : Kept(p), NEW i \in DOMAIN entries, Complete(i)
    PROVE  Complete(i)'
<1> DEFINE p == entries[i].path
<1>1. p \in Places /\ entries[i].type \in {"File", "Directory", "Symlink"}
  BY EntryFacts DEF IInv, TypeOK
<1>2. tree[p].kind = entries[i].type
  BY DEF Complete
<1>3. tree[p] # Absent
  BY <1>1, <1>2, NodeFacts
<1>4. Kept(p)
  BY <1>1
<1>5. /\ tree'[p].kind = tree[p].kind /\ tree'[p].by = tree[p].by
      /\ tree'[p].size >= tree[p].size
  BY <1>3, <1>4 DEF Kept
<1>6. tree'[p].size \in Nat /\ tree'[p].size <= Chunks /\ Chunks \in Nat
  BY <1>1, ExtractAssumption DEF Nodes
<1> QED
  BY <1>2, <1>5, <1>6 DEF Complete

LEMMA WorkedInv ==
    ASSUME IInv, NEW w \in Workers, Worked(w)
    PROVE  IInv'
<1>1. TypeOK /\ Busy /\ Owned /\ Covered /\ phase = "running"
  BY AtFacts DEF IInv, Worked
<1>2. TypeOK'
  BY <1>1 DEF TypeOK, Worked
<1>3. Busy'
  <2> SUFFICES ASSUME NEW v \in Workers, task'[v] # Free
               PROVE  phase' = "running" /\ task'[v].entry \in DOMAIN entries'
    BY DEF Busy
  <2>1. CASE v = w
    BY <1>1, <2>1 DEF Worked, Busy
  <2>2. CASE v # w
    BY <1>1, <2>2 DEF Worked, Busy
  <2> QED
    BY <2>1, <2>2
<1>4. Owned'
  <2> SUFFICES ASSUME NEW v \in Workers, task'[v].step = "copy"
               PROVE  /\ entries'[task'[v].entry].type = "File"
                      /\ tree'[entries'[task'[v].entry].path].kind = "File"
                      /\ tree'[entries'[task'[v].entry].path].by
                            = task'[v].entry
    BY DEF Owned
  <2>1. CASE v = w
    <3>1. task'[w] # Free
      BY <2>1, TaskFacts
    <3>2. task'[w].entry = task[w].entry /\ entries' = entries
      BY <3>1 DEF Worked
    <3> QED
      BY <2>1, <3>2 DEF Worked
  <2>2. CASE v # w
    <3> DEFINE p == entries[task[v].entry].path
    <3>1. task'[v] = task[v] /\ entries' = entries
      BY <2>2 DEF Worked
    <3>2. /\ entries[task[v].entry].type = "File"
          /\ tree[p].kind = "File" /\ tree[p].by = task[v].entry
      BY <1>1, <3>1 DEF Owned
    <3>3. task[v] # Free
      BY <3>1, TaskFacts
    <3>4. p \in Places
      BY <3>3, AtFacts DEF Entry
    <3>5. tree[p] # Absent
      BY <3>2, NodeFacts
    <3>6. tree'[p].kind = tree[p].kind /\ tree'[p].by = tree[p].by
      BY <3>4, <3>5 DEF Worked, Kept
    <3> QED
      BY <3>1, <3>2, <3>6
  <2> QED
    BY <2>1, <2>2
<1>5. Covered'
  <2> SUFFICES ASSUME ~failed', NEW i \in DOMAIN entries
               PROVE  \/ i \in pending'
                      \/ \E v \in Workers : task'[v] # Free /\ task'[v].entry = i
                      \/ Complete(i)'
    BY DEF Covered, Worked
  <2>1. ~failed /\ entries' = entries /\ pending' = pending
    BY DEF Worked
  <2>2. CASE i \in pending
    BY <2>1, <2>2
  <2>3. ASSUME NEW v \in Workers, task[v] # Free, task[v].entry = i
        PROVE  \/ \E u \in Workers : task'[u] # Free /\ task'[u].entry = i
               \/ Complete(i)'
    <3>1. CASE v # w \/ task'[w] # Free
      BY <2>3, <3>1 DEF Worked
    <3>2. CASE v = w /\ task'[w] = Free
      BY <2>3, <3>2 DEF Worked
    <3> QED
      BY <3>1, <3>2
  <2>4. CASE Complete(i)
    BY <2>1, <2>4, CompleteStays DEF Worked
  <2> QED
    BY <1>1, <2>1, <2>2, <2>3, <2>4 DEF Covered
<1>6. OkMeansComplete'
  BY <1>1 DEF OkMeansComplete, Worked
<1> QED
  BY <1>2, <1>3, <1>4, <1>5, <1>6 DEF IInv

\* Nothing runs before the first call.
LEMMA InitInv == Init => IInv
<1> SUFFICES ASSUME Init PROVE IInv
  OBVIOUS
<1>1. tree \in [Places -> Nodes]
  BY NodeFacts, ExtractAssumption DEF Init, Trees
<1>2. TypeOK
  <2>1. 0 \in 0..MaxAttempts
    BY ExtractAssumption
  <2>2. task \in [Workers -> Tasks]
    BY TaskFacts DEF Init
  <2> QED
    BY <1>1, <2>1, <2>2 DEF Init, TypeOK
<1>3. Busy /\ Owned
  BY TaskFacts DEF Init, Busy, Owned
<1> QED
  BY <1>2, <1>3 DEF Init, IInv, Covered, OkMeansComplete

\* A call starts with no thread at work and every entry pending.
LEMMA StartInv ==
    ASSUME IInv, Start
    PROVE  IInv' /\ \A p \in Places : Kept(p)
<1>1. TypeOK /\ Busy
  BY DEF IInv
<1>2. \A w \in Workers : task[w] = Free
  BY <1>1 DEF Start, Call, Busy
<1>3. tree' \in [Places -> Nodes] /\ \A p \in Places : Kept(p)
  <2>1. CASE tree[Root] = Absent
    <3>1. Set(Root, Dir) /\ Dir \in Nodes
      BY <2>1, NodeFacts DEF Start, Set
    <3> QED
      BY <1>1, <2>1, <3>1, AbsentKept DEF TypeOK
  <2>2. CASE tree[Root] # Absent
    BY <1>1, <2>2, AbsentKept DEF Start, TypeOK
  <2> QED
    BY <2>1, <2>2
<1>4. TypeOK'
  <2>1. attempts + 1 \in 0..MaxAttempts
    BY <1>1, ExtractAssumption DEF Start, Call, TypeOK
  <2> QED
    BY <1>1, <1>3, <2>1 DEF Start, Call, TypeOK
<1>5. Busy' /\ Owned'
  BY <1>2, TaskFacts DEF Start, Call, Busy, Owned
<1>6. Covered' /\ OkMeansComplete'
  BY DEF Start, Call, Covered, OkMeansComplete
<1> QED
  BY <1>3, <1>4, <1>5, <1>6 DEF IInv

\* A call that fails at once leaves everything as it was.
LEMMA StartFailsInv ==
    ASSUME IInv, StartFails
    PROVE  IInv' /\ \A p \in Places : Kept(p)
<1>1. TypeOK /\ Busy
  BY DEF IInv
<1>2. \A w \in Workers : task[w] = Free
  BY <1>1 DEF StartFails, Call, Busy
<1>3. tree' \in [Places -> Nodes] /\ \A p \in Places : Kept(p)
  BY <1>1, AbsentKept DEF StartFails, TypeOK
<1>4. TypeOK'
  <2>1. attempts + 1 \in 0..MaxAttempts
    BY <1>1, ExtractAssumption DEF StartFails, Call, TypeOK
  <2> QED
    BY <1>1, <1>3, <2>1 DEF StartFails, Call, TypeOK
<1>5. Busy' /\ Owned'
  BY <1>2, TaskFacts DEF StartFails, Call, Busy, Owned
<1>6. Covered' /\ OkMeansComplete'
  BY DEF StartFails, Covered, OkMeansComplete
<1> QED
  BY <1>3, <1>4, <1>5, <1>6 DEF IInv

\* A call returns Ok when no entry is left, in work or lost.
LEMMA ReturnInv ==
    ASSUME IInv, Return
    PROVE  IInv'
<1>1. TypeOK /\ Busy /\ Owned /\ Covered
  BY DEF IInv
<1>2. TypeOK'
  BY <1>1 DEF Return, TypeOK
<1>3. Busy' /\ Owned'
  BY <1>1 DEF Return, Busy, Owned
<1>4. Covered'
  BY DEF Return, Covered
<1>5. ASSUME ~failed, NEW i \in DOMAIN entries PROVE Complete(i)
  BY <1>1, <1>5 DEF Return, Exhausted, Covered
<1>6. OkMeansComplete'
  BY <1>5 DEF Return, OkMeansComplete, Complete
<1> QED
  BY <1>2, <1>3, <1>4, <1>6 DEF IInv

\* An entry that a thread takes is in work, or the call has failed.
LEMMA TakeInv ==
    ASSUME IInv, NEW w \in Workers, Take(w)
    PROVE  IInv'
<1>1. TypeOK /\ Busy /\ Owned /\ Covered
  BY DEF IInv
<1>2. PICK i \in pending :
        /\ pending' = pending \ {i}
        /\ \/ task' = [task EXCEPT ![w] = At("parents", i)] /\ failed' = failed
           \/ task' = task /\ failed' = TRUE
  BY DEF Take
<1>3. i \in DOMAIN entries /\ i \in 1..MaxEntries
  BY <1>1, EntryFacts DEF TypeOK
<1>4. /\ At("parents", i) \in Tasks /\ At("parents", i) # Free
      /\ At("parents", i).step = "parents" /\ At("parents", i).entry = i
  BY <1>3, TaskFacts
<1>5. task \in [Workers -> Tasks]
  BY <1>1 DEF TypeOK
<1>6. TypeOK'
  BY <1>1, <1>2, <1>4 DEF Take, TypeOK
<1>7. Busy'
  BY <1>1, <1>2, <1>3, <1>4, <1>5 DEF Take, Busy
<1>8. Owned'
  BY <1>1, <1>2, <1>4, <1>5 DEF Take, Owned
<1>9. Covered'
  <2> SUFFICES ASSUME ~failed', NEW k \in DOMAIN entries
               PROVE  \/ k \in pending'
                      \/ \E v \in Workers : task'[v] # Free /\ task'[v].entry = k
                      \/ Complete(k)'
    BY DEF Covered, Take
  <2>1. task' = [task EXCEPT ![w] = At("parents", i)] /\ ~failed
    BY <1>2
  <2>2. CASE k = i
    BY <1>4, <1>5, <2>1, <2>2
  <2>3. CASE k # i /\ k \in pending
    BY <1>2, <2>3
  <2>4. ASSUME NEW v \in Workers, task[v] # Free, task[v].entry = k
        PROVE  task'[v] # Free /\ task'[v].entry = k
    BY <1>5, <2>1, <2>4 DEF Take
  <2>5. CASE Complete(k)
    BY <2>5 DEF Take, Complete
  <2> QED
    BY <1>1, <2>1, <2>2, <2>3, <2>4, <2>5 DEF Covered, Take
<1>10. OkMeansComplete'
  BY DEF Take, OkMeansComplete
<1> QED
  BY <1>6, <1>7, <1>8, <1>9, <1>10 DEF IInv

\* Every step keeps the invariant, and what exists.
LEMMA NextInv ==
    ASSUME IInv, [Next]_vars
    PROVE  IInv' /\ \A p \in Places : Kept(p)
<1>1. tree \in [Places -> Nodes]
  BY DEF IInv, TypeOK
<1>2. CASE UNCHANGED vars
  <2>1. /\ entries' = entries /\ tree' = tree /\ phase' = phase
        /\ attempts' = attempts /\ method' = method
        /\ pending' = pending /\ failed' = failed
        /\ task' = task
    BY <1>2 DEF vars
  <2>2. TypeOK' /\ Busy' /\ Owned' /\ OkMeansComplete'
    BY <2>1 DEF IInv, TypeOK, Busy, Owned, OkMeansComplete
  <2>3. Covered'
    BY <2>1 DEF IInv, Covered, Complete
  <2>4. \A p \in Places : Kept(p)
    BY <1>1, <2>1, AbsentKept
  <2> QED
    BY <2>2, <2>3, <2>4 DEF IInv
<1>3. CASE Start
  BY <1>3, StartInv
<1>4. CASE StartFails
  BY <1>4, StartFailsInv
<1>5. CASE Return
  BY <1>1, <1>5, ReturnInv, AbsentKept DEF Return
<1>6. ASSUME NEW w \in Workers, Step(w)
      PROVE  IInv' /\ \A p \in Places : Kept(p)
  <2>1. CASE Take(w)
    BY <1>1, <2>1, TakeInv, AbsentKept DEF Take
  <2>2. CASE MakeParents(w)
    BY <2>2, MakeParentsWorked, WorkedInv DEF Worked
  <2>3. CASE MakeNode(w)
    BY <2>3, MakeNodeWorked, WorkedInv DEF Worked
  <2>4. CASE Copy(w)
    BY <2>4, CopyWorked, WorkedInv DEF Worked
  <2>5. CASE DeviceError(w)
    <3>1. Worked(w)
      BY <2>5, ErrorWorked DEF DeviceError
    <3> QED
      BY <3>1, WorkedInv DEF Worked
  <2> QED
    BY <1>6, <2>1, <2>2, <2>3, <2>4, <2>5 DEF Step
<1> QED
  BY <1>2, <1>3, <1>4, <1>5, <1>6 DEF Next

\* The invariant holds in every behaviour: no thread is at work outside a
\* call, the file it writes is its own, and no entry is lost.
THEOREM Invariance == Spec => []IInv
<1>1. IInv /\ [Next]_vars => IInv'
  BY NextInv
<1> QED
  BY InitInv, <1>1, PTL DEF Spec

\* Entries, tree and tasks keep their types: no file has more pieces than
\* its content, no task is of an entry that does not exist.
THEOREM TypeCorrect == Spec => []TypeOK
<1>1. IInv => TypeOK
  BY DEF IInv
<1> QED
  BY <1>1, Invariance, PTL

\* A call that returns Ok has extracted every entry, whatever the archive,
\* the tree, the number of threads, their interleaving and the calls that
\* failed before (RawArchive::extract and parallel_extract).
THEOREM OkIsComplete == Spec => []OkMeansComplete
<1>1. IInv => OkMeansComplete
  BY DEF IInv
<1> QED
  BY <1>1, Invariance, PTL

\* No step of any thread changes what another made or what was there
\* before (create_new, create_dir and symlink in Metadata::_extract).
THEOREM NothingIsOverwritten == Spec => NothingOverwritten
<1>1. IInv /\ [Next]_vars => \A p \in Places : Kept(p)
  BY NextInv
<1>2. Spec => [][ \A p \in Places : Kept(p) ]_vars
  BY <1>1, Invariance, PTL DEF Spec
<1> QED
  BY <1>2, PTL DEF NothingOverwritten, Kept
===============================================================================
