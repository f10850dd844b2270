--------------------------- MODULE DocIndexProofs ---------------------------
(***************************************************************************)
(* Proofs about DocIndex, for any windows, files, ids, names and bounds:   *)
(* the types, that an id is at one path, that what is deleted from the     *)
(* store is not named, and that the ids follow the files. The second and   *)
(* third need to say what the updates that are under way have read and     *)
(* would write; the last, where the index still has each file's entry.     *)
(***************************************************************************)
EXTENDS DocIndex, TLAPS

\* The ids an update would name that what it read did not.
New(w) == IF reading[w] = None THEN {} ELSE Named(reading[w].after) \ Named(reading[w].before)

\* What the index names, and what an update read, or is to be deleted, was named before.
NamedBefore ==
    /\ Named(index) \subseteq minted
    /\ \A w \in Window : dropping[w] \subseteq minted
    /\ \A w \in Window : reading[w] # None => Named(reading[w].before) \subseteq minted

\* What an update would write names each id once, and its new ids are its own; a save's path
\* has an id in it.
Readings ==
    /\ \A w \in Window : reading[w] # None => OneId(reading[w].after)
    /\ \A w \in Window : reading[w] # None =>
          /\ queue[w] # <<>>
          /\ Head(queue[w]).op = "bind" => reading[w].after.at[Head(queue[w]).path] # None
    /\ \A w \in Window : New(w) \cap minted = {}
    /\ \A v, w \in Window : v # w => New(v) \cap New(w) = {}

-----------------------------------------------------------------------------
(* What the updates do to an index.                                        *)

LEMMA Paths ==
    /\ \A p \in Path : p[1] \in Name /\ p[2] \in Part /\ p = <<p[1], p[2]>>
    /\ \A name \in Name, part \in Part : <<name, part>> \in Path
  BY DEF Path

LEMMA TaskParts ==
    ASSUME NEW task \in Task
    PROVE  /\ task.op = "move" => task.from \in Name /\ task.to \in Name /\ task.parts \subseteq Part
           /\ task.op = "forget" => {task.name} \X task.parts \subseteq Path
<1>1. CASE task.op = "move"
  <2>1. task.from \in Name /\ task.to \in Name /\ task.parts \in Parts
    BY <1>1 DEF Task
  <2> QED BY <1>1, <2>1 DEF Parts, Part
<1>2. CASE task.op = "forget"
  <2>1. task.name \in Name /\ task.parts \in Parts
    BY <1>2 DEF Task
  <2>2. task.parts \subseteq Part
    BY <2>1 DEF Parts, Part
  <2> QED BY <1>2, <2>1, <2>2 DEF Path
<1> QED BY <1>1, <1>2

LEMMA ChangedType ==
    ASSUME NEW task \in Task, NEW ix \in Index, NEW id \in Id \cup {None},
           task.op = "bind" /\ ix.at[task.path] = None => id \in Id
    PROVE  Changed(task, ix, id) \in Index
<1>1. CASE task.op = "bind"
  BY <1>1 DEF Changed, Task, Index, WithEntry
<1>2. CASE task.op = "move"
  <2>1. Changed(task, ix, id) = RemapEntries(ix, task.from, task.to, task.parts)
    BY <1>2 DEF Changed
  <2> DEFINE at == [p \in Path |->
                IF p[2] \notin task.parts THEN ix.at[p]
                ELSE IF p[1] = task.to /\ ix.at[<<task.from, p[2]>>] # None
                     THEN ix.at[<<task.from, p[2]>>]
                ELSE IF p[1] = task.from THEN None ELSE ix.at[p]]
  <2>2. at \in [Path -> Id \cup {None}]
    <3>1. \A p \in Path : ix.at[p] \in Id \cup {None} /\ ix.at[<<task.from, p[2]>>] \in Id \cup {None}
      BY <1>2, Paths, TaskParts DEF Index
    <3> QED BY <3>1
  <2>3. Changed(task, ix, id) = [ix EXCEPT !.at = at]
    BY <2>1 DEF RemapEntries
  <2> HIDE DEF at
  <2> QED BY <2>2, <2>3 DEF Index
<1>3. CASE task.op = "forget"
  <2>1. Changed(task, ix, id) = BuryEntries(ix, {task.name} \X task.parts)
    BY <1>3 DEF Changed
  <2>2. ({ix.at[p] : p \in {task.name} \X task.parts} \ {None}) \subseteq Id
    <3>1. {task.name} \X task.parts \subseteq Path
      BY <1>3, TaskParts
    <3> QED BY <3>1 DEF Index
  <2> QED BY <2>1, <2>2 DEF BuryEntries, Index
<1>4. CASE task.op = "prune"
  BY <1>4 DEF Changed, PruneEntries, Index
<1>5. CASE task.op = "copy"
  BY <1>5 DEF Changed, RemoveEntries, Task, Index
<1> QED BY <1>1, <1>2, <1>3, <1>4, <1>5 DEF Task

\* An entry is where it was, or where its path moved to, and not at both.
LEMMA Remapped ==
    ASSUME NEW ix \in Index, NEW from \in Name, NEW to \in Name, NEW parts \in SUBSET Part,
           NEW p \in Path, RemapEntries(ix, from, to, parts).at[p] # None
    PROVE  LET old == <<from, p[2]>>
               entry == RemapEntries(ix, from, to, parts).at[p]
           IN  /\ old \in Path
               /\ \/ p[1] = to /\ p[2] \in parts /\ entry = ix.at[old]
                  \/ entry = ix.at[p] /\ (p[2] \in parts =>
                                            /\ p[1] # from
                                            /\ p[1] = to => ix.at[old] = None)
  <1>1. RemapEntries(ix, from, to, parts).at[p] =
           IF p[2] \notin parts THEN ix.at[p]
           ELSE IF p[1] = to /\ ix.at[<<from, p[2]>>] # None THEN ix.at[<<from, p[2]>>]
           ELSE IF p[1] = from THEN None ELSE ix.at[p]
    BY DEF RemapEntries, Index
  <1>2. <<from, p[2]>> \in Path
    BY Paths
  <1> QED BY <1>1, <1>2

\* Only a binding names an id that was not named, and that id is the one it makes.
LEMMA ChangedNames ==
    ASSUME NEW task \in Task, NEW ix \in Index, NEW id \in Id \cup {None}
    PROVE  Named(Changed(task, ix, id)) \subseteq Named(ix) \cup {id}
<1>1. CASE task.op = "bind"
  BY <1>1 DEF Changed, Task, Index, WithEntry, Named, AtPaths
<1>2. CASE task.op = "move"
  <2>1. Changed(task, ix, id) = RemapEntries(ix, task.from, task.to, task.parts)
    BY <1>2 DEF Changed
  <2> DEFINE new == Changed(task, ix, id)
  <2>2. \A p \in Path : new.at[p] # None =>
           /\ <<task.from, p[2]>> \in Path
           /\ new.at[p] = ix.at[<<task.from, p[2]>>] \/ new.at[p] = ix.at[p]
    BY <1>2, <2>1, Remapped, TaskParts
  <2>3. new.deleted = ix.deleted
    BY <2>1 DEF RemapEntries, Index
  <2> QED BY <2>2, <2>3 DEF Named, AtPaths
<1>3. CASE task.op = "forget"
  <2>1. Changed(task, ix, id) = BuryEntries(ix, {task.name} \X task.parts)
    BY <1>3 DEF Changed
  <2>2. {task.name} \X task.parts \subseteq Path
    BY <1>3, TaskParts
  <2> QED BY <2>1, <2>2 DEF BuryEntries, Index, Named, AtPaths
<1>4. CASE task.op = "prune"
  BY <1>4 DEF Changed, PruneEntries, Index, Named, AtPaths
<1>5. CASE task.op = "copy"
  BY <1>5 DEF Changed, RemoveEntries, Task, Index, Named, AtPaths
<1> QED BY <1>1, <1>2, <1>3, <1>4, <1>5 DEF Task

\* And none names an id twice.
LEMMA ChangedOneId ==
    ASSUME NEW task \in Task, NEW ix \in Index, NEW id \in Id \cup {None},
           OneId(ix), id \notin Named(ix)
    PROVE  OneId(Changed(task, ix, id))
<1>1. CASE task.op = "bind"
  BY <1>1 DEF Changed, Task, Index, WithEntry, Named, AtPaths, OneId, Apart
<1>2. CASE task.op = "move"
  <2>1. Changed(task, ix, id) = RemapEntries(ix, task.from, task.to, task.parts)
    BY <1>2 DEF Changed
  <2> DEFINE new == Changed(task, ix, id)
             old(p) == <<task.from, p[2]>>
  <2>2. \A p \in Path : new.at[p] # None =>
           /\ old(p) \in Path
           /\ \/ p[1] = task.to /\ p[2] \in task.parts /\ new.at[p] = ix.at[old(p)]
              \/ new.at[p] = ix.at[p] /\ (p[2] \in task.parts => p[1] # task.from)
    BY <1>2, <2>1, Remapped, TaskParts
  <2>3. ASSUME NEW p \in Path, NEW q \in Path, new.at[p] = new.at[q], new.at[p] # None
        PROVE  p = q
    <3> DEFINE there(r) == r[1] = task.to /\ r[2] \in task.parts /\ new.at[r] = ix.at[old(r)]
    <3>a. \A r, s \in Path : ix.at[r] = ix.at[s] /\ ix.at[r] # None => r = s
      BY DEF OneId, Apart
    <3>b. old(p) \in Path /\ old(q) \in Path
      BY <2>2, <2>3
    <3>c. old(p)[1] = task.from /\ old(p)[2] = p[2] /\ old(q)[1] = task.from /\ old(q)[2] = q[2]
      OBVIOUS
    <3>d. p = <<p[1], p[2]>> /\ q = <<q[1], q[2]>>
      BY Paths
    <3> HIDE DEF new, old
    <3>1. CASE there(p) /\ there(q)
      <4>1. old(p) = old(q)
        BY <2>3, <3>1, <3>a, <3>b
      <4> QED BY <3>1, <3>c, <3>d, <4>1
    <3>2. CASE there(p) /\ ~there(q)
      <4>1. new.at[q] = ix.at[q] /\ (q[2] \in task.parts => q[1] # task.from)
        BY <2>2, <2>3, <3>2
      <4>2. old(p) = q
        BY <2>3, <3>2, <3>a, <3>b, <4>1
      <4> QED BY <3>2, <3>c, <4>1, <4>2
    <3>3. CASE ~there(p) /\ there(q)
      <4>1. new.at[p] = ix.at[p] /\ (p[2] \in task.parts => p[1] # task.from)
        BY <2>2, <2>3, <3>3
      <4>2. old(q) = p
        BY <2>3, <3>3, <3>a, <3>b, <4>1
      <4> QED BY <3>3, <3>c, <4>1, <4>2
    <3>4. CASE ~there(p) /\ ~there(q)
      BY <2>2, <2>3, <3>4, <3>a
    <3> QED BY <3>1, <3>2, <3>3, <3>4
  <2>4. AtPaths(new) \subseteq AtPaths(ix)
    <3>1. ASSUME NEW p \in Path, new.at[p] # None
          PROVE  \E q \in Path : new.at[p] = ix.at[q]
      BY <2>2, <3>1
    <3> HIDE DEF new
    <3> QED BY <3>1 DEF AtPaths
  <2>5. new.deleted = ix.deleted
    BY <2>1 DEF RemapEntries, Index
  <2> QED BY <2>3, <2>4, <2>5 DEF OneId, Apart
<1>3. CASE task.op = "forget"
  <2>1. Changed(task, ix, id) = BuryEntries(ix, {task.name} \X task.parts)
    BY <1>3 DEF Changed
  <2>2. {task.name} \X task.parts \subseteq Path
    BY <1>3, TaskParts
  <2> QED BY <2>1, <2>2 DEF BuryEntries, Index, OneId, AtPaths, Apart
<1>4. CASE task.op = "prune"
  BY <1>4 DEF Changed, PruneEntries, Index, OneId, AtPaths, Apart
<1>5. CASE task.op = "copy"
  BY <1>5 DEF Changed, RemoveEntries, Task, Index, OneId, AtPaths, Apart
<1> QED BY <1>1, <1>2, <1>3, <1>4, <1>5 DEF Task

-----------------------------------------------------------------------------
(* The types.                                                              *)

LEMMA Queues ==
    ASSUME NEW q \in Seq(Task)
    PROVE  /\ \A task \in Task : /\ Append(q, task) \in Seq(Task)
                                /\ Append(q, task) # <<>>
                                /\ q # <<>> => Head(Append(q, task)) = Head(q)
           /\ q # <<>> => Head(q) \in Task /\ Tail(q) \in Seq(Task)
  OBVIOUS

LEMMA EnqueueType ==
    ASSUME TypeOK, NEW w \in Window, NEW task \in Task, Enqueue(w, task)
    PROVE  queue' \in [Window -> Seq(Task)]
  BY Queues DEF TypeOK, Enqueue

LEMMA DoneType ==
    ASSUME TypeOK, NEW w \in Window, NEW before \in Index, NEW after \in Index,
           queue[w] # <<>>,
           Head(queue[w]).op = "bind" => after.at[Head(queue[w]).path] # None,
           Done(w, before, after)
    PROVE  /\ queue' \in [Window -> Seq(Task)]
           /\ reading' \in [Window -> [before : Index, after : Index] \cup {None}]
           /\ attempt' \in [Window -> 0 .. MaxRetries]
           /\ bound' \in [Window -> [id : Id, file : File] \cup {None}]
           /\ dropping' \in [Window -> SUBSET Id]
           /\ identity' \in [File -> Id \cup {None}]
<1> DEFINE task == Head(queue[w])
<1>1. task \in Task /\ Tail(queue[w]) \in Seq(Task)
  BY Queues DEF TypeOK
<1>2. queue' \in [Window -> Seq(Task)]
  BY <1>1 DEF Done, TypeOK
<1>3. reading' \in [Window -> [before : Index, after : Index] \cup {None}]
  BY DEF Done, TypeOK
<1>4. attempt' \in [Window -> 0 .. MaxRetries]
  BY DocIndexAssumption DEF Done, TypeOK
<1>5. dropping' \in [Window -> SUBSET Id]
  <2>1. Named(before) \subseteq Id
    BY DEF Named, AtPaths, Index
  <2> QED BY <2>1 DEF Done, TypeOK
<1>6. /\ bound' \in [Window -> [id : Id, file : File] \cup {None}]
      /\ identity' \in [File -> Id \cup {None}]
  <2>1. CASE task.op = "bind"
    <3>1. task.path \in Path /\ task.file \in File
      BY <1>1, <2>1 DEF Task
    <3>2. after.at[task.path] \in Id
      BY <2>1, <3>1 DEF Index
    <3>3. /\ bound' = [bound EXCEPT ![w] = [id |-> after.at[task.path], file |-> task.file]]
          /\ \/ identity' = [identity EXCEPT ![task.file] = after.at[task.path]]
             \/ identity' = identity
      BY <2>1 DEF Done
    <3> HIDE DEF task
    <3> QED BY <3>1, <3>2, <3>3 DEF TypeOK
  <2>2. CASE task.op # "bind"
    BY <2>2 DEF Done, TypeOK
  <2> QED BY <2>1, <2>2
<1> QED BY <1>2, <1>3, <1>4, <1>5, <1>6

LEMMA NamedType == ASSUME NEW ix \in Index PROVE Named(ix) \subseteq Id /\ AtPaths(ix) \subseteq Id
  BY DEF Named, AtPaths, Index

\* What an update reads and would write, when it reads the index.
LEMMA Reads ==
    ASSUME TypeOK, NEW w \in Window, NEW id \in Id \cup {None}, ReadIndex(w, id)
    PROVE  LET task == Head(queue[w])
               after == Changed(task, index, id)
           IN  /\ task \in Task /\ index \in Index /\ after \in Index
               /\ task.op = "bind" => after.at[task.path] # None
<1> DEFINE task == Head(queue[w])
           after == Changed(task, index, id)
<1>1. task \in Task /\ index \in Index
  BY Queues DEF TypeOK, ReadIndex
<1>2. task.op = "bind" /\ index.at[task.path] = None => id \in Id
  BY DEF ReadIndex
<1>3. after \in Index
  BY <1>1, <1>2, ChangedType
<1>4. task.op = "bind" => after.at[task.path] # None
  <2> HAVE task.op = "bind"
  <2>1. task.path \in Path
    BY <1>1 DEF Task
  <2> QED BY <1>1, <1>2, <2>1, DocIndexAssumption DEF Changed, WithEntry, Index
<1> QED BY <1>1, <1>3, <1>4

LEMMA TypeInit == Init => TypeOK
<1> SUFFICES ASSUME Init PROVE TypeOK
  OBVIOUS
<1>1. index \in Index
  BY DEF Init, NoIndex, Index
<1>2. /\ queue \in [Window -> Seq(Task)]
      /\ attempt \in [Window -> 0 .. MaxRetries]
  BY DocIndexAssumption DEF Init
<1>3. files \in [Path -> File \cup {None}]
  BY DEF Init
<1> QED BY <1>1, <1>2, <1>3 DEF Init, TypeOK

LEMMA TypeStep == TypeOK /\ Readings /\ [Next]_vars => TypeOK'
<1> SUFFICES ASSUME TypeOK, Readings, [Next]_vars PROVE TypeOK'
  OBVIOUS
<1>1. CASE Outside
  <2>1. files' \in [Path -> File \cup {None}] /\ gone' \in SUBSET File
    BY <1>1 DEF Outside, TypeOK
  <2>2. crossed' \in BOOLEAN
    BY <1>1 DEF Outside, TypeOK
  <2> QED BY <1>1, <2>1, <2>2 DEF Outside, TypeOK, updates
<1>2. ASSUME NEW w \in Window, NEW from \in Name, NEW to \in Name, NEW parts \in Parts,
             Move(w, from, to, parts)
      PROVE  TypeOK'
  <2>1. [op |-> "move", from |-> from, to |-> to, parts |-> parts] \in Task
    BY DEF Task
  <2>2. queue' \in [Window -> Seq(Task)]
    BY <1>2, <2>1, EnqueueType DEF Move
  <2>3. files' \in [Path -> File \cup {None}]
    <3>1. \A p \in Path : <<from, p[2]>> \in Path
      BY Paths
    <3> QED BY <1>2, <3>1 DEF Move, TypeOK
  <2> QED BY <1>2, <2>2, <2>3 DEF Move, Crossing, Changing, TypeOK
<1>3. ASSUME NEW w \in Window, NEW name \in Name, NEW parts \in Parts, Delete(w, name, parts)
      PROVE  TypeOK'
  <2>1. [op |-> "forget", name |-> name, parts |-> parts] \in Task
    BY DEF Task
  <2>2. queue' \in [Window -> Seq(Task)]
    BY <1>3, <2>1, EnqueueType DEF Delete
  <2>3. gone' \in SUBSET File
    <3>1. parts \subseteq Part
      BY DEF Parts, Part
    <3>2. \A part \in parts : files[<<name, part>>] \in File \cup {None}
      BY <3>1, Paths DEF TypeOK
    <3>3. {files[<<name, part>>] : part \in parts} \ {None} \subseteq File
      BY <3>2
    <3>4. gone' = gone \cup ({files[<<name, part>>] : part \in parts} \ {None})
      BY <1>3 DEF Delete
    <3> QED BY <3>3, <3>4 DEF TypeOK
  <2>4. files' \in [Path -> File \cup {None}]
    BY <1>3 DEF Delete, TypeOK
  <2>5. crossed' \in BOOLEAN
    BY <1>3 DEF Delete, TypeOK
  <2>6. /\ events' \in Nat
        /\ UNCHANGED <<index, store, minted, reading, attempt, bound, dropping, pruned, saves,
                       identity>>
    BY <1>3 DEF Delete, TypeOK
  <2> QED BY <2>2, <2>3, <2>4, <2>5, <2>6 DEF TypeOK
<1>4. ASSUME NEW w \in Window, NEW f \in File, NEW p \in Path, Duplicate(w, f, p)
      PROVE  TypeOK'
  <2>1. [op |-> "copy", path |-> p] \in Task
    BY DEF Task
  <2>2. queue' \in [Window -> Seq(Task)]
    BY <1>4, <2>1, EnqueueType DEF Duplicate
  <2> QED BY <1>4, <2>2 DEF Duplicate, Crossing, Changing, TypeOK
<1>5. ASSUME NEW w \in Window, NEW p \in Path, Save(w, p)
      PROVE  TypeOK'
  <2>1. [op |-> "bind", path |-> p, file |-> files[p]] \in Task
    BY <1>5 DEF Save, Task, TypeOK
  <2>2. queue' \in [Window -> Seq(Task)]
    BY <1>5, <2>1, EnqueueType DEF Save
  <2> QED BY <1>5, <2>2 DEF Save, disk, Changing, TypeOK
<1>6. ASSUME NEW w \in Window, Prune(w)
      PROVE  TypeOK'
  <2>1. [op |-> "prune", existing |-> {p \in Path : files[p] # None}] \in Task
    BY DEF Task
  <2>2. queue' \in [Window -> Seq(Task)]
    BY <1>6, <2>1, EnqueueType DEF Prune, TypeOK
  <2> QED BY <1>6, <2>2 DEF Prune, disk, Crossing, Changing, TypeOK
<1>7. ASSUME NEW w \in Window, NEW id \in Id \cup {None}, ReadIndex(w, id)
      PROVE  TypeOK'
  <2> DEFINE after == Changed(Head(queue[w]), index, id)
  <2>1. /\ index \in Index /\ after \in Index /\ queue[w] # <<>>
        /\ Head(queue[w]).op = "bind" => after.at[Head(queue[w]).path] # None
    BY <1>7, Reads DEF ReadIndex
  <2>2. CASE after = index /\ Done(w, index, index)
    <3>1. /\ queue' \in [Window -> Seq(Task)]
          /\ reading' \in [Window -> [before : Index, after : Index] \cup {None}]
          /\ attempt' \in [Window -> 0 .. MaxRetries]
          /\ bound' \in [Window -> [id : Id, file : File] \cup {None}]
          /\ dropping' \in [Window -> SUBSET Id]
          /\ identity' \in [File -> Id \cup {None}]
      BY <2>1, <2>2, DoneType
    <3> QED BY <1>7, <3>1 DEF ReadIndex, disk, TypeOK
  <2>3. CASE after # index
    <3>1. reading' = [reading EXCEPT ![w] = [before |-> index, after |-> after]]
      BY <1>7, <2>3 DEF ReadIndex, Done
    <3>2. reading' \in [Window -> [before : Index, after : Index] \cup {None}]
      BY <2>1, <3>1 DEF TypeOK
    <3>3. UNCHANGED <<queue, attempt, bound, dropping, identity>>
      BY <1>7, <2>3 DEF ReadIndex
    <3> QED BY <1>7, <3>2, <3>3 DEF ReadIndex, disk, TypeOK
  <2> QED BY <1>7, <2>2, <2>3 DEF ReadIndex
<1>8. ASSUME NEW w \in Window, WriteIndex(w)
      PROVE  TypeOK'
  <2>1. reading[w] \in [before : Index, after : Index] /\ queue[w] # <<>>
    BY <1>8 DEF WriteIndex, TypeOK
  <2>2. Head(queue[w]).op = "bind" => reading[w].after.at[Head(queue[w]).path] # None
    BY <1>8 DEF WriteIndex, Readings
  <2>3. /\ queue' \in [Window -> Seq(Task)]
        /\ reading' \in [Window -> [before : Index, after : Index] \cup {None}]
        /\ attempt' \in [Window -> 0 .. MaxRetries]
        /\ bound' \in [Window -> [id : Id, file : File] \cup {None}]
        /\ dropping' \in [Window -> SUBSET Id]
        /\ identity' \in [File -> Id \cup {None}]
    BY <1>8, <2>1, <2>2, DoneType DEF WriteIndex
  <2>4. Named(reading[w].after) \subseteq Id
    BY <2>1, NamedType
  <2> QED BY <1>8, <2>1, <2>3, <2>4 DEF WriteIndex, disk, TypeOK
<1>9. ASSUME NEW w \in Window, Conflict(w)
      PROVE  TypeOK'
  <2>1. Tail(queue[w]) \in Seq(Task)
    BY <1>9, Queues DEF Conflict, TypeOK
  <2>2. attempt' \in [Window -> 0 .. MaxRetries]
    <3>1. attempt[w] \in Nat /\ MaxRetries \in Nat
      BY DocIndexAssumption DEF TypeOK
    <3>2. \/ attempt[w] < MaxRetries /\ attempt' = [attempt EXCEPT ![w] = attempt[w] + 1]
          \/ attempt' = [attempt EXCEPT ![w] = 0]
      BY <1>9 DEF Conflict
    <3>3. CASE attempt[w] < MaxRetries /\ attempt' = [attempt EXCEPT ![w] = attempt[w] + 1]
      BY <3>1, <3>3 DEF TypeOK
    <3>4. CASE attempt' = [attempt EXCEPT ![w] = 0]
      BY <3>1, <3>4 DEF TypeOK
    <3> QED BY <3>2, <3>3, <3>4
  <2> QED BY <1>9, <2>1, <2>2 DEF Conflict, disk, TypeOK
<1>10. ASSUME NEW w \in Window, StoreReplica(w)
       PROVE  TypeOK'
  BY <1>10 DEF StoreReplica, disk, updates, TypeOK
<1>11. ASSUME NEW w \in Window, NEW id \in Id, DropEntry(w, id)
       PROVE  TypeOK'
  BY <1>11 DEF DropEntry, disk, updates, TypeOK
<1>12. ASSUME NEW w \in Window, WindowGone(w)
       PROVE  TypeOK'
  <2>1. attempt' \in [Window -> 0 .. MaxRetries]
    BY <1>12, DocIndexAssumption DEF WindowGone, TypeOK
  <2>2. queue' \in [Window -> Seq(Task)]
    BY <1>12 DEF WindowGone, TypeOK
  <2>3. /\ reading' \in [Window -> [before : Index, after : Index] \cup {None}]
        /\ bound' \in [Window -> [id : Id, file : File] \cup {None}]
        /\ dropping' \in [Window -> SUBSET Id]
        /\ pruned' \in SUBSET Window
        /\ crossed' \in BOOLEAN
        /\ events' \in Nat
    BY <1>12 DEF WindowGone, TypeOK
  <2> QED BY <1>12, <2>1, <2>2, <2>3 DEF WindowGone, disk, TypeOK
<1>13. CASE UNCHANGED vars
  BY <1>13 DEF vars, disk, updates, TypeOK
<1> QED BY <1>1, <1>2, <1>3, <1>4, <1>5, <1>6, <1>7, <1>8, <1>9, <1>10, <1>11, <1>12, <1>13 DEF Next

-----------------------------------------------------------------------------
(* The names.                                                              *)

Names == OneIdOnePath /\ DropsTheUnnamed /\ NamedBefore /\ Readings

LEMMA NamesInit == Init => Names
<1> SUFFICES ASSUME Init PROVE Names
  OBVIOUS
<1>1. Named(index) = {} /\ OneId(index)
  BY DEF Init, NoIndex, Named, AtPaths, OneId, Apart
<1>2. \A w \in Window : dropping[w] = {} /\ reading[w] = None
  BY DEF Init
<1> QED BY <1>1, <1>2 DEF Names, OneIdOnePath, DropsTheUnnamed, NamedBefore, Readings, New

\* A step that leaves the index alone, and only takes from what an update read or is to be
\* deleted.
LEMMA Beside ==
    ASSUME TypeOK, Names, UNCHANGED <<index, minted>>,
           \A w \in Window : dropping'[w] \subseteq dropping[w],
           \A w \in Window : reading'[w] # None =>
              /\ reading'[w] = reading[w]
              /\ queue'[w] # <<>> /\ Head(queue'[w]) = Head(queue[w])
    PROVE  Names'
<1>1. OneIdOnePath' /\ DropsTheUnnamed'
  BY DEF Names, OneIdOnePath, DropsTheUnnamed
<1>2. NamedBefore'
  BY DEF Names, NamedBefore
<1>3. \A w \in Window : New(w)' \subseteq New(w)
  BY DEF New
<1>4. Readings'
  BY <1>3 DEF Names, Readings
<1> QED BY <1>1, <1>2, <1>4 DEF Names

LEMMA BesideEnqueue ==
    ASSUME TypeOK, Names, NEW w \in Window, NEW task \in Task, Enqueue(w, task),
           UNCHANGED <<index, minted, dropping, reading>>
    PROVE  Names'
<1>1. \A v \in Window : reading[v] # None =>
         queue'[v] # <<>> /\ Head(queue'[v]) = Head(queue[v])
  <2> TAKE v \in Window
  <2> HAVE reading[v] # None
  <2>1. queue[v] # <<>> /\ queue[v] \in Seq(Task)
    BY DEF Names, Readings, TypeOK
  <2>2. queue'[v] = IF v = w THEN Append(queue[v], task) ELSE queue[v]
    BY DEF Enqueue, TypeOK
  <2> QED BY <2>1, <2>2, Queues
<1> QED BY <1>1, Beside

LEMMA NamesReadIndex ==
    ASSUME TypeOK, Names, NEW w \in Window, NEW id \in Id \cup {None}, ReadIndex(w, id)
    PROVE  Names'
<1> DEFINE task == Head(queue[w])
           after == Changed(task, index, id)
<1>1. /\ task \in Task /\ index \in Index /\ after \in Index
      /\ task.op = "bind" => after.at[task.path] # None
  BY Reads
<1>2. UNCHANGED <<index, minted>> /\ queue[w] # <<>> /\ reading[w] = None
  BY DEF ReadIndex
<1>3. CASE after = index /\ Done(w, index, index)
  <2>1. dropping' = dropping
    BY <1>3 DEF Done, TypeOK
  <2>2. \A v \in Window : reading'[v] # None => v # w /\ reading'[v] = reading[v]
    BY <1>3 DEF Done, TypeOK
  <2>3. \A v \in Window : v # w => queue'[v] = queue[v]
    BY <1>3 DEF Done, TypeOK
  <2>4. \A v \in Window : reading[v] # None => queue[v] # <<>>
    BY DEF Names, Readings
  <2> QED BY <1>2, <2>1, <2>2, <2>3, <2>4, Beside
<1>4. CASE after # index
  <2>1. /\ reading' = [reading EXCEPT ![w] = [before |-> index, after |-> after]]
        /\ UNCHANGED <<queue, dropping>>
    BY <1>4 DEF ReadIndex, Done
  <2>2. /\ reading'[w] = [before |-> index, after |-> after]
        /\ \A v \in Window : v # w => reading'[v] = reading[v]
    BY <2>1 DEF TypeOK
  <2>3. id \notin Named(index)
    <3>1. id = None \/ id \notin minted
      BY DEF ReadIndex, Fresh
    <3>2. Named(index) \subseteq Id /\ Named(index) \subseteq minted
      BY <1>1, NamedType DEF Names, NamedBefore
    <3> QED BY <3>1, <3>2, DocIndexAssumption
  <2>4. OneId(after)
    BY <1>1, <2>3, ChangedOneId DEF Names, OneIdOnePath
  <2>5. Named(after) \subseteq Named(index) \cup {id} /\ None \notin Named(after)
    BY <1>1, ChangedNames, NamedType, DocIndexAssumption
  <2>6. New(w)' \subseteq {id} \ {None}
    BY <2>2, <2>5 DEF New
  <2>7. \A v \in Window : v # w => New(v)' = New(v)
    BY <2>2 DEF New
  <2>8. id # None => id \notin minted /\ \A v \in Window : id \notin New(v)
    BY DEF ReadIndex, Fresh, New
  <2>9. OneIdOnePath' /\ DropsTheUnnamed'
    BY <1>2, <2>1 DEF Names, OneIdOnePath, DropsTheUnnamed
  <2>10. NamedBefore'
    BY <1>2, <2>1, <2>2 DEF Names, NamedBefore
  <2>11. /\ \A v \in Window : New(v)' \cap minted' = {}
         /\ \A u, v \in Window : u # v => New(u)' \cap New(v)' = {}
    BY <1>2, <2>6, <2>7, <2>8 DEF Names, Readings
  <2>12. \A v \in Window : reading'[v] # None =>
            /\ OneId(reading'[v].after)
            /\ queue'[v] # <<>>
            /\ Head(queue'[v]).op = "bind" => reading'[v].after.at[Head(queue'[v]).path] # None
    BY <1>1, <1>2, <2>1, <2>2, <2>4 DEF Names, Readings
  <2>13. Readings'
    BY <2>11, <2>12 DEF Readings
  <2> QED BY <2>9, <2>10, <2>13 DEF Names
<1> QED BY <1>3, <1>4 DEF ReadIndex

LEMMA NamesWriteIndex ==
    ASSUME TypeOK, Names, NEW w \in Window, WriteIndex(w)
    PROVE  Names'
<1> DEFINE before == reading[w].before
           after == reading[w].after
<1>1. /\ index = before /\ index' = after /\ reading[w] # None
      /\ minted' = minted \cup Named(after)
  BY DEF WriteIndex, StillAt
<1>2. before \in Index /\ after \in Index
  BY <1>1 DEF TypeOK
<1>3. /\ OneId(after)
      /\ Named(after) \subseteq Named(before) \cup New(w)
      /\ New(w) = Named(after) \ Named(before)
      /\ Named(before) \subseteq minted
  BY <1>1 DEF Names, Readings, New, NamedBefore
<1>4. /\ \A v \in Window : dropping'[v] = dropping[v]
                          \/ (v = w /\ dropping'[v] = dropping[v] \cup (Named(before) \ Named(after)))
      /\ reading'[w] = None
      /\ \A v \in Window : v # w => reading'[v] = reading[v] /\ queue'[v] = queue[v]
  BY DEF WriteIndex, Done, TypeOK
<1>5. OneIdOnePath'
  BY <1>1, <1>3 DEF OneIdOnePath
<1>6. DropsTheUnnamed'
  <2> SUFFICES ASSUME NEW v \in Window PROVE dropping'[v] \cap Named(after) = {}
    BY <1>1 DEF DropsTheUnnamed
  <2>1. dropping[v] \cap Named(before) = {} /\ dropping[v] \subseteq minted /\ New(w) \cap minted = {}
    BY <1>1 DEF Names, DropsTheUnnamed, NamedBefore, Readings
  <2>2. dropping[v] \cap Named(after) = {}
    BY <1>3, <2>1
  <2> QED BY <1>4, <2>2
<1>7. NamedBefore'
  <2>1. \A v \in Window : reading'[v] # None => Named(reading'[v].before) \subseteq minted'
    BY <1>1, <1>4 DEF Names, NamedBefore
  <2>2. \A v \in Window : dropping'[v] \subseteq minted'
    BY <1>1, <1>3, <1>4 DEF Names, NamedBefore
  <2> QED BY <1>1, <2>1, <2>2 DEF NamedBefore
<1>8. New(w)' = {} /\ \A v \in Window : v # w => New(v)' = New(v)
  BY <1>4 DEF New
<1>9. Readings'
  <2>1. \A v \in Window : New(v)' \cap minted' = {}
    <3> SUFFICES ASSUME NEW v \in Window, v # w PROVE New(v) \cap (minted \cup Named(after)) = {}
      BY <1>1, <1>8
    <3>1. New(v) \cap minted = {} /\ New(v) \cap New(w) = {}
      BY DEF Names, Readings
    <3> QED BY <1>3, <3>1
  <2>2. \A u, v \in Window : u # v => New(u)' \cap New(v)' = {}
    BY <1>8 DEF Names, Readings
  <2>3. \A v \in Window : reading'[v] # None =>
           /\ OneId(reading'[v].after)
           /\ queue'[v] # <<>>
           /\ Head(queue'[v]).op = "bind" => reading'[v].after.at[Head(queue'[v]).path] # None
    BY <1>4 DEF Names, Readings
  <2> QED BY <2>1, <2>2, <2>3 DEF Readings
<1> QED BY <1>5, <1>6, <1>7, <1>9 DEF Names

LEMMA NamesStep == TypeOK /\ Names /\ [Next]_vars => Names'
<1> SUFFICES ASSUME TypeOK, Names, [Next]_vars PROVE Names'
  OBVIOUS
<1>0. \A v \in Window : reading[v] # None => queue[v] # <<>>
  BY DEF Names, Readings
<1>1. CASE Outside
  BY <1>0, <1>1, Beside DEF Outside, updates
<1>2. ASSUME NEW w \in Window, NEW from \in Name, NEW to \in Name, NEW parts \in Parts,
             Move(w, from, to, parts)
      PROVE  Names'
  <2>1. [op |-> "move", from |-> from, to |-> to, parts |-> parts] \in Task
    BY DEF Task
  <2> QED BY <1>2, <2>1, BesideEnqueue DEF Move
<1>3. ASSUME NEW w \in Window, NEW name \in Name, NEW parts \in Parts, Delete(w, name, parts)
      PROVE  Names'
  <2>1. [op |-> "forget", name |-> name, parts |-> parts] \in Task
    BY DEF Task
  <2> QED BY <1>3, <2>1, BesideEnqueue DEF Delete
<1>4. ASSUME NEW w \in Window, NEW f \in File, NEW p \in Path, Duplicate(w, f, p)
      PROVE  Names'
  <2>1. [op |-> "copy", path |-> p] \in Task
    BY DEF Task
  <2> QED BY <1>4, <2>1, BesideEnqueue DEF Duplicate
<1>5. ASSUME NEW w \in Window, NEW p \in Path, Save(w, p)
      PROVE  Names'
  <2>1. [op |-> "bind", path |-> p, file |-> files[p]] \in Task
    BY <1>5 DEF Save, Task, TypeOK
  <2> QED BY <1>5, <2>1, BesideEnqueue DEF Save
<1>6. ASSUME NEW w \in Window, Prune(w)
      PROVE  Names'
  <2> DEFINE existing == {p \in Path : files[p] # None}
  <2>1. CASE existing = {}
    BY <1>0, <1>6, <2>1, Beside DEF Prune
  <2>2. CASE existing # {}
    <3>1. [op |-> "prune", existing |-> existing] \in Task
      BY DEF Task
    <3> QED BY <1>6, <2>2, <3>1, BesideEnqueue DEF Prune
  <2> QED BY <2>1, <2>2
<1>7. ASSUME NEW w \in Window, Conflict(w)
      PROVE  Names'
  <2>1. /\ UNCHANGED <<index, minted, dropping>>
        /\ \A v \in Window : reading'[v] # None => v # w /\ reading'[v] = reading[v]
        /\ \A v \in Window : v # w => queue'[v] = queue[v]
    BY <1>7 DEF Conflict, TypeOK
  <2> QED BY <1>0, <2>1, Beside
<1>8. ASSUME NEW w \in Window, StoreReplica(w)
      PROVE  Names'
  BY <1>0, <1>8, Beside DEF StoreReplica, updates
<1>9. ASSUME NEW w \in Window, NEW id \in Id, DropEntry(w, id)
      PROVE  Names'
  <2>1. \A v \in Window : dropping'[v] \subseteq dropping[v]
    BY <1>9 DEF DropEntry, TypeOK
  <2> QED BY <1>0, <1>9, <2>1, Beside DEF DropEntry, updates
<1>10. ASSUME NEW w \in Window, WindowGone(w)
       PROVE  Names'
  <2>1. /\ UNCHANGED <<index, minted>>
        /\ \A v \in Window : dropping'[v] \subseteq dropping[v]
        /\ \A v \in Window : reading'[v] # None => v # w /\ reading'[v] = reading[v]
        /\ \A v \in Window : v # w => queue'[v] = queue[v]
    BY <1>10 DEF WindowGone, TypeOK
  <2> QED BY <1>0, <2>1, Beside
<1>11. CASE UNCHANGED vars
  BY <1>0, <1>11, Beside DEF vars, updates
<1> QED BY <1>1, <1>2, <1>3, <1>4, <1>5, <1>6, <1>7, <1>8, <1>9, <1>10, <1>11,
           NamesReadIndex, NamesWriteIndex DEF Next

-----------------------------------------------------------------------------
(* The ids follow the files, unless changes crossed. Then at most one      *)
(* change of the files is on its way into the index, alone but for one     *)
(* save of its window before or after it.                                  *)

InLine ==
    /\ \A w \in Window : Changing(w) => \A v \in Window \ {w} : queue[v] = <<>>
    /\ \A w \in Window : \A i, j \in DOMAIN queue[w] :
          (queue[w][i].op = "bind" <=> queue[w][j].op = "bind") => i = j

\* Where the index has the entry of a file: where the file was before a move that the index does
\* not know of.
Brings(task, q) == task.op = "move" /\ task.to = q[1] /\ q[2] \in task.parts
Settled(q) == \A w \in Window : \A i \in DOMAIN queue[w] : ~Brings(queue[w][i], q)
Entry(q, p) ==
    \/ p = q /\ Settled(q)
    \/ \E w \in Window : \E i \in DOMAIN queue[w] :
          Brings(queue[w][i], q) /\ p = <<queue[w][i].from, q[2]>>

Keeps(f) == f \notin gone /\ identity[f] # None

EntriesFollow ==
    \A p, q \in Path :
        files[q] # None /\ Keeps(files[q]) /\ Entry(q, p) => index.at[p] = identity[files[q]]

Present == \A f \in File : Keeps(f) => \E q \in Path : files[q] = f

\* What the files say of an update: a move left nothing behind, what is forgotten is not there,
\* a copy has no id yet, and a save's file is where the index has it when its turn comes.
LeftBehind(task) ==
    /\ task.op = "move" =>
          task.from # task.to /\ \A part \in task.parts : files[<<task.from, part>>] = None
    /\ task.op = "forget" => \A part \in task.parts : files[<<task.name, part>>] = None
    /\ task.op = "prune" => task.existing = {p \in Path : files[p] # None}
NewCopy(w, task) ==
    task.op = "copy" =>
        /\ files[task.path] # None /\ identity[files[task.path]] = None
        /\ \A j \in DOMAIN queue[w] :
              queue[w][j].op = "bind" => queue[w][j].file # files[task.path]
SavedThere(i, task) ==
    task.op = "bind" =>
        \/ task.file \in gone
        \/ i = 1 /\ \E q \in Path : files[q] = task.file /\ Entry(q, task.path)
        \/ i # 1 /\ files[task.path] = task.file
Ready ==
    \A w \in Window : \A i \in DOMAIN queue[w] :
        /\ LeftBehind(queue[w][i])
        /\ NewCopy(w, queue[w][i])
        /\ SavedThere(i, queue[w][i])

Placed == InLine /\ Apart(files) /\ EntriesFollow /\ Present /\ Ready

\* A replica is stored, or about to be, under its file's id.
StoresFollow ==
    /\ \A id \in Id : store[id] # None /\ store[id] \notin gone => identity[store[id]] = id
    /\ \A w \in Window :
          bound[w] # None /\ bound[w].file \notin gone => identity[bound[w].file] = bound[w].id

Following == crossed \/ (Placed /\ StoresFollow)

\* What an update would write is its change of what it read.
Intends ==
    \A w \in Window : reading[w] # None =>
        \E id \in Id \cup {None} :
            reading[w].after = Changed(Head(queue[w]), reading[w].before, id)

LEMMA Appended ==
    ASSUME NEW q \in Seq(Task), NEW task \in Task
    PROVE  /\ Len(q) + 1 \in DOMAIN Append(q, task)
           /\ Append(q, task)[Len(q) + 1] = task
           /\ \A i \in DOMAIN q : i \in DOMAIN Append(q, task) /\ Append(q, task)[i] = q[i]
           /\ \A i \in DOMAIN Append(q, task) : i = Len(q) + 1 \/ i \in DOMAIN q
           /\ Len(q) + 1 \notin DOMAIN q
  OBVIOUS

LEMMA Tailed ==
    ASSUME NEW q \in Seq(Task), q # <<>>
    PROVE  /\ 1 \in DOMAIN q /\ q[1] = Head(q)
           /\ \A i \in DOMAIN Tail(q) : i + 1 \in DOMAIN q /\ i + 1 # 1 /\ Tail(q)[i] = q[i + 1]
           /\ \A i \in DOMAIN q : i # 1 => i - 1 \in DOMAIN Tail(q) /\ Tail(q)[i - 1] = q[i]
           /\ DOMAIN Tail(q) \subseteq Nat /\ DOMAIN q \subseteq Nat
  OBVIOUS

\* A queue has two updates at most, of two kinds.
LEMMA TwoAtMost ==
    ASSUME NEW q \in Seq(Task),
           \A i, j \in DOMAIN q : (q[i].op = "bind" <=> q[j].op = "bind") => i = j
    PROVE  DOMAIN q \subseteq {1, 2}
<1>1. DOMAIN q = 1 .. Len(q) /\ Len(q) \in Nat
  OBVIOUS
<1>2. Len(q) <= 2
  <2> SUFFICES ASSUME Len(q) > 2 PROVE FALSE
    BY <1>1
  <2>1. 1 \in DOMAIN q /\ 2 \in DOMAIN q /\ 3 \in DOMAIN q
    BY <1>1
  <2> DEFINE a == q[1].op = "bind"
             b == q[2].op = "bind"
             c == q[3].op = "bind"
  <2>2. ~(a <=> b) /\ ~(b <=> c) /\ ~(a <=> c)
    BY <2>1
  <2> QED BY <2>2
<1> QED BY <1>1, <1>2

-----------------------------------------------------------------------------
(* The replicas.                                                           *)

LEMMA StoresStay ==
    ASSUME TypeOK, StoresFollow, gone \subseteq gone',
           \A f \in File : identity[f] # None => identity'[f] = identity[f],
           \A id \in Id : store'[id] = store[id] \/ store'[id] = None,
           \A w \in Window : bound'[w] = bound[w] \/ bound'[w] = None
    PROVE  StoresFollow'
<1> USE DocIndexAssumption
<1>1. ASSUME NEW id \in Id, store'[id] # None, store'[id] \notin gone'
      PROVE  identity'[store'[id]] = id
  <2>1. store'[id] = store[id] /\ store[id] \in File
    BY <1>1 DEF TypeOK
  <2>2. identity[store[id]] = id
    BY <1>1, <2>1 DEF StoresFollow
  <2> QED BY <2>1, <2>2
<1>2. ASSUME NEW w \in Window, bound'[w] # None, bound'[w].file \notin gone'
      PROVE  identity'[bound'[w].file] = bound'[w].id
  <2>1. bound'[w] = bound[w] /\ bound[w].file \in File /\ bound[w].id \in Id
    BY <1>2 DEF TypeOK
  <2>2. identity[bound[w].file] = bound[w].id
    BY <1>2, <2>1 DEF StoresFollow
  <2> QED BY <2>1, <2>2
<1> QED BY <1>1, <1>2 DEF StoresFollow

LEMMA PlacedStays ==
    ASSUME Placed, UNCHANGED <<queue, disk, identity, index>>
    PROVE  Placed'
<1>1. queue' = queue /\ files' = files /\ gone' = gone /\ identity' = identity /\ index' = index
  BY DEF disk
<1>2. InLine'
  BY <1>1 DEF Placed, InLine, Changing
<1>3. \A p, q \in Path : Entry(q, p)' <=> Entry(q, p)
  BY <1>1 DEF Entry, Settled, Brings
<1>4. EntriesFollow'
  BY <1>1, <1>3 DEF Placed, EntriesFollow, Keeps
<1>5. Present'
  BY <1>1 DEF Placed, Present, Keeps
<1>6. Ready'
  <2> SUFFICES ASSUME NEW w \in Window, NEW i \in DOMAIN queue[w]
               PROVE  LeftBehind(queue[w][i])' /\ NewCopy(w, queue[w][i])' /\ SavedThere(i, queue[w][i])'
    BY <1>1 DEF Ready
  <2>1. LeftBehind(queue[w][i]) /\ NewCopy(w, queue[w][i]) /\ SavedThere(i, queue[w][i])
    BY DEF Placed, Ready
  <2> QED BY <1>1, <2>1 DEF LeftBehind, NewCopy, SavedThere, Entry, Settled, Brings
<1> QED BY <1>1, <1>2, <1>4, <1>5, <1>6 DEF Placed, Apart

-----------------------------------------------------------------------------
(* Changes and saves begin.                                                *)

\* A change that crosses nothing finds at most a save of its own window, and no move.
LEMMA ChangeBegins ==
    ASSUME TypeOK, Placed, NEW w \in Window, NEW task \in Task, task.op # "bind",
           Enqueue(w, task), ~Crossing(w)
    PROVE  /\ InLine'
           /\ \A p, q \in Path : Entry(q, p) <=> p = q
           /\ \A i \in DOMAIN queue'[w] :
                 \/ queue'[w][i] = task
                 \/ i = 1 /\ i \in DOMAIN queue[w] /\ queue'[w][i] = queue[w][i] /\ queue[w][i].op = "bind"
           /\ \A v \in Window : v # w => queue'[v] = <<>>
           /\ \A p, q \in Path :
                 Entry(q, p)' <=> IF Brings(task, q) THEN p = <<task.from, q[2]>> ELSE p = q
<1>1. /\ \A v \in Window : v # w => queue[v] = <<>>
      /\ \A i \in DOMAIN queue[w] : queue[w][i].op = "bind"
  BY DEF Crossing, Changing
<1>2. queue[w] \in Seq(Task) /\ queue'[w] = Append(queue[w], task)
  BY DEF TypeOK, Enqueue
<1>3. \A v \in Window : v # w => queue'[v] = <<>>
  BY <1>1 DEF TypeOK, Enqueue
<1>4. DOMAIN queue[w] \subseteq {1}
  <2>1. \A i, j \in DOMAIN queue[w] : i = j
    BY <1>1 DEF Placed, InLine
  <2>2. \A i \in DOMAIN queue[w] : 1 \in DOMAIN queue[w]
    BY <1>2
  <2> QED BY <2>1, <2>2
<1> DEFINE last == Len(queue[w]) + 1
<1>5. /\ last \in DOMAIN queue'[w] /\ queue'[w][last] = task
      /\ \A i \in DOMAIN queue'[w] :
            \/ i = last
            \/ i = 1 /\ i \in DOMAIN queue[w] /\ queue'[w][i] = queue[w][i] /\ queue[w][i].op = "bind"
  BY <1>1, <1>2, <1>4, Appended
<1> HIDE DEF last
<1>6. InLine'
  <2>1. \A v \in Window : v # w => DOMAIN queue'[v] = {}
    BY <1>3
  <2>2. \A i, j \in DOMAIN queue'[w] :
           (queue'[w][i].op = "bind" <=> queue'[w][j].op = "bind") => i = j
    BY <1>5
  <2>3. \A v \in Window : \A i, j \in DOMAIN queue'[v] :
           (queue'[v][i].op = "bind" <=> queue'[v][j].op = "bind") => i = j
    BY <2>1, <2>2
  <2>4. \A v \in Window : Changing(v)' => v = w
    BY <2>1 DEF Changing
  <2> QED BY <1>3, <2>3, <2>4 DEF InLine
<1>7. \A q \in Path : Settled(q)
  BY <1>1 DEF Settled, Brings
<1>8. \A p, q \in Path : Entry(q, p) <=> p = q
  BY <1>7 DEF Entry, Settled
<1>9. ASSUME NEW q \in Path, NEW v \in Window, NEW i \in DOMAIN queue'[v]
      PROVE  Brings(queue'[v][i], q) => v = w /\ queue'[v][i] = task
  <2>1. v = w
    BY <1>3, <1>9
  <2> QED BY <1>5, <1>9, <2>1 DEF Brings
<1>10. ASSUME NEW p \in Path, NEW q \in Path
       PROVE  Entry(q, p)' <=> IF Brings(task, q) THEN p = <<task.from, q[2]>> ELSE p = q
  <2>1. CASE Brings(task, q)
    <3>1. ~Settled(q)'
      BY <1>5, <2>1 DEF Settled, Brings
    <3>2. Entry(q, p)' <=> \E v \in Window : \E i \in DOMAIN queue'[v] :
                              Brings(queue'[v][i], q) /\ p = <<queue'[v][i].from, q[2]>>
      BY <3>1 DEF Entry, Brings
    <3> QED BY <1>5, <1>9, <2>1, <3>2
  <2>2. CASE ~Brings(task, q)
    <3>1. \A v \in Window : \A i \in DOMAIN queue'[v] : ~Brings(queue'[v][i], q)
      BY <1>9, <2>2
    <3> QED BY <2>2, <3>1 DEF Entry, Settled, Brings
  <2> QED BY <2>1, <2>2
<1>11. \A i \in DOMAIN queue'[w] :
          \/ queue'[w][i] = task
          \/ i = 1 /\ i \in DOMAIN queue[w] /\ queue'[w][i] = queue[w][i] /\ queue[w][i].op = "bind"
  BY <1>5
<1> QED BY <1>3, <1>6, <1>8, <1>10, <1>11

LEMMA ChangePlaced ==
    ASSUME TypeOK, Placed, NEW w \in Window, NEW task \in Task, task.op # "bind",
           Enqueue(w, task), ~Crossing(w), UNCHANGED <<index, identity>>, gone \subseteq gone',
           \A q \in Path : files[q] # None =>
              files[q] \in gone' \/ \E r \in Path : files'[r] = files[q] /\ Entry(r, q)',
           \A p, r \in Path :
              files'[r] # None /\ files'[r] \notin gone' /\ identity[files'[r]] # None /\ Entry(r, p)'
              => files[p] = files'[r],
           LeftBehind(task)', NewCopy(w, task)', Apart(files)'
    PROVE  Placed'
<1>1. /\ InLine'
      /\ \A p, q \in Path : Entry(q, p) <=> p = q
      /\ \A i \in DOMAIN queue'[w] :
            \/ queue'[w][i] = task
            \/ i = 1 /\ i \in DOMAIN queue[w] /\ queue'[w][i] = queue[w][i] /\ queue[w][i].op = "bind"
      /\ \A v \in Window : v # w => queue'[v] = <<>>
  BY ChangeBegins
<1>2. EntriesFollow'
  <2>1. ASSUME NEW p \in Path, NEW r \in Path, files'[r] # None, Keeps(files[r])', Entry(r, p)'
        PROVE  index'.at[p] = identity'[files'[r]]
    <3>1. files'[r] \notin gone' /\ identity[files'[r]] # None
      BY <2>1 DEF Keeps
    <3>2. files[p] = files'[r] /\ files[p] \notin gone
      BY <2>1, <3>1
    <3>3. index.at[p] = identity[files[p]]
      BY <1>1, <2>1, <3>1, <3>2 DEF Placed, EntriesFollow, Keeps
    <3> QED BY <3>2, <3>3
  <2> QED BY <2>1 DEF EntriesFollow
<1>3. Present'
  <2> SUFFICES ASSUME NEW f \in File, Keeps(f)' PROVE \E r \in Path : files'[r] = f
    BY DEF Present, Keeps
  <2>1. Keeps(f) /\ f \notin gone'
    BY DEF Keeps
  <2>2. PICK q \in Path : files[q] = f
    BY <2>1 DEF Placed, Present
  <2>3. f # None
    BY DocIndexAssumption
  <2> QED BY <2>1, <2>2, <2>3
<1>4. Ready'
  <2> SUFFICES ASSUME NEW v \in Window, NEW i \in DOMAIN queue'[v]
               PROVE  /\ LeftBehind(queue[v][i])'
                      /\ NewCopy(v, queue[v][i])'
                      /\ SavedThere(i, queue[v][i])'
    BY DEF Ready
  <2>1. v = w
    BY <1>1
  <2>2. CASE queue'[w][i] = task
    <3>1. LeftBehind(queue[w][i])'
      BY <2>2 DEF LeftBehind
    <3>2. NewCopy(w, queue[w][i])'
      BY <2>2 DEF NewCopy
    <3>3. SavedThere(i, queue[w][i])'
      BY <2>2 DEF SavedThere
    <3> QED BY <2>1, <3>1, <3>2, <3>3
  <2>3. CASE queue'[w][i] # task
    <3>1. /\ i = 1 /\ i \in DOMAIN queue[w] /\ queue'[w][i] = queue[w][i]
          /\ queue[w][i].op = "bind"
      BY <1>1, <2>1, <2>3
    <3> PICK save \in Task : save = queue[w][i]
      BY <3>1 DEF TypeOK
    <3>2. save.op = "bind" /\ save.path \in Path /\ save.file \in File
      BY <3>1 DEF Task
    <3>3. save.file \in gone \/ \E q \in Path : files[q] = save.file /\ Entry(q, save.path)
      BY <3>1 DEF Placed, Ready, SavedThere
    <3>4. save.file \in gone \/ files[save.path] = save.file
      BY <1>1, <3>2, <3>3
    <3>5. save.file \in gone' \/ \E r \in Path : files'[r] = save.file /\ Entry(r, save.path)'
      BY <3>2, <3>4, DocIndexAssumption
    <3>6. SavedThere(i, save)'
      BY <3>1, <3>5 DEF SavedThere
    <3>7. LeftBehind(save)' /\ NewCopy(w, save)'
      BY <3>2 DEF LeftBehind, NewCopy
    <3>8. save = queue'[w][i]
      BY <3>1
    <3> QED BY <2>1, <3>6, <3>7, <3>8
  <2> QED BY <2>2, <2>3
<1> QED BY <1>1, <1>2, <1>3, <1>4 DEF Placed

LEMMA PlacedMove ==
    ASSUME TypeOK, Placed, NEW w \in Window, NEW from \in Name, NEW to \in Name, NEW parts \in Parts,
           Move(w, from, to, parts), ~crossed'
    PROVE  Placed'
<1> DEFINE task == [op |-> "move", from |-> from, to |-> to, parts |-> parts]
           src(r) == IF r[1] = to /\ r[2] \in parts THEN <<from, r[2]>> ELSE r
<1>1. /\ from # to /\ \A part \in parts : files[<<to, part>>] = None
      /\ files' = [p \in Path |-> IF p[2] \notin parts THEN files[p]
                                  ELSE IF p[1] = to THEN files[<<from, p[2]>>]
                                  ELSE IF p[1] = from THEN None ELSE files[p]]
      /\ Enqueue(w, task)
      /\ ~Crossing(w) /\ UNCHANGED <<gone, index, identity>>
  BY DEF Move
<1>2. task \in Task /\ task.op = "move" /\ task.op # "bind" /\ parts \subseteq Part
  BY DEF Task, Parts, Part
<1>3. \A q : Brings(task, q) <=> q[1] = to /\ q[2] \in parts
  BY DEF Brings
<1>4. \A p, q \in Path :
         Entry(q, p)' <=> IF Brings(task, q) THEN p = <<task.from, q[2]>> ELSE p = q
  BY <1>1, <1>2, ChangeBegins
<1>5. \A p, q \in Path : Entry(q, p)' <=> p = src(q)
  BY <1>3, <1>4
<1>6. \A r \in Path : src(r) \in Path /\ (files'[r] # None => files'[r] = files[src(r)])
  BY <1>1, Paths
<1>7. ASSUME NEW q \in Path, files[q] # None
      PROVE  \E r \in Path : files'[r] = files[q] /\ Entry(r, q)'
  <2>1. CASE q[2] \in parts /\ q[1] = from
    <3> DEFINE r == <<to, q[2]>>
    <3>1. r \in Path /\ src(r) = q /\ r[2] = q[2] /\ r[1] = to /\ q = <<from, q[2]>>
      BY <2>1, Paths
    <3> HIDE DEF r
    <3>2. files'[r] = files[q]
      BY <1>1, <2>1, <3>1
    <3> QED BY <1>5, <3>1, <3>2
  <2>2. CASE ~(q[2] \in parts /\ q[1] = from)
    <3>1. q = <<q[1], q[2]>>
      BY Paths
    <3>2. ~(q[2] \in parts /\ q[1] = to)
      BY <1>1, <1>7, <3>1
    <3>3. files'[q] = files[q] /\ src(q) = q
      BY <1>1, <2>2, <3>2
    <3> QED BY <1>5, <3>3
  <2> QED BY <2>1, <2>2
<1>8. ASSUME NEW p \in Path, NEW q \in Path, files'[p] = files'[q], files'[p] # None PROVE p = q
  <2>1. src(p) = src(q)
    BY <1>6, <1>8 DEF Placed, Apart
  <2>2. p = <<p[1], p[2]>> /\ q = <<q[1], q[2]>>
    BY Paths
  <2>3. ASSUME NEW r \in Path, r[1] = from, r[2] \in parts PROVE files'[r] = None
    BY <1>1, <2>3
  <2> QED BY <1>8, <2>1, <2>2, <2>3
<1>9. LeftBehind(task)'
  <2>1. \A part \in parts : <<from, part>> \in Path
    BY <1>2, Paths
  <2> QED BY <1>1, <1>2, <2>1 DEF LeftBehind
<1> HIDE DEF task, src
<1>10. NewCopy(w, task)'
  BY <1>2 DEF NewCopy
<1>11. Apart(files)'
  BY <1>8 DEF Apart
<1>12. \A p, r \in Path :
          files'[r] # None /\ files'[r] \notin gone' /\ identity[files'[r]] # None /\ Entry(r, p)'
          => files[p] = files'[r]
  BY <1>5, <1>6
<1> QED BY <1>1, <1>2, <1>7, <1>9, <1>10, <1>11, <1>12, ChangePlaced

LEMMA PlacedDelete ==
    ASSUME TypeOK, Placed, NEW w \in Window, NEW name \in Name, NEW parts \in Parts,
           Delete(w, name, parts), ~crossed'
    PROVE  Placed'
<1> DEFINE task == [op |-> "forget", name |-> name, parts |-> parts]
           deleted == {files[<<name, part>>] : part \in parts} \ {None}
<1>1. /\ gone' = gone \cup deleted
      /\ files' = [p \in Path |-> IF p \in {name} \X parts THEN None ELSE files[p]]
      /\ Enqueue(w, task)
      /\ ~Crossing(w) /\ UNCHANGED <<index, identity>>
  BY DEF Delete
<1>2. task \in Task /\ task.op = "forget" /\ task.op # "bind" /\ parts \subseteq Part
  BY DEF Task, Parts, Part
<1>3. \A p, q \in Path : Entry(q, p)' <=> p = q
  <2>1. \A q : ~Brings(task, q)
    BY DEF Brings
  <2> QED BY <1>1, <1>2, <2>1, ChangeBegins
<1>4. ASSUME NEW q \in Path, files[q] # None
      PROVE  files[q] \in gone' \/ \E r \in Path : files'[r] = files[q] /\ Entry(r, q)'
  <2>1. CASE q \in {name} \X parts
    <3>1. files[q] \in deleted
      BY <1>4, <2>1
    <3> QED BY <1>1, <3>1
  <2>2. CASE q \notin {name} \X parts
    BY <1>1, <1>3, <2>2
  <2> QED BY <2>1, <2>2
<1>5. \A p, r \in Path :
         files'[r] # None /\ files'[r] \notin gone' /\ identity[files'[r]] # None /\ Entry(r, p)'
         => files[p] = files'[r]
  BY <1>1, <1>3
<1>6. LeftBehind(task)'
  <2>1. \A part \in parts : <<name, part>> \in Path
    BY <1>2, Paths
  <2> QED BY <1>1, <1>2, <2>1 DEF LeftBehind
<1> HIDE DEF task, deleted
<1>7. NewCopy(w, task)'
  BY <1>2 DEF NewCopy
<1>8. Apart(files)'
  BY <1>1 DEF Apart, Placed
<1> QED BY <1>1, <1>2, <1>4, <1>5, <1>6, <1>7, <1>8, ChangePlaced

\* A copy is a file of its own, which was never saved.
LEMMA PlacedDuplicate ==
    ASSUME TypeOK, Placed, NEW w \in Window, NEW f \in File, NEW p \in Path,
           Duplicate(w, f, p), ~crossed'
    PROVE  Placed'
<1> DEFINE task == [op |-> "copy", path |-> p]
<1>1. /\ files[p] = None /\ f \notin gone /\ \A q \in Path : files[q] # f
      /\ files' = [files EXCEPT ![p] = f]
      /\ Enqueue(w, task)
      /\ ~Crossing(w) /\ UNCHANGED <<gone, index, identity>>
  BY DEF Duplicate
<1>2. task \in Task /\ task.op = "copy" /\ task.op # "bind" /\ task.path = p /\ f # None
  BY DocIndexAssumption DEF Task
<1>3. identity[f] = None
  BY <1>1 DEF Placed, Present, Keeps
<1>4. /\ \A p1, q \in Path : Entry(q, p1) <=> p1 = q
      /\ \A i \in DOMAIN queue'[w] :
            \/ queue'[w][i] = task
            \/ i = 1 /\ i \in DOMAIN queue[w] /\ queue'[w][i] = queue[w][i] /\ queue[w][i].op = "bind"
      /\ \A p1, q \in Path : Entry(q, p1)' <=> p1 = q
  <2>1. \A q : ~Brings(task, q)
    BY DEF Brings
  <2> QED BY <1>1, <1>2, <2>1, ChangeBegins
<1>5. files' \in [Path -> File \cup {None}] /\ files'[p] = f /\ \A q \in Path : q # p => files'[q] = files[q]
  BY <1>1 DEF TypeOK
<1>6. \A q \in Path : files[q] # None => files'[q] = files[q]
  BY <1>1, <1>5
<1>7. \A p1, r \in Path :
         files'[r] # None /\ files'[r] \notin gone' /\ identity[files'[r]] # None /\ Entry(r, p1)'
         => files[p1] = files'[r]
  BY <1>3, <1>4, <1>5
<1>8. LeftBehind(task)'
  BY <1>2 DEF LeftBehind
<1>9. ASSUME NEW j \in DOMAIN queue'[w], queue'[w][j].op = "bind"
      PROVE  queue'[w][j].file # f
  <2>1. j = 1 /\ j \in DOMAIN queue[w] /\ queue'[w][j] = queue[w][j]
    BY <1>2, <1>4, <1>9
  <2>2. \/ queue[w][j].file \in gone
        \/ \E q \in Path : files[q] = queue[w][j].file
    BY <1>9, <2>1 DEF Placed, Ready, SavedThere
  <2> QED BY <1>1, <2>1, <2>2
<1>10. NewCopy(w, task)'
  BY <1>1, <1>2, <1>3, <1>5, <1>9 DEF NewCopy
<1>11. Apart(files)'
  BY <1>1, <1>5 DEF Apart, Placed
<1> HIDE DEF task
<1>12. \A q \in Path : files[q] # None =>
          files[q] \in gone' \/ \E r \in Path : files'[r] = files[q] /\ Entry(r, q)'
  BY <1>4, <1>6
<1> QED BY <1>1, <1>2, <1>7, <1>8, <1>10, <1>11, <1>12, ChangePlaced

LEMMA PlacedPrune ==
    ASSUME TypeOK, Placed, NEW w \in Window, Prune(w), ~crossed'
    PROVE  Placed'
<1> PICK existing \in SUBSET Path : existing = {p \in Path : files[p] # None}
  OBVIOUS
<1> DEFINE task == [op |-> "prune", existing |-> existing]
<1>1. /\ IF existing = {} THEN UNCHANGED queue ELSE Enqueue(w, task)
      /\ ~Crossing(w) /\ UNCHANGED <<files, gone, index, identity>>
  BY DEF Prune, disk
<1>2. CASE existing = {}
  BY <1>1, <1>2, PlacedStays DEF disk
<1>3. CASE existing # {}
  <2>1. Enqueue(w, task)
    BY <1>1, <1>3
  <2>2. task \in Task /\ task.op = "prune" /\ task.op # "bind"
    BY DEF Task
  <2>3. \A p, q \in Path : Entry(q, p)' <=> p = q
    <3>1. \A q : ~Brings(task, q)
      BY DEF Brings
    <3> QED BY <1>1, <2>1, <2>2, <3>1, ChangeBegins
  <2>4. LeftBehind(task)'
    <3>1. task.existing = existing /\ {p \in Path : files'[p] # None} = existing
      BY <1>1
    <3> QED BY <2>2, <3>1 DEF LeftBehind
  <2> HIDE DEF task
  <2>5. NewCopy(w, task)'
    BY <2>2 DEF NewCopy
  <2>6. Apart(files)'
    BY <1>1 DEF Apart, Placed
  <2>7. \A q \in Path : files[q] # None =>
           files[q] \in gone' \/ \E r \in Path : files'[r] = files[q] /\ Entry(r, q)'
    BY <1>1, <2>3
  <2>8. \A p, r \in Path :
           files'[r] # None /\ files'[r] \notin gone' /\ identity[files'[r]] # None /\ Entry(r, p)'
           => files[p] = files'[r]
    BY <1>1, <2>3
  <2> QED BY <1>1, <2>1, <2>2, <2>4, <2>5, <2>6, <2>7, <2>8, ChangePlaced
<1> QED BY <1>2, <1>3

\* Outside, files change while no update is on its way.
LEMMA PlacedOutside ==
    ASSUME TypeOK, Placed, Outside, ~crossed'
    PROVE  Placed'
<1> USE DocIndexAssumption
<1>1. /\ \A w \in Window : queue[w] = <<>> /\ queue'[w] = <<>>
      /\ UNCHANGED <<index, identity>>
  BY DEF Outside, updates
<1>2. PICK p \in Path :
        \/ /\ files[p] # None
           /\ files' = [files EXCEPT ![p] = None]
           /\ gone' = gone \cup {files[p]}
        \/ /\ files[p] = None
           /\ \E f \in File :
                 /\ \A q \in Path : files[q] # f
                 /\ files' = [files EXCEPT ![p] = f]
                 /\ gone' = IF identity[f] = None THEN gone ELSE gone \cup {f}
  BY DEF Outside
<1>3. /\ \A w \in Window : DOMAIN queue[w] = {} /\ DOMAIN queue'[w] = {}
      /\ files \in [Path -> File \cup {None}]
  BY <1>1 DEF TypeOK
<1>4. InLine' /\ Ready'
  BY <1>1, <1>3 DEF InLine, Changing, Ready
<1>5. \A q, r \in Path : (Entry(q, r) <=> q = r) /\ (Entry(q, r)' <=> q = r)
  BY <1>3 DEF Entry, Settled
<1>6. /\ gone \subseteq gone'
      /\ \A q \in Path : q # p => files'[q] = files[q]
      /\ files[p] # None => files'[p] = None /\ files[p] \in gone'
      /\ files[p] = None => /\ files'[p] \in File
                            /\ \A q \in Path : files[q] # files'[p]
                            /\ identity[files'[p]] = None \/ files'[p] \in gone'
  BY <1>2, <1>3
<1>7. Apart(files)'
  BY <1>6 DEF Placed, Apart
<1>8. EntriesFollow'
  <2>1. ASSUME NEW q \in Path, files'[q] # None, Keeps(files[q])' PROVE index'.at[q] = identity'[files'[q]]
    <3>1. files'[q] \notin gone' /\ identity[files'[q]] # None
      BY <1>1, <2>1 DEF Keeps
    <3>2. files'[q] = files[q] /\ files[q] \notin gone
      BY <1>6, <2>1, <3>1
    <3> QED BY <1>1, <1>5, <2>1, <3>1, <3>2 DEF Placed, EntriesFollow, Keeps
  <2> QED BY <1>5, <2>1 DEF EntriesFollow
<1>9. Present'
  <2>1. ASSUME NEW f \in File, Keeps(f)' PROVE \E q \in Path : files'[q] = f
    <3>1. Keeps(f) /\ f \notin gone'
      BY <1>1, <1>6, <2>1 DEF Keeps
    <3>2. PICK q \in Path : files[q] = f
      BY <3>1 DEF Placed, Present
    <3>3. q # p
      BY <1>6, <3>1, <3>2
    <3> QED BY <1>6, <3>2, <3>3
  <2> QED BY <2>1 DEF Present
<1> QED BY <1>4, <1>7, <1>8, <1>9 DEF Placed

\* A save knows the file where it is, and does not find a copy that the index may still have an
\* entry for.
LEMMA PlacedSave ==
    ASSUME TypeOK, Placed, NEW w \in Window, NEW p \in Path, Save(w, p), ~crossed'
    PROVE  Placed'
<1> USE DocIndexAssumption
<1> PICK f \in File : f = files[p]
  BY DEF Save, TypeOK
<1> DEFINE task == [op |-> "bind", path |-> p, file |-> f]
<1> PICK last \in Nat : last = Len(queue[w]) + 1
  BY DEF TypeOK
<1>1. /\ \A i \in DOMAIN queue[w] : queue[w][i].op # "bind"
      /\ \A v \in Window : \A i \in DOMAIN queue[v] : queue[v][i] # [op |-> "copy", path |-> p]
      /\ Enqueue(w, task)
      /\ \A v \in Window : v # w => ~Changing(v)
      /\ UNCHANGED <<files, gone, index, identity>>
  BY DEF Save, disk
<1>2. /\ task \in Task /\ task.op = "bind" /\ task.path = p /\ task.file = f
  BY DEF Task
<1>3. queue \in [Window -> Seq(Task)]
  BY DEF TypeOK
<1>4. /\ queue'[w] = Append(queue[w], task)
      /\ \A v \in Window : v # w => queue'[v] = queue[v]
  BY <1>1, <1>3 DEF Enqueue
<1> HIDE DEF task
<1>5. /\ \A v \in Window : \A i \in DOMAIN queue[v] :
            i \in DOMAIN queue'[v] /\ queue'[v][i] = queue[v][i]
      /\ \A i \in DOMAIN queue'[w] :
            \/ i \in DOMAIN queue[w] /\ queue'[w][i] = queue[w][i]
            \/ i = last /\ queue'[w][i] = task
      /\ last = 1 => queue[w] = <<>>
  <2>1. queue[w] \in Seq(Task)
    BY <1>3
  <2>2. last = 1 => queue[w] = <<>>
    BY <2>1
  <2>3. /\ \A i \in DOMAIN queue[w] : i \in DOMAIN queue'[w] /\ queue'[w][i] = queue[w][i]
        /\ \A i \in DOMAIN queue'[w] : i = last \/ i \in DOMAIN queue[w]
        /\ queue'[w][last] = task
    BY <1>2, <1>4, <2>1, Appended
  <2> QED BY <1>4, <2>2, <2>3
<1>6. \A q : ~Brings(task, q)
  BY <1>2 DEF Brings
<1>7. \A q \in Path : Settled(q)' <=> Settled(q)
  <2>1. \A q \in Path : Settled(q)' <=> \A v \in Window : \A i \in DOMAIN queue'[v] : ~Brings(queue'[v][i], q)
    BY DEF Settled, Brings
  <2> QED BY <1>4, <1>5, <1>6, <2>1 DEF Settled
<1>8. ASSUME NEW r \in Path, NEW q \in Path PROVE Entry(q, r)' <=> Entry(q, r)
  <2>1. (\E v \in Window : \E i \in DOMAIN queue[v] :
            Brings(queue[v][i], q) /\ r = <<queue[v][i].from, q[2]>>)
        <=> (\E v \in Window : \E i \in DOMAIN queue'[v] :
            Brings(queue'[v][i], q) /\ r = <<queue'[v][i].from, q[2]>>)
    BY <1>4, <1>5, <1>6
  <2> QED BY <1>7, <2>1 DEF Entry, Brings
<1>9. InLine'
  <2>1. ASSUME NEW v \in Window, Changing(v)' PROVE \A u \in Window \ {v} : queue'[u] = <<>>
    <3>1. v = w
      BY <1>1, <1>4, <2>1 DEF Changing
    <3>2. Changing(w)
      BY <1>2, <1>5, <2>1, <3>1 DEF Changing
    <3> QED BY <1>4, <3>1, <3>2 DEF Placed, InLine
  <2>2. ASSUME NEW v \in Window, NEW i \in DOMAIN queue'[v], NEW j \in DOMAIN queue'[v],
               queue'[v][i].op = "bind" <=> queue'[v][j].op = "bind"
        PROVE  i = j
    <3>1. CASE v # w
      BY <1>4, <2>2, <3>1 DEF Placed, InLine
    <3>2. CASE v = w
      <4>1. CASE i \in DOMAIN queue[w] /\ j \in DOMAIN queue[w]
        BY <1>5, <2>2, <3>2, <4>1 DEF Placed, InLine
      <4>2. CASE i \notin DOMAIN queue[w] \/ j \notin DOMAIN queue[w]
        BY <1>1, <1>2, <1>5, <2>2, <3>2, <4>2
      <4> QED BY <4>1, <4>2
    <3> QED BY <3>1, <3>2
  <2> QED BY <2>1, <2>2 DEF InLine
<1>10. EntriesFollow'
  BY <1>1, <1>8 DEF Placed, EntriesFollow, Keeps
<1>11. Present' /\ Apart(files)'
  BY <1>1 DEF Placed, Present, Keeps, Apart
<1>12. ASSUME NEW v \in Window, NEW i \in DOMAIN queue[v]
       PROVE  /\ LeftBehind(queue[v][i])'
              /\ NewCopy(v, queue[v][i])'
              /\ SavedThere(i, queue[v][i])'
  <2> PICK old \in Task : old = queue[v][i]
    BY <1>3
  <2>1. LeftBehind(old) /\ NewCopy(v, old) /\ SavedThere(i, old)
    BY DEF Placed, Ready
  <2>2. old = queue'[v][i]
    BY <1>5
  <2>3. LeftBehind(old)'
    BY <1>1, <2>1 DEF LeftBehind
  <2>4. SavedThere(i, old)'
    <3>1. old.op = "bind" => old.path \in Path
      BY DEF Task
    <3> QED BY <1>1, <1>8, <2>1, <3>1 DEF SavedThere
  <2>5. NewCopy(v, old)'
    <3> SUFFICES ASSUME old.op = "copy"
                 PROVE  /\ files'[old.path] # None /\ identity'[files'[old.path]] = None
                        /\ \A j \in DOMAIN queue'[v] :
                              queue'[v][j].op = "bind" => queue'[v][j].file # files'[old.path]
      BY DEF NewCopy
    <3>1. /\ files[old.path] # None /\ identity[files[old.path]] = None
          /\ \A j \in DOMAIN queue[v] :
                queue[v][j].op = "bind" => queue[v][j].file # files[old.path]
      BY <2>1 DEF NewCopy
    <3>2. old = [op |-> "copy", path |-> old.path] /\ old.path \in Path
      BY DEF Task
    <3>3. old.path # p
      BY <1>1, <3>2
    <3>4. f # files[old.path]
      BY <3>1, <3>2, <3>3 DEF Placed, Apart
    <3>5. UNCHANGED <<files, identity>>
      BY <1>1
    <3>6. ASSUME NEW j \in DOMAIN queue'[v], queue'[v][j].op = "bind"
          PROVE  queue'[v][j].file # files[old.path]
      <4>1. CASE j \in DOMAIN queue[v]
        BY <1>5, <3>1, <3>6, <4>1
      <4>2. CASE j \notin DOMAIN queue[v]
        <5>1. v = w /\ queue'[v][j] = task
          BY <1>4, <1>5, <4>2
        <5> QED BY <1>2, <3>4, <5>1
      <4> QED BY <4>1, <4>2
    <3> QED BY <3>1, <3>5, <3>6
  <2> QED BY <2>2, <2>3, <2>4, <2>5
<1>13. LeftBehind(task)' /\ NewCopy(w, task)'
  BY <1>2 DEF LeftBehind, NewCopy
<1>14. SavedThere(last, task)'
  <2>1. CASE last = 1
    <3>1. \A v \in Window : ~Changing(v)
      BY <1>1, <1>5, <2>1 DEF Changing
    <3>2. Settled(p)
      BY <3>1 DEF Settled, Brings, Changing
    <3>3. Entry(p, p)
      BY <3>2 DEF Entry
    <3>4. Entry(p, p)'
      BY <1>8, <3>3
    <3> QED BY <1>1, <1>2, <2>1, <3>4 DEF SavedThere
  <2>2. CASE last # 1
    BY <1>1, <1>2, <2>2 DEF SavedThere
  <2> QED BY <2>1, <2>2
<1>15. Ready'
  <2> SUFFICES ASSUME NEW v \in Window, NEW i \in DOMAIN queue'[v]
               PROVE  /\ LeftBehind(queue[v][i])'
                      /\ NewCopy(v, queue[v][i])'
                      /\ SavedThere(i, queue[v][i])'
    BY DEF Ready
  <2>1. CASE i \in DOMAIN queue[v]
    BY <1>12, <2>1
  <2>2. CASE i \notin DOMAIN queue[v]
    <3>1. v = w /\ i = last /\ queue'[v][i] = task
      BY <1>4, <1>5, <2>2
    <3> QED BY <1>13, <1>14, <3>1
  <2> QED BY <2>1, <2>2
<1> QED BY <1>9, <1>10, <1>11, <1>15 DEF Placed

-----------------------------------------------------------------------------
(* An update is over.                                                      *)

LEMMA EntryOne ==
    ASSUME Placed, NEW q \in Path, NEW p \in Path, NEW r \in Path, Entry(q, p), Entry(q, r)
    PROVE  p = r
<1>1. CASE Settled(q)
  BY <1>1 DEF Entry, Settled
<1>2. CASE ~Settled(q)
  <2>1. PICK v \in Window : \E i \in DOMAIN queue[v] :
           Brings(queue[v][i], q) /\ p = <<queue[v][i].from, q[2]>>
    BY <1>2 DEF Entry
  <2>2. PICK u \in Window : \E j \in DOMAIN queue[u] :
           Brings(queue[u][j], q) /\ r = <<queue[u][j].from, q[2]>>
    BY <1>2 DEF Entry
  <2>3. Changing(v) /\ queue[u] # <<>>
    BY <2>1, <2>2 DEF Changing, Brings
  <2>4. u = v
    BY <2>3 DEF Placed, InLine
  <2>5. PICK i \in DOMAIN queue[v] : Brings(queue[v][i], q) /\ p = <<queue[v][i].from, q[2]>>
    BY <2>1
  <2>6. PICK j \in DOMAIN queue[v] : Brings(queue[v][j], q) /\ r = <<queue[v][j].from, q[2]>>
    BY <2>2, <2>4
  <2>7. i = j
    BY <2>5, <2>6 DEF Placed, InLine, Brings
  <2> QED BY <2>5, <2>6, <2>7
<1> QED BY <1>1, <1>2

Ends(w, task) ==
    queue[w] # <<>> /\ task = Head(queue[w]) /\ queue' = [queue EXCEPT ![w] = Tail(@)]

\* What is left: the other updates, a queue's second one first, and, after a change, no move.
Ended(w, task) ==
    /\ \A v \in Window : \A i \in DOMAIN queue'[v] :
          \E j \in DOMAIN queue[v] :
             queue'[v][i] = queue[v][j] /\ (IF v = w THEN i = 1 /\ j = 2 ELSE j = i)
    /\ task.op # "bind" => \A v \in Window : v # w => queue'[v] = <<>>
    /\ task.op # "bind" => \A p, q \in Path : Entry(q, p)' <=> p = q
    /\ task.op # "bind" => \A p, q \in Path :
          Entry(q, p) <=> IF Brings(task, q) THEN p = <<task.from, q[2]>> ELSE p = q
    /\ task.op = "bind" => \A p, q \in Path : Entry(q, p)' <=> Entry(q, p)

LEMMA UpdateEnds ==
    ASSUME TypeOK, Placed, NEW w \in Window, NEW task \in Task, Ends(w, task)
    PROVE  InLine' /\ LeftBehind(task) /\ NewCopy(w, task) /\ SavedThere(1, task) /\ Ended(w, task)
<1>0. queue[w] # <<>> /\ task = Head(queue[w]) /\ queue' = [queue EXCEPT ![w] = Tail(@)]
  BY DEF Ends
<1>1. queue \in [Window -> Seq(Task)] /\ queue[w] \in Seq(Task)
  BY DEF TypeOK
<1>2. queue'[w] = Tail(queue[w]) /\ \A v \in Window : v # w => queue'[v] = queue[v]
  BY <1>0, <1>1
<1>3. /\ 1 \in DOMAIN queue[w] /\ queue[w][1] = task
      /\ \A i \in DOMAIN queue'[w] : i + 1 \in DOMAIN queue[w] /\ i + 1 # 1 /\ queue'[w][i] = queue[w][i + 1]
      /\ \A i \in DOMAIN queue[w] : i # 1 => i - 1 \in DOMAIN queue'[w] /\ queue'[w][i - 1] = queue[w][i]
      /\ DOMAIN queue'[w] \subseteq Nat
  BY <1>0, <1>1, <1>2, Tailed
<1>4. DOMAIN queue[w] \subseteq {1, 2}
  BY <1>1, TwoAtMost DEF Placed, InLine
<1>5. \A i \in DOMAIN queue'[w] : i = 1 /\ 2 \in DOMAIN queue[w] /\ queue'[w][i] = queue[w][2]
  BY <1>3, <1>4
<1>6. \A i \in DOMAIN queue[w] : i # 1 => i = 2 /\ 1 \in DOMAIN queue'[w] /\ queue'[w][1] = queue[w][i]
  BY <1>3, <1>4
<1>7. \A v \in Window : \A i \in DOMAIN queue'[v] :
         \E j \in DOMAIN queue[v] :
            queue'[v][i] = queue[v][j] /\ (IF v = w THEN i = 1 /\ j = 2 ELSE j = i)
  <2> TAKE v \in Window
  <2>1. CASE v = w
    BY <1>5, <2>1
  <2>2. CASE v # w
    BY <1>2, <2>2
  <2> QED BY <2>1, <2>2
<1>8. InLine'
  <2>1. \A v \in Window : Changing(v)' => Changing(v)
    BY <1>7 DEF Changing
  <2>2. \A v \in Window : queue[v] = <<>> => queue'[v] = <<>>
    BY <1>0, <1>2
  <2>3. ASSUME NEW v \in Window, NEW i \in DOMAIN queue'[v], NEW j \in DOMAIN queue'[v],
               queue'[v][i].op = "bind" <=> queue'[v][j].op = "bind"
        PROVE  i = j
    <3>1. CASE v = w
      BY <1>5, <2>3, <3>1
    <3>2. CASE v # w
      BY <1>2, <2>3, <3>2 DEF Placed, InLine
    <3> QED BY <3>1, <3>2
  <2> QED BY <2>1, <2>2, <2>3 DEF Placed, InLine
<1>9. LeftBehind(task) /\ NewCopy(w, task) /\ SavedThere(1, task)
  BY <1>3 DEF Placed, Ready
<1>10. ASSUME task.op # "bind"
       PROVE  /\ \A v \in Window : v # w => queue'[v] = <<>>
              /\ \A p, q \in Path : Entry(q, p)' <=> p = q
              /\ \A p, q \in Path :
                    Entry(q, p) <=> IF Brings(task, q) THEN p = <<task.from, q[2]>> ELSE p = q
  <2>1. Changing(w)
    BY <1>3, <1>10 DEF Changing
  <2>2. \A v \in Window : v # w => queue[v] = <<>> /\ queue'[v] = <<>>
    BY <1>2, <2>1 DEF Placed, InLine
  <2>3. \A i \in DOMAIN queue[w] : i # 1 => queue[w][i].op = "bind"
    BY <1>3, <1>10 DEF Placed, InLine
  <2>4. \A v \in Window : \A i \in DOMAIN queue'[v] : queue'[v][i].op = "bind"
    BY <1>5, <2>2, <2>3
  <2>5. \A q : \A v \in Window : \A i \in DOMAIN queue'[v] : ~Brings(queue'[v][i], q)
    BY <2>4 DEF Brings
  <2>6. \A q : \A v \in Window : \A i \in DOMAIN queue[v] :
           Brings(queue[v][i], q) => v = w /\ queue[v][i] = task
    <3> TAKE q
    <3> TAKE v \in Window
    <3> TAKE i \in DOMAIN queue[v]
    <3>1. v = w
      BY <2>2
    <3> QED BY <1>3, <2>3, <3>1 DEF Brings
  <2>7. \A p, q \in Path : Entry(q, p)' <=> p = q
    BY <2>5 DEF Entry, Settled, Brings
  <2>8. ASSUME NEW p \in Path, NEW q \in Path
        PROVE  Entry(q, p) <=> IF Brings(task, q) THEN p = <<task.from, q[2]>> ELSE p = q
    <3>1. Settled(q) <=> ~Brings(task, q)
      BY <1>3, <2>6 DEF Settled
    <3> QED BY <1>3, <2>6, <3>1 DEF Entry
  <2> QED BY <2>2, <2>7, <2>8
<1>11. ASSUME task.op = "bind" PROVE \A p, q \in Path : Entry(q, p)' <=> Entry(q, p)
  <2> SUFFICES ASSUME NEW p \in Path, NEW q \in Path PROVE Entry(q, p)' <=> Entry(q, p)
    OBVIOUS
  <2>1. ~Brings(task, q)
    BY <1>11 DEF Brings
  <2>2. \A v \in Window : \A i \in DOMAIN queue[v] :
           Brings(queue[v][i], q) => \E j \in DOMAIN queue'[v] : queue'[v][j] = queue[v][i]
    <3> TAKE v \in Window
    <3> TAKE i \in DOMAIN queue[v]
    <3>1. CASE v = w /\ i = 1
      BY <1>3, <2>1, <3>1
    <3>2. CASE v = w /\ i # 1
      BY <1>6, <3>2
    <3>3. CASE v # w
      BY <1>2, <3>3
    <3> QED BY <3>1, <3>2, <3>3
  <2>3. Settled(q)' <=> \A v \in Window : \A i \in DOMAIN queue'[v] : ~Brings(queue'[v][i], q)
    BY DEF Settled, Brings
  <2>4. Settled(q)' <=> Settled(q)
    BY <1>7, <2>2, <2>3 DEF Settled
  <2>5. (\E v \in Window : \E i \in DOMAIN queue[v] :
            Brings(queue[v][i], q) /\ p = <<queue[v][i].from, q[2]>>)
        <=> (\E v \in Window : \E i \in DOMAIN queue'[v] :
            Brings(queue'[v][i], q) /\ p = <<queue'[v][i].from, q[2]>>)
    BY <1>7, <2>2
  <2> QED BY <2>4, <2>5 DEF Entry, Brings
<1> QED BY <1>7, <1>8, <1>9, <1>10, <1>11 DEF Ended

LEMMA PlacedEnds ==
    ASSUME TypeOK, Placed, NEW w \in Window, NEW task \in Task, Ends(w, task),
           UNCHANGED disk, EntriesFollow',
           \A f \in File : identity'[f] = identity[f] \/ (task.op = "bind" /\ f = task.file)
    PROVE  Placed'
<1> USE DocIndexAssumption
<1>1. files' = files /\ gone' = gone
  BY DEF disk
<1>2. InLine' /\ SavedThere(1, task) /\ Ended(w, task)
  BY UpdateEnds
<1>3. 1 \in DOMAIN queue[w] /\ queue[w][1] = task
  <2>1. queue[w] \in Seq(Task)
    BY DEF TypeOK
  <2> QED BY <2>1, Tailed DEF Ends
<1>4. Present'
  <2> SUFFICES ASSUME NEW f \in File, Keeps(f)' PROVE \E q \in Path : files[q] = f
    BY <1>1 DEF Present, Keeps
  <2>1. f \notin gone /\ identity'[f] # None
    BY <1>1 DEF Keeps
  <2>2. CASE identity'[f] = identity[f]
    BY <2>1, <2>2 DEF Keeps, Placed, Present
  <2>3. CASE task.op = "bind" /\ f = task.file
    BY <1>2, <2>1, <2>3 DEF SavedThere
  <2> QED BY <2>2, <2>3
<1>5. ASSUME NEW v \in Window, NEW i \in DOMAIN queue'[v]
      PROVE  /\ LeftBehind(queue[v][i])'
             /\ NewCopy(v, queue[v][i])'
             /\ SavedThere(i, queue[v][i])'
  <2>1. PICK j \in DOMAIN queue[v] :
           queue'[v][i] = queue[v][j] /\ (IF v = w THEN i = 1 /\ j = 2 ELSE j = i)
    BY <1>2 DEF Ended
  <2> PICK old \in Task : old = queue[v][j]
    BY <2>1 DEF TypeOK
  <2>2. LeftBehind(old) /\ NewCopy(v, old) /\ SavedThere(j, old)
    BY <2>1 DEF Placed, Ready
  <2>3. old = queue'[v][i]
    BY <2>1
  <2>4. LeftBehind(old)'
    BY <1>1, <2>2 DEF LeftBehind
  <2>5. NewCopy(v, old)'
    <3> SUFFICES ASSUME old.op = "copy"
                 PROVE  /\ files'[old.path] # None /\ identity'[files'[old.path]] = None
                        /\ \A k \in DOMAIN queue'[v] :
                              queue'[v][k].op = "bind" => queue'[v][k].file # files'[old.path]
      BY DEF NewCopy
    <3>1. /\ files[old.path] # None /\ identity[files[old.path]] = None
          /\ \A k \in DOMAIN queue[v] :
                queue[v][k].op = "bind" => queue[v][k].file # files[old.path]
      BY <2>2 DEF NewCopy
    <3>2. Changing(v) /\ old.path \in Path
      BY <2>1 DEF Changing, Task
    <3>3. v = w
      BY <3>2 DEF Placed, InLine, Ends
    <3>4. task.op = "bind" => task.file # files[old.path]
      BY <1>3, <3>1, <3>3
    <3>5. files[old.path] \in File
      BY <3>1, <3>2 DEF TypeOK
    <3>6. identity'[files[old.path]] = None
      BY <3>1, <3>4, <3>5
    <3>7. \A k \in DOMAIN queue'[v] :
             queue'[v][k].op = "bind" => queue'[v][k].file # files[old.path]
      BY <1>2, <3>1, <3>3 DEF Ended
    <3> QED BY <1>1, <3>1, <3>6, <3>7
  <2>6. SavedThere(i, old)'
    <3> SUFFICES ASSUME old.op = "bind" PROVE SavedThere(i, old)'
      BY DEF SavedThere
    <3>1. old.path \in Path /\ old.file \in File
      BY DEF Task
    <3>2. CASE v = w
      <4>1. i = 1 /\ j = 2
        BY <2>1, <3>2
      <4>2. task.op # "bind"
        BY <1>3, <2>1, <3>2, <4>1 DEF Placed, InLine
      <4>3. old.file \in gone \/ files[old.path] = old.file
        BY <2>2, <4>1 DEF SavedThere
      <4>4. Entry(old.path, old.path)'
        BY <1>2, <3>1, <4>2 DEF Ended
      <4> QED BY <1>1, <3>1, <4>1, <4>3, <4>4 DEF SavedThere
    <3>3. CASE v # w
      <4>1. i = j
        BY <2>1, <3>3
      <4>2. task.op = "bind"
        BY <1>2, <3>3 DEF Ended
      <4>3. \A q \in Path : Entry(q, old.path)' <=> Entry(q, old.path)
        BY <1>2, <3>1, <4>2 DEF Ended
      <4> QED BY <1>1, <2>2, <4>1, <4>3 DEF SavedThere
    <3> QED BY <3>2, <3>3
  <2> QED BY <2>3, <2>4, <2>5, <2>6
<1>6. Ready'
  BY <1>5 DEF Ready
<1>7. Apart(files)'
  BY <1>1 DEF Placed, Apart
<1> QED BY <1>2, <1>4, <1>6, <1>7 DEF Placed

\* A save's id is its file's: the one that the file has, or else its first.
LEMMA EntriesBound ==
    ASSUME TypeOK, Placed, NEW w \in Window, NEW task \in Task, Ends(w, task), UNCHANGED disk,
           NEW id \in Id \cup {None}, task.op = "bind",
           index' = Changed(task, index, id), index' \in Index, index'.at[task.path] # None,
           identity' = IF identity[task.file] = None
                       THEN [identity EXCEPT ![task.file] = index'.at[task.path]] ELSE identity
    PROVE  EntriesFollow'
<1> USE DocIndexAssumption
<1>1. files' = files /\ gone' = gone
  BY DEF disk
<1>2. task.path \in Path /\ task.file \in File
  BY DEF Task
<1>3. \A p \in Path : index'.at[p] = index.at[p] \/ (p = task.path /\ index.at[p] = None)
  BY <1>2 DEF Changed, WithEntry, TypeOK, Index
<1>4. SavedThere(1, task) /\ \A p, q \in Path : Entry(q, p)' <=> Entry(q, p)
  BY UpdateEnds DEF Ended
<1>5. ASSUME NEW p \in Path, NEW q \in Path, files'[q] # None, Keeps(files[q])', Entry(q, p)'
      PROVE  index'.at[p] = identity'[files'[q]]
  <2> PICK f \in File : f = files[q]
    BY <1>1, <1>5 DEF TypeOK
  <2>1. f \notin gone /\ identity'[f] # None /\ Entry(q, p)
    BY <1>1, <1>4, <1>5 DEF Keeps
  <2>2. identity[f] # None => index.at[p] = identity[f]
    BY <2>1 DEF Placed, EntriesFollow, Keeps
  <2>3. CASE f # task.file
    <3>1. identity'[f] = identity[f]
      BY <1>2, <2>3 DEF TypeOK
    <3> QED BY <1>1, <1>3, <2>1, <2>2, <3>1
  <2>4. CASE f = task.file
    <3>1. PICK r \in Path : files[r] = f /\ Entry(r, task.path)
      BY <1>4, <2>1, <2>4 DEF SavedThere
    <3>2. r = q
      BY <3>1 DEF Placed, Apart
    <3>3. p = task.path
      BY <1>2, <2>1, <3>1, <3>2, EntryOne
    <3>4. CASE identity[f] = None
      BY <1>1, <1>2, <2>4, <3>3, <3>4 DEF TypeOK
    <3>5. CASE identity[f] # None
      BY <1>1, <1>3, <2>2, <2>4, <3>5
    <3> QED BY <3>4, <3>5
  <2> QED BY <2>3, <2>4
<1> QED BY <1>5 DEF EntriesFollow

\* A change takes the entries to where the files are by now.
LEMMA EntriesChanged ==
    ASSUME TypeOK, Placed, NEW w \in Window, NEW task \in Task, Ends(w, task), UNCHANGED disk,
           NEW id \in Id \cup {None}, task.op # "bind",
           index' = Changed(task, index, id), UNCHANGED identity
    PROVE  EntriesFollow'
<1> USE DocIndexAssumption
<1>1. files' = files /\ gone' = gone
  BY DEF disk
<1>2. /\ LeftBehind(task) /\ NewCopy(w, task)
      /\ \A p, q \in Path : Entry(q, p)' <=> p = q
      /\ \A p, q \in Path :
            Entry(q, p) <=> IF Brings(task, q) THEN p = <<task.from, q[2]>> ELSE p = q
  BY UpdateEnds DEF Ended
<1>3. index.at \in [Path -> Id \cup {None}]
  BY DEF TypeOK, Index
<1>4. ASSUME NEW q \in Path, files[q] # None, Keeps(files[q])
      PROVE  index'.at[q] = identity[files[q]]
  <2>1. \A p \in Path : Entry(q, p) => index.at[p] = identity[files[q]]
    BY <1>4 DEF Placed, EntriesFollow
  <2>2. identity[files[q]] # None
    BY <1>4 DEF Keeps
  <2>3. q = <<q[1], q[2]>> /\ q[2] \in Part
    BY Paths
  <2>4. CASE task.op = "move"
    <3>1. task.from \in Name /\ task.to \in Name /\ task.parts \subseteq Part
      BY <2>4, TaskParts
    <3>2. index' = RemapEntries(index, task.from, task.to, task.parts)
      BY <2>4 DEF Changed
    <3>3. index'.at[q] = IF q[2] \notin task.parts THEN index.at[q]
                         ELSE IF q[1] = task.to /\ index.at[<<task.from, q[2]>>] # None
                              THEN index.at[<<task.from, q[2]>>]
                         ELSE IF q[1] = task.from THEN None
                         ELSE index.at[q]
      BY <1>3, <3>2 DEF RemapEntries, TypeOK, Index
    <3>4. CASE Brings(task, q)
      <4>1. <<task.from, q[2]>> \in Path
        BY <2>3, <3>1, Paths
      <4>2. index.at[<<task.from, q[2]>>] = identity[files[q]]
        BY <1>2, <2>1, <3>4, <4>1
      <4> QED BY <2>2, <3>3, <3>4, <4>2 DEF Brings
    <3>5. CASE ~Brings(task, q)
      <4>1. index.at[q] = identity[files[q]]
        BY <1>2, <2>1, <3>5
      <4>2. ~(q[2] \in task.parts /\ q[1] = task.to)
        BY <2>4, <3>5 DEF Brings
      <4>3. ~(q[2] \in task.parts /\ q[1] = task.from)
        BY <1>2, <1>4, <2>3, <2>4 DEF LeftBehind
      <4> QED BY <3>3, <4>1, <4>2, <4>3
    <3> QED BY <3>4, <3>5
  <2>5. CASE task.op # "move"
    <3>1. index.at[q] = identity[files[q]]
      BY <1>2, <2>1, <2>5 DEF Brings
    <3>2. CASE task.op = "forget"
      <4>1. q \notin {task.name} \X task.parts
        BY <1>2, <1>4, <2>3, <3>2 DEF LeftBehind
      <4>2. index' = BuryEntries(index, {task.name} \X task.parts)
        BY <3>2 DEF Changed
      <4> QED BY <3>1, <4>1, <4>2 DEF BuryEntries
    <3>3. CASE task.op = "prune"
      <4>1. q \in task.existing
        BY <1>2, <1>4, <3>3 DEF LeftBehind
      <4>2. index' = PruneEntries(index, task.existing)
        BY <3>3 DEF Changed
      <4> QED BY <3>1, <4>1, <4>2 DEF PruneEntries
    <3>4. CASE task.op = "copy"
      <4>1. q # task.path
        BY <1>2, <2>2, <3>4 DEF NewCopy
      <4>2. index' = RemoveEntries(index, task.path)
        BY <3>4 DEF Changed
      <4> QED BY <1>3, <3>1, <4>1, <4>2 DEF RemoveEntries, TypeOK, Index
    <3>5. task.op \in {"forget", "prune", "copy"}
      BY <2>5 DEF Task
    <3> QED BY <3>2, <3>3, <3>4, <3>5
  <2> QED BY <2>4, <2>5
<1>5. ASSUME NEW p \in Path, NEW q \in Path, files'[q] # None, Keeps(files[q])', Entry(q, p)'
      PROVE  index'.at[p] = identity'[files'[q]]
  <2>1. p = q /\ Keeps(files[q])
    BY <1>1, <1>2, <1>5 DEF Keeps
  <2> QED BY <1>1, <1>4, <1>5, <2>1
<1> QED BY <1>5 DEF EntriesFollow

LEMMA FollowingDone ==
    ASSUME TypeOK, Placed, StoresFollow, NEW w \in Window, NEW task \in Task, queue[w] # <<>>,
           task = Head(queue[w]), Done(w, index, index'), UNCHANGED <<disk, store>>,
           NEW id \in Id \cup {None}, index' = Changed(task, index, id), index' \in Index,
           task.op = "bind" => index'.at[task.path] # None
    PROVE  Placed' /\ StoresFollow'
<1> USE DocIndexAssumption
<1>1. Ends(w, task) /\ UNCHANGED disk /\ gone' = gone /\ store' = store /\ files' = files
  BY DEF Done, Ends, disk
<1>2. CASE task.op # "bind"
  <2>1. UNCHANGED <<bound, identity>>
    BY <1>2 DEF Done
  <2>2. EntriesFollow'
    BY <1>1, <1>2, <2>1, EntriesChanged
  <2>3. Placed'
    BY <1>1, <2>1, <2>2, PlacedEnds
  <2>4. StoresFollow'
    BY <1>1, <2>1, StoresStay
  <2> QED BY <2>3, <2>4
<1>3. CASE task.op = "bind"
  <2>1. task.path \in Path /\ task.file \in File /\ index'.at[task.path] \in Id
    BY <1>3 DEF Task, Index
  <2>2. /\ bound' = [bound EXCEPT ![w] = [id |-> index'.at[task.path], file |-> task.file]]
        /\ identity' = IF identity[task.file] = None
                       THEN [identity EXCEPT ![task.file] = index'.at[task.path]] ELSE identity
    BY <1>3 DEF Done
  <2>3. EntriesFollow'
    BY <1>1, <1>3, <2>2, EntriesBound
  <2>4. \A f \in File : /\ identity'[f] = identity[f] \/ f = task.file
                        /\ identity[f] # None => identity'[f] = identity[f]
    BY <2>1, <2>2 DEF TypeOK
  <2>5. Placed'
    BY <1>1, <1>3, <2>3, <2>4, PlacedEnds
  <2>6. identity'[task.file] # None
    BY <2>1, <2>2 DEF TypeOK
  <2>7. task.file \notin gone => identity'[task.file] = index'.at[task.path]
    <3> HAVE task.file \notin gone
    <3>1. SavedThere(1, task) /\ \A p, q \in Path : Entry(q, p)' <=> Entry(q, p)
      BY <1>1, <1>3, UpdateEnds DEF Ended
    <3>2. PICK q \in Path : files[q] = task.file /\ Entry(q, task.path)
      BY <1>3, <3>1 DEF SavedThere
    <3>3. Entry(q, task.path)' /\ files'[q] = task.file /\ files'[q] # None
      BY <1>1, <2>1, <3>1, <3>2
    <3>4. Keeps(files[q])'
      BY <1>1, <2>6, <3>3 DEF Keeps
    <3> QED BY <2>1, <2>3, <3>3, <3>4 DEF EntriesFollow
  <2>8. ASSUME NEW v \in Window, bound'[v] # None, bound'[v].file \notin gone'
        PROVE  identity'[bound'[v].file] = bound'[v].id
    <3>1. CASE v = w
      <4>1. bound'[w] = [id |-> index'.at[task.path], file |-> task.file]
        BY <2>2 DEF TypeOK
      <4>2. bound'[w].id = index'.at[task.path] /\ bound'[w].file = task.file
        BY <4>1
      <4> QED BY <1>1, <2>7, <2>8, <3>1, <4>2
    <3>2. CASE v # w
      <4>1. bound'[v] = bound[v]
        BY <2>2, <3>2 DEF TypeOK
      <4>2. bound[v].file \in File /\ bound[v].id \in Id
        BY <2>8, <4>1 DEF TypeOK
      <4>3. identity[bound[v].file] = bound[v].id
        BY <1>1, <2>8, <4>1 DEF StoresFollow
      <4> QED BY <2>4, <4>1, <4>2, <4>3
    <3> QED BY <3>1, <3>2
  <2>9. ASSUME NEW e \in Id, store'[e] # None, store'[e] \notin gone' PROVE identity'[store'[e]] = e
    <3>1. store[e] \in File /\ identity[store[e]] = e
      BY <1>1, <2>9 DEF TypeOK, StoresFollow
    <3> QED BY <1>1, <2>4, <3>1
  <2>10. StoresFollow'
    BY <2>8, <2>9 DEF StoresFollow
  <2> QED BY <2>5, <2>10
<1> QED BY <1>2, <1>3

-----------------------------------------------------------------------------
(* The ids follow the files.                                               *)

\* What an update read and would write stays while it is under way.
LEMMA IntendsBeside ==
    ASSUME TypeOK, Intends,
           \A w \in Window : reading'[w] # None =>
              reading'[w] = reading[w] /\ Head(queue'[w]) = Head(queue[w])
    PROVE  Intends'
<1> SUFFICES ASSUME NEW w \in Window, reading'[w] # None
             PROVE  \E id \in Id \cup {None} :
                       reading'[w].after = Changed(Head(queue'[w]), reading'[w].before, id)
  BY DEF Intends
<1>1. reading'[w] = reading[w] /\ Head(queue'[w]) = Head(queue[w])
  OBVIOUS
<1> QED BY <1>1 DEF Intends

LEMMA IntendsEnqueue ==
    ASSUME TypeOK, Names, Intends, NEW w \in Window, NEW task \in Task, Enqueue(w, task),
           UNCHANGED reading
    PROVE  Intends'
<1>1. \A v \in Window : reading[v] # None => Head(queue'[v]) = Head(queue[v])
  <2> TAKE v \in Window
  <2> HAVE reading[v] # None
  <2>1. queue[v] # <<>> /\ queue[v] \in Seq(Task)
    BY DEF Names, Readings, TypeOK
  <2>2. queue'[v] = IF v = w THEN Append(queue[v], task) ELSE queue[v]
    BY DEF Enqueue, TypeOK
  <2> QED BY <2>1, <2>2, Queues
<1> QED BY <1>1, IntendsBeside

LEMMA IntendsDone ==
    ASSUME TypeOK, Intends, NEW w \in Window, NEW before, NEW after, Done(w, before, after)
    PROVE  Intends'
<1>1. \A v \in Window : reading'[v] # None =>
         reading'[v] = reading[v] /\ Head(queue'[v]) = Head(queue[v])
  BY DEF Done, TypeOK
<1> QED BY <1>1, IntendsBeside

LEMMA IntendsReadIndex ==
    ASSUME TypeOK, Intends, NEW w \in Window, NEW id \in Id \cup {None}, ReadIndex(w, id)
    PROVE  Intends'
<1> DEFINE after == Changed(Head(queue[w]), index, id)
<1>1. CASE after = index /\ Done(w, index, index)
  BY <1>1, IntendsDone
<1>2. CASE after # index
  <2>1. reading' = [reading EXCEPT ![w] = [before |-> index, after |-> after]] /\ UNCHANGED queue
    BY <1>2 DEF ReadIndex, Done
  <2> HIDE DEF after
  <2>2. /\ reading'[w].before = index /\ reading'[w].after = after
        /\ \A v \in Window : v # w => reading'[v] = reading[v]
    BY <2>1 DEF TypeOK
  <2>3. reading'[w].after = Changed(Head(queue'[w]), reading'[w].before, id)
    BY <2>1, <2>2 DEF after
  <2>4. ASSUME NEW v \in Window, v # w, reading'[v] # None
        PROVE  \E e \in Id \cup {None} :
                  reading'[v].after = Changed(Head(queue'[v]), reading'[v].before, e)
    <3>1. reading'[v] = reading[v] /\ queue'[v] = queue[v]
      BY <2>1, <2>2, <2>4
    <3> QED BY <2>4, <3>1 DEF Intends
  <2> QED BY <2>3, <2>4 DEF Intends
<1> QED BY <1>1, <1>2 DEF ReadIndex

LEMMA FollowingReadIndex ==
    ASSUME TypeOK, Following, NEW w \in Window, NEW id \in Id \cup {None}, ReadIndex(w, id)
    PROVE  Following'
<1> PICK task \in Task : task = Head(queue[w])
  BY Reads
<1> DEFINE after == Changed(task, index, id)
<1>1. after \in Index /\ (task.op = "bind" => after.at[task.path] # None)
  BY Reads
<1>2. UNCHANGED <<disk, index, store, crossed>> /\ queue[w] # <<>>
  BY DEF ReadIndex
<1>3. CASE crossed
  BY <1>2, <1>3 DEF Following
<1>4. CASE ~crossed
  <2>1. Placed /\ StoresFollow
    BY <1>4 DEF Following
  <2>2. CASE after = index /\ Done(w, index, index)
    <3>1. index' = Changed(task, index, id) /\ index' \in Index /\ Done(w, index, index')
          /\ (task.op = "bind" => index'.at[task.path] # None)
      BY <1>1, <1>2, <2>2
    <3>2. Placed' /\ StoresFollow'
      BY <1>2, <2>1, <3>1, FollowingDone
    <3> QED BY <3>2 DEF Following
  <2>3. CASE after # index
    <3>1. UNCHANGED <<queue, bound, identity>>
      BY <2>3 DEF ReadIndex, Done
    <3>2. Placed'
      BY <1>2, <2>1, <3>1, PlacedStays
    <3>3. StoresFollow'
      BY <1>2, <2>1, <3>1, StoresStay DEF disk
    <3> QED BY <3>2, <3>3 DEF Following
  <2> QED BY <2>2, <2>3 DEF ReadIndex
<1> QED BY <1>3, <1>4

LEMMA FollowingWriteIndex ==
    ASSUME TypeOK, Names, Intends, Following, NEW w \in Window, WriteIndex(w)
    PROVE  Following'
<1>1. /\ UNCHANGED <<disk, store, crossed>> /\ queue[w] # <<>> /\ reading[w] # None
      /\ index = reading[w].before /\ index' = reading[w].after
      /\ Done(w, reading[w].before, reading[w].after)
  BY DEF WriteIndex, StillAt
<1> PICK task \in Task : task = Head(queue[w])
  BY <1>1, Queues DEF TypeOK
<1>2. PICK id \in Id \cup {None} : index' = Changed(task, index, id)
  BY <1>1 DEF Intends
<1>3. Done(w, index, index')
  BY <1>1
<1>4. index' \in Index /\ (task.op = "bind" => index'.at[task.path] # None)
  BY <1>1 DEF TypeOK, Names, Readings
<1>5. CASE crossed
  BY <1>1, <1>5 DEF Following
<1>6. CASE ~crossed
  <2>1. Placed /\ StoresFollow
    BY <1>6 DEF Following
  <2>2. Placed' /\ StoresFollow'
    BY <1>1, <1>2, <1>3, <1>4, <2>1, FollowingDone
  <2> QED BY <2>2 DEF Following
<1> QED BY <1>5, <1>6

LEMMA IntendsStep == TypeOK /\ Names /\ Intends /\ [Next]_vars => Intends'
<1> SUFFICES ASSUME TypeOK, Names, Intends, [Next]_vars PROVE Intends'
  OBVIOUS
<1>1. CASE Outside
  BY <1>1, IntendsBeside DEF Outside, updates
<1>2. ASSUME NEW w \in Window, NEW from \in Name, NEW to \in Name, NEW parts \in Parts,
             Move(w, from, to, parts)
      PROVE  Intends'
  <2>1. [op |-> "move", from |-> from, to |-> to, parts |-> parts] \in Task
    BY DEF Task
  <2> QED BY <1>2, <2>1, IntendsEnqueue DEF Move
<1>3. ASSUME NEW w \in Window, NEW name \in Name, NEW parts \in Parts, Delete(w, name, parts)
      PROVE  Intends'
  <2>1. [op |-> "forget", name |-> name, parts |-> parts] \in Task
    BY DEF Task
  <2> QED BY <1>3, <2>1, IntendsEnqueue DEF Delete
<1>4. ASSUME NEW w \in Window, NEW f \in File, NEW p \in Path, Duplicate(w, f, p)
      PROVE  Intends'
  <2>1. [op |-> "copy", path |-> p] \in Task
    BY DEF Task
  <2> QED BY <1>4, <2>1, IntendsEnqueue DEF Duplicate
<1>5. ASSUME NEW w \in Window, NEW p \in Path, Save(w, p)
      PROVE  Intends'
  <2>1. [op |-> "bind", path |-> p, file |-> files[p]] \in Task
    BY <1>5 DEF Save, Task, TypeOK
  <2> QED BY <1>5, <2>1, IntendsEnqueue DEF Save
<1>6. ASSUME NEW w \in Window, Prune(w)
      PROVE  Intends'
  <2> DEFINE existing == {p \in Path : files[p] # None}
  <2>1. CASE existing = {}
    BY <1>6, <2>1, IntendsBeside DEF Prune
  <2>2. CASE existing # {}
    <3>1. [op |-> "prune", existing |-> existing] \in Task
      BY DEF Task
    <3> QED BY <1>6, <2>2, <3>1, IntendsEnqueue DEF Prune
  <2> QED BY <2>1, <2>2
<1>7. ASSUME NEW w \in Window, Conflict(w) \/ WindowGone(w)
      PROVE  Intends'
  <2>1. /\ \A v \in Window : reading'[v] # None => v # w /\ reading'[v] = reading[v]
        /\ \A v \in Window : v # w => queue'[v] = queue[v]
    BY <1>7 DEF Conflict, WindowGone, TypeOK
  <2> QED BY <2>1, IntendsBeside
<1>8. ASSUME NEW w \in Window, StoreReplica(w)
      PROVE  Intends'
  BY <1>8, IntendsBeside DEF StoreReplica, updates
<1>9. ASSUME NEW w \in Window, NEW id \in Id, DropEntry(w, id)
      PROVE  Intends'
  BY <1>9, IntendsBeside DEF DropEntry, updates
<1>10. ASSUME NEW w \in Window, WriteIndex(w)
       PROVE  Intends'
  BY <1>10, IntendsDone DEF WriteIndex
<1>11. CASE UNCHANGED vars
  BY <1>11, IntendsBeside DEF vars, updates
<1> QED BY <1>1, <1>2, <1>3, <1>4, <1>5, <1>6, <1>7, <1>8, <1>9, <1>10, <1>11,
           IntendsReadIndex DEF Next

LEMMA FollowingStep == TypeOK /\ Names /\ Intends /\ Following /\ [Next]_vars => Following'
<1> SUFFICES ASSUME TypeOK, Names, Intends, Following, [Next]_vars PROVE Following'
  OBVIOUS
<1>1. CASE crossed'
  BY <1>1 DEF Following
<1>2. CASE ~crossed' /\ crossed
  <2>1. ~Outside /\ ~UNCHANGED vars
    BY <1>2 DEF Outside, vars
  <2>2. ASSUME NEW w \in Window,
               \/ \E from, to \in Name, parts \in Parts : Move(w, from, to, parts)
               \/ \E name \in Name, parts \in Parts : Delete(w, name, parts)
               \/ \E f \in File, p \in Path : Duplicate(w, f, p)
               \/ \E p \in Path : Save(w, p)
               \/ Prune(w)
        PROVE  FALSE
    BY <1>2, <2>2 DEF Move, Delete, Duplicate, Save, Prune
  <2>3. ASSUME NEW w \in Window,
               \/ \E id \in Id \cup {None} : ReadIndex(w, id)
               \/ \E id \in Id : DropEntry(w, id)
               \/ WriteIndex(w) \/ Conflict(w) \/ StoreReplica(w) \/ WindowGone(w)
        PROVE  FALSE
    BY <1>2, <2>3 DEF ReadIndex, DropEntry, WriteIndex, Conflict, StoreReplica, WindowGone
  <2> QED BY <2>1, <2>2, <2>3 DEF Next
<1>3. CASE ~crossed' /\ ~crossed
  <2>1. Placed /\ StoresFollow
    BY <1>3 DEF Following
  <2> SUFFICES ASSUME ~Following' PROVE FALSE
    OBVIOUS
  <2>2. ASSUME Placed', UNCHANGED <<identity, store, bound>>, gone \subseteq gone' PROVE FALSE
    <3>1. StoresFollow'
      BY <2>1, <2>2, StoresStay
    <3> QED BY <2>2, <3>1 DEF Following
  <2>3. ASSUME StoresFollow', UNCHANGED <<queue, disk, identity, index>> PROVE FALSE
    <3>1. Placed'
      BY <2>1, <2>3, PlacedStays
    <3> QED BY <2>3, <3>1 DEF Following
  <2>4. ASSUME Outside PROVE FALSE
    <3>1. Placed'
      BY <1>3, <2>1, <2>4, PlacedOutside
    <3>2. UNCHANGED <<identity, store, bound>> /\ gone \subseteq gone'
      BY <2>4 DEF Outside
    <3> QED BY <2>2, <3>1, <3>2
  <2>5. ASSUME NEW w \in Window, NEW from \in Name, NEW to \in Name, NEW parts \in Parts,
               Move(w, from, to, parts)
        PROVE  FALSE
    <3>1. Placed'
      BY <1>3, <2>1, <2>5, PlacedMove
    <3> QED BY <2>2, <2>5, <3>1 DEF Move
  <2>6. ASSUME NEW w \in Window, NEW name \in Name, NEW parts \in Parts, Delete(w, name, parts)
        PROVE  FALSE
    <3>1. Placed'
      BY <1>3, <2>1, <2>6, PlacedDelete
    <3>2. UNCHANGED <<identity, store, bound>> /\ gone \subseteq gone'
      BY <2>6 DEF Delete
    <3> QED BY <2>2, <3>1, <3>2
  <2>7. ASSUME NEW w \in Window, NEW f \in File, NEW p \in Path, Duplicate(w, f, p)
        PROVE  FALSE
    <3>1. Placed'
      BY <1>3, <2>1, <2>7, PlacedDuplicate
    <3> QED BY <2>2, <2>7, <3>1 DEF Duplicate
  <2>8. ASSUME NEW w \in Window, NEW p \in Path, Save(w, p)
        PROVE  FALSE
    <3>1. Placed'
      BY <1>3, <2>1, <2>8, PlacedSave
    <3> QED BY <2>2, <2>8, <3>1 DEF Save, disk
  <2>9. ASSUME NEW w \in Window, Prune(w)
        PROVE  FALSE
    <3>1. Placed'
      BY <1>3, <2>1, <2>9, PlacedPrune
    <3> QED BY <2>2, <2>9, <3>1 DEF Prune, disk
  <2>10. ASSUME NEW w \in Window, Conflict(w)
         PROVE  FALSE
    <3>1. UNCHANGED <<queue, disk, identity, index, store, bound>>
      BY <1>3, <2>10 DEF Conflict
    <3>2. StoresFollow'
      BY <2>1, <3>1, StoresStay DEF disk
    <3> QED BY <2>3, <3>1, <3>2
  <2>11. ASSUME NEW w \in Window, WindowGone(w)
         PROVE  FALSE
    <3>1. /\ UNCHANGED <<disk, identity, index, store>> /\ queue[w] = <<>>
          /\ queue' = [queue EXCEPT ![w] = <<>>] /\ bound' = [bound EXCEPT ![w] = None]
      BY <1>3, <2>11 DEF WindowGone
    <3>2. queue' = queue /\ \A v \in Window : bound'[v] = bound[v] \/ bound'[v] = None
      BY <3>1 DEF TypeOK
    <3>3. StoresFollow'
      BY <2>1, <3>1, <3>2, StoresStay DEF disk
    <3> QED BY <2>3, <3>1, <3>2, <3>3
  <2>12. ASSUME NEW w \in Window, NEW id \in Id, DropEntry(w, id)
         PROVE  FALSE
    <3>1. /\ UNCHANGED <<queue, disk, identity, index, bound>>
          /\ store' \in {store, [store EXCEPT ![id] = None]}
      BY <2>12 DEF DropEntry, updates
    <3>2. \A e \in Id : store'[e] = store[e] \/ store'[e] = None
      BY <3>1 DEF TypeOK
    <3>3. StoresFollow'
      BY <2>1, <3>1, <3>2, StoresStay DEF disk
    <3> QED BY <2>3, <3>1, <3>3
  <2>13. ASSUME NEW w \in Window, StoreReplica(w)
         PROVE  FALSE
    <3>1. /\ UNCHANGED <<queue, disk, identity, index>> /\ bound[w] # None
          /\ store' = [store EXCEPT ![bound[w].id] = bound[w].file]
          /\ bound' = [bound EXCEPT ![w] = None]
      BY <2>13 DEF StoreReplica, updates
    <3>2. gone' = gone /\ bound[w].file \in File /\ bound[w].id \in Id
      BY <3>1 DEF TypeOK, disk
    <3>3. ASSUME NEW e \in Id, store'[e] # None, store'[e] \notin gone'
          PROVE  identity'[store'[e]] = e
      <4>1. CASE e = bound[w].id
        BY <2>1, <3>1, <3>2, <3>3, <4>1 DEF TypeOK, StoresFollow
      <4>2. CASE e # bound[w].id
        BY <2>1, <3>1, <3>2, <3>3, <4>2 DEF TypeOK, StoresFollow
      <4> QED BY <4>1, <4>2
    <3>4. ASSUME NEW v \in Window, bound'[v] # None, bound'[v].file \notin gone'
          PROVE  identity'[bound'[v].file] = bound'[v].id
      <4>1. bound'[v] = bound[v]
        BY <3>1, <3>4 DEF TypeOK
      <4> QED BY <2>1, <3>1, <3>2, <3>4, <4>1 DEF StoresFollow
    <3>5. StoresFollow'
      BY <3>3, <3>4 DEF StoresFollow
    <3> QED BY <2>3, <3>1, <3>5
  <2>14. ASSUME UNCHANGED vars PROVE FALSE
    <3>1. UNCHANGED <<queue, disk, identity, index, store, bound>>
      BY <2>14 DEF vars, updates
    <3>2. StoresFollow'
      BY <2>1, <3>1, StoresStay DEF disk
    <3> QED BY <2>3, <3>1, <3>2
  <2> QED BY <2>4, <2>5, <2>6, <2>7, <2>8, <2>9, <2>10, <2>11, <2>12, <2>13, <2>14,
             FollowingReadIndex, FollowingWriteIndex DEF Next
<1> QED BY <1>1, <1>2, <1>3

LEMMA FollowingInit == Init => Following /\ Intends
<1> SUFFICES ASSUME Init PROVE Following /\ Intends
  OBVIOUS
<1>1. \A w \in Window : DOMAIN queue[w] = {} /\ queue[w] = <<>>
  BY DEF Init
<1>2. /\ \A f \in File : identity[f] = None
      /\ \A id \in Id : store[id] = None
      /\ \A w \in Window : bound[w] = None /\ reading[w] = None
      /\ files \in [Path -> File \cup {None}] /\ Apart(files)
  BY DEF Init
<1>3. InLine /\ Ready
  BY <1>1 DEF InLine, Changing, Ready
<1>4. EntriesFollow /\ Present
  BY <1>2 DEF EntriesFollow, Present, Keeps
<1>5. StoresFollow
  BY <1>2 DEF StoresFollow
<1>6. Intends
  BY <1>2 DEF Intends
<1> QED BY <1>2, <1>3, <1>4, <1>5, <1>6 DEF Following, Placed

-----------------------------------------------------------------------------
(* The theorems.                                                           *)

LEMMA Invariance == Spec => [](TypeOK /\ Names)
<1>1. Init => TypeOK /\ Names
  BY TypeInit, NamesInit
<1>2. TypeOK /\ Names /\ [Next]_vars => (TypeOK /\ Names)'
  BY TypeStep, NamesStep DEF Names
<1> QED BY <1>1, <1>2, PTL DEF Spec

\* The index, the store, and the updates and deletions under way keep their types, for any
\* windows, files, ids and names (documentIndex.ts).
THEOREM TypeCorrect == Spec => []TypeOK
  BY Invariance, PTL

\* Two files never share a document id: no rename, deletion, pruning or binding of any window
\* names an id twice (documentIndex.ts:60-81).
THEOREM NoIdTwice == Spec => []OneIdOnePath
<1>1. TypeOK /\ Names => OneIdOnePath
  BY DEF Names
<1> QED BY <1>1, Invariance, PTL

\* What `dropUnreferenced` deletes is named by no path any more, nor is it named again before it
\* is deleted, whatever the other windows had read (documentIndex.ts:83-96).
THEOREM OnlyTheUnnamedGo == Spec => []DropsTheUnnamed
<1>1. TypeOK /\ Names => DropsTheUnnamed
  BY DEF Names
<1> QED BY <1>1, Invariance, PTL

LEMMA FollowingInvariance == Spec => [](TypeOK /\ Names /\ Intends /\ Following)
<1>1. Init => Intends /\ Following
  BY FollowingInit
<1>2. TypeOK /\ Names /\ Intends /\ Following /\ [Next]_vars => Intends' /\ Following'
  BY IntendsStep, FollowingStep
<1> QED BY <1>1, <1>2, Invariance, PTL DEF Spec

\* A file keeps the id it got first, at whichever path it is by now, and its replica is stored
\* under no other, as long as no change of the files began while another was on its way into the
\* index (documentIndex.ts:98-190).
THEOREM FilesKeepTheirIds == Spec => []IdentityFollows
<1>1. TypeOK /\ Following => IdentityFollows
  <2> SUFFICES ASSUME TypeOK, Following, AtRest, ~crossed
               PROVE  /\ \A p \in Path :
                            files[p] # None /\ files[p] \notin gone /\ identity[files[p]] # None
                            => index.at[p] = identity[files[p]]
                      /\ \A id \in Id :
                            store[id] # None /\ store[id] \notin gone => identity[store[id]] = id
    BY DEF IdentityFollows
  <2>1. EntriesFollow /\ StoresFollow
    BY DEF Following, Placed
  <2>2. \A p \in Path : Entry(p, p)
    BY DEF AtRest, Entry, Settled
  <2> QED BY <2>1, <2>2 DEF EntriesFollow, StoresFollow, Keeps
<1> QED BY <1>1, FollowingInvariance, PTL

=============================================================================
