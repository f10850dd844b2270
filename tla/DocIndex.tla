------------------------------ MODULE DocIndex ------------------------------
(***************************************************************************)
(* The identity index of the document store (documentIndex.ts): which      *)
(* document id each workspace file has. Every window changes it through a  *)
(* queue of its own, by reading it, changing what was read and writing     *)
(* that if the index is still what was read, and tries again otherwise.    *)
(* The files themselves move first, and by other hands too; a kit's save   *)
(* and the pruning of the store go on after the index was written.         *)
(*                                                                         *)
(* A path is a name with a part: the page, or what its folder holds. The   *)
(* version of an index is the hash of its contents: here the contents.     *)
(***************************************************************************)
EXTENDS Naturals, Sequences, FiniteSets

CONSTANTS
    Window, File, Id, Name,
    None,
    MaxRetries,     \* INDEX_RETRIES
    MaxEvents,      \* bound: the changes made to the files, and the windows that go away
    MaxSaves        \* bound: the replicas kits save

Part == {"page", "inside"}
Path == Name \X Part

ASSUME DocIndexAssumption ==
    /\ MaxRetries \in Nat /\ MaxEvents \in Nat /\ MaxSaves \in Nat
    /\ None \notin File /\ None \notin Id

VARIABLES
    files,          \* the workspace's files
    index,          \* the ids at the paths, and those kept as deleted
    store,          \* the file whose replica each entry of the store holds
    minted,         \* the ids the index has ever named
    queue,          \* `indexQueue` of each window, from the update that runs
    reading,        \* what that has read and would write
    attempt,
    bound,          \* the save that has its id and does not have its replica stored yet
    dropping,       \* the entries `dropUnreferenced` has still to delete
    pruned,         \* `prunedRoots`: the windows that pruned the store
    events, saves,
    identity,       \* the id each file got first
    gone,           \* the files that were deleted, or moved outside the application
    crossed         \* whether a change of the files, or a save in another window, began while one
                    \* was not in the index yet, or did not get there

disk == <<files, gone>>
updates == <<queue, reading, attempt>>
vars == <<disk, index, store, minted, updates, bound, dropping, pruned, saves, events, identity,
          crossed>>

Index == [at : [Path -> Id \cup {None}], deleted : SUBSET Id]

Parts == {Part, {"inside"}}     \* of a document with its child pages, or of a folder
Task == [op : {"bind"}, path : Path, file : File]
        \cup [op : {"move"}, from : Name, to : Name, parts : Parts]
        \cup [op : {"forget"}, name : Name, parts : Parts]
        \cup [op : {"prune"}, existing : SUBSET Path]
        \cup [op : {"copy"}, path : Path]

TypeOK ==
    /\ files \in [Path -> File \cup {None}]
    /\ index \in Index
    /\ store \in [Id -> File \cup {None}]
    /\ minted \in SUBSET Id
    /\ queue \in [Window -> Seq(Task)]
    /\ reading \in [Window -> [before : Index, after : Index] \cup {None}]
    /\ attempt \in [Window -> 0 .. MaxRetries]
    /\ bound \in [Window -> [id : Id, file : File] \cup {None}]
    /\ dropping \in [Window -> SUBSET Id]
    /\ pruned \in SUBSET Window
    /\ events \in Nat /\ saves \in Nat
    /\ identity \in [File -> Id \cup {None}]
    /\ gone \in SUBSET File
    /\ crossed \in BOOLEAN

Apart(where) == \A p, q \in Path : where[p] = where[q] /\ where[p] # None => p = q

NoIndex == [at |-> [p \in Path |-> None], deleted |-> {}]

Init ==
    /\ files \in {where \in [Path -> File \cup {None}] : Apart(where)}
    /\ index = NoIndex
    /\ store = [id \in Id |-> None]
    /\ minted = {}
    /\ queue = [w \in Window |-> <<>>]
    /\ reading = [w \in Window |-> None]
    /\ attempt = [w \in Window |-> 0]
    /\ bound = [w \in Window |-> None]
    /\ dropping = [w \in Window |-> {}]
    /\ pruned = {}
    /\ events = 0 /\ saves = 0
    /\ identity = [f \in File |-> None]
    /\ gone = {} /\ crossed = FALSE

-----------------------------------------------------------------------------
(* What the updates make of an index.                                      *)

AtPaths(ix) == {ix.at[p] : p \in Path} \ {None}
Named(ix) == AtPaths(ix) \cup ix.deleted

WithEntry(ix, path, id) == [ix EXCEPT !.at[path] = id]

\* Not so: the old entry stays; the child pages' entries stay where they are.
RemapCopies(ix, from, to, parts) ==
    [ix EXCEPT !.at = [p \in Path |->
        IF p[2] \in parts /\ p[1] = to /\ ix.at[<<from, p[2]>>] # None THEN ix.at[<<from, p[2]>>]
        ELSE ix.at[p]]]
RemapPage(ix, from, to, parts) ==
    IF "page" \notin parts \/ ix.at[<<from, "page">>] = None THEN ix
    ELSE [ix EXCEPT !.at[<<to, "page">>] = ix.at[<<from, "page">>], !.at[<<from, "page">>] = None]

\* An entry at a path that one is moved to is gone.
RemapEntries(ix, from, to, parts) ==
    [ix EXCEPT !.at = [p \in Path |->
        IF p[2] \notin parts THEN ix.at[p]
        ELSE IF p[1] = to /\ ix.at[<<from, p[2]>>] # None THEN ix.at[<<from, p[2]>>]
        ELSE IF p[1] = from THEN None
        ELSE ix.at[p]]]

BuryEntries(ix, paths) ==
    [at |-> [p \in Path |-> IF p \in paths THEN None ELSE ix.at[p]],
     deleted |-> ix.deleted \cup ({ix.at[p] : p \in paths} \ {None})]

\* The documents kept as deleted go, and those whose files are not there are kept as deleted.
PruneEntries(ix, existing) ==
    [at |-> [p \in Path |-> IF p \in existing THEN ix.at[p] ELSE None],
     deleted |-> {ix.at[p] : p \in Path \ existing} \ {None}]

RemoveEntries(ix, path) == [ix EXCEPT !.at[path] = None]

\* An update's change; `id` is the one it makes if the path it binds has none.
Changed(task, ix, id) ==
    CASE task.op = "bind" -> IF ix.at[task.path] = None THEN WithEntry(ix, task.path, id) ELSE ix
      [] task.op = "move" -> RemapEntries(ix, task.from, task.to, task.parts)
      [] task.op = "forget" -> BuryEntries(ix, {task.name} \X task.parts)
      [] task.op = "prune" -> PruneEntries(ix, task.existing)
      [] task.op = "copy" -> RemoveEntries(ix, task.path)

-----------------------------------------------------------------------------
(* The files, and the operations that bring an update.                     *)

Enqueue(w, task) == queue' = [queue EXCEPT ![w] = Append(@, task)]

Changing(w) == \E i \in DOMAIN queue[w] : queue[w][i].op # "bind"
Crossing(w) == Changing(w) \/ \E v \in Window \ {w} : queue[v] # <<>>

\* A file with its child pages, or a folder, is moved or renamed.
Move(w, from, to, parts) ==
    /\ events < MaxEvents
    /\ from # to
    /\ \A part \in parts : files[<<to, part>>] = None
    /\ \E part \in parts : files[<<from, part>>] # None
    /\ ("page" \in parts => files[<<from, "page">>] # None)
    /\ events' = events + 1
    /\ files' = [p \in Path |-> IF p[2] \notin parts THEN files[p]
                                ELSE IF p[1] = to THEN files[<<from, p[2]>>]
                                ELSE IF p[1] = from THEN None ELSE files[p]]
    /\ Enqueue(w, [op |-> "move", from |-> from, to |-> to, parts |-> parts])
    /\ crossed' = (crossed \/ Crossing(w))
    /\ UNCHANGED <<gone, index, store, minted, reading, attempt, bound, dropping, pruned, saves, identity>>

Delete(w, name, parts) ==
    /\ events < MaxEvents
    /\ \E part \in parts : files[<<name, part>>] # None
    /\ ("page" \in parts => files[<<name, "page">>] # None)
    /\ events' = events + 1
    /\ gone' = gone \cup ({files[<<name, part>>] : part \in parts} \ {None})
    /\ files' = [p \in Path |-> IF p \in {name} \X parts THEN None ELSE files[p]]
    /\ Enqueue(w, [op |-> "forget", name |-> name, parts |-> parts])
    /\ crossed' = (crossed \/ Crossing(w))
    /\ UNCHANGED <<index, store, minted, reading, attempt, bound, dropping, pruned, saves,
                   identity>>

\* A file is copied to a path of its own.
Duplicate(w, f, p) ==
    /\ events < MaxEvents
    /\ files[p] = None /\ f \notin gone /\ \A q \in Path : files[q] # f
    /\ \E q \in Path : files[q] # None
    /\ events' = events + 1
    /\ files' = [files EXCEPT ![p] = f]
    /\ Enqueue(w, [op |-> "copy", path |-> p])
    /\ crossed' = (crossed \/ Crossing(w))
    /\ UNCHANGED <<gone, index, store, minted, reading, attempt, bound, dropping, pruned, saves, identity>>

\* Outside the application a file goes, or comes (back).
Outside ==
    /\ events < MaxEvents
    /\ \E p \in Path :
          \/ /\ files[p] # None
             /\ files' = [files EXCEPT ![p] = None]
             /\ gone' = gone \cup {files[p]}
          \/ /\ files[p] = None
             /\ \E f \in File :
                   /\ \A q \in Path : files[q] # f
                   /\ files' = [files EXCEPT ![p] = f]
                   /\ gone' = IF identity[f] = None THEN gone ELSE gone \cup {f}
    /\ events' = events + 1
    /\ crossed' = (crossed \/ \E w \in Window : queue[w] # <<>>)
    /\ UNCHANGED <<index, store, minted, updates, bound, dropping, pruned, saves, identity>>

\* A kit saves the replica of the file at a path: `bindDocumentId`, and the store after it. A copy
\* is not shown, nor opened, before its update is over.
Save(w, p) ==
    /\ saves < MaxSaves
    /\ bound[w] = None /\ \A i \in DOMAIN queue[w] : queue[w][i].op # "bind"
    /\ files[p] # None
    /\ \A v \in Window : \A i \in DOMAIN queue[v] : queue[v][i] # [op |-> "copy", path |-> p]
    /\ saves' = saves + 1
    /\ Enqueue(w, [op |-> "bind", path |-> p, file |-> files[p]])
    /\ crossed' = (crossed \/ \E v \in Window \ {w} : Changing(v))
    /\ UNCHANGED <<disk, index, store, minted, reading, attempt, bound, dropping, pruned, events,
                   identity>>

\* `pruneDocumentStore`, once in a window: the files are listed first. Its listing is out of date
\* when its update waits, or another window's is written meanwhile; that this window queues an
\* update between the two calls is not modelled.
Prune(w) ==
    /\ w \notin pruned
    /\ pruned' = pruned \cup {w}
    /\ LET existing == {p \in Path : files[p] # None}
       IN  IF existing = {} THEN UNCHANGED queue
           ELSE Enqueue(w, [op |-> "prune", existing |-> existing])
    /\ crossed' = (crossed \/ Crossing(w))
    /\ UNCHANGED <<disk, index, store, minted, reading, attempt, bound, dropping, saves, events,
                   identity>>

-----------------------------------------------------------------------------
(* `updateIndex`.                                                          *)

\* The update is over: the id of a save is known, and what a prune or a copy made the index stop
\* naming is to be deleted.
Done(w, before, after) ==
    LET task == Head(queue[w])
    IN  /\ queue' = [queue EXCEPT ![w] = Tail(@)]
        /\ reading' = [reading EXCEPT ![w] = None]
        /\ attempt' = [attempt EXCEPT ![w] = 0]
        /\ dropping' = IF task.op \in {"prune", "copy"}
                       THEN [dropping EXCEPT ![w] = @ \cup (Named(before) \ Named(after))]
                       ELSE dropping
        /\ IF task.op = "bind"
           THEN /\ bound' = [bound EXCEPT ![w] = [id |-> after.at[task.path], file |-> task.file]]
                /\ identity' = IF identity[task.file] = None
                               THEN [identity EXCEPT ![task.file] = after.at[task.path]]
                               ELSE identity
           ELSE UNCHANGED <<bound, identity>>

Fresh(id) ==
    /\ id \notin minted
    /\ \A w \in Window : reading[w] # None => id \notin Named(reading[w].after)

\* The index is read and changed; a change that is none ends the update.
ReadIndex(w, id) ==
    /\ queue[w] # <<>> /\ reading[w] = None
    /\ IF Head(queue[w]).op = "bind" /\ index.at[Head(queue[w]).path] = None
       THEN id \in Id /\ Fresh(id) ELSE id = None
    /\ LET after == Changed(Head(queue[w]), index, id)
       IN  \/ after = index /\ Done(w, index, index)
           \/ /\ after # index
              /\ reading' = [reading EXCEPT ![w] = [before |-> index, after |-> after]]
              /\ UNCHANGED <<queue, attempt, bound, dropping, identity>>
    /\ UNCHANGED <<disk, index, store, minted, pruned, saves, events, crossed>>

\* Not so: whatever the index is by now.
StillAnyhow(w) == TRUE

\* The guard of the store's `write_index`.
StillAt(w) == index = reading[w].before

WriteIndex(w) ==
    /\ queue[w] # <<>> /\ reading[w] # None
    /\ StillAt(w)
    /\ index' = reading[w].after
    /\ minted' = minted \cup Named(index')
    /\ Done(w, reading[w].before, reading[w].after)
    /\ UNCHANGED <<disk, store, pruned, saves, events, crossed>>

\* Another writer changed the index: it is read again, or the update fails.
Conflict(w) ==
    /\ queue[w] # <<>> /\ reading[w] # None
    /\ ~StillAt(w)
    /\ reading' = [reading EXCEPT ![w] = None]
    /\ IF attempt[w] < MaxRetries
       THEN /\ attempt' = [attempt EXCEPT ![w] = @ + 1]
            /\ UNCHANGED <<queue, crossed>>
       ELSE /\ attempt' = [attempt EXCEPT ![w] = 0]
            /\ queue' = [queue EXCEPT ![w] = Tail(@)]
            /\ crossed' = TRUE
    /\ UNCHANGED <<disk, index, store, minted, bound, dropping, pruned, saves, events, identity>>

-----------------------------------------------------------------------------
(* What follows an update.                                                 *)

\* `writeDocumentStore` of a save.
StoreReplica(w) ==
    /\ bound[w] # None
    /\ store' = [store EXCEPT ![bound[w].id] = bound[w].file]
    /\ bound' = [bound EXCEPT ![w] = None]
    /\ UNCHANGED <<disk, index, minted, updates, dropping, pruned, saves, events, identity, crossed>>

\* `dropUnreferenced` goes on; an entry that cannot be deleted stays.
DropEntry(w, id) ==
    /\ id \in dropping[w]
    /\ dropping' = [dropping EXCEPT ![w] = @ \ {id}]
    /\ store' \in {store, [store EXCEPT ![id] = None]}
    /\ UNCHANGED <<disk, index, minted, updates, bound, pruned, saves, events, identity, crossed>>

\* A window goes away with all it had still to do, and opens again.
WindowGone(w) ==
    /\ events < MaxEvents
    /\ queue[w] # <<>> \/ bound[w] # None \/ dropping[w] # {} \/ w \in pruned
    /\ events' = events + 1
    /\ crossed' = (crossed \/ queue[w] # <<>>)
    /\ queue' = [queue EXCEPT ![w] = <<>>]
    /\ reading' = [reading EXCEPT ![w] = None]
    /\ attempt' = [attempt EXCEPT ![w] = 0]
    /\ bound' = [bound EXCEPT ![w] = None]
    /\ dropping' = [dropping EXCEPT ![w] = {}]
    /\ pruned' = pruned \ {w}
    /\ UNCHANGED <<disk, index, store, minted, saves, identity>>

-----------------------------------------------------------------------------

Next ==
    \/ Outside
    \/ \E w \in Window :
          \/ \E from, to \in Name, parts \in Parts : Move(w, from, to, parts)
          \/ \E name \in Name, parts \in Parts : Delete(w, name, parts)
          \/ \E f \in File, p \in Path : Duplicate(w, f, p)
          \/ \E p \in Path : Save(w, p)
          \/ Prune(w)
          \/ \E id \in Id \cup {None} : ReadIndex(w, id)
          \/ \E id \in Id : DropEntry(w, id)
          \/ WriteIndex(w) \/ Conflict(w) \/ StoreReplica(w) \/ WindowGone(w)

Spec == Init /\ [][Next]_vars

-----------------------------------------------------------------------------
(* Properties.                                                             *)

\* "Two files never share a document id": whichever windows rename, bury, prune and bind at
\* once, an id is at one path at most, or kept as deleted, and never both.
OneId(ix) == Apart(ix.at) /\ AtPaths(ix) \cap ix.deleted = {}
OneIdOnePath == OneId(index)

\* An entry that is to be deleted is not named any more, and never again: no window that read
\* the index before brings its id back, so no document the index names loses its replica.
DropsTheUnnamed == \A w \in Window : dropping[w] \cap Named(index) = {}

\* If no change of the files began while another was on its way into the index, nor a save in
\* another window, a file that was not deleted, nor moved outside, has the id it got first, and
\* its replica is stored under no other: whatever was saved, retried, pruned or came and went
\* beside it.
AtRest == \A w \in Window : queue[w] = <<>>
IdentityFollows ==
    AtRest /\ ~crossed
    => /\ \A p \in Path :
             files[p] # None /\ files[p] \notin gone /\ identity[files[p]] # None
             => index.at[p] = identity[files[p]]
       /\ \A id \in Id : store[id] # None /\ store[id] \notin gone => identity[store[id]] = id

=============================================================================
