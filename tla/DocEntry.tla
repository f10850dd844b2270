------------------------------ MODULE DocEntry ------------------------------
(***************************************************************************)
(* One document's replica in the document store: the folder                *)
(* `.kition/docs/<docId>/` as docstore/entry.rs writes and reads it, with  *)
(* its blob files (blobs.rs), its checkpoints (history.rs) and the calls   *)
(* that wrap them (mod.rs).                                                *)
(*                                                                         *)
(* Every file is replaced by `write_atomically`, so one file write is one  *)
(* step; everything a call does in between is a step of its own, and the   *)
(* Kition may crash, or the call fail, between any two of them.  The calls *)
(* of one Kition on one document run one at a time (GuardedWrites), so at  *)
(* most one operation `op` is in flight.                                   *)
(*                                                                         *)
(* A save is named by a member of Save: the name stands for the replica's  *)
(* bytes, the meta and the replica version the save carries, and two of    *)
(* these are equal when, and only when, their hashes are.                  *)
(*                                                                         *)
(* A definition introduced with "Not so" is a plausible mistake: put in    *)
(* the place of the definition after it, it breaks a property (README.md). *)
(***************************************************************************)
EXTENDS Naturals, Sequences, FiniteSets

CONSTANTS
    Save,               \* the saves editors make
    Blob,               \* the contents of blob files
    BlobSets,           \* the blob bundles a save may carry ({}: none)
    Client,             \* the windows of this Kition that edit the document, each
                        \*   with a page of its own that makes one save at a time
    None,
    CompactAfter,       \* COMPACT_AFTER_CHANGES
    MaxCheckpoints,     \* MAX_CHECKPOINTS
    MaxSeq,             \* bound: the last seq a compaction of a stored save takes
    MaxInterruptions,   \* bound: crashes and failed calls of a behaviour
    MayRenew,           \* whether a save may bring a replica of a new lineage
    MayCheckpoint,      \* whether checkpoints are recorded
    MayDelete,          \* whether the entry may be deleted
    MayDamage           \* whether a file may be lost or damaged from outside

Bundle  == SUBSET Blob
Heads   == [seq : Nat, save : Save]
Change  == [seq : Nat, base : Save, save : Save]
Pending == [seq : Nat, save : Save, blobs : Bundle]
Manifest ==
    [meta : Save, snapshot : Heads, pending : Pending \cup {None},
     changes : Seq(Change), head : Heads, blobs : Bundle]
Checkpoint == [save : Save, seq : Nat, blobs : Bundle, edit : BOOLEAN]

\* What `read` answers for an entry that is there.
Entry == [meta : Save, at : Save \cup {None}, seq : Nat, version : Save \cup {None},
          blobs : Bundle, complete : BOOLEAN]

ASSUME DocEntryAssumption ==
    /\ BlobSets \subseteq Bundle
    /\ None \notin Save \cup Client
    /\ IsFiniteSet(Client)
    /\ None \notin Pending
    /\ None \notin Heads
    /\ None \notin Manifest
    /\ None \notin Entry
    /\ CompactAfter \in Nat \ {0}
    /\ MaxCheckpoints \in Nat \ {0}
    /\ MaxSeq \in Nat
    /\ MaxInterruptions \in Nat
    /\ {MayRenew, MayCheckpoint, MayDelete, MayDamage} \subseteq BOOLEAN

VARIABLES
    \* the files of the entry
    manifest,       \* meta.json, or None
    snapshotFile,   \* the save whose bytes are in snapshot.bin, or None
    changeFiles,    \* the files of changes/, each with the seq of its name
    blobFile,       \* blobs/<sha256>: "absent", "whole" or "damaged"
    history,        \* history.json, oldest checkpoint first
    \* the Kition's memory
    op,             \* the call that holds the entry's mutex (`before`: what the
                    \*   entry read as when it began, for the refinement)
    known,          \* the head each editor last read: one of Heads, Absent (no
                    \*   entry) or None (not read since its last save)
    page,           \* what each page knows of its own calls: how far its save is, and
                    \*   whether its `compactDue` names the document
    \* the history of the behaviour, for the properties
    made,           \* the saves made so far
    carried,        \* the blobs each save's version has
    root,           \* the save that began each save's lineage
    lawful,         \* the saves the entry may read as: the last one that was
                    \*   stored, and those interrupted since
    torn,           \* compactions interrupted since the last one that finished
    interruptions,
    damaged,        \* a file was lost or damaged from outside
    scrapped        \* a deletion was interrupted and nothing stored since

files == <<manifest, snapshotFile, changeFiles, blobFile, history>>
memory == <<op, known, page>>
ghosts == <<made, carried, root, lawful, torn, interruptions, damaged, scrapped>>
vars == <<manifest, snapshotFile, changeFiles, blobFile, history,
          op, known, page,
          made, carried, root, lawful, torn, interruptions, damaged, scrapped>>

Idle == [step |-> "idle", body |-> "none", client |-> None, save |-> None,
         base |-> None, seq |-> 0, blobs |-> {}, keep |-> FALSE, fresh |-> FALSE,
         mark |-> FALSE, edit |-> FALSE, before |-> None]
Absent == [seq |-> 0, save |-> None]

\* A page has no save under way, reads the head, decides to save changes or the
\* whole replica, and hears that the append is stored and a compaction asked for,
\* or that the snapshot is stored.
PageSteps == {"idle", "read", "append", "whole", "asked", "folded"}
NewPage == [step |-> "idle", due |-> FALSE]
AtRest == op.step = "idle"

-----------------------------------------------------------------------------
(* What the files hold.                                                    *)

BlobsThere(bundle) == \A b \in bundle : blobFile[b] # "absent"
BlobsWhole(bundle) == \A b \in bundle : blobFile[b] = "whole"

\* The version of the stored entry: that of its last change, or its snapshot.
Last(changes) == changes[Len(changes)]

\* Not so: the snapshot is taken for the named one, whatever it hashes to.
SnapshotUnchecked == manifest # None

SnapshotNamed == /\ manifest # None
                 /\ snapshotFile = manifest.snapshot.save
\* Not so: a reader that knows of no pending snapshot.
PendingUnknown == FALSE

\* A compaction stopped after its rename: the snapshot is the pending one.
PendingAdopted == /\ manifest # None
                  /\ snapshotFile # manifest.snapshot.save
                  /\ manifest.pending # None
                  /\ snapshotFile = manifest.pending.save

\* The changes of manifest m whose files are there and whole, in order, up to
\* the first one that is not.
Loaded(m, there) ==
    CHOOSE n \in 0..Len(m.changes) :
        /\ \A i \in 1..n : m.changes[i] \in there
        /\ n < Len(m.changes) => m.changes[n + 1] \notin there

\* The change i of m continues what the reader has loaded before it.
Continues(m, i) ==
    m.changes[i].base = IF i = 1 THEN m.snapshot.save ELSE m.changes[i - 1].save
Chained(m) == \A i \in 1..Len(m.changes) : Continues(m, i)

\* The answer of `read`: None, or the entry; `at` is the version its parts bring
\* a replica to, None when they do not fit together.
Read ==
    IF SnapshotNamed THEN
        LET m == manifest
            n == Loaded(m, changeFiles)
            all == n = Len(m.changes)
        IN  [meta |-> m.meta,
             at |-> IF \E i \in 1..n : ~Continues(m, i) THEN None
                    ELSE IF n = 0 THEN snapshotFile ELSE m.changes[n].save,
             seq |-> IF all THEN m.head.seq
                     ELSE IF n = 0 THEN m.snapshot.seq ELSE m.changes[n].seq,
             version |-> IF all THEN m.head.save ELSE None,
             blobs |-> IF BlobsWhole(m.blobs) THEN m.blobs ELSE {},
             complete |-> all /\ BlobsWhole(m.blobs)]
    ELSE IF PendingAdopted THEN
        LET p == manifest.pending
        IN  [meta |-> p.save, at |-> p.save, seq |-> p.seq, version |-> p.save,
             blobs |-> IF BlobsWhole(p.blobs) THEN p.blobs ELSE {},
             complete |-> BlobsWhole(p.blobs)]
    ELSE None

\* The version the entry reads as, whole, or None.
Stored == IF Read = None THEN None ELSE IF Read.complete THEN Read.at ELSE None

\* The answer of `read_head`.
ReadHead == IF manifest = None THEN Absent ELSE manifest.head

-----------------------------------------------------------------------------
(* Editors.                                                                *)

Hearing(c) == page[c].step \in {"asked", "folded"}

\* `readDocumentStoreHead`: an editor reads the head before it saves.
KnowHead(c) ==
    /\ AtRest
    /\ ~Hearing(c)
    /\ known' = [known EXCEPT ![c] = ReadHead]
    /\ page' = [page EXCEPT ![c].step = "read"]
    /\ UNCHANGED <<files, op, ghosts>>

\* The page has the head: it makes an append, unless a compaction is due, or the
\* replica does not continue the stored one, or cannot be followed.
Decide(c) ==
    /\ page[c].step = "read"
    /\ known[c] # None
    /\ \E step \in {"append", "whole"} :
          /\ step = "append" => known[c] # Absent /\ ~page[c].due
          /\ page' = [page EXCEPT ![c].step = step]
    /\ UNCHANGED <<files, op, known, ghosts>>

\* The answer of the store comes to the page.
Hear(c) ==
    /\ Hearing(c)
    /\ page' = [page EXCEPT ![c] = [step |-> "idle", due |-> page[c].step = "asked"]]
    /\ UNCHANGED <<files, op, known, ghosts>>

\* The lineage of save s, made by an editor that knows head h.
Lineage(s, h, fresh) == IF fresh \/ h = Absent THEN s ELSE root[h.save]

\* The save s that editor c makes now: a new one, on what c knows.
Make(c, s, bundle, fresh) ==
    /\ s \notin made
    /\ made' = made \cup {s}
    /\ carried' = [carried EXCEPT ![s] = bundle]
    /\ root' = [root EXCEPT ![s] = Lineage(s, known[c], fresh)]

\* Not so: an append that does not look for an unfinished compaction.
RefusedBySeq(h) == ~(manifest # None /\ manifest.head.seq = h.seq)

\* `write` with Body::Changes is refused: unless the store is at `base_seq`, and
\* holds no unfinished compaction.  The editor then writes a snapshot.
AppendRefused(h) ==
    ~ /\ manifest # None
      /\ manifest.head.seq = h.seq
      /\ manifest.pending = None
      /\ snapshotFile = manifest.snapshot.save

\* A save that continues the stored replica, as its changes since `known[c]`;
\* one that carries no bundle keeps the blobs of the stored version.
BeginAppend(c, s, bundle, keep, mark, edit) ==
    /\ AtRest
    /\ page[c].step = "append"
    /\ known[c] \notin {None, Absent}
    /\ ~AppendRefused(known[c])
    /\ Make(c, s, IF keep THEN manifest.blobs ELSE bundle, FALSE)
    /\ op' = [Idle EXCEPT !.step = "change", !.body = "changes", !.client = c,
                          !.save = s, !.base = known[c].save,
                          !.seq = known[c].seq + 1, !.keep = keep,
                          !.blobs = IF keep THEN {} ELSE bundle,
                          !.mark = mark, !.edit = edit, !.before = Stored]
    /\ UNCHANGED <<files, known, page, lawful, torn, interruptions, damaged, scrapped>>

\* Not so: a compaction that keeps the stored seq.
KeptSeq == IF manifest = None THEN 1 ELSE manifest.head.seq

NextSeq == (IF manifest = None THEN 0 ELSE manifest.head.seq) + 1

\* A save as a whole snapshot: a first write, a compaction, a replica of a new
\* lineage, or what an editor writes after a refused append.
BeginSnapshot(c, s, bundle, fresh, mark, edit) ==
    /\ AtRest
    /\ known[c] # None
    /\ page[c].step \in {"append", "whole"}
    /\ page[c].step = "append" => AppendRefused(known[c])
    /\ fresh => known[c] # Absent
    /\ Make(c, s, bundle, fresh)
    /\ op' = [Idle EXCEPT !.step = "blobs", !.body = "snapshot", !.client = c,
                          !.save = s, !.seq = NextSeq, !.blobs = bundle,
                          !.fresh = fresh, !.mark = mark, !.edit = edit,
                          !.before = Stored]
    /\ UNCHANGED <<files, known, page, lawful, torn, interruptions, damaged, scrapped>>

\* `compactKitReplica`: the editor closes and folds what it knows the store to
\* hold into a snapshot of the same version.
BeginCompaction(c) ==
    /\ AtRest
    /\ page[c].step = "read"
    /\ NextSeq <= MaxSeq
    /\ known[c] \notin {None, Absent}
    /\ op' = [Idle EXCEPT !.step = "blobs", !.body = "snapshot", !.client = c,
                          !.save = known[c].save, !.seq = NextSeq,
                          !.blobs = carried[known[c].save], !.before = Stored]
    /\ UNCHANGED <<files, known, page, ghosts>>

-----------------------------------------------------------------------------
(* The steps of `write`.                                                   *)

\* `blobs::put`: a blob whose file is not there yet (a file of its size is
\* left as it is).
StoreBlob(b) ==
    /\ op.step = "blobs"
    /\ b \in op.blobs
    /\ blobFile[b] = "absent"
    /\ blobFile' = [blobFile EXCEPT ![b] = "whole"]
    /\ UNCHANGED <<manifest, snapshotFile, changeFiles, history, memory, ghosts>>

WriteChange ==
    /\ op.step = "change"
    /\ changeFiles' = {f \in changeFiles : f.seq # op.seq}
                          \cup {[seq |-> op.seq, base |-> op.base, save |-> op.save]}
    /\ op' = [op EXCEPT !.step = "blobs"]
    /\ UNCHANGED <<manifest, snapshotFile, blobFile, history, known, page, ghosts>>

\* The manifest names the change: the append is stored.
NameChange ==
    /\ op.step = "blobs"
    /\ op.body = "changes"
    /\ BlobsThere(op.blobs)
    /\ manifest' =
        [manifest EXCEPT
            !.meta = op.save,
            !.changes = Append(@, [seq |-> op.seq, base |-> op.base, save |-> op.save]),
            !.head = [seq |-> op.seq, save |-> op.save],
            !.blobs = IF op.keep THEN @ ELSE op.blobs]
    /\ op' = [op EXCEPT !.step = "history"]
    /\ UNCHANGED <<snapshotFile, changeFiles, blobFile, history, known, page, ghosts>>

\* A compaction first names the new snapshot as pending.
NamePending ==
    /\ op.step = "blobs"
    /\ op.body = "snapshot"
    /\ BlobsThere(op.blobs)
    /\ manifest # None
    /\ manifest' = [manifest EXCEPT !.pending =
                       [seq |-> op.seq, save |-> op.save, blobs |-> op.blobs]]
    /\ op' = [op EXCEPT !.step = "rename"]
    /\ UNCHANGED <<snapshotFile, changeFiles, blobFile, history, known, page, ghosts>>

RenameSnapshot ==
    /\ \/ op.step = "rename"
       \/ /\ op.step = "blobs"
          /\ op.body = "snapshot"
          /\ BlobsThere(op.blobs)
          /\ manifest = None
    /\ snapshotFile' = op.save
    /\ op' = [op EXCEPT !.step = "name"]
    /\ UNCHANGED <<manifest, changeFiles, blobFile, history, known, page, ghosts>>

SnapshotManifest(o) ==
    [meta |-> o.save, snapshot |-> [seq |-> o.seq, save |-> o.save],
     pending |-> None, changes |-> <<>>,
     head |-> [seq |-> o.seq, save |-> o.save], blobs |-> o.blobs]

NameSnapshot ==
    /\ op.step = "name"
    /\ manifest' = SnapshotManifest(op)
    /\ op' = [op EXCEPT !.step = "sweep"]
    /\ torn' = 0
    /\ scrapped' = FALSE
    /\ UNCHANGED <<snapshotFile, changeFiles, blobFile, history, known, page,
                   made, carried, root, lawful, interruptions, damaged>>

\* `remove_dir_all` of changes/, one file at a time.
SweepChange(f) ==
    /\ op.step = "sweep"
    /\ changeFiles' = changeFiles \ {f}
    /\ UNCHANGED <<manifest, snapshotFile, blobFile, history, memory, ghosts>>

Swept == op.step = "history" \/ (op.step = "sweep" /\ changeFiles = {})

-----------------------------------------------------------------------------
(* What `write_entry` does after the replica is stored.                    *)

\* Not so: all but the newest checkpoint.
ClearButNewest ==
    /\ Swept
    /\ op.fresh
    /\ history' = IF history = <<>> THEN <<>> ELSE <<Last(history)>>
    /\ op' = [op EXCEPT !.step = "history", !.fresh = FALSE]
    /\ UNCHANGED <<manifest, snapshotFile, changeFiles, blobFile, known, page, ghosts>>

ClearHistory ==
    /\ Swept
    /\ op.fresh
    /\ history' = <<>>
    /\ op' = [op EXCEPT !.step = "history", !.fresh = FALSE]
    /\ UNCHANGED <<manifest, snapshotFile, changeFiles, blobFile, known, page, ghosts>>

\* The checkpoint thinned when there are too many: the oldest one made while
\* editing, or the oldest; never the newest.
Thinned(h) ==
    LET edits == {i \in 1..(Len(h) - 1) : h[i].edit}
    IN  IF edits = {} THEN 1 ELSE CHOOSE i \in edits : \A j \in edits : i <= j

Without(h, k) == [i \in 1..(Len(h) - 1) |-> IF i < k THEN h[i] ELSE h[i + 1]]

\* `history::record`: a checkpoint at the version of the newest one is that one.
Recorded(h, cp) ==
    IF h # <<>> /\ Last(h).save = cp.save THEN h
    ELSE LET grown == Append(h, cp)
         IN  IF Len(grown) > MaxCheckpoints THEN Without(grown, Thinned(grown)) ELSE grown

RecordCheckpoint ==
    /\ Swept
    /\ ~op.fresh
    /\ op.mark
    /\ history' = Recorded(history, [save |-> op.save, seq |-> op.seq,
                                     blobs |-> manifest.blobs, edit |-> op.edit])
    /\ op' = [op EXCEPT !.step = "history", !.mark = FALSE]
    /\ UNCHANGED <<manifest, snapshotFile, changeFiles, blobFile, known, page, ghosts>>

\* Not so: only the blobs of the version just written.
KeptByVersion == op.blobs

\* The blobs a collection keeps: those of the checkpoints and of the version
\* just written.
Kept == op.blobs
            \cup UNION {history[i].blobs : i \in 1..Len(history)}

Garbage == {b \in Blob : blobFile[b] # "absent"} \ Kept

CollectBlob(b) ==
    /\ Swept
    /\ op.body = "snapshot"
    /\ ~op.fresh
    /\ ~op.mark
    /\ b \in Garbage
    /\ blobFile' = [blobFile EXCEPT ![b] = "absent"]
    /\ op' = [op EXCEPT !.step = "history"]
    /\ UNCHANGED <<manifest, snapshotFile, changeFiles, history, known, page, ghosts>>

\* Not so: one change late.
CompactLate == Len(manifest.changes) > CompactAfter

\* `compact_due`, by the number of changes.
CompactDue == Len(manifest.changes) >= CompactAfter

\* What the call answers: that a snapshot is stored, or an append, with the
\* compaction it asks for.
Reported == IF op.body = "snapshot" THEN "folded"
            ELSE IF CompactDue THEN "asked" ELSE "idle"

\* The call is over; the editor forgets the head it read (it reads it again
\* before its next save).
Finish ==
    /\ Swept
    /\ ~op.fresh
    /\ ~op.mark
    /\ op.body = "snapshot" => Garbage = {}
    /\ op' = Idle
    /\ known' = [known EXCEPT ![op.client] = None]
    /\ page' = [page EXCEPT ![op.client].step = Reported]
    /\ lawful' = {op.save}
    /\ UNCHANGED <<files, made, carried, root, torn, interruptions, damaged, scrapped>>

-----------------------------------------------------------------------------
(* The other calls, and what may go wrong.                                 *)

\* `record_checkpoint` of the stored version.
CheckpointNow(edit) ==
    /\ AtRest
    /\ manifest # None
    /\ history' = Recorded(history, [save |-> manifest.head.save,
                                     seq |-> manifest.head.seq,
                                     blobs |-> manifest.blobs, edit |-> edit])
    /\ UNCHANGED <<manifest, snapshotFile, changeFiles, blobFile, memory, ghosts>>

BeginDelete ==
    /\ MayDelete
    /\ AtRest
    /\ op' = [Idle EXCEPT !.step = "delete", !.before = Stored]
    /\ UNCHANGED <<files, known, page, ghosts>>

\* `remove_dir_all` of the entry's folder, one file at a time, in any order.
DeleteFile ==
    /\ op.step = "delete"
    /\ \/ /\ manifest' = None
          /\ UNCHANGED <<snapshotFile, changeFiles, blobFile, history>>
       \/ /\ snapshotFile' = None
          /\ UNCHANGED <<manifest, changeFiles, blobFile, history>>
       \/ /\ \E f \in changeFiles : changeFiles' = changeFiles \ {f}
          /\ UNCHANGED <<manifest, snapshotFile, blobFile, history>>
       \/ /\ \E b \in Blob : blobFile' = [blobFile EXCEPT ![b] = "absent"]
          /\ UNCHANGED <<manifest, snapshotFile, changeFiles, history>>
       \/ /\ history' = <<>>
          /\ UNCHANGED <<manifest, snapshotFile, changeFiles, blobFile>>
    /\ UNCHANGED <<memory, ghosts>>

FinishDelete ==
    /\ op.step = "delete"
    /\ manifest = None
    /\ snapshotFile = None
    /\ changeFiles = {}
    /\ \A b \in Blob : blobFile[b] = "absent"
    /\ history = <<>>
    /\ op' = Idle
    /\ lawful' = {None}
    /\ torn' = 0
    /\ scrapped' = FALSE
    /\ UNCHANGED <<files, known, page, made, carried, root, interruptions, damaged>>

\* A compaction is torn when it stops between naming its pending snapshot and
\* naming the new one.
Tearing == op.step \in {"rename", "name"} /\ manifest # None

Interrupted ==
    /\ interruptions < MaxInterruptions
    /\ interruptions' = interruptions + 1
    /\ op' = Idle
    /\ lawful' = IF op.body = "none" THEN lawful ELSE lawful \cup {op.save}
    /\ torn' = IF Tearing THEN torn + 1 ELSE torn
    /\ scrapped' = (scrapped \/ op.step = "delete")
    /\ UNCHANGED <<files, made, carried, root, damaged>>

\* The next step of the call fails (a full disk, a file held open elsewhere).
Fail ==
    /\ ~AtRest
    /\ known' = [c \in Client |-> IF c = op.client THEN None ELSE known[c]]
    /\ page' = [c \in Client |-> IF c = op.client THEN [page[c] EXCEPT !.step = "idle"]
                                ELSE page[c]]
    /\ Interrupted

\* The Kition dies and is started again.
Crash ==
    /\ known' = [c \in Client |-> None]
    /\ page' = [c \in Client |-> NewPage]
    /\ Interrupted

\* A change or blob is lost or damaged from outside (a store synced in part, a
\* damaged disk).
Damage ==
    /\ MayDamage
    /\ ~damaged
    /\ AtRest
    /\ damaged' = TRUE
    /\ \/ /\ \E f \in changeFiles : changeFiles' = changeFiles \ {f}
          /\ UNCHANGED blobFile
       \/ /\ \E b \in Blob, state \in {"absent", "damaged"} :
                /\ blobFile[b] = "whole"
                /\ blobFile' = [blobFile EXCEPT ![b] = state]
          /\ UNCHANGED changeFiles
    /\ UNCHANGED <<manifest, snapshotFile, history, memory,
                   made, carried, root, lawful, torn, interruptions, scrapped>>

-----------------------------------------------------------------------------
Init ==
    /\ manifest = None
    /\ snapshotFile = None
    /\ changeFiles = {}
    /\ blobFile = [b \in Blob |-> "absent"]
    /\ history = <<>>
    /\ op = Idle
    /\ known = [c \in Client |-> None]
    /\ page = [c \in Client |-> NewPage]
    /\ made = {}
    /\ carried = [s \in Save |-> {}]
    /\ root = [s \in Save |-> s]
    /\ lawful = {None}
    /\ torn = 0
    /\ interruptions = 0
    /\ damaged = FALSE
    /\ scrapped = FALSE

Marks == IF MayCheckpoint THEN BOOLEAN ELSE {FALSE}
Fresh == IF MayRenew THEN BOOLEAN ELSE {FALSE}

Editing ==
    \E c \in Client :
        \/ KnowHead(c)
        \/ Decide(c)
        \/ Hear(c)
        \/ BeginCompaction(c)
        \/ \E s \in Save, bundle \in BlobSets, mark \in Marks, edit \in Marks :
              \/ \E keep \in BOOLEAN : BeginAppend(c, s, bundle, keep, mark, edit)
              \/ \E fresh \in Fresh : BeginSnapshot(c, s, bundle, fresh, mark, edit)

Writing ==
    \/ \E b \in Blob : StoreBlob(b)
    \/ WriteChange
    \/ NameChange
    \/ NamePending
    \/ RenameSnapshot
    \/ NameSnapshot
    \/ \E f \in changeFiles : SweepChange(f)

Recording ==
    \/ ClearHistory
    \/ RecordCheckpoint
    \/ \E b \in Blob : CollectBlob(b)
    \/ Finish
    \/ MayCheckpoint /\ \E edit \in BOOLEAN : CheckpointNow(edit)

Deleting == BeginDelete \/ DeleteFile \/ FinishDelete

Next ==
    \/ Editing
    \/ Writing
    \/ Recording
    \/ Deleting
    \/ Fail
    \/ Crash
    \/ Damage

Spec == Init /\ [][Next]_vars

-----------------------------------------------------------------------------
(* Properties.                                                             *)

Steps == {"idle", "change", "blobs", "rename", "name", "sweep", "history", "delete"}

OpType == [step : Steps, body : {"none", "changes", "snapshot"},
           client : Client \cup {None}, save : Save \cup {None},
           base : Save \cup {None}, seq : Nat, blobs : Bundle, keep : BOOLEAN,
           fresh : BOOLEAN, mark : BOOLEAN, edit : BOOLEAN,
           before : Save \cup {None}]

\* The files and the memory hold what their formats allow.
TypeOK ==
    /\ manifest \in Manifest \cup {None}
    /\ snapshotFile \in Save \cup {None}
    /\ changeFiles \subseteq Change
    /\ blobFile \in [Blob -> {"absent", "whole", "damaged"}]
    /\ history \in Seq(Checkpoint)
    /\ op \in OpType
    /\ known \in [Client -> Heads \cup {Absent, None}]
    /\ page \in [Client -> [step : PageSteps, due : BOOLEAN]]
    /\ made \subseteq Save
    /\ carried \in [Save -> Bundle]
    /\ root \in [Save -> Save]
    /\ lawful \subseteq Save \cup {None}
    /\ torn \in Nat
    /\ interruptions \in Nat
    /\ {damaged, scrapped} \subseteq BOOLEAN

\* A complete entry is one save through and through: its bytes, meta, version
\* and blobs are those of one and the same save.
OneSave(e) == /\ e.complete
              /\ e.meta = e.at
              /\ e.version = e.at
              /\ e.blobs = carried[e.at]

ReadsLawful == IF Read = None THEN None \in lawful
               ELSE OneSave(Read) /\ Read.at \in lawful

\* Each change the manifest names was made against the version before it
\* (entry.rs:458-459: the append continues the version the reader saw).
AppendsContinue == manifest # None => Chained(manifest)

\* A crash or a failed step at any point leaves an entry that reads, whole, as
\* the last save that was stored or as one interrupted since (entry.rs:15-20),
\* as long as no second compaction is torn before one finishes, and until an
\* append that was made against a deleted entry lands on the next one.
SurvivesATornCompaction ==
    AtRest /\ torn <= 1 /\ ~damaged /\ ~scrapped /\ AppendsContinue => ReadsLawful

\* Whatever was lost, damaged or interrupted, what an entry reads as fits
\* together: the changes answered continue the snapshot and each other, and an
\* entry called complete is one save's.
ReadsFitTogether ==
    AtRest /\ Read # None => /\ Read.at # None
                            /\ (Read.complete => OneSave(Read))

\* A collection never takes a blob that a checkpoint or the stored version
\* still names (mod.rs:239-243).
BlobsKept ==
    op.step # "delete" /\ ~damaged /\ ~scrapped =>
        /\ \A i \in 1..Len(history) : BlobsWhole(history[i].blobs)
        /\ (SnapshotNamed => BlobsWhole(manifest.blobs))
        /\ (PendingAdopted => BlobsWhole(manifest.pending.blobs))

\* The stored seq names one version: while the entry exists it never goes back,
\* and it never comes to name another save.  Appends compare nothing else.
SeqNamesOneVersion ==
    [][manifest # None /\ manifest' # None =>
          \/ manifest'.head = manifest.head
          \/ manifest'.head.seq > manifest.head.seq]_manifest

\* The change log stays near its limit, though each page learns of a full log from
\* the answer to its own append only, after it, and decides on the next one before:
\* past the limit the log grows by one change a page, and by as many again for each
\* interruption, which makes pages forget or never hear that a compaction is due
\* (entry.rs:512-524, kitionHost.ts:129, 145).
LogBounded ==
    manifest # None =>
        Len(manifest.changes) < CompactAfter + Cardinality(Client) * (interruptions + 1)

\* The checkpoints of an entry are of the stored replica's lineage
\* (history.rs:173-174), if no call was stopped: one that is leaves the old
\* checkpoints with the new replica (mod.rs:219).
CheckpointsOfTheLineage ==
    AtRest /\ interruptions = 0 /\ Read # None /\ SnapshotNamed =>
        \A i \in 1..Len(history) : root[history[i].save] = root[Read.at]

\* The entry implements the abstract one: whatever the write is doing to its
\* files, it takes effect at once, or not at all, and an append only ever lands
\* on the version its editor read.
Abstract == INSTANCE StoredEntry WITH
    stored  <- IF AtRest THEN Stored ELSE op.before,
    writing <- [how |-> CASE op.step = "idle" -> "none"
                          [] op.step = "delete" -> "delete"
                          [] op.body = "changes" -> "append"
                          [] op.body = "snapshot" -> "replace",
                save |-> op.save, base |-> op.base]

ImplementsStoredEntry == Abstract!Spec
=============================================================================
