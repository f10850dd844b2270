# Kition's replicated state, specified and checked

Kition is a desktop workspace: a web interface, a Rust runtime behind it, and
*kits* (embedded editors) that keep a replica of each document beside its file.
What must never go wrong in it, and is hardest to test, is what happens to state that
several actors change at once: the replicas in `.kition/docs/`, written file by file by
editors that save concurrently and by processes that crash; the index of document ids,
changed by every window; the changes, saves and leases of a shared room; and the edits of a
table that are to start a workflow exactly once. This project specifies those parts of the
program in TLA+, checks them with TLC, and proves their central properties with TLAPS.

Paths are from the root of the repository; `docstore/` is short for
`src-tauri/src/workspace/docstore/`.

## 1. The system

### Components

| Component | State | Operations | Where |
| --- | --- | --- | --- |
| Document store entry | `meta.json` (the manifest), `snapshot.bin`, `changes/`, `blobs/`, `history.json` of one document | read, read the head, append, compact, record a checkpoint, collect blobs, delete, migrate | `docstore/entry.rs`, `blobs.rs`, `history.rs` |
| Document store calls | one mutex per entry, the index file | wrap the above; guarded index write | `docstore/mod.rs`, `workspace/guarded.rs` |
| Store lock | `store.lock`, each Kition's view of it, a heartbeat thread | open, refresh, take over, release | `docstore/lock.rs` |
| Kit replica host | the maps `appended` and `compactDue`, the editors' calls | read, write and compact a kit's replica | `src/features/kits/kition/kitionHost.ts`, `KitFrame.tsx` |
| Document identity index | path to document id, a queue per window | bind, rename, copy, forget, prune, drop entries | `src/lib/docstore/documentIndex.ts` |
| Sync client | connection, queue of pushes, last seq of the room | join, push, pull, reconnect and re-join | `src/lib/sync/client.ts` |
| Sync relay | what the room holds, what was seen of it, blobs waited for | send the replica's changes, import the room's | `src/lib/sync/relay.ts`, `src/features/collab/collabRelays.ts` |
| Sync leases | holds, the room's list, a timer per hold | acquire, renew, release | `src/lib/sync/leases.ts` |
| Room save machine | one save state per room | begin, end, change, join, leave | `src/lib/sync/saveMachine.ts`, `saveRun.ts` |
| Table triggers and events | a cursor per file, timers, the event bus | report what changed, edit a table for the host | `crates/kition-tableclient`, `crates/kition-core/src/events.rs` |
| Workflow engine | dispatchers, the keys of what was fired, runs | handle an event, scan dates and schedules, clean up | `crates/kition-workflow` |
| Agent turn driver | session log, turn guard, approvals | prepare, drive, stop, approve | `crates/kition-harness`, `crates/kition-agent` |
| Kits runtime | installed kits, grants, drafts | install, grant, draft | `crates/kition-kits*` |
| KDM replicas | a CRDT document | import, export, merge | `crates/kition-kdm`, `src/lib/kdm` |
| Shell, workspace files, models, connections, local rows, interface | | | the rest |

### How they interact

An editor (a kit in a `KitFrame`) saves its file and hands its replica to
`writeKitReplica`. That asks the **index** for the document's id and the **store** for
the entry's *head* (its `seq` and version), and then either **appends** the changes
since the head's version, naming the head's `seq`, or **replaces** the entry with a
whole snapshot. When an editor closes, `compactKitReplica` folds what it appended
into a snapshot. The calls cross into the Rust process, where `Access::of` samples
the **store lock**, and a mutex per entry runs them one at a time. Inside, each file is
replaced atomically (`write_atomically`: a temporary file, synced, renamed), and the
entry as a whole by an ordering of such replacements. Other Kitions read the same
files with no mutex in common; the lock file is all they share with the writer.

In a shared folder the editor's changes also go to a room on a server, which is not in this
repository. The **relay** exports what the replica has and the room has not, hands it to the
**client** as a push, and imports what the client pulls. The client keeps pushes in a queue
while it has no connection, and re-joins the room when it has one again. The **leases** and the
**save machine** use the same rooms: a lease says who edits a part of the document, the
machine who saves the file on the host, and up to which change it is saved.

When a table file changes, by an editor, an agent or the host, the **watcher** asks the table
kit what changed since its cursor, moves the cursor and publishes events. The **engine** takes
them from the bus and runs the workflows they match; the **dispatchers** start those that wait
for a date or a time. All three keep *keys* of what they started, and save them to files.

### What is hard

* **Crashes and failed steps** between the files of one write: entry, history,
  blobs, deletion; between the cursor and the event; between the key and the run.
* **Stale reads**: what was read before an `await` and is used after it: heads, the index,
  the version an export starts from, a lease that was granted meanwhile.
* **Readers without a mutex**, in another Kition.
* **The lock**: two takeovers at once, a device asleep between a read and a write,
  a release racing the heartbeat, a holder that never comes back.
* **Shared maps** in the page, updated after answers that come in any order.
* **Connections** that end between a request and its answer, which neither side notices at the
  same time; pushes that are sent again; sessions that leave while they save.
* **Clocks**: two ideas of what day it is.

`PROJECT.json` lists each hazard at its line with the properties aimed at it.

### What makes each component correct

* *Entry*: it always reads as one saved version, whole; an append lands only on the
  version it was made against; a `seq` names one version; no blob in use is collected;
  what is read fits together even when files are lost.
* *Lock*: one writer, or two for a bounded time; always one in the end.
* *Kit replica host*: the stored bytes are what the head says; the history is the
  replica's; folding changes nothing.
* *Index*: no id is named twice; no entry is deleted that is named, or will be; a file keeps
  its id through whatever happens to it.
* *Client*: a push is neither lost nor answered twice; pushes that waited keep their order; a
  re-join leaves no gap; every push is settled.
* *Relay*: the position it keeps is true; nothing counts as sent that no push carries; when
  nothing is under way, replica and room agree.
* *Leases*: what a document holds is granted; what is mine is shown as mine; a closed
  document holds nothing.
* *Room save*: what is called saved is in the host's file; no save is left behind; in the end
  everything is saved.
* *Workflow runs*: once per record, per date and per minute; no edit slips between two reports.
* *Agent turns* (not modelled): every tool call that began has an end; one turn at a time.

## 2. The modules

| Module | Models | Extends |
| --- | --- | --- |
| `StoredEntry` | what the store promises of one entry (abstract) | |
| `DocEntry` | one entry: its files, the call in flight, the editors, crashes, damage | |
| `DocEntryInvariant` | what every state of `DocEntry` satisfies (the inductive invariant) | `DocEntry` |
| `DocEntryProofs` | the theorems and proofs of `DocEntry` and `DocReader` | `DocReader`, `DocEntryInvariant` |
| `DocReader` | a read in another Kition, composed with the writer's steps | `DocEntry` |
| `StoreLock`, `StoreLockProofs` | `store.lock` and the Kitions that share it | |
| `KitReplica`, `KitReplicaProofs` | `writeKitReplica`, `readKitReplica`, `compactKitReplica` and their editors | |
| `DocIndex`, `DocIndexProofs` | the index, its updates from several windows, the entries they drop | |
| `PushLink` | what the client promises of the pushes handed to it (abstract) | |
| `SyncClient` | the client, its connections and the server's side of them | |
| `SyncRelay` | the relay of a replica, composed with the client's steps | `SyncClient` |
| `SyncProofs` | the theorems and proofs of both | `SyncRelay` |
| `SyncLeases`, `SyncLeasesProofs` | leases of a scope, and the documents that want them | |
| `RoomSave`, `RoomSaveProofs` | the save machine, the sessions that save and the host | |
| `RecordTriggers`, `RecordTriggersProofs` | from the edit of a table to the run of a workflow | |
| `WorkflowDispatch` | the workflows that time starts; its proofs are in `RecordTriggersProofs`, which instances it as `Time` | |
| `MC...` | instances for TLC; the modules without one are checked as they are | |

### DocEntry

The variables `manifest`, `snapshotFile`, `changeFiles`, `blobFile` and `history` are the files;
`op` is the call that holds the entry's mutex, and its `step` says which file it writes next;
`known` is the head each window's page read last, and `page` how far the page's own save is and
whether its `compactDue` names the document. A page reads the head (`KnowHead`), decides between
an append and a snapshot by what it knows (`Decide`, `kitionHost.ts:129`), and hears the answer as
a step of its own (`Hear`, 145): what happens in another window lies in between. The other
variables record the past for the properties: which saves were made (`made`), with which blobs
(`carried`) and from which lineage (`root`), what the entry may read as (`lawful`), how many
compactions have been torn in a row (`torn`).

A save is a name. Bytes, meta and version of a save are that name: what the code
compares by hash or version is compared by name. A change names its base and its save, so
that a log that does not fit together can be told (`Continues`); a merge of such a log
fails in `readKitReplica`.

One file write is one action: `WriteChange`, `NameChange`, `NamePending`, `RenameSnapshot`,
`NameSnapshot`, one `StoreBlob` per blob, one `SweepChange`, `CollectBlob` or `DeleteFile`
per file removed, in the order of `entry.rs` and `mod.rs`. What a call checks before its
first write is in its `Begin` action, because the mutex is held from there on. `Crash` and
`Fail` may come between any two: a failed step leaves the same files as a crash, but the
page keeps its maps and the process its other memory.

Folded together or left out: `writeKitReplica` falls back to a snapshot when an append is
refused (here: `BeginSnapshot` is always possible for an editor that read a head); the size
limit of `compact_due`; the texts of checkpoints and their ids; checkpoints of a document
without an entry (boards); the migration from format 1; temporary files of a crashed write.
The blobs of a save are one bundle, kept when a save brings none.

### DocReader

`view` is the read of another Kition: it opens the manifest, then the snapshot, each change
and each blob, and the writer's steps come in between. `window` collects what the
entry could have been read as, whole, since the read began. While a deletion goes on, or a
file is lost or damaged, the entry holds no version for a moment (a later save may bring the
missing blob back under the reader's eyes). When an editor that lags behind another folds what it
knows (`GoesBack`), an old snapshot comes back. `cut` records both, and then only the
parts of the answer are compared with each other, not the answer with `window`.

### StoreLock

`lockFile` is the record with its *age* instead of its heartbeat, so that no bound on time is
needed; ages stop counting past `StaleAfter`. `thread` is the refresh a Kition has under way:
`try_refresh` reads the clock and the file (`ReadLock`), and links (`CreateLock`) or renames
(`WriteLock`) its record into place as a later step, since another Kition may act in between,
and after a takeover looks again (`CheckLock`). `Beat` is the heartbeat thread, `Open`
and `Release` are `lock_for` and `release`. `Sleep` stops a Kition anywhere, and the clock its
heartbeat thread sleeps by stops with the device or not.

The Kitions modelled share *one* directory: of one device, or of several that mount it.
`Placement` says which run on one device; the clocks of two devices differ by at most `Skew`, so
what looks stale to one may look fresh to the other (`MayLookStale`, `MayLookFresh`), and a
process of one's own device that ended is seen to be gone at once, or only by its heartbeat.
`lock.rs:3-5` and 34-35 speak of folders that a file sync carries between devices, too: there each
device renews a copy of its own until the sync replaces it, two writers may last as long as the
copies differ, and neither property holds or is claimed. Wall clocks that jump are left out, and
so is a lock file that does not parse (203-208): it is linked or renamed into place whole.

### KitReplica

A level above: the store is one record (`StoredEntry`'s promise: each call takes effect at once),
and a call of the page is its `await`s. The editors are those of one page, which shares its maps
between them. A replica is the edits it holds. `HeadFails` is the catch at
`kitionHost.ts:136-139`: the save goes on with its replica whole and without a name, as one the
store cannot follow (`named`); `unread` records it. `Close` is the cleanup of `KitFrame`, which
starts a fold and does not wait for a save of its own. `overlapped` records that an editor opened
while another editor, or a call, was left, or closed before its own save had ended; until then the
editors take turns, and the properties named `InTurn...` hold. Without that condition they fail,
and `InTurnTheHistoryIsItsOwn` fails once a head was not read (section 3).

### DocIndex

A path is a name and a part: the page itself, or what its folder holds; so a rename or a deletion
may move or take several entries. `files` is the workspace, where files move before the index
hears of it and by other hands too (`Outside`). `queue` is each window's `indexQueue`: its first
task is being done, in two steps with other windows' in between: `ReadIndex` reads the index and
computes the new one, `WriteIndex` writes it if the index is what was read, and otherwise
`Conflict` tries again; `attempt` counts the tries. `dropUnreferenced` goes on after the write,
one entry at a time, and `bound` is a kit's save between the id it got and the replica it stores.

`identity`, `gone` and `crossed` record the past for `IdentityFollows`: which id a file got
first, which files were deleted or moved outside, and whether two changes were under way
at once. A failed update ends its operation, as in the code, which logs it.

`Prune` lists the files and queues its update in one step: its listing is out of date when the
update waits or another window's is written first, but this window queues nothing between the two
calls (`documentIndex.ts:278-281`).

Assumed: a copy is not saved before its index update is over. The ids of `deleted` documents are
never used in an update, so a file that is restored gets a new id, although the comment at
`documentIndex.ts:242-246` hopes for the old one. Two things leak an entry without harm: a
crash or a failed deletion between the index write and the drop, and a rename over a path
whose entry is stale.

### SyncClient

One room and one client. `up` and `down` are the messages of the connection in use; `transport`
is *dead* when the connection is gone and the client does not know it yet, and what is sent then
goes nowhere. `greeting` is the await inside `sendHello` that re-joins the room before the queue
is flushed, one push at a time (`flushing`). The server is external, modelled from what the
client relies on: it orders changes, tells them to the other members, answers each request in
turn, forgets a session whose connection ended, and may take a push twice when it is sent again.
`drops` at any point, with messages on their way in both directions.

`waited` and `stray` record which pushes had to wait in the queue and which went where no
one answers: into a dead connection, or one that was not greeted yet. Such a push is neither
refused nor sent again until that connection ends (`client.ts:645-646`).

Left out: joins by pages, a token to wait for, a greeting the server refuses (the client stays
until it drops), `close` followed by `connect`. A re-join is always answered while the connection
lasts. Leaving during a join leaves the client joined (261), as in the code; a push after
`close` never settles (616), so none is made.

### SyncRelay

`SyncRelay` extends `SyncClient` and constrains what is pushed: its steps are the client's, and
those of a relay that hands it pushes and is told what it pulls. A version is a set of changes.
`todo` is the relay's promise queue, each of its steps between two awaits an action: going online
and joining from `seen`, taking the version, exporting (`content`, `sentBy`), importing, fetching
blobs, keeping the position (`kept`). A transfer of blobs fails while offline and may fail online
(`TransferFails`): an export then stays unsent (`heldBack`), a pulled change waits in `waiting`
until the connection is made again. An import may be refused by a kit that is too old for the
change (`ImportRefused`, `schemaWatch.ts:43-54`): `blocked` then keeps the position from moving
until the next window. And it may fail otherwise (`ImportFails`): its step ends
(`relay.ts:97-100`), and the change and those the step had left are in neither the replica nor
`waiting` (`dropped`). `Crash` starts a new window, from the replica as its file was last saved
and the record as it was kept.

Left out: roles (a viewer, a removed member), reopening a document in the same window
(`collabRelays.ts:245`), the transfer of blobs itself.

### SyncLeases

One scope, and for each person a client, a connection and a document that asks for it. `lease` is
what the server granted; a connection may be given up by either side first (`Disconnected`,
`EndSession`), and a lease that no one renews runs out (`Expire`). A hold is renewed at half its
time: without a clock, `Renew` may come at any moment and must come in the end, and no lease runs
out while it is kept renewed. `crossed` says that a release went out while an acquire was under
way: the server then takes the lease back from a document that goes on holding it until its next
renewal. A document that closes with an acquire on its way and is opened again keeps a hold that
is renewed and that no one uses; and two persons may hold the scope across a connection one side
has given up.

### RoomSave

`room` is the `SaveState` of `saveMachine.ts`, every event of it an action: `Changed`, `SaveBegin`,
`SaveEnd`, joining and `SessionLeft`. `run` is `saveRun.ts` for each person and trigger: it begins,
writes to the host on the condition that it still has the version known (`knows`, `fresh`), and
ends. Sessions are numbered, so a late answer can be told from that of a newer connection. The
host may take a write and not say so, refuse it, or fail.

The comment at `saveMachine.ts:14` says that saving stops in a corrupted room until a save is
good; the machine (82-93, 100) lets it begin again and returns to *editing* when it fails. Both are
allowed for: a save may begin in a corrupted room, and no timer has to begin one there, so
`EverythingIsSaved` ends with a saved room or with one that stays corrupted.

A session ends for the server after its connection does (`SessionLeft`). One the server gives up
first is the same: nothing sent on it is answered any more.

### RecordTriggers

One file with one table and one workflow with a required field. A version is a set of edits:
`live` is the editor's replica, `file` what it saved, `headless` the document the host keeps of
the file. A `report` is the watcher's: it asks the kit (`ask`, `again`), sets and saves the cursor
(`set`), lists the records (`list`) and publishes (`publish`); several run side by side.
`hosting` is an edit the host makes, which first primes the cursor and then publishes itself; its
request may fail (`HostFails`), or its answer, so that the edit is made and published by no one
(`HostUnheard`).
The bus loses its oldest event when it is full. `Crash` goes back to what was saved.

`lost` records the edits that no one is told of, and by design: before the first report, which
"starts from now"; what the bus dropped; what a crash cut off between the cursor and the event.
Two kinds of reports tell an edit twice, which `triggers.rs:13-14` says none does: those that
overlap, and one for a headless save while an editor is open, or once the file was another's save:
it starts from the version its own replica has, and moves the cursor back. `overlapped` records
both, and `FiresOnce` shows that they start no second run.

Left out: what an agent leaves unsaved on the headless kit (`EditHeadless` edits and saves at
once, `manager.rs:678`, 772), notices a lagging watcher loses, edits elsewhere in the file,
cursors of files that are renamed or deleted (`forget`, `moved`), workflows without a required
field (they keep no key).

### WorkflowDispatch

Days are numbered and a `zone` is east of UTC, west of it or on it, so the local day is the
UTC day, the next or the one before. `scan` is one round of both dispatchers: the records whose
date is the UTC day, then the schedule at the local minute; each marks its key, saves the keys
and delivers, in this order, so a run is delivered at most once. Each cleans the keys of earlier
days at its first scan of a day, and both keep theirs in one file.

## 3. The runs

| Run | Checks | Instance | Result |
| --- | --- | --- | --- |
| `DocEntryCrash` | `SurvivesATornCompaction`, `LogBounded`, `SeqNamesOneVersion` | 4 saves, 2 windows, deletions, one change lost, 1 interruption | holds |
| `DocEntryHistory` | `BlobsKept`, `CheckpointsOfTheLineage`, `Inductive`, `ImplementsStoredEntry` | 3 saves, 2 blobs, 2 checkpoints at most, new lineages, 1 interruption | holds |
| `DocReader` | `ForeignReadIsStored`, `ReadsFitTogether` | 2 saves, 1 blob, deletions, one file lost or damaged, 1 interruption, one foreign read | holds |
| `StoreLock` | `OverlapShort`, `SettlesOnOneWriter` | 2 Kitions of one device or of two, heartbeat 2, stale after 3, clocks 1 apart, 2 faults | holds |
| `KitReplica` | `StoreHoldsItsVersion`, `InTurnTheHistoryIsItsOwn`, `InTurnAFoldKeepsTheVersion` | 2 editors, 3 edits, 2 lineages | holds |
| `DocIndex` | `OneIdOnePath`, `DropsTheUnnamed`, `IdentityFollows` | 2 windows, 2 files, 2 ids, 2 names of 2 parts, 1 retry, 2 events, 2 saves | holds |
| `SyncClient` | `EveryPushIsKept`, `WaitedInOrder`, `NothingIsSkipped`, `KeepsItsPromises`, `EveryPushSettles` | 3 pushes, 1 change of another, 2 drops or 1 and a refusal | holds |
| `SyncRelay` | `SeenIsHeld`, `JoinsForWhatItLacks`, `SentIsInRoom`, `SentIsCarried`, `AtRestTheyAgree` | 2 pushes, 2 edits, 1 change of another, 1 drop or refusal, 1 import or transfer that fails, 1 crash | holds |
| `SyncLeases` | `HeldIsGranted`, `OwnLeaseIsMine`, `ClosedHoldsNothing` | 2 persons, 2 acquires, 2 openings, 2 connections | holds |
| `RoomSave` | `SavedIsHeld`, `SaverIsThere`, `EmptyRoomTellsItsState`, `AloneTheRoomHears`, `EverythingIsSaved` | 2 persons, 3 kinds of save, 2 changes, 3 connections, 2 saves at once, 1 fault | holds |
| `RecordTriggers` | `FiresOnce`, `NothingSlips`, `InTurnToldOnce`, `FillsAreServed` | 1 record, 2 reports at once, a bus of 1, 1 failure, 1 crash | holds |
| `DateFiresOnce` | `DateFiresOnce` of `WorkflowDispatch` | 1 record, 3 minutes, 2 days, 1 failure, 1 crash | **violated** |

The runs stop where the bounds stop them (no more saves, no more interruptions), and where a
client is closed, so they do not check for deadlock. What a deadlock would be is a liveness
property where there is one.

Each module has a type invariant. They are proved (section 4) but for `DocReader`'s and
`SyncRelay`'s own variables, and `DocEntry`'s is also part of `Inductive`: the runs' time goes
to the other properties.


### What each run shows

* `DocEntryCrash`: two windows append, compact and delete one entry, through a crash or failed
  step at any point, and one file of a change may be lost: undamaged, the entry always reads,
  whole, as a stored or an interrupted save; its `seq` names one version, and its log passes the
  limit by no more than a change for each page that has not heard of it. Blobs are in the next
  run, and damaged ones in the one after.
* `DocEntryHistory`: no collection takes a blob still named, the checkpoints are the lineage's, the
  invariant of the proofs holds, and the files implement `StoredEntry`, an entry that changes at
  once or not at all.
* `DocReader`: what is read file by file beside a writer is one version, or does not pass as one.
* `StoreLock`: of Kitions that share a directory, two awake writers last for two heartbeats at most; in
  the end the awake ones have one, and the lock names it.
* `KitReplica`: the stored bytes hold exactly the version the head names, so the next append is
  complete; while editors take turns and read the heads, the history is the replica's; while they
  take turns, a fold changes nothing.
* `DocIndex`: no two windows give one id to two paths, no named entry loses its replica, and
  identities follow the files of changes that do not cross.
* `SyncClient`: drops at any point lose no push, answer none twice, keep the order of those
  that waited, leave no gap, and the client implements `PushLink`.
* `SyncRelay`: what is kept for the next window is true whenever the window goes away, so it asks
  for all it lacks and sends all it has, except what `dropped`, `overtaken` and `stray` name.
* `SyncLeases`: answers, lists, releases and reconnections in any order show each person who holds
  the scope, and a closed document frees it.
* `RoomSave`: whoever saves, leaves or comes back, *saved* is never ahead of the host's file, and a
  room that was left dirty, or whose save failed, does not stay so.
* `RecordTriggers`: however an edit is reported, the workflow runs once per record, and nothing falls
  between two reports.

### Bounds, and why they are enough

* *Saves*: a torn compaction needs two (the stored one and the new one), and an append after the
  recovery a third. A fourth lets the log of `DocEntryCrash` reach what `LogBounded` allows it.
  Compactions of a stored save make no new save, so `MaxSeq` bounds the seq they take.
* *Editors, windows, persons*: a stale read needs a second one.
* *`CompactAfter`*: 1 in `DocEntryCrash` and `KitReplica`, so that few saves pass it, and 2 in the
  other runs, where a log of two changes has a middle, instead of 64. *`MaxCheckpoints` = 2*
  instead of 200: the history passes its limit.
* *Interruptions*: one tears a compaction. That a second one before the next save loses the entry
  is the condition `torn <= 1`; the proofs have no bound.
* *Blobs*: one tells a blob in use from one that is not; two tell the kept ones from those
  of the new version.
* *Heartbeat, Skew and StaleAfter*: 2, 1 and 3 ticks instead of 15 s, the difference of two clocks and
  120 s: only their order matters (`Heartbeat + Skew <= StaleAfter`), and that a tick is long against a
  refresh.
* *Kitions*: `OverlapShort` is a property of two. They are on one device or on two, so that both
  ways for a lock to be stale occur, and one that sleeps may do so for good. With a third one the
  store may be taken over again before the second one has noticed, as `StoreLock` says. Two
  takeovers of one stale lock do make two writers (lock.rs says one): `OverlapShort` bounds for
  how long.
* *Retries* of an index update: 1 instead of 3: one conflict is tried again, two fail. *Ids and
  names*: two of each let a rename land where another file was.
* *Pushes and drops*: one in flight, one in the queue and one made during the flush; a drop with
  pushes in flight, and another one while they are sent again. `MaxFaults` bounds drops and
  refusals together: two drops, or one and a refusal; in `SyncRelay`, one of either.
* *Connections in a room*: a session that ends while it saves, its person's next one, and
  another person's.
* *Reports*: two overlap. *A bus of one* overflows with the second event. *One record* has two
  edits, and nothing in the code relates records of one file but the version they share; the
  proofs are for any number. What one record does not reach is an open editor that holds a filled record
  and lacks another edit the cursor passed: `FillsAreServed`, which has no proof, counts the fill
  as lost then, as the property says.

Saves, editors, blobs, edits, lineages, windows, files, ids and names only differ in name, and are
declared symmetric in the runs of `DocEntry`, `DocReader`, `KitReplica` and `DocIndex`. The runs
with liveness properties, and those whose names are numbers, declare no symmetry.

### Fairness

Always weak, and only of what the program or its surroundings do by themselves:

* `StoreLock`: time passes (`Tick`); the refresh and the release of an awake Kition go on. A thread
  that sleeps `HEARTBEAT` in a loop is scheduled again, and its file operations end. No device has
  to wake up.
* `SyncClient`: the client reconnects (its timer) and greets, the server answers, what arrives is
  handled.
* `SyncLeases`: the same, the renewal timer fires, the client notices in the end that the
  server gave its connection up (`Disconnected`), and a lease no one renews runs out (`Expire`).
* `RoomSave`: the save timer fires while the room is not corrupted, a save that began goes on and the
  host answers it, the server notices sessions that left.
* `RecordTriggers`: edits settle and are reported, each step of a report and of the host's request
  is answered, the engine takes events and starts runs.

Nothing is assumed of people: nobody has to edit, save, open, close or connect, and nothing has
to fail or stop.

### What the violation shows

`DateFiresOnce`: `TimeDispatcher` marks its keys with the UTC day (`dispatch.rs:101`, 169), and
`ScheduledDispatcher` removes keys older than the *local* day from the same file
(`dispatch.rs:224-231`, `store.rs:634-648`). East of UTC the local day begins while the UTC
day lasts: the first scan after local midnight removes the keys of that day, and the next one starts
every `record_date_reached` workflow of the day again. `store.rs:2` calls them "fire-once dedup
keys". Two theorems bound the fault: dates fire once on UTC and west of it, minutes on UTC and
east of it. (West of UTC the other cleaner removes the minute's keys, and two scans that fall
into one minute start the schedule twice.)

### What the conditions in the properties leave out

Some properties hold under a condition because without it they do not. Each is something the
code does, met while modelling:

* **Two torn compactions lose an entry** (`torn` in `SurvivesATornCompaction`). A compaction
  replaces the `pending` record without looking whether `snapshot.bin` is the snapshot that
  record names (`entry.rs:501`).
* **Checkpoints of another lineage** stay when the call stops after storing the new replica
  (`mod.rs:219`), and when two editors write over each other (`CheckpointsOfTheLineage`,
  `InTurnTheHistoryIsItsOwn`).
* **A `seq` used again** after a deletion (`entry.rs:458`, 491): an append made on the old entry is
  accepted (`AppendsContinue` in `SurvivesATornCompaction`; without deletions it always holds,
  `AppendsChain`). Such an entry reads as complete with parts that do not fit together; that takes
  two editors, and the run `DocReader` has one.
* **A snapshot that comes back**: a manifest is read between the rename of a compaction's snapshot
  and the new manifest; before the reader opens the snapshot, an editor that lags behind another
  folds what it knows (`kitionHost.ts:161-174`), which puts the old snapshot back. The reader
  answers a version the entry held before it read, whole, and not while it read (`GoesBack` in
  `DocReader`).
* **A lock left behind**: a refresh under way while the lock is released writes it again
  (`lock.rs:367`). It goes stale by its age, or at once when the process ends.
* **A fold over a save** (`InTurnAFoldKeepsTheVersion`): it replaces the entry without naming the
  head it compared (`kitionHost.ts:169`), and the closing editor's own save may land in between.
* **A replica made anew under an old history** (`kitionHost.ts:152`), when another editor saves in
  between (`overlapped`), or when a save cannot read the head (`unread`): the catch at 136-139 is
  meant for bytes the store cannot follow, and takes a head that failed to be read for them. The
  replica is stored with no name and no new lineage, the history stays, and the next replica made
  anew finds no name to differ from (126). The comment at 110-112 says that a replica made anew
  starts its version history over.
* **A late fold of the log**: a page learns that a compaction is due from its own appends only
  (`kitionHost.ts:129`, 145), so the log passes the limit by a change a page (`LogBounded`).
* **Crossing renames** in two windows can swap two identities, and a file that is moved or first
  saved between the listing (`documentIndex.ts:278`) and the update that prunes (281-296) is buried,
  and its replica dropped (`crossed` in `IdentityFollows`; comment at 273-274).
* **A push into a dead connection**: `sendHello` goes on after a drop during `rejoinAll` (531-533)
  and flushes where no one answers; the push waits until the next connection ends, while the
  comment at `client.ts:564-565` says it goes at once (`stray`).
* **A position past a change that is missing** (`dropped`): an import that fails for another
  reason than a newer schema ends its step (`relay.ts:146`, 176-178), the change waits nowhere,
  and the next one that is imported moves the position past it (160-163). The comment at 18-21
  says that the position is reported once every pulled change is imported. The next window joins
  from there and does not ask again.
* **Changes at rest in one place only**: an upload or a download that failed online is tried again
  when the connection is made again, or with the next edit (`heldBack` and `waiting` in
  `AtRestTheyAgree`).
* **An overtaken push**: a push made while the queue is flushed is sent at once, and when it is
  settled first, `lastSent` counts the ones before it, which may still be refused (`overtaken`).
* **An edit told twice**: by reports that overlap, and by one for a headless save beside an open editor,
  which moves the cursor back (`overlapped` in `InTurnToldOnce`; `triggers.rs:14` says none is).
* **Edits no one is told of** (`lost`): those a first report passes, those a cursor passes that
  starts anew since the replica asked never reached it (`triggers.rs:164-172`), and what a full
  bus drops.
* **Two holders** of a lease, across a half-open connection or a release that crosses an acquire
  (`HeldIsGranted`).

### Mistakes the properties notice

Some definitions are introduced with "Not so": each is a plausible mistake, and has the
parameters of the definition after it. Put in its place, it makes a property fail that
holds otherwise; `mutants` in `PROJECT.json` says which. They are used nowhere else.

## 4. The proofs

Each is for every value of the constants: any saves, editors, blobs, windows, persons, records, limits,
any number of crashes. What is assumed of the constants is the module's `...Assumption`, unless
the table says more.

| Theorem | Says |
| --- | --- |
| `DocEntryProofs!TypeCorrect` | `Spec => []TypeOK` |
| `DocEntryProofs!SeqNamesOne` | `Spec => SeqNamesOneVersion` |
| `DocEntryProofs!AppendsChain` | without deletions, `Spec => []AppendsContinue` |
| `DocEntryProofs!RecoversLawfully` | without deletions, `Spec => []SurvivesATornCompaction` |
| `DocEntryProofs!BlobsStay` | without deletions, `Spec => []BlobsKept` |
| `DocEntryProofs!InductiveHolds` | without deletions, `Spec => []Inductive` |
| `DocEntryProofs!LogStaysShort` | `Spec => []LogBounded` |
| `DocEntryProofs!ReadsFit` | without deletions, `Spec => []ReadsFitTogether` |
| `DocEntryProofs!ImplementsTheEntry` | without deletions, `Spec /\ [](torn <= 1 /\ ~damaged) => ImplementsStoredEntry` |
| `DocEntryProofs!CheckpointsStayOfTheLineage` | without deletions and with one editor, `Spec => []CheckpointsOfTheLineage` |
| `DocEntryProofs!ForeignReadsHold` | without deletions, `ReaderSpec => []ForeignReadIsStored` |
| `StoreLockProofs!TypeCorrect` | `Spec => []TypeOK` |
| `StoreLockProofs!OverlapIsShort` | of two Kitions, `Spec => []OverlapShort` |
| `KitReplicaProofs!TypeCorrect` | `Spec => []TypeOK` |
| `KitReplicaProofs!BytesHoldTheVersion` | `Spec => []StoreHoldsItsVersion` |
| `KitReplicaProofs!HistoryIsOfTheEntry` | `Spec => []InTurnTheHistoryIsItsOwn` |
| `KitReplicaProofs!FoldsKeepTheVersion` | `Spec => InTurnAFoldKeepsTheVersion` |
| `DocIndexProofs!TypeCorrect` | `Spec => []TypeOK` |
| `DocIndexProofs!NoIdTwice` | `Spec => []OneIdOnePath` |
| `DocIndexProofs!OnlyTheUnnamedGo` | `Spec => []DropsTheUnnamed` |
| `DocIndexProofs!FilesKeepTheirIds` | `Spec => []IdentityFollows` |
| `RoomSaveProofs!TypeCorrect` | `Spec => []TypeOK` |
| `RoomSaveProofs!SavedStaysHeld` | `Spec => []SavedIsHeld` |
| `RoomSaveProofs!SaversStay` | `Spec => []SaverIsThere` |
| `RoomSaveProofs!EmptyRoomsTell` | `Spec => []EmptyRoomTellsItsState` |
| `RoomSaveProofs!OwnSavesAreHeard` | `Spec => []AloneTheRoomHears` |
| `RecordTriggersProofs!TypeCorrect` | `Spec => []TypeOK` |
| `RecordTriggersProofs!RunsOnce` | `Spec => []FiresOnce` |
| `RecordTriggersProofs!NothingIsSkipped` | `Spec => []NothingSlips` |
| `RecordTriggersProofs!EachIsToldOnce` | `Spec => []InTurnToldOnce` |
| `SyncProofs!TypeCorrect` | `Spec => []TypeOK` |
| `SyncProofs!PushesStay` | `Spec => []EveryPushIsKept` |
| `SyncProofs!WaitedKeepTheirOrder` | `Spec => []WaitedInOrder` |
| `SyncProofs!NoGap` | `Spec => []NothingIsSkipped` |
| `SyncProofs!ImplementsTheLink` | `Spec => KeepsItsPromises`: the client implements `PushLink` |
| `SyncProofs!NothingIsSentUnpushed` | `RelaySpec => []SentIsCarried` |
| `SyncProofs!WhatIsKeptWasSent` | `RelaySpec => []SentIsInRoom` |
| `SyncProofs!KeptPositionIsTrue` | `RelaySpec => []SeenIsHeld` |
| `SyncProofs!WhatIsNotAskedForIsHeld` | `RelaySpec => []JoinsForWhatItLacks` |
| `SyncProofs!AtRestTheRelayAgrees` | `RelaySpec => []AtRestTheyAgree` |
| `SyncLeasesProofs!TypeCorrect` | `Spec => []TypeOK` |
| `SyncLeasesProofs!HeldStaysGranted` | `Spec => []HeldIsGranted` |
| `SyncLeasesProofs!OwnLeaseStaysMine` | `Spec => []OwnLeaseIsMine` |
| `RecordTriggersProofs!TimeTypeCorrect` | if the clock's bounds are numbers, `Time!Spec => []Time!TypeOK` |
| `RecordTriggersProofs!DatesFireOnce` | the same, `Time!Spec => []Time!DateFiresOnceInTheWest` |
| `RecordTriggersProofs!MinutesFireOnce` | the same, `Time!Spec => []Time!MinuteFiresOnceInTheEast` |

**DocEntry.** "Without deletions" is `~MayDelete`: with them `AppendsContinue` is false, an
entry written over what an interrupted deletion left keeps a history whose blobs may be
gone (so `BlobsKept` is false), and the refinement of `StoredEntry` fails with the appends.
None of the theorems is inductive as it stands, because between two steps of a call the files are
of two versions. `DocEntryInvariant` states what holds there:

* `TypeInv`: the types, and that the call's step and body agree (`OpOK`).
* `OpSeq`: until a call has named its save, its `seq` is the one after the stored one. With
  `TypeInv` this gives `SeqNamesOne`.
* `LogOK`: the named changes continue the snapshot and each other, the head is the last of
  them, and what an editor read is the stored head or of an earlier `seq`. The last part is
  what makes "the `seq` is still the same" imply "the version is still the same".
* `RecoveryOK`: what is on disk when a call is cut short. `VersionOK` (meta, blobs and
  version of each record are one save's), `PendingOK` (where the snapshot's bytes may be, by
  step and by the number of torn compactions), `LawfulOK` (each version the entry may
  recover as is lawful), and `FilesOK` (what is named is there, unless damaged).

The proofs follow the actions: a lemma for each group of steps (`Editing`, `Writing`, `Recording`,
`Deleting`, `Fail`, `Crash`, `Damage`), one part of the invariant at a time. `ReadIsLawful` then
shows that the invariant at rest implies the property. TLC checks the invariant itself, as
`Inductive`, in `DocEntryHistory`.

Five more results rest on it. `LogBounded` counts the pages that may still append: one that knows
of the due compaction will not, and one that does not has an append under way or none since the
last fold (`Free`). The length of the log and their number together stay below the bound
(`LogRoom`). A crash makes all of them forget at once. `ReadsFitTogether` holds for damaged
entries too: what is read comes from the snapshot and a log whose names still continue it, or from
the pending record, which names one save. For the refinement, the variables of `StoredEntry` are
written out as functions of the files, and each step of a call stutters but the one that names
what was written; what an interruption leaves reads as what was stored before or as what the call
stores, never as an earlier save. That is where two torn compactions in a row and damage must be
excluded, and the theorem says so: after the second an entry may be lost, which `StoredEntry` does
not allow. Checkpoints stay of one lineage because a single editor's head is the stored one
(`HeadKnown`), so that its append continues the stored replica, and a replacement by another
lineage clears the history in the same call.

`ForeignReadIsStored` is about files read one by one while the writer goes on. The manifest a reader
opened was written whole, and stays so as a record: its changes continue each other, and its
saves keep their blobs (`Sound`). The snapshot it finds then decides. If the one its manifest names
was not there when it opened the manifest, that snapshot comes back only under a manifest of the same
version, which makes that version one the entry held meanwhile, or not at all, since
new saves differ from it and no fold goes back (`SnapshotGone`); the same for a pending one
(`PendingGone`). After that, the changes lead the answer up to the manifest's version one by one
(`SnapshotRead`), and what is missing makes it incomplete (`PartsRead`).

**StoreLock.** `OverlapShort` is proved of two Kitions (`AtMostTwo`; with three it is false, as
section 3 says) that share a directory, on one device or two, for any `Heartbeat` and `Skew` that
together do not exceed `StaleAfter`, and any number of sleeps and failed refreshes. A refresh that
is not under way has written all it had to (`Resting`), and while there is a writer there is a
record, until a Kition has left or ended (`LockThere`). The rest is of two that are writers
(`Overlapping`). Either neither has looked at the record since they both became writers: that
lasts until the first beat of one of them, a heartbeat at most (`NotLooked`). Or one of them has
written it since, and it is younger than a heartbeat, so that nobody takes it over any more
(`Fresh`): the other finds at its next beat that it is not the holder, another heartbeat at most
(`FindsOut`). Hence the two heartbeats of the bound.

**KitReplica.** `StoreHoldsItsVersion` needs that an append which finds the `seq` it read finds the
version it read (`AppendsKnowTheStore`), for any interleaving. The two others hold while editors
take turns, and their invariant says what turns give: one editor is active (`OneAtATime`), the
calls are its own (`CallsAreOwn`), its replica holds what is stored (`ReplicasContain`), the head
it read is still the stored one (`HeadsAreCurrent`), and so every checkpoint is contained in the
entry (`HistoryIsKept`). The history also needs the heads: once an editor could not read one, its
next save may replace the entry without naming a new lineage, and the checkpoints of the old one
stay (`unread`). As long as that did not happen, a snapshot names its lineage unless the store
already has it (`NamedUnlessUnread`).

**DocIndex.** Two ids meet only through a stale reading. `Names` therefore speaks of what each
window would write: the new ids of its reading are not minted yet and differ from those of the
other windows, and what it is dropping was minted and is named neither by the index nor by what
could still be written, since a write is accepted only over the index that was read.

`IdentityFollows` speaks of the index at rest; `Following` says where it has each file before
that. If no change crossed another, at most one change of the files is on its way, alone but for
one save of its window (`InLine`). The index then has a file's id at the path it has now or, while
the change is a move that brings it, at the path it came from (`EntriesFollow`). To show that the
end of an update keeps this, each update must know the files (`Ready`): a move and a deletion left
nothing behind, a prune lists what is there, a copy is not saved yet, and a save's file is where
the index has it when the save's turn comes. A replica is stored, or about to be, under its file's
id (`StoresFollow`).

**SyncClient.** The server knows a push only by the connection it came over, so the invariant
follows each push. A push that was sent and is unanswered is on its way, taken or refused with
its answer on its way back, or went where no one answers (`PushesOK`). While the queue is
flushed, one of its pushes is on its way and the others wait in the order they were made (`OrderOK`):
that is what `WaitedInOrder` needs. For `NothingIsSkipped`, what was heard and what is on its
way back reach together, without a hole, as far as the messages on the way say they do,
from the seq that was joined from (`HearsOK`). The step simulation of `PushLink` uses the first
part: an answer that settles a push is of a push that is open.

**SyncRelay.** The relay extends the client's state, and the client's lemmas are stated for its
steps, so the proofs of `SyncClient` are used as they are; only a new window (`Crash`) is added.
What the relay speaks of is in the room, and the room only grows (`Known`): a step, a position, a
change that waits name seqs the room has. A version that counts as sent is in the room or in what
is carried by pushes that are open, refused or overtaken, for each open push by those made no
later (`SentOK`); this gives `SentIsCarried` and `SentIsInRoom`. Until it has joined, a relay has
heard nothing and sends nothing (`FollowOK`), and from then on it hears of the room all that comes
after `since` (`HearsSince`, the client's argument with another base). What was heard is held,
waits for its blobs, failed to import (`dropped`), or is named by a step, and when a step that
ends with a position is done, all up to that position is one of the first three (`HoldOK`):
whatever waits blocks the position, and a refusal takes it back. Hence `SeenIsHeld`, and
`JoinsForWhatItLacks` for the next window. For `AtRestTheyAgree`, what is missing is led to by a
step (`LeadsOK`): an online relay that has not joined has a step that will, changes that wait have
one that fetches them, and a change that is not counted as sent one that sends it. Where a
transfer of blobs failed while online, what it would have sent is left to the next step that sends
(`heldBack`), and what waits is left to the next connection. And what was sent where one answers
has its message on the line (`LineOK`). With no step left, nothing on the line and nothing held
back, nothing is missing but what failed to import.

**SyncLeases.** Calls, answers and releases cross on connections the server may have given up, so
the parts of `IInv` are of one person each (`PersonOK`). A grant counts if its document still asks
with the call it answers, or keeps the hold it gave; whatever frees a scope (a release, a refusal)
is on no connection behind one that counts, unless it is a release that crossed the acquire
(`GrantOK`). Calls are sent in the order of their numbers and a call that was given up is older
than those still asked (`NumbersOK`); each connection is one person's, and one the server gave up
carries nothing to the person (`LinksOK`, `LineOK`). What a document is told then agrees with what
the server last did (`HearOK`).

**RoomSave.** `Inductive` adds to the properties that a dirty room is ahead of what is saved
(`DirtyIsAhead`), that a session is one person's (`SessionsApart`), that a save which is
written has its change at the host (`RunsAreHeld`), and that the room's save belongs to the run that
began it unless that run's session ended or saved otherwise meanwhile (`OwnIsAlone`).

**RecordTriggers.** Runs side by side, crashes and two saved files: `Inductive` says that the
saved file is part of the live replica and edits are made once (`ReplicasGrow`), that what each
version passes is lost, told or, if it fills a record, carried by an event, a report, a host's
request or a run (`PassedIsAccounted`, for the cursor, the saved cursor and the cursor each report
started from), and that every run has its mark (`MarksAreOfRuns`, `MarksKept`). For
`InTurnToldOnce`, while reports are made in turn, and none of a headless save beside an open
editor, a report starts from the cursor and what it is about to tell is either beyond it or was
never told (`TellsNew`). What was told before is behind the cursor, or was lost when an editor
closed without saving (`ToldIsPassed`): a report that starts from nowhere must find in the
replicas nothing that was told.

**WorkflowDispatch.** Where no local day is ahead of the UTC day, the keys of today's dates survive
both cleaners, and each record fired today has its key, or the keys were once not saved; a
scan marks before it delivers. The same with days exchanged gives the minutes.

Only model-checked are the liveness properties (`SettlesOnOneWriter`, `EveryPushSettles`,
`ClosedHoldsNothing`, `EverythingIsSaved`, `FillsAreServed`): liveness under fairness, ENABLED, and
induction over data are out of the prover's reach. No module uses RECURSIVE.

## 5. Not modelled, and what is left

In order of what it would add:

1. `DocMigration`: the migration of a format-1 entry and its crash points (`entry.rs:380-429`):
   an entry reads the same before, during and after it.
2. `DocStore`: several Kitions that each sample the lock and then write, on top of `StoreLock` and
   `DocEntry`'s steps: what two writers for two heartbeats can do to an entry.
3. Joins by pages in `SyncClient` (`client.ts:695`), roles and removed members in `SyncRelay`.
4. `AgentTurn`: the session log, the turn guard, stops and approvals.
5. What a workflow run does: its actions, conditions, retries and history; cursors of files
   that are renamed or deleted.
6. Grants and drafts of kits.
7. Proofs: the types of the variables that `SyncRelay` and `DocReader` add.

Not planned: the CRDT (a library), file watching and path checks, model providers, connections,
SQLite rows, updates, windows and views: I/O, wire formats and layout around state that is not
shared or is kept elsewhere. The kits' own interfaces (`src/lib/sdk/kits/`) and the pages of the
application are most of the source, and declare formats and draw views.
