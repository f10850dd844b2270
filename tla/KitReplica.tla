----------------------------- MODULE KitReplica -----------------------------
(***************************************************************************)
(* How editors keep a kit's replica in the document store:                 *)
(* `readKitReplica`, `writeKitReplica` and `compactKitReplica` of          *)
(* kitionHost.ts, the maps `appended` and `compactDue` they share, and the *)
(* editors that call them.                                                 *)
(*                                                                         *)
(* Each call of the store is one step (DocEntry and StoredEntry say what   *)
(* it promises); between two of them, and between the store's effect and   *)
(* the code after the `await`, the other calls go on.                      *)
(*                                                                         *)
(* A replica is the document id it was made with and the edits it holds,   *)
(* which are its version.                                                  *)
(***************************************************************************)
EXTENDS Naturals, FiniteSets

CONSTANTS
    Editor,         \* the editors of one file, over time
    Edit,           \* the edits they make
    Lineage,        \* the document ids of replicas
    None,
    CompactAfter,   \* COMPACT_AFTER_CHANGES
    MaxSeq          \* bound: the stored seq past which no call begins

Replica == [id : Lineage, version : SUBSET Edit]
Stored == [id : Lineage, version : SUBSET Edit, named : BOOLEAN, holds : SUBSET Edit,
           seq : Nat, log : Nat]

ASSUME KitReplicaAssumption ==
    /\ None \notin Replica /\ None \notin Stored
    /\ CompactAfter \in Nat \ {0}
    /\ MaxSeq \in Nat

VARIABLES
    store,      \* the entry: its head (version), whether the meta names the replica
                \*   and the head the version, the edits its bytes hold, and the
                \*   number of changes after its snapshot; or None
    history,    \* the versions of its checkpoints
    appended,   \* `appended`: the replica last stored as changes, or None
    compactDue, \* `compactDue` names the document
    replica,    \* the replica each editor has open, or None
    write,      \* each editor's `writeKitReplica`
    fold,       \* each editor's `compactKitReplica`
    made,       \* the edits made so far
    overlapped, \* an editor opened before the last one, and its calls, were done, or
                \*   closed before its own write was
    unread      \* a save could not read the head and stored its replica unnamed

vars == <<store, history, appended, compactDue, replica, write, fold, made,
          overlapped, unread>>

\* A call of an editor: its step, the replica it stores, the head it read, whether
\* the replica is of another lineage than the stored one (`newLineage`), whether it
\* names it (`replicaId`, `version`), and the `compact` its append answered.
NoCall == [step |-> "idle", replica |-> None, head |-> None, fresh |-> FALSE,
           named |-> FALSE, compact |-> FALSE]
Calls(steps) == [step : steps, replica : Replica \cup {None}, head : Stored \cup {None},
                 fresh : BOOLEAN, named : BOOLEAN, compact : BOOLEAN]
WriteSteps == {"idle", "head", "append", "snapshot", "appended", "replaced"}
FoldSteps == {"idle", "head", "write", "written"}

TypeOK ==
    /\ store \in Stored \cup {None}
    /\ history \subseteq SUBSET Edit
    /\ appended \in Replica \cup {None}
    /\ compactDue \in BOOLEAN
    /\ replica \in [Editor -> Replica \cup {None}]
    /\ write \in [Editor -> Calls(WriteSteps)]
    /\ fold \in [Editor -> Calls(FoldSteps)]
    /\ made \subseteq Edit
    /\ {overlapped, unread} \subseteq BOOLEAN

SeqOf(entry) == IF entry = None THEN 0 ELSE entry.seq

-----------------------------------------------------------------------------
(* Editors.                                                                *)

Quiet(e) == write[e].step = "idle" /\ fold[e].step = "idle"

Opens(e) ==
    /\ replica[e] = None
    /\ Quiet(e)
    /\ overlapped' = (overlapped \/ \E o \in Editor : replica[o] # None \/ ~Quiet(o))

\* `readKitReplica` answers the stored replica, and it still goes with the file.
OpenStored(e) ==
    /\ Opens(e)
    /\ store # None
    /\ replica' = [replica EXCEPT ![e] = [id |-> store.id, version |-> store.holds]]
    /\ UNCHANGED <<store, history, appended, compactDue, write, fold, made, unread>>

\* There is none, or the file changed elsewhere: a replica made anew.
OpenAnew(e) ==
    /\ Opens(e)
    /\ \E id \in Lineage, x \in Edit \ made :
          /\ \A o \in Editor : replica[o] # None => replica[o].id # id
          /\ store # None => store.id # id
          /\ replica' = [replica EXCEPT ![e] = [id |-> id, version |-> {x}]]
          /\ made' = made \cup {x}
    /\ UNCHANGED <<store, history, appended, compactDue, write, fold, unread>>

MakeEdit(e) ==
    /\ replica[e] # None
    /\ \E x \in Edit \ made :
          /\ replica' = [replica EXCEPT ![e].version = @ \cup {x}]
          /\ made' = made \cup {x}
    /\ UNCHANGED <<store, history, appended, compactDue, write, fold, overlapped, unread>>

-----------------------------------------------------------------------------
(* `writeKitReplica`.                                                      *)

BeginWrite(e) ==
    /\ replica[e] # None
    /\ write[e].step = "idle"
    /\ SeqOf(store) < MaxSeq
    /\ write' = [write EXCEPT ![e] = [NoCall EXCEPT !.step = "head", !.replica = replica[e]]]
    /\ UNCHANGED <<store, history, appended, compactDue, replica, fold, made, overlapped, unread>>

\* `changesSince`: r is a later version of the stored replica.
Follows(r, entry) == r.id = entry.id /\ entry.version \subseteq r.version

\* The save is an append, a snapshot of the same replica (a first one, one the store
\* asked for, or one over a replica that is not named), or a snapshot of another.
ReadHead(e) ==
    /\ write[e].step = "head"
    /\ LET r == write[e].replica
           known == store # None /\ store.named
           follow == known /\ Follows(r, store)
           asked == known /\ store.id = r.id /\ compactDue
       IN  write' = [write EXCEPT ![e] =
                        [@ EXCEPT !.head = store, !.named = TRUE,
                            !.step = IF follow /\ ~compactDue THEN "append" ELSE "snapshot",
                            !.fresh = known /\ ~follow /\ ~asked]]
    /\ UNCHANGED <<store, history, appended, compactDue, replica, fold, made, overlapped, unread>>

\* The head cannot be read: the catch takes the replica for one the store cannot
\* follow, and the save goes on as a snapshot without its id, version and lineage.
HeadFails(e) ==
    /\ write[e].step = "head"
    /\ write' = [write EXCEPT ![e].step = "snapshot"]
    /\ unread' = TRUE
    /\ UNCHANGED <<store, history, appended, compactDue, replica, fold, made, overlapped>>

\* Not so: an append that does not name the seq it was made since.
AtAnySeq(entry, head) == entry # None

AtSeq(entry, head) == entry # None /\ entry.seq = head.seq

\* `appendDocumentStore`, with its checkpoint.
AppendChanges(e) ==
    /\ write[e].step = "append"
    /\ LET w == write[e]
       IN  IF AtSeq(store, w.head)
           THEN /\ store' = [store EXCEPT !.version = w.replica.version,
                                 !.holds = @ \cup (w.replica.version \ w.head.version),
                                 !.seq = @ + 1, !.log = @ + 1]
                /\ history' = history \cup {w.replica.version}
                /\ write' = [write EXCEPT ![e].step = "appended",
                                          ![e].compact = store.log + 1 >= CompactAfter]
           ELSE /\ write' = [write EXCEPT ![e].step = "snapshot"]
                /\ UNCHANGED <<store, history>>
    /\ UNCHANGED <<appended, compactDue, replica, fold, made, overlapped, unread>>

AppendAnswered(e) ==
    /\ write[e].step = "appended"
    /\ appended' = write[e].replica
    /\ compactDue' = (compactDue \/ write[e].compact)
    /\ write' = [write EXCEPT ![e] = NoCall]
    /\ UNCHANGED <<store, history, replica, fold, made, overlapped, unread>>

Whole(r, named) == [id |-> r.id, version |-> r.version, named |-> named,
                    holds |-> r.version, seq |-> SeqOf(store) + 1, log |-> 0]

\* Not so: the checkpoints of another replica stay.
KeptHistory(fresh) == history

HistoryLeft(fresh) == IF fresh THEN {} ELSE history

\* `writeDocumentStore`: it replaces whatever the store holds by now.
ReplaceStored(e) ==
    /\ write[e].step = "snapshot"
    /\ store' = Whole(write[e].replica, write[e].named)
    /\ history' = HistoryLeft(write[e].fresh) \cup {write[e].replica.version}
    /\ write' = [write EXCEPT ![e].step = "replaced"]
    /\ UNCHANGED <<appended, compactDue, replica, fold, made, overlapped, unread>>

ReplaceAnswered(e) ==
    /\ write[e].step = "replaced"
    /\ compactDue' = FALSE
    /\ appended' = None
    /\ write' = [write EXCEPT ![e] = NoCall]
    /\ UNCHANGED <<store, history, replica, fold, made, overlapped, unread>>

\* A call of the store fails, before or after its effect.
WriteFails(e) ==
    /\ write[e].step \in {"append", "snapshot", "appended", "replaced"}
    /\ write' = [write EXCEPT ![e] = NoCall]
    /\ UNCHANGED <<store, history, appended, compactDue, replica, fold, made, overlapped, unread>>

-----------------------------------------------------------------------------
(* `compactKitReplica`, when an editor closes.                             *)

\* The editor does not wait for a write of its own.
Close(e) ==
    /\ replica[e] # None
    /\ fold[e].step = "idle"
    /\ overlapped' = (overlapped \/ write[e].step # "idle")
    /\ SeqOf(store) <= MaxSeq
    /\ replica' = [replica EXCEPT ![e] = None]
    /\ appended' = None
    /\ fold' = IF appended = None THEN fold
               ELSE [fold EXCEPT ![e] = [NoCall EXCEPT !.step = "head", !.replica = appended]]
    /\ UNCHANGED <<store, history, compactDue, write, made, unread>>

\* Not so: the fold does not look at what the store holds.
FoldAnyway(last) == store # None

StillStored(last) == store # None /\ store.named /\ store.version = last.version

FoldHead(e) ==
    /\ fold[e].step = "head"
    /\ fold' = [fold EXCEPT ![e] =
                   IF StillStored(@.replica) THEN [@ EXCEPT !.step = "write", !.head = store]
                   ELSE NoCall]
    /\ UNCHANGED <<store, history, appended, compactDue, replica, write, made, overlapped, unread>>

FoldWrite(e) ==
    /\ fold[e].step = "write"
    /\ store' = Whole([fold[e].replica EXCEPT !.id = fold[e].head.id], TRUE)
    /\ fold' = [fold EXCEPT ![e].step = "written"]
    /\ UNCHANGED <<history, appended, compactDue, replica, write, made, overlapped, unread>>

FoldAnswered(e) ==
    /\ fold[e].step = "written"
    /\ compactDue' = FALSE
    /\ fold' = [fold EXCEPT ![e] = NoCall]
    /\ UNCHANGED <<store, history, appended, replica, write, made, overlapped, unread>>

FoldFails(e) ==
    /\ fold[e].step \in {"head", "write", "written"}
    /\ fold' = [fold EXCEPT ![e] = NoCall]
    /\ UNCHANGED <<store, history, appended, compactDue, replica, write, made, overlapped, unread>>

\* The application stops: its editors, its calls and the two maps are gone, and the
\* store stays.
Restart ==
    /\ replica' = [e \in Editor |-> None]
    /\ write' = [e \in Editor |-> NoCall]
    /\ fold' = [e \in Editor |-> NoCall]
    /\ appended' = None
    /\ compactDue' = FALSE
    /\ UNCHANGED <<store, history, made, overlapped, unread>>

-----------------------------------------------------------------------------
Init ==
    /\ store = None
    /\ history = {}
    /\ appended = None
    /\ compactDue = FALSE
    /\ replica = [e \in Editor |-> None]
    /\ write = [e \in Editor |-> NoCall]
    /\ fold = [e \in Editor |-> NoCall]
    /\ made = {}
    /\ overlapped = FALSE
    /\ unread = FALSE

Next ==
    \/ Restart
    \/ \E e \in Editor :
          \/ OpenStored(e)
          \/ OpenAnew(e)
          \/ MakeEdit(e)
          \/ BeginWrite(e)
          \/ ReadHead(e)
          \/ HeadFails(e)
          \/ AppendChanges(e)
          \/ AppendAnswered(e)
          \/ ReplaceStored(e)
          \/ ReplaceAnswered(e)
          \/ WriteFails(e)
          \/ Close(e)
          \/ FoldHead(e)
          \/ FoldWrite(e)
          \/ FoldAnswered(e)
          \/ FoldFails(e)

Spec == Init /\ [][Next]_vars

-----------------------------------------------------------------------------
(* Properties.                                                             *)

\* The stored bytes hold exactly the version the head names, however the saves,
\* folds and failures of several editors interleave: the changes of an append are
\* those since the version it lands on (kitionHost.ts:129-131, entry.rs:455-461).
StoreHoldsItsVersion == store # None => store.holds = store.version

\* While editors take turns and every save reads the head it goes on from, whatever
\* else fails, the entry holds the version of every checkpoint in its history
\* (kitionHost.ts:110-112: a replica made anew replaces the stored one and starts its
\* version history over).  A save that could not read the head stores a replica made
\* anew over another's history (kitionHost.ts:135-138), and so does the next replica
\* made anew, which finds no name to differ from (kitionHost.ts:125).
InTurnTheHistoryIsItsOwn ==
    overlapped \/ unread \/ (store # None => \A v \in history : v \subseteq store.version)

FoldsTheStored(e) ==
    fold[e].step = "write" /\ fold'[e].step = "written" =>
        store'.id = store.id /\ store'.version = store.version

\* A fold stores the version the store holds already, "never a replica another
\* save replaced meanwhile" (kitionHost.ts:167), while editors take turns, whatever
\* fails (kitionHost.ts:161-174).
InTurnAFoldKeepsTheVersion == [][overlapped \/ \A e \in Editor : FoldsTheStored(e)]_vars
=============================================================================
