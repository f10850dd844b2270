------------------------------ MODULE DocReader -----------------------------
(***************************************************************************)
(* Another Kition reading an entry.  It opened the store read-only         *)
(* (lock.rs), so it never migrates or writes, and the mutex that           *)
(* serialises the writer's calls is not its own: `entry::read` opens the   *)
(* manifest, the snapshot, each change and each blob one after another     *)
(* while the writer's steps, and its crashes, go on in between.            *)
(***************************************************************************)
EXTENDS DocEntry

VARIABLES
    view,       \* the read under way, or its answer
    window,     \* the versions the entry has read as since the read began
    cut         \* the entry was being deleted, was damaged, or was taken back to an
                \*   older version since then

readerVars == <<view, window, cut>>

Unread == [step |-> "idle", m |-> None, left |-> {}, answer |-> None]

Answered(a) == [Unread EXCEPT !.step = "done", !.answer = a]

OpenManifest ==
    /\ view.step = "idle"
    /\ view' = IF manifest = None THEN Answered(None)
               ELSE [Unread EXCEPT !.step = "snapshot", !.m = manifest]

\* Not so: any snapshot is taken for the one the manifest names.
Assumed(m) == TRUE

SnapshotIs(m) == snapshotFile = m.snapshot.save

\* The snapshot the manifest names, or its pending one; any other is no entry.
OpenSnapshot ==
    LET m == view.m
        found(meta, seq, version, bundle) ==
            [meta |-> meta, at |-> snapshotFile, seq |-> seq, version |-> version,
             blobs |-> bundle, complete |-> TRUE]
    IN  /\ view.step = "snapshot"
        /\ view' =
            IF SnapshotIs(m)
            THEN [view EXCEPT !.step = "changes", !.left = 1..Len(m.changes),
                              !.answer = found(m.meta, m.head.seq, m.head.save, m.blobs)]
            ELSE IF m.pending # None /\ snapshotFile = m.pending.save
            THEN [view EXCEPT !.step = "blobs", !.left = m.pending.blobs,
                              !.answer = found(m.pending.save, m.pending.seq,
                                               m.pending.save, m.pending.blobs)]
            ELSE Answered(None)

\* The next change: whole under its name, or the read stops before it.
OpenChange ==
    /\ view.step = "changes"
    /\ view.left # {}
    /\ LET i == CHOOSE i \in view.left : \A j \in view.left : i <= j
           change == view.m.changes[i]
           e == view.answer
       IN  view' =
            IF change \in changeFiles
            THEN [view EXCEPT !.left = @ \ {i},
                              !.answer.at = IF e.at = change.base THEN change.save ELSE None]
            ELSE [view EXCEPT !.step = "blobs", !.left = view.m.blobs,
                              !.answer.complete = FALSE, !.answer.version = None]

ChangesRead ==
    /\ view.step = "changes"
    /\ view.left = {}
    /\ view' = [view EXCEPT !.step = "blobs", !.left = view.m.blobs]

OpenBlob ==
    /\ view.step = "blobs"
    /\ \E b \in view.left :
          view' = IF blobFile[b] = "whole" THEN [view EXCEPT !.left = @ \ {b}]
                  ELSE [view EXCEPT !.left = {}, !.answer.complete = FALSE,
                                    !.answer.blobs = {}]

Answer ==
    /\ view.step = "blobs"
    /\ view.left = {}
    /\ view' = Answered(view.answer)

\* A deletion, or damage from outside, which take and bring back files that no
\* save stores.
Unsettled == op.step = "delete" \/ scrapped \/ damaged

\* An editor that lags behind folds what it knows: the entry goes back to that
\* version, and a snapshot that was replaced comes back before its manifest does.
GoesBack == \E c \in Client : BeginCompaction(c) /\ known[c].save # ReadHead.save

Reading ==
    /\ \/ OpenManifest
       \/ OpenSnapshot
       \/ OpenChange
       \/ ChangesRead
       \/ OpenBlob
       \/ Answer
    /\ window' = IF view.step = "idle" THEN {Stored} ELSE window
    /\ cut' = IF view.step = "idle" THEN Unsettled ELSE cut
    /\ UNCHANGED vars

WriterStep ==
    /\ Next
    /\ IF view.step \in {"idle", "done"} THEN UNCHANGED <<window, cut>>
       ELSE window' = window \cup {Stored'} /\ cut' = (cut \/ Unsettled' \/ GoesBack)
    /\ UNCHANGED view

ReaderInit == Init /\ view = Unread /\ window = {} /\ cut = FALSE
ReaderNext == WriterStep \/ Reading
ReaderSpec == ReaderInit /\ [][ReaderNext]_<<vars, readerVars>>

-----------------------------------------------------------------------------
(* Properties.                                                             *)

\* A read in another Kition answers parts that fit together, and when it calls
\* them complete they are one save's bytes, meta, version and blobs, whatever was
\* deleted, damaged or interrupted meanwhile (until one of two editors appends to an
\* entry that is not the one it read: AppendsContinue); and that save is a version
\* the entry held while the read went on, unless it was being deleted, was damaged,
\* or was taken back to an older version then: never a mix of two versions, never
\* one that only was about to be stored (entry.rs:236-319).
ForeignReadIsStored ==
    view.step = "done" /\ view.answer # None =>
        /\ view.answer.at # None
        /\ (view.answer.complete =>
               OneSave(view.answer) /\ (cut \/ view.answer.at \in window))
=============================================================================
