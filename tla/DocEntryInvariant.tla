------------------------- MODULE DocEntryInvariant -------------------------
(* What every state of DocEntry satisfies between any two steps of a call: *)
(* the inductive invariants from which its properties are proved.          *)
EXTENDS DocEntry

Named == manifest # None
InFlight == op.step \notin {"idle", "delete"}
Unnamed == op.step \in {"change", "blobs", "rename", "name"}
Compacting == op.step \in {"rename", "name"}
Written == op.step \in {"sweep", "history"}

-----------------------------------------------------------------------------
(* The call in flight.                                                     *)

\* Its step and its body agree, and it carries what they need.
OpOK ==
    /\ InFlight => op.save \in Save /\ op.client \in Client /\ op.body # "none"
    /\ ~InFlight => op.body = "none"
    /\ op.step = "change" => op.body = "changes"
    /\ op.step \in {"rename", "name", "sweep"} => op.body = "snapshot"
    /\ op.body = "changes" => op.base \in Save /\ Named
    /\ Written => Named

\* Until its save is named, it holds the seq after the stored one.
OpSeq == Unnamed => op.seq = NextSeq

TypeInv == TypeOK /\ OpOK

-----------------------------------------------------------------------------
(* The log of changes, while the entry is not deleted.                     *)

Tip(m) == IF m.changes = <<>> THEN m.snapshot.save ELSE Last(m.changes).save

LogOf(m) ==
    /\ Chained(m)
    /\ m.head.save = Tip(m)
    /\ \A i \in 1..Len(m.changes) : m.changes[i].seq <= m.head.seq

\* What an editor read is the stored head, or of an earlier seq.
KnownOK ==
    \A c \in Client : known[c] \in Heads =>
        /\ Named
        /\ known[c].seq <= manifest.head.seq
        /\ known[c].seq = manifest.head.seq => known[c].save = manifest.head.save

BaseOK == op.body = "changes" /\ Unnamed => op.base = manifest.head.save

LogOK ==
    /\ Named => LogOf(manifest)
    /\ KnownOK
    /\ BaseOK
    /\ op.step # "delete"

-----------------------------------------------------------------------------
(* What an interrupted call leaves behind.                                 *)

KnownMade == \A c \in Client : known[c] \in Heads => known[c].save \in made

\* The blobs a call brings are those of the save it writes.
CallVersion ==
    /\ InFlight => op.save \in made
    /\ op.body = "snapshot" => op.blobs = carried[op.save]
    /\ op.body = "changes" /\ Unnamed =>
          carried[op.save] = IF op.keep THEN manifest.blobs ELSE op.blobs
    /\ Written => manifest.head.save = op.save

\* The manifest's meta, head and blobs are one save's, and so are the pending
\* snapshot's.
ManifestVersion == Named =>
    /\ manifest.meta = manifest.head.save
    /\ manifest.head.save \in made
    /\ manifest.blobs = carried[manifest.head.save]
    /\ manifest.pending # None =>
          /\ manifest.pending.save \in made
          /\ manifest.pending.blobs = carried[manifest.pending.save]

\* Where the snapshot's bytes may be when a compaction is under way, or was
\* torn once.
PendingOK ==
    /\ Named /\ manifest.pending = None =>
          /\ torn = 0
          /\ ~Compacting
          /\ snapshotFile = manifest.snapshot.save
    /\ Named /\ manifest.pending # None /\ ~Compacting =>
          /\ torn >= 1
          /\ torn = 1 => snapshotFile \in {manifest.snapshot.save, manifest.pending.save}
    /\ op.step = "rename" => Named /\ (torn = 0 => snapshotFile = manifest.snapshot.save)
    /\ op.step = "name" => snapshotFile = op.save
    /\ Compacting /\ Named =>
          manifest.pending = [seq |-> op.seq, save |-> op.save, blobs |-> op.blobs]
    /\ op.body = "changes" \/ Written => manifest.pending = None

\* What the entry may be recovered as is lawful.
LawfulOK ==
    /\ ~Named => None \in lawful
    /\ Named /\ ~Written => manifest.head.save \in lawful
    /\ Named /\ manifest.pending # None /\ ~Compacting => manifest.pending.save \in lawful

\* Every file the manifest names is there and whole before it is named.
ChangesThere ==
    /\ Named => \A i \in 1..Len(manifest.changes) : manifest.changes[i] \in changeFiles
    /\ op.step = "blobs" /\ op.body = "changes" =>
          [seq |-> op.seq, base |-> op.base, save |-> op.save] \in changeFiles
    /\ op.step = "sweep" => manifest.changes = <<>>

StoredWhole ==
    /\ \A b \in Blob : blobFile[b] # "damaged"
    /\ Named => BlobsWhole(manifest.blobs)
    /\ Named /\ manifest.pending # None => BlobsWhole(manifest.pending.blobs)
    /\ Compacting => BlobsWhole(op.blobs)

HistoryWhole == \A i \in 1..Len(history) : BlobsWhole(history[i].blobs)

FilesOK == ~damaged => ChangesThere /\ StoredWhole /\ HistoryWhole

VersionOK == KnownMade /\ CallVersion /\ ManifestVersion

RecoveryOK == VersionOK /\ PendingOK /\ LawfulOK /\ FilesOK

\* All of it: the invariant DocEntryProofs proves.
Inductive == TypeInv /\ OpSeq /\ LogOK /\ RecoveryOK
=============================================================================
