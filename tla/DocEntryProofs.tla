--------------------------- MODULE DocEntryProofs ---------------------------
(***************************************************************************)
(* Theorems about DocEntry, for every value of its constants: types; the   *)
(* seq and the log, where a stored seq names one version and appends       *)
(* continue the stored one; recovery, where an entry that is never deleted *)
(* reads, whole, as the last stored save or as one interrupted since,      *)
(* until a second compaction in a row is torn; the length of the log; what *)
(* a reader makes of the files; the implementation of StoredEntry; the     *)
(* lineage of the checkpoints; and what a reader in another Kition answers *)
(* (DocReader), whose read goes on while the writer writes.                *)
(***************************************************************************)
EXTENDS DocReader, DocEntryInvariant, SequenceTheorems, FiniteSetTheorems, TLAPS

-----------------------------------------------------------------------------
(* Types.                                                                  *)

LEMMA IdleType == Idle \in OpType
  BY DEF Idle, OpType, Steps, Bundle

LEMMA TypeInit == Init => TypeOK
<1> SUFFICES ASSUME Init PROVE TypeOK
  OBVIOUS
<1> USE DEF Init
<1>1. history \in Seq(Checkpoint)
  OBVIOUS
<1>2. op \in OpType
  BY IdleType
<1>3. /\ carried \in [Save -> Bundle]
      /\ root \in [Save -> Save]
      /\ blobFile \in [Blob -> {"absent", "whole", "damaged"}]
      /\ known \in [Client -> Heads \cup {Absent, None}]
  BY DEF Bundle
<1>4. page \in [Client -> [step : PageSteps, due : BOOLEAN]]
  BY DEF NewPage, PageSteps
<1> QED BY <1>1, <1>2, <1>3, <1>4 DEF TypeOK

LEMMA RecordedType ==
    ASSUME NEW h \in Seq(Checkpoint), NEW cp \in Checkpoint
    PROVE  Recorded(h, cp) \in Seq(Checkpoint)
<1> DEFINE grown == Append(h, cp)
<1>1. grown \in Seq(Checkpoint) /\ Len(grown) = Len(h) + 1 /\ Len(h) \in Nat
  BY AppendProperties, LenProperties
<1>2. \A k : Without(grown, k) \in Seq(Checkpoint)
  <2> TAKE k
  <2>1. \A i \in 1..(Len(grown) - 1) :
          /\ grown[i] \in Checkpoint
          /\ grown[i + 1] \in Checkpoint
    BY <1>1, ElementOfSeq
  <2> QED BY <1>1, <2>1, IsASeq DEF Without
<1> QED BY <1>1, <1>2 DEF Recorded

LEMMA ReadHeadType ==
    ASSUME TypeOK
    PROVE  ReadHead \in Heads \cup {Absent}
  BY DEF TypeOK, ReadHead, Manifest

LEMMA NextSeqType == TypeOK => NextSeq \in Nat
  BY DEF TypeOK, NextSeq, Manifest, Heads

LEMMA StoredType == TypeOK => Stored \in Save \cup {None}
<1> SUFFICES ASSUME TypeOK, Stored # None PROVE Stored \in Save
  OBVIOUS
<1>1. Read # None /\ Read.complete /\ Stored = Read.at /\ Read.at # None
  BY DEF Stored
<1>2. CASE SnapshotNamed
  <2> DEFINE m == manifest
             n == Loaded(m, changeFiles)
  <2>1. m \in Manifest
    BY <1>2 DEF TypeOK, SnapshotNamed
  <2>2. n = Len(m.changes)
    BY <1>1, <1>2 DEF Read
  <2>3. Read.at = IF n = 0 THEN m.snapshot.save ELSE m.changes[n].save
    BY <1>1, <1>2 DEF Read, SnapshotNamed
  <2>4. n # 0 => m.changes[n] \in Change
    BY <2>1, <2>2, LenProperties, ElementOfSeq DEF Manifest
  <2> QED BY <1>1, <2>1, <2>3, <2>4 DEF Manifest, Heads, Change
<1>3. CASE ~SnapshotNamed
  <2>1. PendingAdopted /\ Read.at = manifest.pending.save
    BY <1>1, <1>3 DEF Read
  <2> QED BY <1>1, <2>1 DEF TypeOK, PendingAdopted, Manifest, Pending
<1> QED BY <1>2, <1>3

-----------------------------------------------------------------------------
(* What each call leaves in `op`.                                          *)

LEMMA IdleFields ==
    /\ Idle.step = "idle"
    /\ Idle.body = "none"
    /\ Idle.fresh = FALSE
    /\ Idle.mark = FALSE
  BY DEF Idle

\* Only the step of the call changes.
SameCall(o) ==
    /\ op'.body = o.body /\ op'.client = o.client /\ op'.save = o.save
    /\ op'.base = o.base /\ op'.seq = o.seq /\ op'.blobs = o.blobs
    /\ op'.keep = o.keep

LEMMA StepCall ==
    ASSUME op \in OpType, NEW step \in Steps, op' = [op EXCEPT !.step = step]
    PROVE  op' \in OpType /\ op'.step = step /\ SameCall(op)
  BY DEF OpType, SameCall

LEMMA RecordCall ==
    ASSUME op \in OpType,
           \/ op' = [op EXCEPT !.step = "history"]
           \/ op' = [op EXCEPT !.step = "history", !.fresh = FALSE]
           \/ op' = [op EXCEPT !.step = "history", !.mark = FALSE]
    PROVE  op' \in OpType /\ op'.step = "history" /\ SameCall(op)
<1>1. CASE op' = [op EXCEPT !.step = "history"]
  BY <1>1, StepCall DEF Steps
<1>2. CASE op' = [op EXCEPT !.step = "history", !.fresh = FALSE]
  BY <1>2 DEF OpType, Steps, SameCall
<1>3. CASE op' = [op EXCEPT !.step = "history", !.mark = FALSE]
  BY <1>3 DEF OpType, Steps, SameCall
<1> QED BY <1>1, <1>2, <1>3

LEMMA AppendCall ==
    ASSUME TypeOK, NEW c \in Client, NEW s \in Save, NEW bundle \in BlobSets,
           NEW mark \in Marks, NEW edit \in Marks, NEW keep \in BOOLEAN,
           BeginAppend(c, s, bundle, keep, mark, edit)
    PROVE  /\ op' \in OpType
           /\ op'.step = "change" /\ op'.body = "changes" /\ op'.client = c
           /\ op'.save = s /\ op'.base = known[c].save
           /\ op'.seq = known[c].seq + 1 /\ op'.keep = keep
           /\ op'.blobs = (IF keep THEN {} ELSE bundle)
           /\ known[c] \in Heads
           /\ manifest \in Manifest
<1>1. known[c] \in Heads /\ manifest \in Manifest
  BY DEF BeginAppend, AppendRefused, TypeOK
<1>a. mark \in BOOLEAN /\ edit \in BOOLEAN
  BY DEF Marks
<1>2. /\ known[c].save \in Save
      /\ known[c].seq + 1 \in Nat
  BY <1>1 DEF Heads
<1> DEFINE blobs == IF keep THEN {} ELSE bundle
<1>b. blobs \in Bundle
  <2>1. bundle \in Bundle /\ {} \in Bundle
    BY DocEntryAssumption DEF Bundle
  <2> QED BY <2>1
<1>3. Stored \in Save \cup {None} /\ Idle \in OpType
  BY StoredType, IdleType
<1> DEFINE call == [Idle EXCEPT !.step = "change", !.body = "changes",
                      !.client = c, !.save = s, !.base = known[c].save,
                      !.seq = known[c].seq + 1, !.keep = keep, !.blobs = blobs,
                      !.mark = mark, !.edit = edit, !.before = Stored]
<1>4. op' = call
  BY DEF BeginAppend
<1>5. call \in OpType
  <2> HIDE DEF blobs
  <2> QED BY <1>a, <1>2, <1>b, <1>3 DEF OpType, Steps
<1>6. /\ op'.step = "change"
      /\ op'.body = "changes"
      /\ op'.client = c
      /\ op'.save = s
      /\ op'.base = known[c].save
      /\ op'.seq = known[c].seq + 1
      /\ op'.keep = keep
      /\ op'.blobs = (IF keep THEN {} ELSE bundle)
  BY <1>4 DEF Idle
<1> HIDE DEF call
<1> QED BY <1>1, <1>4, <1>5, <1>6

LEMMA SnapshotCall ==
    ASSUME TypeOK, NEW c \in Client, NEW s \in Save, NEW bundle \in BlobSets,
           NEW mark \in Marks, NEW edit \in Marks, NEW fresh \in Fresh,
           BeginSnapshot(c, s, bundle, fresh, mark, edit)
    PROVE  /\ op' \in OpType
           /\ op'.step = "blobs" /\ op'.body = "snapshot" /\ op'.client = c
           /\ op'.save = s /\ op'.seq = NextSeq /\ op'.blobs = bundle
           /\ known[c] \in Heads \cup {Absent}
<1>1. known[c] \in Heads \cup {Absent}
  BY DEF BeginSnapshot, TypeOK
<1>2. mark \in BOOLEAN /\ edit \in BOOLEAN /\ fresh \in BOOLEAN /\ bundle \in Bundle
  BY DocEntryAssumption DEF Marks, Fresh
<1>3. Stored \in Save \cup {None} /\ NextSeq \in Nat /\ Idle \in OpType
  BY StoredType, NextSeqType, IdleType
<1> DEFINE call == [Idle EXCEPT !.step = "blobs", !.body = "snapshot", !.client = c,
                !.save = s, !.seq = NextSeq, !.blobs = bundle,
                !.fresh = fresh, !.mark = mark, !.edit = edit,
                !.before = Stored]
<1>4. op' = call
  BY DEF BeginSnapshot
<1>5. call \in OpType
  BY <1>2, <1>3 DEF OpType, Steps
<1>6. /\ op'.step = "blobs"
      /\ op'.body = "snapshot"
      /\ op'.client = c
      /\ op'.save = s
      /\ op'.seq = NextSeq
      /\ op'.blobs = bundle
  BY <1>4 DEF Idle
<1> HIDE DEF call
<1> QED BY <1>1, <1>4, <1>5, <1>6

LEMMA CompactionCall ==
    ASSUME TypeOK, NEW c \in Client, BeginCompaction(c)
    PROVE  /\ op' \in OpType
           /\ op'.step = "blobs" /\ op'.body = "snapshot" /\ op'.client = c
           /\ op'.save = known[c].save /\ op'.seq = NextSeq
           /\ op'.blobs = carried[known[c].save]
           /\ known[c] \in Heads
<1>1. known[c] \in Heads /\ carried \in [Save -> Bundle]
  BY DEF BeginCompaction, TypeOK
<1>2. known[c].save \in Save /\ carried[known[c].save] \in Bundle
  BY <1>1 DEF Heads
<1>3. Stored \in Save \cup {None} /\ NextSeq \in Nat /\ Idle \in OpType
  BY StoredType, NextSeqType, IdleType
<1> DEFINE call == [Idle EXCEPT !.step = "blobs", !.body = "snapshot", !.client = c,
                !.save = known[c].save, !.seq = NextSeq,
                !.blobs = carried[known[c].save], !.before = Stored]
<1>4. op' = call
  BY DEF BeginCompaction
<1>5. call \in OpType
  BY <1>2, <1>3 DEF OpType, Steps
<1>6. /\ op'.step = "blobs"
      /\ op'.body = "snapshot"
      /\ op'.client = c
      /\ op'.save = known[c].save
      /\ op'.seq = NextSeq
      /\ op'.blobs = carried[known[c].save]
  BY <1>4 DEF Idle
<1> HIDE DEF call
<1> QED BY <1>1, <1>4, <1>5, <1>6

-----------------------------------------------------------------------------
(* What each write leaves in the manifest.                                 *)

LEMMA NameChangeManifest ==
    ASSUME TypeInv, NameChange
    PROVE  /\ manifest \in Manifest
           /\ manifest' \in Manifest
           /\ manifest'.meta = op.save
           /\ manifest'.changes =
                 Append(manifest.changes, [seq |-> op.seq, base |-> op.base, save |-> op.save])
           /\ manifest'.head = [seq |-> op.seq, save |-> op.save]
           /\ manifest'.blobs = (IF op.keep THEN manifest.blobs ELSE op.blobs)
           /\ manifest'.snapshot = manifest.snapshot
           /\ manifest'.pending = manifest.pending
<1> DEFINE change == [seq |-> op.seq, base |-> op.base, save |-> op.save]
           log == Append(manifest.changes, change)
           head == [seq |-> op.seq, save |-> op.save]
           bundle == IF op.keep THEN manifest.blobs ELSE op.blobs
           after == [manifest EXCEPT !.meta = op.save, !.changes = log,
                                     !.head = head, !.blobs = bundle]
<1>1. manifest \in Manifest
  BY DEF TypeInv, TypeOK, OpOK, NameChange, Named
<1>2. op.save \in Save /\ op.base \in Save /\ op.seq \in Nat /\ op.blobs \in Bundle
  BY DEF TypeInv, TypeOK, OpOK, OpType, NameChange, InFlight
<1>3. change \in Change /\ head \in Heads
  BY <1>2 DEF Change, Heads
<1>4. manifest.changes \in Seq(Change) /\ manifest.blobs \in Bundle
  BY <1>1 DEF Manifest
<1>5. log \in Seq(Change) /\ bundle \in Bundle
  BY <1>2, <1>3, <1>4, AppendProperties
<1>6. manifest' = after
  BY DEF NameChange
<1> HIDE DEF log, head, bundle
<1>7. after \in Manifest
  BY <1>1, <1>2, <1>3, <1>5 DEF Manifest
<1>8. /\ after.meta = op.save /\ after.changes = log /\ after.head = head
      /\ after.blobs = bundle /\ after.snapshot = manifest.snapshot
      /\ after.pending = manifest.pending
  BY <1>1 DEF Manifest
<1> HIDE DEF after
<1> QED BY <1>1, <1>6, <1>7, <1>8 DEF log, head, bundle

LEMMA NamePendingManifest ==
    ASSUME TypeInv, NamePending
    PROVE  /\ manifest \in Manifest
           /\ manifest' \in Manifest
           /\ manifest'.meta = manifest.meta
           /\ manifest'.changes = manifest.changes
           /\ manifest'.head = manifest.head
           /\ manifest'.blobs = manifest.blobs
           /\ manifest'.snapshot = manifest.snapshot
           /\ manifest'.pending = [seq |-> op.seq, save |-> op.save, blobs |-> op.blobs]
<1> DEFINE next == [seq |-> op.seq, save |-> op.save, blobs |-> op.blobs]
           after == [manifest EXCEPT !.pending = next]
<1>1. manifest \in Manifest
  BY DEF TypeInv, TypeOK, NamePending
<1>2. op.save \in Save /\ op.seq \in Nat /\ op.blobs \in Bundle
  BY DEF TypeInv, TypeOK, OpOK, OpType, NamePending, InFlight
<1>3. next \in Pending
  BY <1>2 DEF Pending
<1>4. manifest' = after
  BY DEF NamePending
<1> HIDE DEF next
<1>5. after \in Manifest
  BY <1>1, <1>3 DEF Manifest
<1>6. /\ after.meta = manifest.meta /\ after.changes = manifest.changes
      /\ after.head = manifest.head /\ after.blobs = manifest.blobs
      /\ after.snapshot = manifest.snapshot /\ after.pending = next
  BY <1>1 DEF Manifest
<1> HIDE DEF after
<1> QED BY <1>1, <1>4, <1>5, <1>6 DEF next

LEMMA NameSnapshotManifest ==
    ASSUME TypeInv, NameSnapshot
    PROVE  /\ manifest' \in Manifest
           /\ manifest'.meta = op.save
           /\ manifest'.changes = <<>>
           /\ manifest'.head = [seq |-> op.seq, save |-> op.save]
           /\ manifest'.blobs = op.blobs
           /\ manifest'.snapshot = [seq |-> op.seq, save |-> op.save]
           /\ manifest'.pending = None
<1>1. op.save \in Save /\ op.seq \in Nat /\ op.blobs \in Bundle
  BY DEF TypeInv, TypeOK, OpOK, OpType, NameSnapshot, InFlight
<1>2. [seq |-> op.seq, save |-> op.save] \in Heads /\ <<>> \in Seq(Change)
  BY <1>1 DEF Heads
<1>3. SnapshotManifest(op) \in Manifest
  BY <1>1, <1>2 DEF SnapshotManifest, Manifest
<1> QED BY <1>3 DEF NameSnapshot, SnapshotManifest

-----------------------------------------------------------------------------
(* Every step keeps the types, and what the call in flight has to hold.    *)

\* What a page decides or hears is its own.
LEMMA PageStep ==
    ASSUME NEW c \in Client, Decide(c) \/ Hear(c)
    PROVE  UNCHANGED <<files, op, known, ghosts>>
  BY DEF Decide, Hear

\* What the steps of a page make of it.
LEMMA PageType ==
    ASSUME TypeOK, NEW c \in Client, KnowHead(c) \/ Decide(c) \/ Hear(c)
    PROVE  page' \in [Client -> [step : PageSteps, due : BOOLEAN]]
<1>a. page \in [Client -> [step : PageSteps, due : BOOLEAN]]
  BY DEF TypeOK
<1>1. CASE KnowHead(c)
  BY <1>1, <1>a DEF KnowHead, PageSteps
<1>2. CASE Decide(c)
  <2>1. PICK step \in {"append", "whole"} : page' = [page EXCEPT ![c].step = step]
    BY <1>2 DEF Decide
  <2> QED BY <1>a, <2>1 DEF PageSteps
<1>3. CASE Hear(c)
  <2>1. page' = [page EXCEPT ![c] = [step |-> "idle", due |-> page[c].step = "asked"]]
    BY <1>3 DEF Hear
  <2>2. (page[c].step = "asked") \in BOOLEAN
    OBVIOUS
  <2> QED BY <1>a, <2>1, <2>2 DEF PageSteps
<1> QED BY <1>1, <1>2, <1>3

LEMMA TypeEditing ==
    ASSUME TypeInv, Editing
    PROVE  TypeInv'
<1>a. TypeOK /\ carried \in [Save -> Bundle] /\ root \in [Save -> Save] /\ made \subseteq Save
  BY DEF TypeInv, TypeOK
<1>0. ASSUME NEW c \in Client, Decide(c) \/ Hear(c)
      PROVE  TypeInv'
  <2>1. page' \in [Client -> [step : PageSteps, due : BOOLEAN]]
        /\ UNCHANGED <<files, op, known, ghosts>>
    BY <1>0, <1>a, PageType DEF KnowHead, Decide, Hear
  <2>2. TypeOK'
    BY <1>a, <2>1 DEF TypeOK, files, ghosts
  <2>3. OpOK'
    BY <2>1 DEF TypeInv, OpOK, InFlight, Named, Written, files
  <2> QED BY <2>2, <2>3 DEF TypeInv
<1>1. ASSUME NEW c \in Client, KnowHead(c)
      PROVE  TypeInv'
  <2>0. page' \in [Client -> [step : PageSteps, due : BOOLEAN]]
    BY <1>1, <1>a, PageType
  <2>1. TypeOK'
    BY <1>1, <1>a, <2>0, ReadHeadType DEF TypeOK, KnowHead, files, ghosts
  <2>2. OpOK'
    BY <1>1 DEF TypeInv, OpOK, KnowHead, InFlight, Named, Written, files
  <2> QED BY <2>1, <2>2 DEF TypeInv
<1>2. ASSUME NEW c \in Client, BeginCompaction(c)
      PROVE  TypeInv'
  <2>1. UNCHANGED <<files, known, page, ghosts>>
    BY <1>2 DEF BeginCompaction
  <2>2. TypeOK'
    BY <1>2, <1>a, <2>1, CompactionCall DEF TypeOK, files, ghosts
  <2>3. OpOK'
    BY <1>2, <1>a, CompactionCall DEF OpOK, InFlight, Written, Heads
  <2> QED BY <2>2, <2>3 DEF TypeInv
<1>3. ASSUME NEW c \in Client, NEW s \in Save, NEW bundle \in BlobSets,
             NEW mark \in Marks, NEW edit \in Marks, NEW keep \in BOOLEAN,
             BeginAppend(c, s, bundle, keep, mark, edit)
      PROVE  TypeInv'
  <2>1. op' \in OpType /\ known[c] \in Heads /\ manifest \in Manifest
    BY <1>3, <1>a, AppendCall
  <2>2. bundle \in Bundle /\ manifest.blobs \in Bundle
    BY <2>1, DocEntryAssumption DEF Manifest
  <2>3. /\ made' \subseteq Save
        /\ carried' \in [Save -> Bundle]
        /\ root' \in [Save -> Save]
    <3>1. Lineage(s, known[c], FALSE) \in Save
      BY <1>a, <2>1 DEF Lineage, Heads
    <3> QED BY <1>3, <1>a, <2>2, <3>1 DEF BeginAppend, Make
  <2>4. UNCHANGED <<files, known, page, lawful, torn, interruptions, damaged, scrapped>>
    BY <1>3 DEF BeginAppend
  <2>5. TypeOK'
    BY <1>a, <2>1, <2>3, <2>4 DEF TypeOK, files
  <2>6. OpOK'
    <3>1. Named'
      BY <1>3, <2>4 DEF BeginAppend, AppendRefused, Named, files
    <3> QED BY <1>3, <1>a, <3>1, AppendCall DEF OpOK, InFlight, Written, Heads
  <2> QED BY <2>5, <2>6 DEF TypeInv
<1>4. ASSUME NEW c \in Client, NEW s \in Save, NEW bundle \in BlobSets,
             NEW mark \in Marks, NEW edit \in Marks, NEW fresh \in Fresh,
             BeginSnapshot(c, s, bundle, fresh, mark, edit)
      PROVE  TypeInv'
  <2>1. op' \in OpType /\ known[c] \in Heads \cup {Absent}
    BY <1>4, <1>a, SnapshotCall
  <2>2. bundle \in Bundle
    BY DocEntryAssumption
  <2>3. /\ made' \subseteq Save
        /\ carried' \in [Save -> Bundle]
        /\ root' \in [Save -> Save]
    <3>1. Lineage(s, known[c], fresh) \in Save
      BY <1>a, <2>1 DEF Lineage, Heads
    <3> QED BY <1>4, <1>a, <2>2, <3>1 DEF BeginSnapshot, Make
  <2>4. UNCHANGED <<files, known, page, lawful, torn, interruptions, damaged, scrapped>>
    BY <1>4 DEF BeginSnapshot
  <2>5. TypeOK'
    BY <1>a, <2>1, <2>3, <2>4 DEF TypeOK, files
  <2>6. OpOK'
    BY <1>4, <1>a, SnapshotCall DEF OpOK, InFlight, Written
  <2> QED BY <2>5, <2>6 DEF TypeInv
<1> QED BY <1>0, <1>1, <1>2, <1>3, <1>4 DEF Editing

LEMMA TypeWriting ==
    ASSUME TypeInv, Writing
    PROVE  TypeInv'
<1>a. TypeOK /\ OpOK /\ op \in OpType
  BY DEF TypeInv, TypeOK
<1>1. ASSUME NEW b \in Blob, StoreBlob(b)
      PROVE  TypeInv'
  <2>1. TypeOK'
    BY <1>1, <1>a DEF TypeOK, StoreBlob, memory, ghosts
  <2>2. OpOK'
    BY <1>1, <1>a DEF OpOK, StoreBlob, InFlight, Named, Written, memory
  <2> QED BY <2>1, <2>2 DEF TypeInv
<1>2. CASE WriteChange
  <2>1. op' \in OpType /\ op'.step = "blobs" /\ SameCall(op)
    BY <1>2, <1>a, StepCall DEF WriteChange, Steps
  <2>2. op.save \in Save /\ op.base \in Save /\ op.seq \in Nat
    BY <1>2, <1>a DEF WriteChange, OpOK, InFlight, OpType
  <2>3. changeFiles' \subseteq Change
    BY <1>2, <1>a, <2>2 DEF WriteChange, TypeOK, Change
  <2>4. UNCHANGED <<manifest, snapshotFile, blobFile, history, known, page, ghosts>>
    BY <1>2 DEF WriteChange
  <2>5. TypeOK'
    BY <1>a, <2>1, <2>3, <2>4 DEF TypeOK, ghosts
  <2>6. OpOK'
    BY <1>2, <1>a, <2>1, <2>4 DEF WriteChange, OpOK, InFlight, Named, Written, SameCall
  <2> QED BY <2>5, <2>6 DEF TypeInv
<1>3. CASE NameChange
  <2>1. op' \in OpType /\ op'.step = "history" /\ SameCall(op)
    BY <1>3, <1>a, StepCall DEF NameChange, Steps
  <2>2. UNCHANGED <<snapshotFile, changeFiles, blobFile, history, known, page, ghosts>>
    BY <1>3 DEF NameChange
  <2>3. manifest' \in Manifest
    BY <1>3, NameChangeManifest
  <2>4. TypeOK'
    BY <1>a, <2>1, <2>2, <2>3 DEF TypeOK, ghosts
  <2>5. OpOK'
    BY <1>3, <1>a, <2>1, <2>3, DocEntryAssumption
    DEF NameChange, OpOK, InFlight, Named, Written, SameCall
  <2> QED BY <2>4, <2>5 DEF TypeInv
<1>4. CASE NamePending
  <2>1. op' \in OpType /\ op'.step = "rename" /\ SameCall(op)
    BY <1>4, <1>a, StepCall DEF NamePending, Steps
  <2>2. UNCHANGED <<snapshotFile, changeFiles, blobFile, history, known, page, ghosts>>
    BY <1>4 DEF NamePending
  <2>3. manifest' \in Manifest
    BY <1>4, NamePendingManifest
  <2>4. TypeOK'
    BY <1>a, <2>1, <2>2, <2>3 DEF TypeOK, ghosts
  <2>5. OpOK'
    BY <1>4, <1>a, <2>1, <2>3, DocEntryAssumption
    DEF NamePending, OpOK, InFlight, Named, Written, SameCall
  <2> QED BY <2>4, <2>5 DEF TypeInv
<1>5. CASE RenameSnapshot
  <2>1. op' \in OpType /\ op'.step = "name" /\ SameCall(op)
    BY <1>5, <1>a, StepCall DEF RenameSnapshot, Steps
  <2>2. op.save \in Save /\ op.body = "snapshot"
    BY <1>5, <1>a DEF RenameSnapshot, OpOK, InFlight
  <2>3. snapshotFile' = op.save
        /\ UNCHANGED <<manifest, changeFiles, blobFile, history, known, page, ghosts>>
    BY <1>5 DEF RenameSnapshot
  <2>4. TypeOK'
    BY <1>a, <2>1, <2>2, <2>3 DEF TypeOK, ghosts
  <2>5. op.step \in {"rename", "blobs"}
    BY <1>5 DEF RenameSnapshot
  <2>6. OpOK'
    BY <1>a, <2>1, <2>2, <2>3, <2>5 DEF OpOK, InFlight, Named, Written, SameCall
  <2> QED BY <2>4, <2>6 DEF TypeInv
<1>6. CASE NameSnapshot
  <2>1. op' \in OpType /\ op'.step = "sweep" /\ SameCall(op)
    BY <1>6, <1>a, StepCall DEF NameSnapshot, Steps
  <2>2. /\ torn' = 0
        /\ scrapped' = FALSE
        /\ UNCHANGED <<snapshotFile, changeFiles, blobFile, history, known, page,
                       made, carried, root, lawful, interruptions, damaged>>
    BY <1>6 DEF NameSnapshot
  <2>3. manifest' \in Manifest
    BY <1>6, NameSnapshotManifest
  <2>4. TypeOK'
    BY <1>a, <2>1, <2>2, <2>3 DEF TypeOK
  <2>5. OpOK'
    BY <1>6, <1>a, <2>1, <2>3, DocEntryAssumption
    DEF NameSnapshot, OpOK, InFlight, Named, Written, SameCall
  <2> QED BY <2>4, <2>5 DEF TypeInv
<1>7. ASSUME NEW f \in changeFiles, SweepChange(f)
      PROVE  TypeInv'
  <2>1. TypeOK'
    BY <1>7, <1>a DEF TypeOK, SweepChange, memory, ghosts
  <2>2. OpOK'
    BY <1>7, <1>a DEF OpOK, SweepChange, InFlight, Named, Written, memory
  <2> QED BY <2>1, <2>2 DEF TypeInv
<1> QED BY <1>1, <1>2, <1>3, <1>4, <1>5, <1>6, <1>7 DEF Writing

LEMMA SweptWritten == Swept => Written
  BY DEF Swept, Written

LEMMA TypeRecording ==
    ASSUME TypeInv, Recording
    PROVE  TypeInv'
<1>a. TypeOK /\ OpOK /\ op \in OpType /\ history \in Seq(Checkpoint)
  BY DEF TypeInv, TypeOK
<1>b. ASSUME op' \in OpType, op'.step = "history", SameCall(op), Written,
             UNCHANGED manifest
      PROVE  OpOK'
  BY <1>a, <1>b DEF OpOK, InFlight, Named, Written, SameCall
<1>1. CASE ClearHistory
  <2>1. op' \in OpType /\ op'.step = "history" /\ SameCall(op)
    BY <1>1, <1>a, RecordCall DEF ClearHistory
  <2>2. /\ history' = <<>>
        /\ UNCHANGED <<manifest, snapshotFile, changeFiles, blobFile, known, page, ghosts>>
    BY <1>1 DEF ClearHistory
  <2>3. history' \in Seq(Checkpoint)
    BY <2>2
  <2>4. TypeOK'
    BY <1>a, <2>1, <2>2, <2>3 DEF TypeOK, ghosts
  <2>5. OpOK'
    BY <1>1, <1>b, <2>1, <2>2, SweptWritten DEF ClearHistory
  <2> QED BY <2>4, <2>5 DEF TypeInv
<1>2. CASE RecordCheckpoint
  <2> DEFINE cp == [save |-> op.save, seq |-> op.seq, blobs |-> manifest.blobs,
                    edit |-> op.edit]
  <2>1. op' \in OpType /\ op'.step = "history" /\ SameCall(op)
    BY <1>2, <1>a, RecordCall DEF RecordCheckpoint
  <2>2. /\ history' = Recorded(history, cp)
        /\ UNCHANGED <<manifest, snapshotFile, changeFiles, blobFile, known, page, ghosts>>
    BY <1>2 DEF RecordCheckpoint
  <2>3. Written
    BY <1>2, SweptWritten DEF RecordCheckpoint
  <2>4. op.save \in Save /\ op.seq \in Nat /\ op.edit \in BOOLEAN
    BY <1>a, <2>3 DEF OpOK, OpType, InFlight, Written
  <2>5. manifest.blobs \in Bundle
    BY <1>a, <2>3 DEF OpOK, TypeOK, Named, Manifest
  <2>6. cp \in Checkpoint
    BY <2>4, <2>5 DEF Checkpoint
  <2>7. history' \in Seq(Checkpoint)
    BY <1>a, <2>2, <2>6, RecordedType
  <2>8. TypeOK'
    BY <1>a, <2>1, <2>2, <2>7 DEF TypeOK, ghosts
  <2>9. OpOK'
    BY <1>b, <2>1, <2>2, <2>3
  <2> QED BY <2>8, <2>9 DEF TypeInv
<1>3. ASSUME NEW b \in Blob, CollectBlob(b)
      PROVE  TypeInv'
  <2>1. op' \in OpType /\ op'.step = "history" /\ SameCall(op)
    BY <1>3, <1>a, RecordCall DEF CollectBlob
  <2>2. /\ blobFile' = [blobFile EXCEPT ![b] = "absent"]
        /\ UNCHANGED <<manifest, snapshotFile, changeFiles, history, known, page, ghosts>>
    BY <1>3 DEF CollectBlob
  <2>3. TypeOK'
    BY <1>a, <2>1, <2>2 DEF TypeOK, ghosts
  <2>4. OpOK'
    BY <1>3, <1>b, <2>1, <2>2, SweptWritten DEF CollectBlob
  <2> QED BY <2>3, <2>4 DEF TypeInv
<1>4. CASE Finish
  <2>0. page' \in [Client -> [step : PageSteps, due : BOOLEAN]]
    <3>1. Reported \in PageSteps
      BY DEF Reported, PageSteps
    <3>2. page' = [page EXCEPT ![op.client].step = Reported]
      BY <1>4 DEF Finish
    <3> QED BY <1>a, <3>1, <3>2 DEF TypeOK
  <2>1. op' = Idle /\ lawful' = {op.save}
        /\ known' = [known EXCEPT ![op.client] = None]
        /\ UNCHANGED <<files, made, carried, root, torn, interruptions, damaged, scrapped>>
    BY <1>4 DEF Finish
  <2>2. op.save \in Save
    BY <1>4, <1>a, SweptWritten DEF Finish, OpOK, InFlight, Written
  <2>3. TypeOK'
    BY <1>a, <2>0, <2>1, <2>2, IdleType DEF TypeOK, files
  <2>4. OpOK'
    BY <2>1, IdleFields DEF OpOK, InFlight, Written
  <2> QED BY <2>3, <2>4 DEF TypeInv
<1>5. ASSUME NEW edit \in BOOLEAN, CheckpointNow(edit)
      PROVE  TypeInv'
  <2> DEFINE cp == [save |-> manifest.head.save, seq |-> manifest.head.seq,
                    blobs |-> manifest.blobs, edit |-> edit]
  <2>1. /\ history' = Recorded(history, cp)
        /\ UNCHANGED <<manifest, snapshotFile, changeFiles, blobFile, memory, ghosts>>
    BY <1>5 DEF CheckpointNow
  <2>2. manifest \in Manifest
    BY <1>5, <1>a DEF CheckpointNow, TypeOK
  <2>3. cp \in Checkpoint
    BY <2>2 DEF Checkpoint, Manifest, Heads
  <2>4. history' \in Seq(Checkpoint)
    BY <1>a, <2>1, <2>3, RecordedType
  <2>5. TypeOK'
    BY <1>a, <2>1, <2>4 DEF TypeOK, memory, ghosts
  <2>6. OpOK'
    BY <1>a, <2>1 DEF OpOK, InFlight, Named, Written, memory
  <2> QED BY <2>5, <2>6 DEF TypeInv
<1> QED BY <1>1, <1>2, <1>3, <1>4, <1>5 DEF Recording

LEMMA TypeDeleting ==
    ASSUME TypeInv, Deleting
    PROVE  TypeInv'
<1>a. TypeOK /\ OpOK
  BY DEF TypeInv
<1>1. CASE BeginDelete
  <2>1. op' = [Idle EXCEPT !.step = "delete", !.before = Stored]
        /\ UNCHANGED <<files, known, page, ghosts>>
    BY <1>1 DEF BeginDelete
  <2>2. Stored \in Save \cup {None}
    BY <1>a, StoredType
  <2>3. [Idle EXCEPT !.step = "delete", !.before = Stored] \in OpType
    BY <2>2, IdleType DEF OpType, Steps
  <2>4. op'.step = "delete" /\ op'.body = "none"
    BY <2>1 DEF Idle
  <2>5. TypeOK'
    BY <1>a, <2>1, <2>3 DEF TypeOK, files, ghosts
  <2>6. OpOK'
    BY <2>4 DEF OpOK, InFlight, Written
  <2> QED BY <2>5, <2>6 DEF TypeInv
<1>2. CASE DeleteFile
  <2>1. TypeOK'
    <3>1. /\ manifest' \in Manifest \cup {None}
          /\ snapshotFile' \in Save \cup {None}
          /\ changeFiles' \subseteq Change
      BY <1>2, <1>a DEF DeleteFile, TypeOK
    <3>2. blobFile' \in [Blob -> {"absent", "whole", "damaged"}]
      BY <1>2, <1>a DEF DeleteFile, TypeOK
    <3>3. history' \in Seq(Checkpoint)
      <4>1. history' = history \/ history' = <<>>
        BY <1>2 DEF DeleteFile
      <4>2. history \in Seq(Checkpoint)
        BY <1>a DEF TypeOK
      <4>3. <<>> \in Seq(Checkpoint)
        OBVIOUS
      <4> QED BY <4>1, <4>2, <4>3
    <3>4. UNCHANGED <<memory, ghosts>>
      BY <1>2 DEF DeleteFile
    <3> QED BY <1>a, <3>1, <3>2, <3>3, <3>4 DEF TypeOK, memory, ghosts
  <2>2. OpOK'
    BY <1>2, <1>a DEF DeleteFile, OpOK, InFlight, Written, memory
  <2> QED BY <2>1, <2>2 DEF TypeInv
<1>3. CASE FinishDelete
  <2>1. /\ op' = Idle /\ lawful' = {None} /\ torn' = 0 /\ scrapped' = FALSE
        /\ UNCHANGED <<files, known, page, made, carried, root, interruptions, damaged>>
    BY <1>3 DEF FinishDelete
  <2>2. TypeOK'
    BY <1>a, <2>1, IdleType DEF TypeOK, files
  <2>3. OpOK'
    BY <2>1, IdleFields DEF OpOK, InFlight, Written
  <2> QED BY <2>2, <2>3 DEF TypeInv
<1> QED BY <1>1, <1>2, <1>3 DEF Deleting

LEMMA TypeFailing ==
    ASSUME TypeInv, Fail \/ Crash \/ Damage
    PROVE  TypeInv'
<1>a. TypeOK /\ OpOK
  BY DEF TypeInv
<1>1. ASSUME Interrupted, known' \in [Client -> Heads \cup {Absent, None}],
             page' \in [Client -> [step : PageSteps, due : BOOLEAN]]
      PROVE  TypeInv'
  <2>1. op' = Idle /\ UNCHANGED <<files, made, carried, root, damaged>>
    BY <1>1 DEF Interrupted
  <2>2. lawful' \subseteq Save \cup {None}
    BY <1>1, <1>a DEF Interrupted, TypeOK, OpType
  <2>3. torn' \in Nat /\ interruptions' \in Nat
    BY <1>1, <1>a DEF Interrupted, TypeOK
  <2>4. scrapped' \in BOOLEAN
    BY <1>1 DEF Interrupted
  <2>5. TypeOK'
    BY <1>a, <1>1, <2>1, <2>2, <2>3, <2>4, IdleType DEF TypeOK, files
  <2>6. OpOK'
    BY <2>1, IdleFields DEF OpOK, InFlight, Written
  <2> QED BY <2>5, <2>6 DEF TypeInv
<1>2. CASE Fail
  <2>1. known' \in [Client -> Heads \cup {Absent, None}]
    BY <1>2, <1>a DEF Fail, TypeOK
  <2>2. page' \in [Client -> [step : PageSteps, due : BOOLEAN]]
    BY <1>2, <1>a DEF Fail, TypeOK, PageSteps
  <2> QED BY <1>1, <1>2, <2>1, <2>2 DEF Fail
<1>3. CASE Crash
  <2>1. known' \in [Client -> Heads \cup {Absent, None}]
        /\ page' \in [Client -> [step : PageSteps, due : BOOLEAN]]
    BY <1>3 DEF Crash, NewPage, PageSteps
  <2> QED BY <1>1, <1>3, <2>1 DEF Crash
<1>4. CASE Damage
  <2>1. /\ damaged' = TRUE
        /\ UNCHANGED <<manifest, snapshotFile, history, memory,
                       made, carried, root, lawful, torn, interruptions, scrapped>>
    BY <1>4 DEF Damage
  <2>2. changeFiles' \subseteq Change
        /\ blobFile' \in [Blob -> {"absent", "whole", "damaged"}]
    BY <1>4, <1>a DEF Damage, TypeOK
  <2>3. TypeOK'
    BY <1>a, <2>1, <2>2 DEF TypeOK, memory
  <2>4. OpOK'
    BY <1>a, <2>1 DEF OpOK, InFlight, Named, Written, memory
  <2> QED BY <2>3, <2>4 DEF TypeInv
<1> QED BY <1>2, <1>3, <1>4

LEMMA TypeStutter == TypeInv /\ UNCHANGED vars => TypeInv'
  BY DEF TypeInv, TypeOK, OpOK, InFlight, Named, Written, vars

LEMMA TypeInvariance == Spec => []TypeInv
<1>1. Init => TypeInv
  <2> SUFFICES ASSUME Init PROVE OpOK
    BY TypeInit DEF TypeInv
  <2> QED BY IdleFields DEF Init, OpOK, InFlight, Written
<1>2. TypeInv /\ [Next]_vars => TypeInv'
  BY TypeEditing, TypeWriting, TypeRecording, TypeDeleting, TypeFailing, TypeStutter
  DEF Next
<1> QED BY <1>1, <1>2, PTL DEF Spec

\* The files of the entry and the memory of the Kition hold what their formats
\* allow, whatever crashes, failures, deletions and damages happen.
THEOREM TypeCorrect == Spec => []TypeOK
<1>1. TypeInv => TypeOK
  BY DEF TypeInv
<1> QED BY <1>1, TypeInvariance, PTL

-----------------------------------------------------------------------------
(* A call in flight holds the seq after the stored one.                    *)

LEMMA SameNextSeq == ASSUME UNCHANGED manifest PROVE NextSeq' = NextSeq
  BY DEF NextSeq

LEMMA SeqEditing ==
    ASSUME TypeInv, OpSeq, Editing
    PROVE  OpSeq' /\ UNCHANGED manifest
<1>a. TypeOK
  BY DEF TypeInv
<1>0. ASSUME NEW c \in Client, Decide(c) \/ Hear(c)
      PROVE  OpSeq' /\ UNCHANGED manifest
  BY <1>0, PageStep, SameNextSeq DEF OpSeq, Unnamed, files
<1>1. ASSUME NEW c \in Client, KnowHead(c)
      PROVE  OpSeq' /\ UNCHANGED manifest
  BY <1>1, SameNextSeq DEF KnowHead, OpSeq, Unnamed, files
<1>2. ASSUME NEW c \in Client, BeginCompaction(c)
      PROVE  OpSeq' /\ UNCHANGED manifest
  <2>1. UNCHANGED manifest
    BY <1>2 DEF BeginCompaction, files
  <2> QED BY <1>2, <1>a, <2>1, CompactionCall, SameNextSeq DEF OpSeq
<1>3. ASSUME NEW c \in Client, NEW s \in Save, NEW bundle \in BlobSets,
             NEW mark \in Marks, NEW edit \in Marks, NEW keep \in BOOLEAN,
             BeginAppend(c, s, bundle, keep, mark, edit)
      PROVE  OpSeq' /\ UNCHANGED manifest
  <2>1. UNCHANGED manifest
    BY <1>3 DEF BeginAppend, files
  <2>2. manifest # None /\ manifest.head.seq = known[c].seq
    BY <1>3 DEF BeginAppend, AppendRefused
  <2>3. op'.seq = NextSeq
    BY <1>3, <1>a, <2>2, AppendCall DEF NextSeq
  <2> QED BY <2>1, <2>3, SameNextSeq DEF OpSeq
<1>4. ASSUME NEW c \in Client, NEW s \in Save, NEW bundle \in BlobSets,
             NEW mark \in Marks, NEW edit \in Marks, NEW fresh \in Fresh,
             BeginSnapshot(c, s, bundle, fresh, mark, edit)
      PROVE  OpSeq' /\ UNCHANGED manifest
  <2>1. UNCHANGED manifest
    BY <1>4 DEF BeginSnapshot, files
  <2> QED BY <1>4, <1>a, <2>1, SnapshotCall, SameNextSeq DEF OpSeq
<1> QED BY <1>0, <1>1, <1>2, <1>3, <1>4 DEF Editing

\* What a step may do to the head of the entry.
HeadGrows ==
    manifest # None /\ manifest' # None =>
        \/ manifest'.head = manifest.head
        \/ manifest'.head.seq > manifest.head.seq

LEMMA NextSeqGrows ==
    ASSUME TypeOK, manifest # None
    PROVE  NextSeq > manifest.head.seq
  BY DEF TypeOK, NextSeq, Manifest, Heads

LEMMA SeqWriting ==
    ASSUME TypeInv, OpSeq, Writing
    PROVE  OpSeq' /\ HeadGrows
<1>a. TypeOK /\ op \in OpType
  BY DEF TypeInv, TypeOK
<1>1. ASSUME NEW b \in Blob, StoreBlob(b)
      PROVE  OpSeq' /\ HeadGrows
  BY <1>1, SameNextSeq DEF StoreBlob, OpSeq, Unnamed, HeadGrows, memory
<1>2. CASE WriteChange
  <2>1. op'.step = "blobs" /\ SameCall(op)
    BY <1>2, <1>a, StepCall DEF WriteChange, Steps
  <2> QED BY <1>2, <2>1, SameNextSeq DEF WriteChange, OpSeq, Unnamed, HeadGrows, SameCall
<1>3. CASE NameChange
  <2>1. op'.step = "history"
    BY <1>3, <1>a, StepCall DEF NameChange, Steps
  <2>2. manifest'.head.seq = NextSeq
    BY <1>3, NameChangeManifest DEF OpSeq, Unnamed, NameChange
  <2> QED BY <1>a, <2>1, <2>2, NextSeqGrows DEF OpSeq, Unnamed, HeadGrows
<1>4. CASE NamePending
  <2>1. op'.step = "rename" /\ SameCall(op)
    BY <1>4, <1>a, StepCall DEF NamePending, Steps
  <2>2. /\ manifest'.head = manifest.head
        /\ manifest # None
        /\ manifest' # None
    BY <1>4, NamePendingManifest, DocEntryAssumption
  <2>3. NextSeq' = NextSeq
    BY <2>2 DEF NextSeq
  <2>4. op.step = "blobs"
    BY <1>4 DEF NamePending
  <2> QED BY <2>1, <2>2, <2>3, <2>4 DEF OpSeq, Unnamed, HeadGrows, SameCall
<1>5. CASE RenameSnapshot
  <2>1. op'.step = "name" /\ SameCall(op)
    BY <1>5, <1>a, StepCall DEF RenameSnapshot, Steps
  <2> QED BY <1>5, <2>1, SameNextSeq DEF RenameSnapshot, OpSeq, Unnamed, HeadGrows, SameCall
<1>6. CASE NameSnapshot
  <2>1. op'.step = "sweep"
    BY <1>6, <1>a, StepCall DEF NameSnapshot, Steps
  <2>2. manifest'.head.seq = NextSeq
    <3>1. op.seq = NextSeq
      BY <1>6 DEF OpSeq, Unnamed, NameSnapshot
    <3> QED BY <1>6, <3>1, NameSnapshotManifest
  <2> QED BY <1>a, <2>1, <2>2, NextSeqGrows DEF OpSeq, Unnamed, HeadGrows
<1>7. ASSUME NEW f \in changeFiles, SweepChange(f)
      PROVE  OpSeq' /\ HeadGrows
  BY <1>7, SameNextSeq DEF SweepChange, OpSeq, Unnamed, HeadGrows, memory
<1> QED BY <1>1, <1>2, <1>3, <1>4, <1>5, <1>6, <1>7 DEF Writing

\* The steps after the replica is stored leave the manifest alone.
LEMMA RecordingFrame ==
    ASSUME TypeInv, Recording
    PROVE  /\ UNCHANGED <<manifest, snapshotFile, changeFiles, made, carried, root,
                          torn, damaged>>
           /\ \/ op'.step = "history" /\ SameCall(op) /\ Written
                 /\ UNCHANGED <<known, lawful>>
              \/ op' = Idle /\ Finish
              \/ UNCHANGED <<op, known, lawful>>
<1>a. op \in OpType
  BY DEF TypeInv, TypeOK
<1>1. CASE ClearHistory
  BY <1>1, <1>a, RecordCall, SweptWritten DEF ClearHistory, ghosts
<1>2. CASE RecordCheckpoint
  BY <1>2, <1>a, RecordCall, SweptWritten DEF RecordCheckpoint, ghosts
<1>3. ASSUME NEW b \in Blob, CollectBlob(b)
      PROVE  /\ op'.step = "history" /\ SameCall(op) /\ Written
             /\ UNCHANGED <<manifest, snapshotFile, changeFiles, known, ghosts>>
  BY <1>3, <1>a, RecordCall, SweptWritten DEF CollectBlob
<1>4. CASE Finish
  BY <1>4 DEF Finish, files
<1>5. ASSUME NEW edit \in BOOLEAN, CheckpointNow(edit)
      PROVE  UNCHANGED <<manifest, snapshotFile, changeFiles, op, known, ghosts>>
  BY <1>5 DEF CheckpointNow, memory
<1> QED BY <1>1, <1>2, <1>3, <1>4, <1>5 DEF Recording, ghosts

LEMMA NotUnnamed ==
    /\ Idle.step \notin {"change", "blobs", "rename", "name"}
    /\ "history" \notin {"change", "blobs", "rename", "name"}
  BY IdleFields

LEMMA SeqOther ==
    ASSUME TypeInv, OpSeq, Recording \/ Deleting \/ Fail \/ Crash \/ Damage
    PROVE  OpSeq' /\ HeadGrows
<1>1. CASE Recording
  BY <1>1, RecordingFrame, NotUnnamed, SameNextSeq DEF OpSeq, Unnamed, HeadGrows
<1>2. CASE Deleting
  <2>1. CASE BeginDelete
    <3>1. op'.step = "delete" /\ UNCHANGED manifest
      BY <2>1 DEF BeginDelete, Idle, files
    <3> QED BY <3>1 DEF OpSeq, Unnamed, HeadGrows
  <2>2. CASE DeleteFile
    <3>1. op.step = "delete" /\ op' = op
      BY <2>2 DEF DeleteFile, memory
    <3>2. manifest' \in {manifest, None}
      BY <2>2 DEF DeleteFile
    <3> QED BY <3>1, <3>2 DEF OpSeq, Unnamed, HeadGrows
  <2>3. CASE FinishDelete
    BY <2>3, NotUnnamed DEF FinishDelete, OpSeq, Unnamed, HeadGrows, files
  <2> QED BY <1>2, <2>1, <2>2, <2>3 DEF Deleting
<1>3. CASE Fail \/ Crash
  BY <1>3, NotUnnamed DEF Fail, Crash, Interrupted, OpSeq, Unnamed, HeadGrows, files
<1>4. CASE Damage
  BY <1>4, SameNextSeq DEF Damage, OpSeq, Unnamed, HeadGrows, memory
<1> QED BY <1>1, <1>2, <1>3, <1>4

LEMMA SeqStep ==
    ASSUME TypeInv, OpSeq, [Next]_vars
    PROVE  OpSeq' /\ HeadGrows
<1>1. CASE Editing
  BY <1>1, SeqEditing DEF HeadGrows
<1>2. CASE UNCHANGED vars
  BY <1>2, SameNextSeq DEF vars, OpSeq, Unnamed, HeadGrows
<1> QED BY <1>1, <1>2, SeqWriting, SeqOther DEF Next

LEMMA SeqInvariance == Spec => []OpSeq
<1>1. Init => OpSeq
  BY NotUnnamed DEF Init, OpSeq, Unnamed
<1>2. TypeInv /\ OpSeq /\ [Next]_vars => OpSeq'
  BY SeqStep
<1> QED BY <1>1, <1>2, TypeInvariance, PTL DEF Spec

\* While the entry exists its seq never goes back and never comes to name another
\* save: an append may compare nothing else (entry.rs:455-463).
THEOREM SeqNamesOne == Spec => SeqNamesOneVersion
<1>1. TypeInv /\ OpSeq /\ [Next]_vars => [HeadGrows]_manifest
  BY SeqStep
<1>2. [HeadGrows]_manifest => [manifest # None /\ manifest' # None =>
                                  \/ manifest'.head = manifest.head
                                  \/ manifest'.head.seq > manifest.head.seq]_manifest
  BY DEF HeadGrows
<1> QED BY <1>1, <1>2, TypeInvariance, SeqInvariance, PTL DEF Spec, SeqNamesOneVersion

-----------------------------------------------------------------------------
(* While the entry is never deleted, the head an editor read names the     *)
(* stored save or an earlier seq, so the log is a chain.                   *)

LogInv == TypeInv /\ OpSeq /\ LogOK

LEMMA LogInit == Init => LogOK
<1> SUFFICES ASSUME Init PROVE LogOK
  OBVIOUS
<1>1. KnownOK
  BY DocEntryAssumption DEF Init, KnownOK
<1>2. op.step = "idle" /\ op.body = "none" /\ ~Named
  BY IdleFields DEF Init, Named
<1> QED BY <1>1, <1>2 DEF LogOK, BaseOK

\* A step that keeps the manifest, and learns or forgets at most what it holds.
LEMMA LogFrame ==
    ASSUME LogOK, UNCHANGED manifest,
           \A c \in Client : known'[c] \in {known[c], None, ReadHead}
                              /\ (known'[c] = ReadHead /\ ReadHead \in Heads => Named),
           BaseOK', op'.step # "delete"
    PROVE  LogOK'
<1>1. KnownOK'
  <2> SUFFICES ASSUME NEW c \in Client, known'[c] \in Heads
               PROVE  /\ Named'
                      /\ known'[c].seq <= manifest'.head.seq
                      /\ known'[c].seq = manifest'.head.seq =>
                            known'[c].save = manifest'.head.save
    BY DEF KnownOK
  <2>1. known'[c] = known[c] \/ known'[c] = ReadHead
    BY DocEntryAssumption
  <2>2. CASE known'[c] = known[c]
    BY <2>2 DEF LogOK, KnownOK, Named
  <2>3. CASE known'[c] = ReadHead
    <3>1. Named /\ ReadHead = manifest.head
      BY <2>3 DEF ReadHead, Named
    <3>2. manifest.head.seq \in Nat
      BY <2>3, <3>1 DEF Heads
    <3> QED BY <2>3, <3>1, <3>2 DEF Named
  <2> QED BY <2>1, <2>2, <2>3
<1> QED BY <1>1 DEF LogOK, Named

LEMMA AbsentNotHead == Absent \notin Heads
  BY DocEntryAssumption DEF Absent, Heads

LEMMA LogEditing ==
    ASSUME LogInv, Editing
    PROVE  LogOK'
<1>a. TypeOK /\ LogOK
  BY DEF LogInv, TypeInv
<1>b. ReadHead \in Heads => Named
  BY AbsentNotHead DEF ReadHead, Named
<1>0. ASSUME NEW c \in Client, Decide(c) \/ Hear(c)
      PROVE  LogOK'
  <2>1. UNCHANGED <<manifest, op, known>>
    BY <1>0, PageStep DEF files
  <2> QED BY <1>a, <2>1 DEF LogOK, KnownOK, BaseOK, Unnamed, Named
<1>1. ASSUME NEW c \in Client, KnowHead(c)
      PROVE  LogOK'
  <2>1. UNCHANGED <<manifest, op>> /\ known' = [known EXCEPT ![c] = ReadHead]
    BY <1>1 DEF KnowHead, files
  <2>2. \A d \in Client : known'[d] \in {known[d], ReadHead}
    BY <1>a, <2>1 DEF TypeOK
  <2>3. BaseOK' /\ op'.step # "delete"
    BY <1>a, <2>1 DEF LogOK, BaseOK, Unnamed
  <2> QED BY <1>a, <1>b, <2>1, <2>2, <2>3, LogFrame
<1>2. ASSUME NEW c \in Client, BeginCompaction(c)
      PROVE  LogOK'
  <2>1. UNCHANGED <<manifest, known>>
    BY <1>2 DEF BeginCompaction, files
  <2>2. BaseOK' /\ op'.step # "delete"
    BY <1>2, <1>a, CompactionCall DEF BaseOK
  <2> QED BY <1>a, <1>b, <2>1, <2>2, LogFrame
<1>3. ASSUME NEW c \in Client, NEW s \in Save, NEW bundle \in BlobSets,
             NEW mark \in Marks, NEW edit \in Marks, NEW keep \in BOOLEAN,
             BeginAppend(c, s, bundle, keep, mark, edit)
      PROVE  LogOK'
  <2>1. UNCHANGED <<manifest, known>>
    BY <1>3 DEF BeginAppend, files
  <2>2. manifest.head.seq = known[c].seq /\ known[c] \in Heads
    BY <1>3, <1>a, AppendCall DEF BeginAppend, AppendRefused
  <2>3. op'.step = "change" /\ op'.base = known[c].save
    BY <1>3, <1>a, AppendCall
  <2>4. op'.base = manifest'.head.save
    BY <1>a, <2>1, <2>2, <2>3 DEF LogOK, KnownOK
  <2> QED BY <1>a, <1>b, <2>1, <2>3, <2>4, LogFrame DEF BaseOK
<1>4. ASSUME NEW c \in Client, NEW s \in Save, NEW bundle \in BlobSets,
             NEW mark \in Marks, NEW edit \in Marks, NEW fresh \in Fresh,
             BeginSnapshot(c, s, bundle, fresh, mark, edit)
      PROVE  LogOK'
  <2>1. UNCHANGED <<manifest, known>>
    BY <1>4 DEF BeginSnapshot, files
  <2>2. BaseOK' /\ op'.step # "delete"
    BY <1>4, <1>a, SnapshotCall DEF BaseOK
  <2> QED BY <1>a, <1>b, <2>1, <2>2, LogFrame
<1> QED BY <1>0, <1>1, <1>2, <1>3, <1>4 DEF Editing

\* A longer log is a chain when its last change continues the tip.
LEMMA LogOfAppend ==
    ASSUME NEW m \in Manifest, NEW n \in Manifest, NEW x \in Change, LogOf(m),
           n.changes = Append(m.changes, x), n.snapshot = m.snapshot,
           x.base = m.head.save, n.head = [seq |-> x.seq, save |-> x.save],
           m.head.seq <= x.seq
    PROVE  LogOf(n)
<1> DEFINE k == Len(m.changes)
<1>1. /\ m.changes \in Seq(Change)
      /\ k \in Nat
      /\ Len(n.changes) = k + 1
      /\ n.changes[k + 1] = x
      /\ \A i \in 1..k : n.changes[i] = m.changes[i]
  BY AppendProperties, LenProperties DEF Manifest
<1>2. \A i \in 1..k : m.changes[i] \in Change
  BY <1>1, ElementOfSeq
<1>3. x.base = IF k = 0 THEN m.snapshot.save ELSE m.changes[k].save
  <2>1. m.changes = <<>> <=> k = 0
    BY <1>1, EmptySeq
  <2> QED BY <2>1 DEF LogOf, Tip, Last
<1>4. Chained(n)
  <2> SUFFICES ASSUME NEW i \in 1..(k + 1) PROVE Continues(n, i)
    BY <1>1 DEF Chained
  <2>1. CASE i \in 1..k
    <3>1. Continues(m, i)
      BY <2>1 DEF LogOf, Chained
    <3>2. i # 1 => i - 1 \in 1..k
      BY <1>1, <2>1
    <3> QED BY <1>1, <2>1, <3>1, <3>2 DEF Continues
  <2>2. CASE i = k + 1
    <3>1. i # 1 => k \in 1..k
      BY <1>1, <2>2
    <3> QED BY <1>1, <1>3, <2>2, <3>1 DEF Continues
  <2> QED BY <1>1, <2>1, <2>2
<1>5. n.head.save = Tip(n)
  <2>1. n.changes # <<>>
    <3>1. Len(<<>>) = 0
      OBVIOUS
    <3> QED BY <1>1, <3>1
  <2> QED BY <1>1, <2>1 DEF Tip, Last
<1>6. \A i \in 1..(k + 1) : n.changes[i].seq <= n.head.seq
  <2> SUFFICES ASSUME NEW i \in 1..(k + 1) PROVE n.changes[i].seq <= x.seq
    OBVIOUS
  <2>0. m.head.seq \in Nat /\ x.seq \in Nat
    BY DEF Manifest, Heads, Change
  <2>1. CASE i \in 1..k
    <3>1. m.changes[i].seq <= m.head.seq /\ m.changes[i].seq \in Nat
      BY <1>2, <2>1 DEF LogOf, Change
    <3> QED BY <1>1, <2>0, <2>1, <3>1
  <2>2. CASE i = k + 1
    BY <1>1, <2>0, <2>2
  <2> QED BY <1>1, <2>1, <2>2
<1> QED BY <1>1, <1>4, <1>5, <1>6 DEF LogOf

\* When the head grows, what the editors know is of an earlier seq.
LEMMA KnownGrown ==
    ASSUME LogInv, manifest' \in Manifest, UNCHANGED known,
           Named => manifest'.head.seq > manifest.head.seq
    PROVE  KnownOK'
<1> SUFFICES ASSUME NEW c \in Client, known[c] \in Heads
             PROVE  Named' /\ known[c].seq < manifest'.head.seq
  BY DEF KnownOK, Manifest, Heads
<1>1. Named /\ known[c].seq <= manifest.head.seq
  BY DEF LogInv, LogOK, KnownOK
<1>2. manifest.head.seq \in Nat /\ known[c].seq \in Nat /\ manifest'.head.seq \in Nat
  BY <1>1 DEF LogInv, TypeInv, TypeOK, Named, Manifest, Heads
<1> QED BY <1>1, <1>2, DocEntryAssumption DEF Named

LEMMA LogWriting ==
    ASSUME LogInv, Writing
    PROVE  LogOK'
<1>a. TypeInv /\ TypeOK /\ OpOK /\ OpSeq /\ LogOK /\ op \in OpType
  BY DEF LogInv, TypeInv, TypeOK
<1>b. /\ op.step \in {"change", "blobs", "rename", "name", "sweep"}
      /\ UNCHANGED known
  BY DEF Writing, StoreBlob, WriteChange, NameChange, NamePending, RenameSnapshot,
         NameSnapshot, SweepChange, memory
<1>c. ASSUME UNCHANGED manifest, BaseOK', op'.step # "delete"
      PROVE  LogOK'
  <2>1. ReadHead \in Heads => Named
    BY AbsentNotHead DEF ReadHead, Named
  <2> QED BY <1>a, <1>b, <1>c, <2>1, LogFrame
<1>1. ASSUME NEW b \in Blob, StoreBlob(b)
      PROVE  LogOK'
  BY <1>1, <1>a, <1>c DEF StoreBlob, LogOK, BaseOK, Unnamed, memory
<1>2. CASE WriteChange
  <2>1. op'.step = "blobs" /\ SameCall(op)
    BY <1>2, <1>a, StepCall DEF WriteChange, Steps
  <2>2. op.step = "change" /\ UNCHANGED manifest
    BY <1>2 DEF WriteChange
  <2> QED BY <1>a, <1>c, <2>1, <2>2 DEF LogOK, BaseOK, Unnamed, SameCall
<1>3. CASE NameChange
  <2> DEFINE x == [seq |-> op.seq, base |-> op.base, save |-> op.save]
  <2>1. op.step = "blobs" /\ op.body = "changes" /\ Named
    BY <1>3, <1>a DEF NameChange, OpOK
  <2>2. op.seq = manifest.head.seq + 1 /\ op.base = manifest.head.save
    BY <1>a, <2>1 DEF OpSeq, NextSeq, LogOK, BaseOK, Unnamed, Named
  <2>3. x \in Change /\ manifest.head.seq \in Nat
    BY <1>a, <2>1 DEF OpOK, OpType, InFlight, Change, TypeOK, Named, Manifest, Heads
  <2>4. op'.step = "history"
    BY <1>3, <1>a, StepCall DEF NameChange, Steps
  <2>5. LogOf(manifest')
    <3>1. LogOf(manifest)
      BY <1>a, <2>1 DEF LogOK
    <3>2. x.base = manifest.head.save /\ manifest.head.seq <= x.seq
      BY <2>2, <2>3
    <3>3. /\ manifest \in Manifest /\ manifest' \in Manifest
          /\ manifest'.changes = Append(manifest.changes, x)
          /\ manifest'.snapshot = manifest.snapshot
          /\ manifest'.head = [seq |-> x.seq, save |-> x.save]
      BY <1>3, <1>a, NameChangeManifest
    <3> QED BY <2>3, <3>1, <3>2, <3>3, LogOfAppend
  <2>6. KnownOK'
    <3>1. manifest' \in Manifest /\ manifest'.head.seq = op.seq
      BY <1>3, <1>a, NameChangeManifest
    <3> QED BY <1>b, <2>2, <2>3, <3>1, KnownGrown
  <2> QED BY <2>4, <2>5, <2>6 DEF LogOK, BaseOK, Unnamed
<1>4. CASE NamePending
  <2>1. op'.step = "rename" /\ SameCall(op) /\ op.body = "snapshot"
    BY <1>4, <1>a, StepCall DEF NamePending, Steps
  <2>2. /\ Named /\ Named'
        /\ manifest'.changes = manifest.changes
        /\ manifest'.snapshot = manifest.snapshot
        /\ manifest'.head = manifest.head
    BY <1>4, <1>a, NamePendingManifest, DocEntryAssumption DEF Named
  <2>3. LogOf(manifest')
    <3>1. LogOf(manifest)
      BY <1>a, <2>2 DEF LogOK
    <3> QED BY <2>2, <3>1 DEF LogOf, Chained, Continues, Tip
  <2>4. KnownOK'
    BY <1>a, <1>b, <2>2 DEF LogOK, KnownOK
  <2> QED BY <2>1, <2>3, <2>4 DEF LogOK, BaseOK, SameCall
<1>5. CASE RenameSnapshot
  <2>1. op'.step = "name" /\ SameCall(op)
    BY <1>5, <1>a, StepCall DEF RenameSnapshot, Steps
  <2>2. op.body = "snapshot" /\ UNCHANGED manifest
    BY <1>5, <1>a DEF RenameSnapshot, OpOK
  <2> QED BY <1>c, <2>1, <2>2 DEF BaseOK, SameCall
<1>6. CASE NameSnapshot
  <2>1. op'.step = "sweep"
    BY <1>6, <1>a, StepCall DEF NameSnapshot, Steps
  <2>2. op.seq = NextSeq
    BY <1>6, <1>a DEF OpSeq, Unnamed, NameSnapshot
  <2>3. /\ manifest' \in Manifest
        /\ manifest'.changes = <<>>
        /\ manifest'.snapshot = [seq |-> op.seq, save |-> op.save]
        /\ manifest'.head = [seq |-> op.seq, save |-> op.save]
    BY <1>6, <1>a, NameSnapshotManifest
  <2>4. LogOf(manifest')
    BY <2>3 DEF LogOf, Chained, Tip
  <2>5. KnownOK'
    <3>1. Named => manifest'.head.seq > manifest.head.seq
      BY <1>a, <2>2, <2>3, NextSeqGrows DEF Named
    <3> QED BY <1>b, <2>3, <3>1, KnownGrown
  <2> QED BY <2>1, <2>4, <2>5 DEF LogOK, BaseOK, Unnamed
<1>7. ASSUME NEW f \in changeFiles, SweepChange(f)
      PROVE  LogOK'
  BY <1>7, <1>a, <1>c DEF SweepChange, LogOK, BaseOK, Unnamed, memory
<1> QED BY <1>1, <1>2, <1>3, <1>4, <1>5, <1>6, <1>7 DEF Writing

LEMMA LogOther ==
    ASSUME LogInv, ~MayDelete, Recording \/ Deleting \/ Fail \/ Crash \/ Damage
    PROVE  LogOK'
<1>a. TypeInv /\ TypeOK /\ OpOK /\ LogOK
  BY DEF LogInv, TypeInv
<1>b. ReadHead \in Heads => Named
  BY AbsentNotHead DEF ReadHead, Named
<1>c. ASSUME UNCHANGED manifest, BaseOK', op'.step # "delete",
             \A c \in Client : known'[c] \in {known[c], None}
      PROVE  LogOK'
  BY <1>a, <1>b, <1>c, LogFrame
<1>d. Idle.step # "delete" /\ Idle.body = "none"
  BY IdleFields
<1>1. CASE Recording
  <2>1. UNCHANGED manifest
    BY <1>1, <1>a, RecordingFrame
  <2>2. CASE op'.step = "history" /\ UNCHANGED known
    BY <1>c, <2>1, <2>2 DEF BaseOK, Unnamed
  <2>3. CASE op' = Idle /\ Finish
    <3>1. \A c \in Client : known'[c] \in {known[c], None}
      BY <1>a, <2>3 DEF Finish, TypeOK
    <3> QED BY <1>c, <1>d, <2>1, <2>3, <3>1 DEF BaseOK
  <2>4. CASE UNCHANGED <<op, known>>
    BY <1>a, <1>c, <2>1, <2>4 DEF LogOK, BaseOK, Unnamed
  <2> QED BY <1>1, <1>a, <2>2, <2>3, <2>4, RecordingFrame
<1>2. CASE Deleting
  BY <1>2, <1>a DEF Deleting, BeginDelete, DeleteFile, FinishDelete, LogOK
<1>3. CASE Fail \/ Crash
  <2>1. op' = Idle /\ UNCHANGED manifest
    BY <1>3 DEF Fail, Crash, Interrupted, files
  <2>2. \A c \in Client : known'[c] \in {known[c], None}
    BY <1>3 DEF Fail, Crash
  <2> QED BY <1>c, <1>d, <2>1, <2>2 DEF BaseOK
<1>4. CASE Damage
  <2>1. UNCHANGED <<manifest, op, known>>
    BY <1>4 DEF Damage, memory
  <2> QED BY <1>a, <1>c, <2>1 DEF LogOK, BaseOK, Unnamed
<1> QED BY <1>1, <1>2, <1>3, <1>4

LEMMA LogStep ==
    ASSUME LogInv, ~MayDelete, [Next]_vars
    PROVE  LogOK'
<1>1. CASE UNCHANGED vars
  BY <1>1 DEF LogInv, LogOK, LogOf, Chained, Continues, Tip, Last, KnownOK, BaseOK,
              Unnamed, Named, vars
<1> QED BY <1>1, LogEditing, LogWriting, LogOther DEF Next

LEMMA LogInvariance ==
    ASSUME ~MayDelete
    PROVE  Spec => []LogInv
<1>1. TypeInv /\ OpSeq /\ LogOK /\ [Next]_vars => LogOK'
  BY LogStep DEF LogInv
<1>2. TypeInv /\ OpSeq /\ LogOK => LogInv
  BY DEF LogInv
<1> QED BY <1>1, <1>2, LogInit, TypeInvariance, SeqInvariance, PTL DEF Spec

\* Any number of editors, crashes and failures: each change in the log was made
\* against the version before it, though an append compares seqs only
\* (entry.rs:455-463).  Deleting the entry breaks it, so it is excluded here.
THEOREM AppendsChain ==
    ASSUME ~MayDelete
    PROVE  Spec => []AppendsContinue
<1>1. LogInv => AppendsContinue
  BY DEF LogInv, LogOK, LogOf, AppendsContinue, Named
<1> QED BY <1>1, LogInvariance, PTL

-----------------------------------------------------------------------------
(* Recovery.                                                               *)

Inv == LogInv /\ RecoveryOK

-----------------------------------------------------------------------------
(* Blobs.                                                                  *)

LEMMA WholeGrows ==
    ASSUME TypeOK, NEW b \in Blob, blobFile' = [blobFile EXCEPT ![b] = "whole"],
           NEW S \in SUBSET Blob, BlobsWhole(S)
    PROVE  \A x \in S : blobFile'[x] = "whole"
  BY DEF TypeOK, BlobsWhole

LEMMA WholeKept ==
    ASSUME TypeOK, NEW b \in Blob, blobFile' = [blobFile EXCEPT ![b] = "absent"],
           NEW S \in SUBSET Blob, BlobsWhole(S), b \notin S
    PROVE  \A x \in S : blobFile'[x] = "whole"
  BY DEF TypeOK, BlobsWhole

\* A blob that is there is whole, as long as nothing was damaged.
LEMMA ThereIsWhole ==
    ASSUME TypeOK, StoredWhole, NEW S \in SUBSET Blob, BlobsThere(S)
    PROVE  BlobsWhole(S)
  BY DEF TypeOK, StoredWhole, BlobsThere, BlobsWhole

LEMMA BundlesOfTypes ==
    ASSUME TypeOK
    PROVE  /\ op.blobs \in SUBSET Blob
           /\ Named => /\ manifest.blobs \in SUBSET Blob
                       /\ manifest.pending # None => manifest.pending.blobs \in SUBSET Blob
           /\ \A i \in 1..Len(history) : history[i].blobs \in SUBSET Blob
<1>1. op.blobs \in SUBSET Blob
  BY DEF TypeOK, OpType, Bundle
<1>2. Named => /\ manifest.blobs \in SUBSET Blob
               /\ manifest.pending # None => manifest.pending.blobs \in SUBSET Blob
  BY DEF TypeOK, Named, Manifest, Pending, Bundle
<1>3. \A i \in 1..Len(history) : history[i].blobs \in SUBSET Blob
  <2> TAKE i \in 1..Len(history)
  <2>1. history \in Seq(Checkpoint)
    BY DEF TypeOK
  <2>2. history[i] \in Checkpoint
    BY <2>1, ElementOfSeq
  <2> QED BY <2>2 DEF Checkpoint, Bundle
<1> QED BY <1>1, <1>2, <1>3

-----------------------------------------------------------------------------
(* Steps that leave most of the state alone.                               *)

\* The versions of the entry survive a step that makes no save.
LEMMA VersionFrame ==
    ASSUME VersionOK, UNCHANGED <<manifest, made, carried>>, CallVersion',
           \A c \in Client : known'[c] \in {known[c], None, ReadHead}
    PROVE  VersionOK'
<1>1. ManifestVersion'
  BY DEF VersionOK, ManifestVersion, Named
<1>2. KnownMade'
  <2> SUFFICES ASSUME NEW c \in Client, known'[c] \in Heads
               PROVE  known'[c].save \in made
    BY DEF KnownMade
  <2>1. CASE known'[c] = known[c]
    BY <2>1 DEF VersionOK, KnownMade
  <2>2. CASE known'[c] = ReadHead
    BY <2>2, AbsentNotHead DEF ReadHead, VersionOK, ManifestVersion, Named
  <2> QED BY <2>1, <2>2, DocEntryAssumption
<1> QED BY <1>1, <1>2 DEF VersionOK

\* A save that is being made is none the entry or an editor knows.
LEMMA MakeFrame ==
    ASSUME TypeOK, NEW c, NEW s \in Save, NEW bundle \in Bundle, NEW fresh,
           Make(c, s, bundle, fresh)
    PROVE  /\ made \subseteq made' /\ s \in made'
           /\ carried'[s] = bundle
           /\ \A x \in made : carried'[x] = carried[x]
  BY DEF TypeOK, Make

LEMMA VersionMade ==
    ASSUME VersionOK, UNCHANGED <<manifest, known>>, CallVersion',
           made \subseteq made', \A x \in made : carried'[x] = carried[x]
    PROVE  VersionOK'
<1>1. ManifestVersion'
  BY DEF VersionOK, ManifestVersion, Named
<1>2. KnownMade'
  BY DEF VersionOK, KnownMade
<1> QED BY <1>1, <1>2 DEF VersionOK

\* A call begins.
LEMMA BeginFrame ==
    ASSUME RecoveryOK, AtRest, UNCHANGED <<files, lawful, torn, damaged>>,
           op'.step \in {"change", "blobs"},
           op'.step = "blobs" => op'.body = "snapshot",
           op'.body = "changes" => manifest.pending = None
    PROVE  PendingOK' /\ LawfulOK' /\ FilesOK'
<1>1. PendingOK'
  BY DEF RecoveryOK, PendingOK, AtRest, Named, Compacting, Written, files
<1>2. LawfulOK'
  BY DEF RecoveryOK, LawfulOK, AtRest, Named, Compacting, Written, files
<1>3. FilesOK'
  BY DEF RecoveryOK, FilesOK, ChangesThere, StoredWhole, HistoryWhole, BlobsWhole,
         Named, Compacting, files
<1> QED BY <1>1, <1>2, <1>3

LEMMA RecoveryEditing ==
    ASSUME Inv, Editing
    PROVE  RecoveryOK'
<1>a. TypeOK /\ RecoveryOK /\ VersionOK
  BY DEF Inv, LogInv, TypeInv, RecoveryOK
<1>0. ASSUME NEW c \in Client, Decide(c) \/ Hear(c)
      PROVE  RecoveryOK'
  <2>1. UNCHANGED <<files, op, known, ghosts>>
    BY <1>0, PageStep
  <2>2. CallVersion'
    BY <1>a, <2>1 DEF VersionOK, CallVersion, InFlight, Unnamed, Written, files, ghosts
  <2>3. VersionOK'
    BY <1>a, <2>1, <2>2, VersionFrame DEF files, ghosts
  <2>4. PendingOK' /\ LawfulOK' /\ FilesOK'
    BY <1>a, <2>1 DEF RecoveryOK, PendingOK, LawfulOK, FilesOK, ChangesThere, StoredWhole,
       HistoryWhole, BlobsWhole, Named, Compacting, Written, files, ghosts
  <2> QED BY <2>3, <2>4 DEF RecoveryOK
<1>1. ASSUME NEW c \in Client, KnowHead(c)
      PROVE  RecoveryOK'
  <2>1. /\ UNCHANGED <<files, op, ghosts>>
        /\ \A d \in Client : known'[d] \in {known[d], ReadHead}
    BY <1>1, <1>a DEF KnowHead, TypeOK
  <2>2. CallVersion'
    BY <1>a, <2>1 DEF VersionOK, CallVersion, InFlight, Unnamed, Written, files, ghosts
  <2>3. VersionOK'
    BY <1>a, <2>1, <2>2, VersionFrame DEF files, ghosts
  <2>4. PendingOK' /\ LawfulOK' /\ FilesOK'
    BY <1>a, <2>1 DEF RecoveryOK, PendingOK, LawfulOK, FilesOK, ChangesThere, StoredWhole,
       HistoryWhole, BlobsWhole, Named, Compacting, Written, files, ghosts
  <2> QED BY <2>3, <2>4 DEF RecoveryOK
<1>2. ASSUME NEW c \in Client, BeginCompaction(c)
      PROVE  RecoveryOK'
  <2>1. AtRest /\ UNCHANGED <<files, known, page, ghosts>>
    BY <1>2 DEF BeginCompaction
  <2>2. /\ op'.step = "blobs" /\ op'.body = "snapshot"
        /\ op'.save = known[c].save /\ op'.blobs = carried[known[c].save]
        /\ known[c] \in Heads
    BY <1>2, <1>a, CompactionCall
  <2>3. CallVersion'
    BY <1>a, <2>1, <2>2 DEF VersionOK, KnownMade, CallVersion, Written, ghosts
  <2>4. VersionOK'
    BY <1>a, <2>1, <2>3, VersionFrame DEF files, ghosts
  <2>5. PendingOK' /\ LawfulOK' /\ FilesOK'
    BY <1>a, <2>1, <2>2, BeginFrame DEF ghosts
  <2> QED BY <2>4, <2>5 DEF RecoveryOK
<1>3. ASSUME NEW c \in Client, NEW s \in Save, NEW bundle \in BlobSets,
             NEW mark \in Marks, NEW edit \in Marks, NEW keep \in BOOLEAN,
             BeginAppend(c, s, bundle, keep, mark, edit)
      PROVE  RecoveryOK'
  <2> DEFINE version == IF keep THEN manifest.blobs ELSE bundle
  <2>1. /\ AtRest /\ Make(c, s, version, FALSE)
        /\ UNCHANGED <<files, known, page, lawful, torn, interruptions, damaged, scrapped>>
    BY <1>3 DEF BeginAppend
  <2>2. /\ op'.step = "change" /\ op'.body = "changes" /\ op'.save = s
        /\ op'.keep = keep /\ op'.blobs = (IF keep THEN {} ELSE bundle)
        /\ manifest \in Manifest
    BY <1>3, <1>a, AppendCall
  <2>3. version \in Bundle
    BY <2>2, DocEntryAssumption DEF Manifest
  <2>4. /\ made \subseteq made' /\ s \in made' /\ carried'[s] = version
        /\ \A x \in made : carried'[x] = carried[x]
    BY <1>a, <2>1, <2>3, MakeFrame
  <2>5. CallVersion'
    <3>1. UNCHANGED manifest
      BY <2>1 DEF files
    <3> QED BY <2>2, <2>4, <3>1 DEF CallVersion, Written
  <2>6. VersionOK'
    BY <1>a, <2>1, <2>4, <2>5, VersionMade DEF files
  <2>7. manifest.pending = None
    BY <1>3 DEF BeginAppend, AppendRefused
  <2>8. PendingOK' /\ LawfulOK' /\ FilesOK'
    BY <1>a, <2>1, <2>2, <2>7, BeginFrame
  <2> QED BY <2>6, <2>8 DEF RecoveryOK
<1>4. ASSUME NEW c \in Client, NEW s \in Save, NEW bundle \in BlobSets,
             NEW mark \in Marks, NEW edit \in Marks, NEW fresh \in Fresh,
             BeginSnapshot(c, s, bundle, fresh, mark, edit)
      PROVE  RecoveryOK'
  <2>1. /\ AtRest /\ Make(c, s, bundle, fresh)
        /\ UNCHANGED <<files, known, page, lawful, torn, interruptions, damaged, scrapped>>
    BY <1>4 DEF BeginSnapshot
  <2>2. /\ op'.step = "blobs" /\ op'.body = "snapshot" /\ op'.save = s
        /\ op'.blobs = bundle
    BY <1>4, <1>a, SnapshotCall
  <2>3. bundle \in Bundle
    BY DocEntryAssumption
  <2>4. /\ made \subseteq made' /\ s \in made' /\ carried'[s] = bundle
        /\ \A x \in made : carried'[x] = carried[x]
    BY <1>a, <2>1, <2>3, MakeFrame
  <2>5. CallVersion'
    BY <2>2, <2>4 DEF CallVersion, Written
  <2>6. VersionOK'
    BY <1>a, <2>1, <2>4, <2>5, VersionMade DEF files
  <2>7. PendingOK' /\ LawfulOK' /\ FilesOK'
    BY <1>a, <2>1, <2>2, BeginFrame
  <2> QED BY <2>6, <2>7 DEF RecoveryOK
<1> QED BY <1>0, <1>1, <1>2, <1>3, <1>4 DEF Editing

-----------------------------------------------------------------------------
(* The steps of `write`.                                                   *)

LEMMA RecoveryStoreBlob ==
    ASSUME Inv, NEW b \in Blob, StoreBlob(b)
    PROVE  RecoveryOK'
<1>a. TypeOK /\ RecoveryOK /\ VersionOK
  BY DEF Inv, LogInv, TypeInv, RecoveryOK
<1>b. /\ UNCHANGED <<manifest, snapshotFile, changeFiles, history, memory, ghosts>>
      /\ blobFile' = [blobFile EXCEPT ![b] = "whole"]
  BY DEF StoreBlob
<1>1. CallVersion'
  BY <1>a, <1>b DEF VersionOK, CallVersion, InFlight, Unnamed, Written, memory, ghosts
<1>2. VersionOK'
  BY <1>a, <1>b, <1>1, VersionFrame DEF memory, ghosts
<1>3. PendingOK' /\ LawfulOK'
  BY <1>a, <1>b DEF RecoveryOK, PendingOK, LawfulOK, Named, Compacting, Written,
                    memory, ghosts
<1>4. ASSUME ~damaged
      PROVE  ChangesThere' /\ StoredWhole' /\ HistoryWhole'
  <2>a. ChangesThere /\ StoredWhole /\ HistoryWhole
    BY <1>a, <1>4 DEF RecoveryOK, FilesOK
  <2>1. ChangesThere'
    BY <1>b, <2>a DEF ChangesThere, Named, memory
  <2>2. \A x \in Blob : blobFile'[x] # "damaged"
    BY <1>a, <1>b, <2>a DEF StoredWhole, TypeOK
  <2>3. Named => \A x \in manifest.blobs : blobFile'[x] = "whole"
    BY <1>a, <1>b, <2>a, WholeGrows, BundlesOfTypes DEF StoredWhole
  <2>4. Named /\ manifest.pending # None =>
           \A x \in manifest.pending.blobs : blobFile'[x] = "whole"
    BY <1>a, <1>b, <2>a, WholeGrows, BundlesOfTypes DEF StoredWhole
  <2>5. ~Compacting
    BY DEF StoreBlob, Compacting
  <2>6. StoredWhole'
    BY <1>b, <2>2, <2>3, <2>4, <2>5 DEF StoredWhole, BlobsWhole, Named, Compacting, memory
  <2>7. \A i \in 1..Len(history) : \A x \in history[i].blobs : blobFile'[x] = "whole"
    BY <1>a, <1>b, <2>a, WholeGrows, BundlesOfTypes DEF HistoryWhole
  <2>8. HistoryWhole'
    BY <1>b, <2>7 DEF HistoryWhole, BlobsWhole
  <2> QED BY <2>1, <2>6, <2>8
<1>5. FilesOK'
  BY <1>b, <1>4 DEF FilesOK, ghosts
<1> QED BY <1>2, <1>3, <1>5 DEF RecoveryOK

LEMMA RecoveryWriteChange ==
    ASSUME Inv, WriteChange
    PROVE  RecoveryOK'
<1>a. /\ TypeOK /\ OpOK /\ OpSeq /\ LogOK /\ RecoveryOK /\ VersionOK
      /\ op \in OpType
  BY DEF Inv, LogInv, TypeInv, TypeOK, RecoveryOK
<1> DEFINE x == [seq |-> op.seq, base |-> op.base, save |-> op.save]
<1>b. /\ op.step = "change" /\ op.body = "changes"
      /\ changeFiles' = {f \in changeFiles : f.seq # op.seq} \cup {x}
      /\ UNCHANGED <<manifest, snapshotFile, blobFile, history, known, page, ghosts>>
  BY <1>a DEF WriteChange, OpOK
<1>c. op'.step = "blobs" /\ SameCall(op)
  BY <1>a, StepCall DEF WriteChange, Steps
<1>1. CallVersion'
  BY <1>a, <1>b, <1>c DEF VersionOK, CallVersion, InFlight, Unnamed, Written, SameCall, ghosts
<1>2. VersionOK'
  BY <1>a, <1>b, <1>1, VersionFrame DEF ghosts
<1>3. PendingOK' /\ LawfulOK'
  BY <1>a, <1>b, <1>c DEF RecoveryOK, PendingOK, LawfulOK, Named, Compacting, Written,
                          SameCall, ghosts
<1>4. ASSUME ~damaged
      PROVE  ChangesThere' /\ StoredWhole' /\ HistoryWhole'
  <2>a. ChangesThere /\ StoredWhole /\ HistoryWhole
    BY <1>a, <1>4 DEF RecoveryOK, FilesOK
  <2>1. ASSUME Named, NEW i \in 1..Len(manifest.changes)
        PROVE  manifest.changes[i] \in changeFiles'
    <3>1. manifest.changes[i] \in changeFiles
      BY <2>a, <2>1 DEF ChangesThere
    <3>2. manifest.changes[i].seq <= manifest.head.seq
      BY <1>a, <2>1 DEF LogOK, LogOf
    <3>3. op.seq > manifest.head.seq
      BY <1>a, <1>b, <2>1, NextSeqGrows DEF OpSeq, Unnamed, Named
    <3>4. /\ manifest.changes[i].seq \in Nat
          /\ manifest.head.seq \in Nat
          /\ op.seq \in Nat
      BY <1>a, <2>1, <3>1 DEF TypeOK, Change, Named, Manifest, Heads, OpType
    <3>5. manifest.changes[i].seq # op.seq
      BY <3>2, <3>3, <3>4
    <3> QED BY <1>b, <3>1, <3>5
  <2>2. ChangesThere'
    BY <1>b, <1>c, <2>1 DEF ChangesThere, Named, SameCall
  <2>3. StoredWhole' /\ HistoryWhole'
    BY <1>b, <1>c, <2>a DEF StoredWhole, HistoryWhole, BlobsWhole, Named, Compacting
  <2> QED BY <2>2, <2>3
<1>5. FilesOK'
  BY <1>b, <1>4 DEF FilesOK, ghosts
<1> QED BY <1>2, <1>3, <1>5 DEF RecoveryOK

LEMMA RecoveryNameChange ==
    ASSUME Inv, NameChange
    PROVE  RecoveryOK'
<1>a. /\ TypeInv /\ TypeOK /\ OpOK /\ RecoveryOK /\ VersionOK /\ PendingOK
      /\ op \in OpType
  BY DEF Inv, LogInv, TypeInv, TypeOK, RecoveryOK
<1> DEFINE x == [seq |-> op.seq, base |-> op.base, save |-> op.save]
<1>b. /\ op.step = "blobs" /\ op.body = "changes" /\ BlobsThere(op.blobs)
      /\ UNCHANGED <<snapshotFile, changeFiles, blobFile, history, known, page, ghosts>>
  BY DEF NameChange
<1>c. op'.step = "history" /\ SameCall(op)
  BY <1>a, StepCall DEF NameChange, Steps
<1>d. /\ manifest' \in Manifest /\ manifest \in Manifest
      /\ manifest'.meta = op.save
      /\ manifest'.changes = Append(manifest.changes, x)
      /\ manifest'.head.save = op.save
      /\ manifest'.blobs = (IF op.keep THEN manifest.blobs ELSE op.blobs)
      /\ manifest'.snapshot = manifest.snapshot
      /\ manifest'.pending = manifest.pending
  BY <1>a, NameChangeManifest
<1>e. Named /\ Named' /\ manifest.pending = None
  BY <1>a, <1>b, <1>d, DocEntryAssumption DEF PendingOK, Named
<1>1. CallVersion'
  BY <1>a, <1>b, <1>c, <1>d DEF VersionOK, CallVersion, InFlight, Unnamed, SameCall, ghosts
<1>2. ManifestVersion'
  <2>1. op.save \in made /\ carried[op.save] = manifest'.blobs
    BY <1>a, <1>b, <1>d DEF VersionOK, CallVersion, InFlight, Unnamed
  <2> QED BY <1>b, <1>d, <1>e, <2>1 DEF ManifestVersion, ghosts
<1>3. VersionOK'
  BY <1>a, <1>b, <1>1, <1>2 DEF VersionOK, KnownMade, ghosts
<1>4. PendingOK'
  BY <1>a, <1>b, <1>c, <1>d, <1>e DEF PendingOK, Compacting, ghosts
<1>5. LawfulOK'
  BY <1>c, <1>d, <1>e DEF LawfulOK, Written
<1>6. ASSUME ~damaged
      PROVE  ChangesThere' /\ StoredWhole' /\ HistoryWhole'
  <2>a. ChangesThere /\ StoredWhole /\ HistoryWhole
    BY <1>a, <1>6 DEF RecoveryOK, FilesOK
  <2>1. \A i \in 1..Len(manifest'.changes) : manifest'.changes[i] \in changeFiles
    <3>1. manifest.changes \in Seq(Change) /\ x \in Change
      BY <1>a, <1>b, <1>d DEF Manifest, OpOK, OpType, InFlight, Change
    <3>2. /\ Len(manifest.changes) \in Nat
          /\ Len(manifest'.changes) = Len(manifest.changes) + 1
          /\ \A i \in 1..Len(manifest.changes) : manifest'.changes[i] = manifest.changes[i]
          /\ manifest'.changes[Len(manifest.changes) + 1] = x
      BY <1>d, <3>1, AppendProperties, LenProperties
    <3>3. x \in changeFiles
      BY <1>b, <2>a DEF ChangesThere
    <3>4. \A i \in 1..Len(manifest.changes) : manifest.changes[i] \in changeFiles
      BY <1>e, <2>a DEF ChangesThere
    <3>5. \A i \in 1..(Len(manifest.changes) + 1) :
             i \in 1..Len(manifest.changes) \/ i = Len(manifest.changes) + 1
      BY <3>2
    <3> QED BY <3>2, <3>3, <3>4, <3>5
  <2>2. ChangesThere'
    BY <1>b, <1>c, <2>1 DEF ChangesThere
  <2>3. BlobsWhole(op.blobs) /\ BlobsWhole(manifest.blobs)
    BY <1>a, <1>b, <1>e, <2>a, ThereIsWhole, BundlesOfTypes DEF StoredWhole
  <2>4. StoredWhole'
    BY <1>b, <1>c, <1>d, <1>e, <2>a, <2>3 DEF StoredWhole, BlobsWhole, Compacting
  <2>5. HistoryWhole'
    BY <1>b, <2>a DEF HistoryWhole, BlobsWhole
  <2> QED BY <2>2, <2>4, <2>5
<1>7. FilesOK'
  BY <1>b, <1>6 DEF FilesOK, ghosts
<1> QED BY <1>3, <1>4, <1>5, <1>7 DEF RecoveryOK

LEMMA RecoveryNamePending ==
    ASSUME Inv, NamePending
    PROVE  RecoveryOK'
<1>a. /\ TypeInv /\ TypeOK /\ OpOK /\ RecoveryOK /\ VersionOK /\ PendingOK /\ LawfulOK
      /\ op \in OpType
  BY DEF Inv, LogInv, TypeInv, TypeOK, RecoveryOK
<1> DEFINE x == [seq |-> op.seq, save |-> op.save, blobs |-> op.blobs]
<1>b. /\ op.step = "blobs" /\ op.body = "snapshot" /\ BlobsThere(op.blobs)
      /\ UNCHANGED <<snapshotFile, changeFiles, blobFile, history, known, page, ghosts>>
  BY DEF NamePending
<1>c. op'.step = "rename" /\ SameCall(op)
  BY <1>a, StepCall DEF NamePending, Steps
<1>d. /\ manifest \in Manifest /\ manifest' \in Manifest
      /\ manifest'.meta = manifest.meta
      /\ manifest'.changes = manifest.changes
      /\ manifest'.head = manifest.head
      /\ manifest'.blobs = manifest.blobs
      /\ manifest'.snapshot = manifest.snapshot
      /\ manifest'.pending = x
  BY <1>a, NamePendingManifest
<1>e. Named /\ Named'
  BY <1>d, DocEntryAssumption DEF Named
<1>f. x # None
  <2>1. x \in Pending
    BY <1>a, <1>b DEF OpOK, OpType, InFlight, Pending
  <2> QED BY <2>1, DocEntryAssumption
<1>1. CallVersion'
  BY <1>a, <1>b, <1>c DEF VersionOK, CallVersion, InFlight, Written, SameCall, ghosts
<1>2. ManifestVersion'
  <2>1. op.save \in made /\ op.blobs = carried[op.save]
    BY <1>a, <1>b DEF VersionOK, CallVersion, InFlight
  <2> QED BY <1>a, <1>b, <1>d, <1>e, <2>1 DEF VersionOK, ManifestVersion, ghosts
<1>3. VersionOK'
  BY <1>a, <1>b, <1>1, <1>2 DEF VersionOK, KnownMade, ghosts
<1>4. PendingOK'
  <2>1. torn = 0 => snapshotFile = manifest.snapshot.save
    <3>1. ~Compacting
      BY <1>b DEF Compacting
    <3>2. torn = 0 => manifest.pending = None
      BY <1>a, <1>e, <3>1 DEF PendingOK
    <3> QED BY <1>a, <1>e, <3>2 DEF PendingOK
  <2>2. op'.body = "snapshot"
    BY <1>b, <1>c DEF SameCall
  <2>3. UNCHANGED <<torn, snapshotFile>>
    BY <1>b DEF ghosts
  <2> QED BY <1>c, <1>d, <1>e, <1>f, <2>1, <2>2, <2>3
          DEF PendingOK, Compacting, Written, SameCall
<1>5. LawfulOK'
  BY <1>a, <1>b, <1>c, <1>d, <1>e DEF LawfulOK, Written, Compacting, ghosts
<1>6. ASSUME ~damaged
      PROVE  ChangesThere' /\ StoredWhole' /\ HistoryWhole'
  <2>a. ChangesThere /\ StoredWhole /\ HistoryWhole
    BY <1>a, <1>6 DEF RecoveryOK, FilesOK
  <2>1. ChangesThere'
    BY <1>b, <1>c, <1>d, <1>e, <2>a DEF ChangesThere
  <2>2. BlobsWhole(op.blobs)
    BY <1>a, <1>b, <2>a, ThereIsWhole, BundlesOfTypes
  <2>3. StoredWhole'
    BY <1>b, <1>c, <1>d, <1>e, <2>a, <2>2 DEF StoredWhole, BlobsWhole, SameCall
  <2>4. HistoryWhole'
    BY <1>b, <2>a DEF HistoryWhole, BlobsWhole
  <2> QED BY <2>1, <2>3, <2>4
<1>7. FilesOK'
  BY <1>b, <1>6 DEF FilesOK, ghosts
<1> QED BY <1>3, <1>4, <1>5, <1>7 DEF RecoveryOK

LEMMA RecoveryRenameSnapshot ==
    ASSUME Inv, RenameSnapshot
    PROVE  RecoveryOK'
<1>a. /\ TypeInv /\ TypeOK /\ OpOK /\ RecoveryOK /\ VersionOK /\ PendingOK /\ LawfulOK
      /\ op \in OpType
  BY DEF Inv, LogInv, TypeInv, TypeOK, RecoveryOK
<1>b. /\ op.step = "rename" \/ (op.step = "blobs" /\ ~Named /\ BlobsThere(op.blobs))
      /\ op.body = "snapshot"
      /\ snapshotFile' = op.save
      /\ UNCHANGED <<manifest, changeFiles, blobFile, history, known, page, ghosts>>
  BY <1>a DEF RenameSnapshot, OpOK, Named
<1>c. op'.step = "name" /\ SameCall(op)
  BY <1>a, StepCall DEF RenameSnapshot, Steps
<1>d. Named => /\ Compacting
               /\ manifest.pending = [seq |-> op.seq, save |-> op.save, blobs |-> op.blobs]
               /\ manifest.pending # None
  BY <1>a, <1>b DEF PendingOK, Compacting
<1>1. CallVersion'
  BY <1>a, <1>b, <1>c DEF VersionOK, CallVersion, InFlight, Unnamed, Written, SameCall, ghosts
<1>2. VersionOK'
  BY <1>a, <1>b, <1>1, VersionFrame DEF ghosts
<1>3. PendingOK'
  BY <1>b, <1>c, <1>d DEF PendingOK, Named, Compacting, Written, SameCall
<1>4. LawfulOK'
  <2>1. ~Written /\ UNCHANGED <<manifest, lawful>>
    BY <1>b DEF Written, ghosts
  <2> QED BY <1>a, <1>c, <2>1 DEF LawfulOK, Named, Compacting
<1>5. ASSUME ~damaged
      PROVE  ChangesThere' /\ StoredWhole' /\ HistoryWhole'
  <2>a. ChangesThere /\ StoredWhole /\ HistoryWhole
    BY <1>a, <1>5 DEF RecoveryOK, FilesOK
  <2>1. ChangesThere'
    BY <1>b, <1>c, <2>a DEF ChangesThere, Named
  <2>2. BlobsWhole(op.blobs)
    BY <1>a, <1>b, <2>a, ThereIsWhole, BundlesOfTypes DEF StoredWhole, Compacting
  <2>3. StoredWhole' /\ HistoryWhole'
    BY <1>b, <1>c, <2>a, <2>2 DEF StoredWhole, HistoryWhole, BlobsWhole, Named, SameCall
  <2> QED BY <2>1, <2>3
<1>6. FilesOK'
  BY <1>b, <1>5 DEF FilesOK, ghosts
<1> QED BY <1>2, <1>3, <1>4, <1>6 DEF RecoveryOK

LEMMA RecoveryNameSnapshot ==
    ASSUME Inv, NameSnapshot
    PROVE  RecoveryOK'
<1>a. /\ TypeInv /\ TypeOK /\ OpOK /\ RecoveryOK /\ VersionOK /\ PendingOK /\ LawfulOK
      /\ op \in OpType
  BY DEF Inv, LogInv, TypeInv, TypeOK, RecoveryOK
<1>b. /\ op.step = "name" /\ op.body = "snapshot" /\ torn' = 0
      /\ UNCHANGED <<snapshotFile, changeFiles, blobFile, history, known, page,
                     made, carried, root, lawful, interruptions, damaged>>
  BY <1>a DEF NameSnapshot, OpOK
<1>c. op'.step = "sweep" /\ SameCall(op)
  BY <1>a, StepCall DEF NameSnapshot, Steps
<1>d. /\ manifest' \in Manifest
      /\ manifest'.meta = op.save
      /\ manifest'.changes = <<>>
      /\ manifest'.head.save = op.save
      /\ manifest'.blobs = op.blobs
      /\ manifest'.snapshot.save = op.save
      /\ manifest'.pending = None
  BY <1>a, NameSnapshotManifest
<1>e. Named'
  BY <1>d, DocEntryAssumption DEF Named
<1>f. op.save \in made /\ op.blobs = carried[op.save]
  BY <1>a, <1>b DEF VersionOK, CallVersion, InFlight
<1>1. CallVersion'
  BY <1>b, <1>c, <1>d, <1>f DEF CallVersion, Unnamed, SameCall
<1>2. ManifestVersion'
  BY <1>b, <1>d, <1>f DEF ManifestVersion
<1>3. VersionOK'
  BY <1>a, <1>b, <1>1, <1>2 DEF VersionOK, KnownMade
<1>4. PendingOK'
  BY <1>a, <1>b, <1>c, <1>d DEF PendingOK, Compacting
<1>5. LawfulOK'
  BY <1>c, <1>d, <1>e DEF LawfulOK, Written
<1>6. ASSUME ~damaged
      PROVE  ChangesThere' /\ StoredWhole' /\ HistoryWhole'
  <2>a. ChangesThere /\ StoredWhole /\ HistoryWhole
    BY <1>a, <1>6 DEF RecoveryOK, FilesOK
  <2>1. ChangesThere'
    <3>1. \A i \in 1..Len(manifest'.changes) : FALSE
      BY <1>d
    <3> QED BY <1>c, <1>d, <3>1 DEF ChangesThere
  <2>2. BlobsWhole(op.blobs)
    BY <1>b, <2>a DEF StoredWhole, Compacting
  <2>3. StoredWhole' /\ HistoryWhole'
    BY <1>b, <1>c, <1>d, <2>a, <2>2 DEF StoredWhole, HistoryWhole, BlobsWhole, Compacting
  <2> QED BY <2>1, <2>3
<1>7. FilesOK'
  BY <1>b, <1>6 DEF FilesOK
<1> QED BY <1>3, <1>4, <1>5, <1>7 DEF RecoveryOK

LEMMA RecoverySweepChange ==
    ASSUME Inv, NEW f \in changeFiles, SweepChange(f)
    PROVE  RecoveryOK'
<1>a. RecoveryOK /\ VersionOK /\ OpOK
  BY DEF Inv, LogInv, TypeInv, RecoveryOK
<1>b. /\ op.step = "sweep"
      /\ UNCHANGED <<manifest, snapshotFile, blobFile, history, memory, ghosts>>
  BY DEF SweepChange
<1>1. VersionOK'
  <2>1. CallVersion'
    BY <1>a, <1>b DEF VersionOK, CallVersion, InFlight, Unnamed, Written, memory, ghosts
  <2> QED BY <1>a, <1>b, <2>1, VersionFrame DEF memory, ghosts
<1>2. PendingOK' /\ LawfulOK'
  BY <1>a, <1>b DEF RecoveryOK, PendingOK, LawfulOK, Named, Compacting, Written,
                    memory, ghosts
<1>3. FilesOK'
  <2>1. ~damaged => ChangesThere'
    <3>1. ~damaged => manifest.changes = <<>>
      BY <1>a, <1>b DEF RecoveryOK, FilesOK, ChangesThere
    <3>2. manifest.changes = <<>> => \A i \in 1..Len(manifest.changes) : FALSE
      OBVIOUS
    <3> QED BY <1>b, <3>1, <3>2 DEF ChangesThere, memory
  <2> QED BY <1>a, <1>b, <2>1 DEF RecoveryOK, FilesOK, StoredWhole, HistoryWhole, BlobsWhole,
                                  Named, Compacting, memory, ghosts
<1> QED BY <1>1, <1>2, <1>3 DEF RecoveryOK

LEMMA RecoveryWriting == Inv /\ Writing => RecoveryOK'
  BY RecoveryStoreBlob, RecoveryWriteChange, RecoveryNameChange, RecoveryNamePending,
     RecoveryRenameSnapshot, RecoveryNameSnapshot, RecoverySweepChange
  DEF Writing

-----------------------------------------------------------------------------
(* What follows the write.                                                 *)

\* Recording adds no checkpoint but the one it is given.
LEMMA RecordedElements ==
    ASSUME NEW h \in Seq(Checkpoint), NEW cp \in Checkpoint,
           NEW i \in 1..Len(Recorded(h, cp))
    PROVE  \/ Recorded(h, cp)[i] = cp
           \/ \E j \in 1..Len(h) : Recorded(h, cp)[i] = h[j]
<1> DEFINE grown == Append(h, cp)
           k == Thinned(grown)
<1>1. /\ Len(h) \in Nat /\ Len(grown) = Len(h) + 1
      /\ \A j \in 1..Len(h) : grown[j] = h[j]
      /\ grown[Len(h) + 1] = cp
  BY AppendProperties, LenProperties
<1>2. \A n \in 1..Len(grown) : n \in 1..Len(h) \/ n = Len(h) + 1
  BY <1>1
<1>3. \A n \in 1..Len(grown) : grown[n] = cp \/ \E j \in 1..Len(h) : grown[n] = h[j]
  BY <1>1, <1>2
<1>4. CASE Recorded(h, cp) = h
  BY <1>4
<1>5. CASE Recorded(h, cp) = grown
  BY <1>3, <1>5
<1>6. CASE Recorded(h, cp) = Without(grown, k)
  <2> HIDE DEF k
  <2> DEFINE w == [n \in 1..Len(h) |-> IF n < k THEN grown[n] ELSE grown[n + 1]]
  <2>1. Len(grown) - 1 = Len(h)
    BY <1>1
  <2>2. Without(grown, k) = w
    BY <2>1 DEF Without
  <2>3. 1..Len(w) = 1..Len(h)
    <3>1. w \in Seq(Checkpoint)
      BY <1>6, <2>2, RecordedType
    <3>2. DOMAIN w = 1..Len(w)
      BY <3>1, LenProperties
    <3> QED BY <3>2
  <2>4. i \in 1..Len(h)
    BY <1>6, <2>2, <2>3
  <2>5. Recorded(h, cp)[i] \in {grown[i], grown[i + 1]}
    BY <1>6, <2>2, <2>4
  <2>6. i \in 1..Len(grown) /\ i + 1 \in 1..Len(grown)
    BY <1>1, <2>4
  <2> QED BY <1>3, <2>5, <2>6
<1> QED BY <1>4, <1>5, <1>6 DEF Recorded

LEMMA RecordedWhole ==
    ASSUME TypeOK, HistoryWhole, NEW cp \in Checkpoint, BlobsWhole(cp.blobs),
           history' = Recorded(history, cp), UNCHANGED blobFile
    PROVE  HistoryWhole'
<1>1. ASSUME NEW i \in 1..Len(history')
      PROVE  BlobsWhole(history'[i].blobs)
  <2>1. history \in Seq(Checkpoint)
    BY DEF TypeOK
  <2>2. history'[i] = cp \/ \E j \in 1..Len(history) : history'[i] = history[j]
    BY <2>1, RecordedElements
  <2> QED BY <2>2 DEF HistoryWhole
<1> QED BY <1>1 DEF HistoryWhole, BlobsWhole

\* The blobs of the stored entry and of its checkpoints survive what follows.
LEMMA RecordingWhole ==
    ASSUME Inv, ~damaged, Recording
    PROVE  StoredWhole' /\ HistoryWhole'
<1>a. /\ TypeInv /\ TypeOK /\ OpOK /\ RecoveryOK /\ VersionOK /\ PendingOK
      /\ op \in OpType /\ StoredWhole /\ HistoryWhole
  BY DEF Inv, LogInv, TypeInv, TypeOK, RecoveryOK, FilesOK
<1>b. \/ UNCHANGED manifest /\ ~Compacting'
      \/ UNCHANGED <<manifest, op>>
  BY <1>a, RecordingFrame, NotUnnamed DEF Compacting
<1>c. ASSUME UNCHANGED blobFile
      PROVE  StoredWhole'
  BY <1>a, <1>b, <1>c DEF StoredWhole, BlobsWhole, Named, Compacting
<1>1. CASE ClearHistory
  <2>1. history' = <<>> /\ UNCHANGED blobFile
    BY <1>1 DEF ClearHistory
  <2>2. \A i \in 1..Len(history') : FALSE
    BY <2>1
  <2> QED BY <1>c, <2>1, <2>2 DEF HistoryWhole
<1>2. CASE RecordCheckpoint
  <2> DEFINE cp == [save |-> op.save, seq |-> op.seq, blobs |-> manifest.blobs,
                    edit |-> op.edit]
  <2>1. history' = Recorded(history, cp) /\ UNCHANGED blobFile
    BY <1>2 DEF RecordCheckpoint
  <2>2. Written /\ Named
    BY <1>2, <1>a, SweptWritten DEF RecordCheckpoint, OpOK
  <2>3. op.save \in Save /\ op.seq \in Nat /\ op.edit \in BOOLEAN
    BY <1>a, <2>2 DEF OpOK, OpType, InFlight, Written
  <2>4. manifest.blobs \in Bundle
    BY <1>a, <2>2 DEF TypeOK, Named, Manifest
  <2>5. cp \in Checkpoint
    BY <2>3, <2>4 DEF Checkpoint
  <2>6. BlobsWhole(cp.blobs)
    BY <1>a, <2>2 DEF StoredWhole
  <2>7. HistoryWhole'
    BY <1>a, <2>1, <2>5, <2>6, RecordedWhole
  <2> QED BY <1>c, <2>1, <2>7
<1>3. ASSUME NEW b \in Blob, CollectBlob(b)
      PROVE  StoredWhole' /\ HistoryWhole'
  <2>1. /\ b \notin Kept /\ Swept /\ op.body = "snapshot"
        /\ blobFile' = [blobFile EXCEPT ![b] = "absent"]
        /\ UNCHANGED <<manifest, history>>
    BY <1>3 DEF CollectBlob, Garbage
  <2>2. Written /\ Named /\ manifest.pending = None
    BY <1>a, <2>1, SweptWritten DEF OpOK, PendingOK
  <2>3. op.blobs = manifest.blobs
    BY <1>a, <2>1, <2>2 DEF VersionOK, CallVersion, ManifestVersion
  <2>4. b \notin manifest.blobs /\ \A i \in 1..Len(history) : b \notin history[i].blobs
    BY <2>1, <2>3 DEF Kept
  <2>5. \A x \in manifest.blobs : blobFile'[x] = "whole"
    BY <1>a, <2>1, <2>2, <2>4, WholeKept, BundlesOfTypes DEF StoredWhole
  <2>6. \A i \in 1..Len(history) : \A x \in history[i].blobs : blobFile'[x] = "whole"
    BY <1>a, <2>1, <2>4, WholeKept, BundlesOfTypes DEF HistoryWhole
  <2>7. \A x \in Blob : blobFile'[x] # "damaged"
    BY <1>a, <2>1 DEF StoredWhole, TypeOK
  <2>8. ~Compacting'
    BY <1>a, <1>b, <2>2 DEF Compacting, Written
  <2>9. StoredWhole'
    BY <2>1, <2>2, <2>5, <2>7, <2>8 DEF StoredWhole, BlobsWhole, Named
  <2> QED BY <2>1, <2>6, <2>9 DEF HistoryWhole, BlobsWhole
<1>4. CASE Finish
  <2>1. UNCHANGED files
    BY <1>4 DEF Finish
  <2> QED BY <1>a, <1>c, <2>1 DEF HistoryWhole, BlobsWhole, files
<1>5. ASSUME NEW edit \in BOOLEAN, CheckpointNow(edit)
      PROVE  StoredWhole' /\ HistoryWhole'
  <2> DEFINE cp == [save |-> manifest.head.save, seq |-> manifest.head.seq,
                    blobs |-> manifest.blobs, edit |-> edit]
  <2>1. history' = Recorded(history, cp) /\ UNCHANGED blobFile /\ Named
    BY <1>5 DEF CheckpointNow, Named
  <2>2. manifest \in Manifest
    BY <1>a, <2>1 DEF TypeOK, Named
  <2>3. cp \in Checkpoint
    BY <2>2 DEF Checkpoint, Manifest, Heads
  <2>4. BlobsWhole(cp.blobs)
    BY <1>a, <2>1 DEF StoredWhole
  <2>5. HistoryWhole'
    BY <1>a, <2>1, <2>3, <2>4, RecordedWhole
  <2> QED BY <1>c, <2>1, <2>5
<1> QED BY <1>1, <1>2, <1>3, <1>4, <1>5 DEF Recording

LEMMA RecoveryRecording ==
    ASSUME Inv, Recording
    PROVE  RecoveryOK'
<1>a. /\ TypeInv /\ TypeOK /\ OpOK /\ RecoveryOK /\ VersionOK /\ PendingOK /\ LawfulOK
  BY DEF Inv, LogInv, TypeInv, RecoveryOK
<1>b. UNCHANGED <<manifest, snapshotFile, changeFiles, made, carried, root, torn, damaged>>
  BY <1>a, RecordingFrame
<1>1. FilesOK'
  <2>1. ASSUME ~damaged
        PROVE  ChangesThere'
    <3>1. ChangesThere
      BY <1>a, <2>1 DEF RecoveryOK, FilesOK
    <3>2. UNCHANGED op \/ op'.step \notin {"blobs", "sweep"}
      BY <1>a, RecordingFrame, IdleFields
    <3> QED BY <1>b, <3>1, <3>2 DEF ChangesThere, Named
  <2>2. ~damaged => StoredWhole' /\ HistoryWhole'
    BY RecordingWhole
  <2> QED BY <1>b, <2>1, <2>2 DEF FilesOK
<1>2. CASE op'.step = "history" /\ SameCall(op) /\ Written /\ UNCHANGED <<known, lawful>>
  <2>1. CallVersion'
    BY <1>a, <1>b, <1>2 DEF VersionOK, CallVersion, InFlight, Unnamed, Written, SameCall
  <2>2. VersionOK'
    BY <1>a, <1>b, <1>2, <2>1, VersionFrame
  <2>3. PendingOK'
    BY <1>a, <1>b, <1>2 DEF PendingOK, Named, Compacting, Written, SameCall
  <2>4. LawfulOK'
    BY <1>a, <1>b, <1>2 DEF LawfulOK, PendingOK, OpOK, Named, Compacting, Written
  <2> QED BY <1>1, <2>2, <2>3, <2>4 DEF RecoveryOK
<1>3. CASE op' = Idle /\ Finish
  <2>1. Swept /\ known' = [known EXCEPT ![op.client] = None] /\ lawful' = {op.save}
    BY <1>3 DEF Finish
  <2>2. Written /\ Named /\ manifest.pending = None
    BY <1>a, <2>1, SweptWritten DEF OpOK, PendingOK
  <2>3. op'.step = "idle" /\ op'.body = "none"
    BY <1>3, IdleFields
  <2>4. CallVersion'
    BY <2>3 DEF CallVersion, InFlight, Unnamed, Written
  <2>5. \A c \in Client : known'[c] \in {known[c], None, ReadHead}
    BY <1>a, <2>1 DEF TypeOK
  <2>6. VersionOK'
    BY <1>a, <1>b, <2>4, <2>5, VersionFrame
  <2>7. PendingOK'
    BY <1>a, <1>b, <2>2, <2>3 DEF PendingOK, Named, Compacting, Written
  <2>8. manifest.head.save = op.save
    BY <1>a, <2>2 DEF VersionOK, CallVersion
  <2>9. LawfulOK'
    BY <1>b, <2>1, <2>2, <2>3, <2>8 DEF LawfulOK, Named, Compacting, Written
  <2> QED BY <1>1, <2>6, <2>7, <2>9 DEF RecoveryOK
<1>4. CASE UNCHANGED <<op, known, lawful>>
  <2>1. CallVersion'
    BY <1>a, <1>b, <1>4 DEF VersionOK, CallVersion, InFlight, Unnamed, Written
  <2>2. VersionOK'
    BY <1>a, <1>b, <1>4, <2>1, VersionFrame
  <2>3. PendingOK' /\ LawfulOK'
    BY <1>a, <1>b, <1>4 DEF PendingOK, LawfulOK, Named, Compacting, Written
  <2> QED BY <1>1, <2>2, <2>3 DEF RecoveryOK
<1> QED BY <1>2, <1>3, <1>4, <1>a, RecordingFrame

-----------------------------------------------------------------------------
(* Interruptions.                                                          *)

LEMMA InterruptedPending ==
    ASSUME Inv, Interrupted
    PROVE  PendingOK'
<1>a. TypeOK /\ OpOK /\ PendingOK /\ torn \in Nat
  BY DEF Inv, LogInv, TypeInv, TypeOK, RecoveryOK
<1>b. /\ op' = Idle /\ UNCHANGED <<manifest, snapshotFile>>
      /\ torn' = IF Tearing THEN torn + 1 ELSE torn
  BY DEF Interrupted, files
<1>c. op'.step = "idle" /\ op'.body = "none"
  BY <1>b, IdleFields
<1>d. Tearing <=> Compacting /\ Named
  BY DEF Tearing, Compacting, Named
<1>1. ASSUME Named, manifest.pending = None
      PROVE  torn' = 0 /\ snapshotFile = manifest.snapshot.save
  BY <1>a, <1>b, <1>d, <1>1 DEF PendingOK
<1>2. ASSUME Named, manifest.pending # None
      PROVE  /\ torn' >= 1
             /\ torn' = 1 => snapshotFile \in {manifest.snapshot.save, manifest.pending.save}
  <2>1. CASE ~Compacting
    BY <1>a, <1>b, <1>d, <1>2, <2>1 DEF PendingOK
  <2>2. CASE Compacting
    <3>1. torn' = torn + 1
      BY <1>b, <1>d, <1>2, <2>2
    <3>2. torn = 0 => snapshotFile \in {manifest.snapshot.save, manifest.pending.save}
      <4>1. op.save = manifest.pending.save
        BY <1>a, <1>2, <2>2 DEF PendingOK
      <4>2. CASE op.step = "rename"
        BY <1>a, <4>2 DEF PendingOK
      <4>3. CASE op.step = "name"
        BY <1>a, <4>1, <4>3 DEF PendingOK
      <4> QED BY <2>2, <4>2, <4>3 DEF Compacting
    <3> QED BY <1>a, <3>1, <3>2
  <2> QED BY <2>1, <2>2
<1> QED BY <1>b, <1>c, <1>1, <1>2 DEF PendingOK, Named, Compacting, Written

LEMMA InterruptedLawful ==
    ASSUME Inv, Interrupted
    PROVE  LawfulOK'
<1>a. TypeOK /\ OpOK /\ VersionOK /\ PendingOK /\ LawfulOK
  BY DEF Inv, LogInv, TypeInv, RecoveryOK
<1>b. /\ op' = Idle /\ UNCHANGED manifest
      /\ lawful' = IF op.body = "none" THEN lawful ELSE lawful \cup {op.save}
  BY DEF Interrupted, files
<1>1. lawful \subseteq lawful' /\ (InFlight => op.save \in lawful')
  BY <1>a, <1>b DEF OpOK
<1>2. ASSUME Named
      PROVE  manifest.head.save \in lawful'
  BY <1>a, <1>1, <1>2 DEF LawfulOK, VersionOK, CallVersion, Written, InFlight
<1>3. ASSUME Named, manifest.pending # None
      PROVE  manifest.pending.save \in lawful'
  BY <1>a, <1>1, <1>3 DEF LawfulOK, PendingOK, Compacting, InFlight
<1>4. ~Named => None \in lawful'
  BY <1>a, <1>1 DEF LawfulOK
<1> QED BY <1>b, <1>2, <1>3, <1>4 DEF LawfulOK, Named

LEMMA RecoveryFailing ==
    ASSUME Inv, Fail \/ Crash \/ Damage
    PROVE  RecoveryOK'
<1>a. TypeOK /\ RecoveryOK /\ VersionOK
  BY DEF Inv, LogInv, TypeInv, RecoveryOK
<1>1. CASE Fail \/ Crash
  <2>1. Interrupted /\ \A c \in Client : known'[c] \in {known[c], None, ReadHead}
    BY <1>1 DEF Fail, Crash
  <2>2. op' = Idle /\ UNCHANGED <<files, made, carried, damaged>>
    BY <2>1 DEF Interrupted
  <2>3. op'.step = "idle" /\ op'.body = "none"
    BY <2>2, IdleFields
  <2>4. CallVersion'
    BY <2>3 DEF CallVersion, InFlight, Unnamed, Written
  <2>5. VersionOK'
    BY <1>a, <2>1, <2>2, <2>4, VersionFrame DEF files
  <2>6. FilesOK'
    BY <1>a, <2>2, <2>3 DEF RecoveryOK, FilesOK, ChangesThere, StoredWhole, HistoryWhole,
                            BlobsWhole, Named, Compacting, files
  <2> QED BY <2>1, <2>5, <2>6, InterruptedPending, InterruptedLawful DEF RecoveryOK
<1>2. CASE Damage
  <2>1. /\ damaged' = TRUE
        /\ UNCHANGED <<manifest, snapshotFile, history, memory,
                       made, carried, root, lawful, torn, interruptions, scrapped>>
    BY <1>2 DEF Damage
  <2>2. CallVersion'
    BY <1>a, <2>1 DEF VersionOK, CallVersion, InFlight, Unnamed, Written, memory
  <2>3. VersionOK'
    BY <1>a, <2>1, <2>2, VersionFrame DEF memory
  <2>4. PendingOK' /\ LawfulOK'
    BY <1>a, <2>1 DEF RecoveryOK, PendingOK, LawfulOK, Named, Compacting, Written, memory
  <2>5. FilesOK'
    BY <2>1 DEF FilesOK
  <2> QED BY <2>3, <2>4, <2>5 DEF RecoveryOK
<1> QED BY <1>1, <1>2

LEMMA RecoveryStep ==
    ASSUME Inv, [Next]_vars
    PROVE  RecoveryOK'
<1>a. RecoveryOK /\ VersionOK /\ op.step # "delete"
  BY DEF Inv, LogInv, LogOK, RecoveryOK
<1>1. CASE UNCHANGED vars
  <2>1. CallVersion'
    BY <1>a, <1>1 DEF VersionOK, CallVersion, InFlight, Unnamed, Written, vars
  <2>2. VersionOK'
    BY <1>a, <1>1, <2>1, VersionFrame DEF vars
  <2>3. PendingOK' /\ LawfulOK'
    BY <1>a, <1>1 DEF RecoveryOK, PendingOK, LawfulOK, Named, Compacting, Written, vars
  <2>4. FilesOK'
    BY <1>a, <1>1 DEF RecoveryOK, FilesOK, ChangesThere, StoredWhole, HistoryWhole,
                      BlobsWhole, Named, Compacting, vars
  <2> QED BY <2>2, <2>3, <2>4 DEF RecoveryOK
<1>2. ASSUME Deleting
      PROVE  BeginDelete
  BY <1>a, <1>2 DEF Deleting, DeleteFile, FinishDelete
<1>3. CASE BeginDelete
  <2>1. /\ AtRest /\ UNCHANGED <<files, known, page, ghosts>>
        /\ op'.step = "delete" /\ op'.body = "none"
    BY <1>3 DEF BeginDelete, Idle
  <2>2. CallVersion'
    BY <2>1 DEF CallVersion, InFlight, Unnamed, Written
  <2>3. VersionOK'
    BY <1>a, <2>1, <2>2, VersionFrame DEF files, ghosts
  <2>4. PendingOK' /\ LawfulOK'
    BY <1>a, <2>1 DEF RecoveryOK, PendingOK, LawfulOK, Named, Compacting, Written, AtRest,
                      files, ghosts
  <2>5. FilesOK'
    BY <1>a, <2>1 DEF RecoveryOK, FilesOK, ChangesThere, StoredWhole, HistoryWhole,
                      BlobsWhole, Named, Compacting, AtRest, files, ghosts
  <2> QED BY <2>3, <2>4, <2>5 DEF RecoveryOK
<1> QED BY <1>1, <1>2, <1>3, RecoveryEditing, RecoveryWriting, RecoveryRecording,
           RecoveryFailing DEF Next

LEMMA RecoveryInit == Init => RecoveryOK
<1> SUFFICES ASSUME Init PROVE RecoveryOK
  OBVIOUS
<1>1. /\ op.step = "idle" /\ op.body = "none" /\ ~Named /\ lawful = {None}
      /\ \A c \in Client : known[c] = None
      /\ \A b \in Blob : blobFile[b] = "absent"
  BY IdleFields DEF Init, Named
<1>2. \A i \in 1..Len(history) : FALSE
  BY DEF Init
<1>3. VersionOK
  BY <1>1, DocEntryAssumption DEF VersionOK, KnownMade, CallVersion, ManifestVersion, InFlight,
                                  Unnamed,
                                  Written
<1>4. PendingOK /\ LawfulOK
  BY <1>1 DEF PendingOK, LawfulOK, Compacting, Written
<1>5. FilesOK
  BY <1>1, <1>2 DEF FilesOK, ChangesThere, StoredWhole, HistoryWhole, Compacting
<1> QED BY <1>3, <1>4, <1>5 DEF RecoveryOK

LEMMA RecoveryInvariance ==
    ASSUME ~MayDelete
    PROVE  Spec => []Inv
<1>1. LogInv /\ RecoveryOK /\ [Next]_vars => RecoveryOK'
  BY RecoveryStep DEF Inv
<1>2. LogInv /\ RecoveryOK => Inv
  BY DEF Inv
<1> QED BY <1>1, <1>2, RecoveryInit, LogInvariance, PTL DEF Spec

-----------------------------------------------------------------------------
(* What the entry reads as.                                                *)

LEMMA LoadedAll ==
    ASSUME NEW m \in Manifest, NEW there,
           \A i \in 1..Len(m.changes) : m.changes[i] \in there
    PROVE  Loaded(m, there) = Len(m.changes)
<1> DEFINE P(n) == /\ \A i \in 1..n : m.changes[i] \in there
                   /\ n < Len(m.changes) => m.changes[n + 1] \notin there
           size == Len(m.changes)
<1>1. size \in Nat
  BY LenProperties DEF Manifest
<1>2. size \in 0..size /\ P(size)
  BY <1>1
<1>3. ASSUME NEW n \in 0..size, P(n)
      PROVE  n = size
  <2>1. CASE n < size
    BY <1>1, <1>3, <2>1
  <2> QED BY <1>1, <2>1
<1>4. Loaded(m, there) = CHOOSE n \in 0..size : P(n)
  BY DEF Loaded
<1> HIDE DEF P, size
<1> QED BY <1>2, <1>3, <1>4 DEF size

\* The answer of `read` is the stored head, whole, or the pending snapshot.
LEMMA ReadIsLawful ==
    ASSUME Inv, AtRest, torn <= 1, ~damaged
    PROVE  ReadsLawful
<1>a. /\ TypeOK /\ LogOK /\ VersionOK /\ ManifestVersion /\ PendingOK /\ LawfulOK
      /\ ChangesThere /\ StoredWhole /\ torn \in Nat
      /\ ~Compacting /\ ~Written
  BY DEF Inv, LogInv, TypeInv, TypeOK, RecoveryOK, VersionOK, FilesOK, AtRest, Compacting,
         Written
<1>1. CASE SnapshotNamed
  <2> DEFINE m == manifest
             n == Len(m.changes)
  <2>1. Named /\ m \in Manifest
    BY <1>a, <1>1 DEF SnapshotNamed, Named, TypeOK
  <2>2. Loaded(m, changeFiles) = n
    BY <1>a, <2>1, LoadedAll DEF ChangesThere
  <2>3. LogOf(m) /\ BlobsWhole(m.blobs)
    BY <1>a, <2>1 DEF LogOK, StoredWhole
  <2>4. Read = [meta |-> m.meta,
                at |-> IF n = 0 THEN m.snapshot.save ELSE m.changes[n].save,
                seq |-> m.head.seq, version |-> m.head.save, blobs |-> m.blobs,
                complete |-> TRUE]
    BY <1>1, <2>2, <2>3 DEF Read, LogOf, Chained, SnapshotNamed
  <2>5. Read.at = m.head.save
    <3>1. m.changes \in Seq(Change)
      BY <2>1 DEF Manifest
    <3>2. n = 0 <=> m.changes = <<>>
      BY <3>1, EmptySeq
    <3> QED BY <2>3, <2>4, <3>2 DEF LogOf, Tip, Last
  <2>6. Read \in Entry
    <3>1. /\ m.meta \in Save /\ m.head.save \in Save /\ m.head.seq \in Nat
          /\ m.blobs \in Bundle
      BY <2>1 DEF Manifest, Heads
    <3> QED BY <2>4, <2>5, <3>1 DEF Entry
  <2>7. m.meta = m.head.save /\ m.blobs = carried[m.head.save]
    BY <1>a, <2>1 DEF ManifestVersion
  <2>8. m.head.save \in lawful
    BY <1>a, <2>1 DEF LawfulOK
  <2> QED BY <2>4, <2>5, <2>6, <2>7, <2>8, DocEntryAssumption DEF ReadsLawful, OneSave
<1>2. CASE ~SnapshotNamed /\ PendingAdopted
  <2> DEFINE p == manifest.pending
  <2>1. Named /\ p # None /\ manifest \in Manifest
    BY <1>a, <1>2 DEF PendingAdopted, Named, TypeOK
  <2>2. BlobsWhole(p.blobs) /\ p.blobs = carried[p.save] /\ p.save \in lawful
    BY <1>a, <2>1 DEF StoredWhole, ManifestVersion, LawfulOK
  <2>3. Read = [meta |-> p.save, at |-> p.save, seq |-> p.seq, version |-> p.save,
                blobs |-> p.blobs, complete |-> TRUE]
    BY <1>2, <2>2 DEF Read
  <2>4. Read \in Entry
    BY <2>1, <2>3 DEF Manifest, Pending, Entry
  <2> QED BY <2>2, <2>3, <2>4, DocEntryAssumption DEF ReadsLawful, OneSave
<1>3. CASE ~SnapshotNamed /\ ~PendingAdopted
  <2>1. Read = None
    BY <1>3 DEF Read
  <2>2. ~Named
    <3> SUFFICES ASSUME Named PROVE FALSE
      OBVIOUS
    <3>1. snapshotFile # manifest.snapshot.save
      BY <1>3 DEF SnapshotNamed, Named
    <3>2. manifest.pending # None
      BY <1>a, <3>1 DEF PendingOK
    <3>3. snapshotFile \in {manifest.snapshot.save, manifest.pending.save}
      BY <1>a, <3>2 DEF PendingOK
    <3> QED BY <1>3, <3>1, <3>2, <3>3 DEF PendingAdopted, Named
  <2>3. None \in lawful
    BY <1>a, <2>2 DEF LawfulOK
  <2> QED BY <2>1, <2>3 DEF ReadsLawful
<1> QED BY <1>1, <1>2, <1>3

\* A crash or a failure between any two steps of any call leaves an entry that
\* reads, whole, as the last stored save or as one interrupted since
\* (entry.rs:15-20), until a second compaction in a row is torn.
THEOREM RecoversLawfully ==
    ASSUME ~MayDelete
    PROVE  Spec => []SurvivesATornCompaction
<1>1. Inv => SurvivesATornCompaction
  BY ReadIsLawful DEF SurvivesATornCompaction
<1> QED BY <1>1, RecoveryInvariance, PTL

\* No collection takes a blob that a checkpoint, the stored version or a pending
\* snapshot names (mod.rs:239-243), whatever was interrupted before.
THEOREM BlobsStay ==
    ASSUME ~MayDelete
    PROVE  Spec => []BlobsKept
<1>1. Inv => BlobsKept
  BY DEF Inv, RecoveryOK, FilesOK, StoredWhole, HistoryWhole, BlobsKept, SnapshotNamed,
         PendingAdopted, Named
<1> QED BY <1>1, RecoveryInvariance, PTL

\* All of it, as DocEntryInvariant states it.
THEOREM InductiveHolds ==
    ASSUME ~MayDelete
    PROVE  Spec => []Inductive
<1>1. Inv => Inductive
  BY DEF Inv, LogInv, Inductive
<1> QED BY <1>1, RecoveryInvariance, PTL

-----------------------------------------------------------------------------
(* The length of the log.                                                  *)

\* The pages whose next append nothing holds back yet: none that has heard, or is
\* about to hear, that a compaction is due, or whose append is stored.
Free == {c \in Client :
            \/ page[c].step = "folded"
            \/ /\ ~page[c].due
               /\ page[c].step # "asked"
               /\ ~(Written /\ op.body = "changes" /\ op.client = c)}

Pages == Cardinality(Client)
Room == CompactAfter + Pages * (interruptions + 1)

\* Each of them may still make the log one change longer.
LogRoom ==
    /\ \A c \in Client : page[c].step = "append" => ~page[c].due
    /\ op.body = "changes" => page[op.client].step = "append"
    /\ op.body = "snapshot" /\ Written => Named /\ manifest.changes = <<>>
    /\ Named => Len(manifest.changes) + Cardinality(Free) < Room

LEMMA LogLength ==
    ASSUME TypeOK, Named
    PROVE  Len(manifest.changes) \in Nat /\ manifest.changes \in Seq(Change)
  BY LenProperties DEF TypeOK, Named, Manifest

LEMMA Multiples ==
    ASSUME NEW n \in Nat, NEW i \in Nat
    PROVE  /\ n * (i + 1) \in Nat
           /\ n * (i + 1) >= n
           /\ n * ((i + 1) + 1) = n * (i + 1) + n
<1>1. n * i \in Nat
  OBVIOUS
<1>2. n * (i + 1) = n * i + n
  OBVIOUS
<1>3. n * ((i + 1) + 1) = n * (i + 1) + n
  OBVIOUS
<1> QED BY <1>1, <1>2, <1>3

LEMMA RoomType ==
    ASSUME TypeOK
    PROVE  /\ Pages \in Nat
           /\ CompactAfter \in Nat /\ CompactAfter > 0
           /\ interruptions \in Nat
           /\ Room \in Nat
           /\ Room >= CompactAfter + Pages
<1>1. Pages \in Nat
  BY FS_CardinalityType, DocEntryAssumption DEF Pages
<1>2. CompactAfter \in Nat /\ CompactAfter > 0 /\ interruptions \in Nat
  BY DocEntryAssumption DEF TypeOK
<1>3. Pages * (interruptions + 1) \in Nat /\ Pages * (interruptions + 1) >= Pages
  BY <1>1, <1>2, Multiples
<1> QED BY <1>1, <1>2, <1>3 DEF Room

\* There are no more free pages than pages.
LEMMA FreeSize ==
    /\ IsFiniteSet(Free)
    /\ Cardinality(Free) \in Nat
    /\ Cardinality(Free) <= Pages
<1>1. Free \subseteq Client
  BY DEF Free
<1> QED BY <1>1, FS_Subset, FS_CardinalityType, DocEntryAssumption DEF Pages

LEMMA FreeSizeNext ==
    /\ Cardinality(Free') \in Nat
    /\ Cardinality(Free') <= Pages
<1>1. Free' \subseteq Client
  BY DEF Free
<1> QED BY <1>1, FS_Subset, FS_CardinalityType, DocEntryAssumption DEF Pages

\* A step that keeps the log, the pages and the call, but for the step it is at.
LEMMA RoomFrame ==
    ASSUME LogRoom, UNCHANGED <<manifest, page, interruptions>>,
           op'.body = op.body, op'.client = op.client, Written' <=> Written
    PROVE  LogRoom'
<1>1. Free' = Free
  BY DEF Free
<1>2. Cardinality(Free') = Cardinality(Free) /\ Room' = Room
  BY <1>1 DEF Room
<1> QED BY <1>1, <1>2 DEF LogRoom, Named

\* A step that begins a call, or ends one that has written nothing.
LEMMA RoomBegin ==
    ASSUME LogRoom, UNCHANGED <<manifest, page, interruptions>>, ~Written, ~Written',
           op'.body = "changes" => page[op'.client].step = "append"
    PROVE  LogRoom'
<1>1. Free' = Free
  BY DEF Free
<1>2. Cardinality(Free') = Cardinality(Free) /\ Room' = Room
  BY <1>1 DEF Room
<1> QED BY <1>1, <1>2 DEF LogRoom, Named

LEMMA RoomEditing ==
    ASSUME TypeInv, LogRoom, Editing
    PROVE  LogRoom'
<1>a. /\ TypeOK /\ OpOK
      /\ page \in [Client -> [step : PageSteps, due : BOOLEAN]]
  BY DEF TypeInv, TypeOK
<1>b. AtRest => ~Written /\ op.body # "changes"
  BY <1>a DEF AtRest, Written, OpOK, InFlight
<1>c. ASSUME Free' = Free, UNCHANGED <<manifest, op, interruptions>>,
             \A c \in Client : page'[c].step = "append" => ~page'[c].due,
             op.body = "changes" => page'[op.client].step = "append"
      PROVE  LogRoom'
  <2>1. Cardinality(Free') = Cardinality(Free) /\ Room' = Room
    BY <1>c DEF Room
  <2> QED BY <1>c, <2>1 DEF LogRoom, Named, Written
<1>1. ASSUME NEW c \in Client, KnowHead(c)
      PROVE  LogRoom'
  <2>1. /\ AtRest /\ ~Hearing(c) /\ UNCHANGED <<manifest, op, interruptions>>
        /\ page' = [page EXCEPT ![c].step = "read"]
    BY <1>1 DEF KnowHead, files, ghosts
  <2>2. \A d \in Client : /\ d # c => page'[d] = page[d]
                          /\ page'[c].step = "read" /\ page'[c].due = page[c].due
    BY <1>a, <2>1
  <2>3. Free' = Free
    BY <2>1, <2>2 DEF Free, Hearing, Written
  <2> QED BY <1>b, <1>c, <2>1, <2>2, <2>3 DEF LogRoom
<1>2. ASSUME NEW c \in Client, Decide(c)
      PROVE  LogRoom'
  <2>1. PICK step \in {"append", "whole"} :
            /\ step = "append" => ~page[c].due
            /\ page' = [page EXCEPT ![c].step = step]
    BY <1>2 DEF Decide
  <2>2. page[c].step = "read" /\ UNCHANGED <<manifest, op, interruptions>>
    BY <1>2 DEF Decide, files, ghosts
  <2>3. \A d \in Client : /\ d # c => page'[d] = page[d]
                          /\ page'[c].step = step /\ page'[c].due = page[c].due
    BY <1>a, <2>1
  <2>4. Free' = Free
    BY <2>1, <2>2, <2>3 DEF Free, Written
  <2>5. op.body = "changes" => op.client \in Client /\ op.client # c
    BY <1>a, <2>2 DEF LogRoom, OpOK
  <2> QED BY <1>c, <2>1, <2>2, <2>3, <2>4, <2>5 DEF LogRoom
<1>3. ASSUME NEW c \in Client, Hear(c)
      PROVE  LogRoom'
  <2>1. /\ page[c].step \in {"asked", "folded"} /\ UNCHANGED <<manifest, op, interruptions>>
        /\ page' = [page EXCEPT ![c] = [step |-> "idle", due |-> page[c].step = "asked"]]
    BY <1>3 DEF Hear, Hearing, files, ghosts
  <2>2. \A d \in Client : /\ d # c => page'[d] = page[d]
                          /\ page'[c].step = "idle"
                          /\ page'[c].due <=> page[c].step = "asked"
    BY <1>a, <2>1
  <2>3. op.body = "changes" => op.client \in Client /\ op.client # c
    BY <1>a, <2>1 DEF LogRoom, OpOK
  <2>4. Free' = Free
    BY <2>1, <2>2, <2>3 DEF Free, Written
  <2> QED BY <1>c, <2>1, <2>2, <2>3, <2>4 DEF LogRoom
<1>4. ASSUME NEW c \in Client, BeginCompaction(c)
      PROVE  LogRoom'
  <2>1. UNCHANGED <<manifest, page, interruptions>> /\ AtRest
    BY <1>4 DEF BeginCompaction, files, ghosts
  <2>2. ~Written' /\ op'.body = "snapshot"
    BY <1>4, <1>a, CompactionCall DEF Written
  <2> QED BY <1>b, <2>1, <2>2, RoomBegin
<1>5. ASSUME NEW c \in Client, NEW s \in Save, NEW bundle \in BlobSets,
             NEW mark \in Marks, NEW edit \in Marks, NEW keep \in BOOLEAN,
             BeginAppend(c, s, bundle, keep, mark, edit)
      PROVE  LogRoom'
  <2>1. UNCHANGED <<manifest, page, interruptions>> /\ AtRest /\ page[c].step = "append"
    BY <1>5 DEF BeginAppend, files
  <2>2. ~Written'
    BY <1>5, <1>a, AppendCall DEF Written
  <2>3. op'.client = c
    BY <1>5 DEF BeginAppend, Idle
  <2> QED BY <1>b, <2>1, <2>2, <2>3, RoomBegin
<1>6. ASSUME NEW c \in Client, NEW s \in Save, NEW bundle \in BlobSets,
             NEW mark \in Marks, NEW edit \in Marks, NEW fresh \in Fresh,
             BeginSnapshot(c, s, bundle, fresh, mark, edit)
      PROVE  LogRoom'
  <2>1. UNCHANGED <<manifest, page, interruptions>> /\ AtRest
    BY <1>6 DEF BeginSnapshot, files
  <2>2. ~Written' /\ op'.body = "snapshot"
    BY <1>6, <1>a, SnapshotCall DEF Written
  <2> QED BY <1>b, <2>1, <2>2, RoomBegin
<1> QED BY <1>1, <1>2, <1>3, <1>4, <1>5, <1>6 DEF Editing

LEMMA RoomWriting ==
    ASSUME TypeInv, LogRoom, Writing
    PROVE  LogRoom'
<1>a. TypeOK /\ OpOK /\ op \in OpType
  BY DEF TypeInv, TypeOK
<1>1. ASSUME NEW b \in Blob, StoreBlob(b)
      PROVE  LogRoom'
  BY <1>1, RoomFrame DEF StoreBlob, memory, ghosts, Written
<1>2. CASE WriteChange
  <2>1. op'.step = "blobs" /\ SameCall(op) /\ op.step = "change"
    BY <1>2, <1>a, StepCall DEF WriteChange, Steps
  <2> QED BY <1>2, <2>1, RoomFrame DEF WriteChange, ghosts, SameCall, Written
<1>3. CASE NameChange
  <2>1. /\ op'.step = "history" /\ SameCall(op) /\ op.step = "blobs" /\ op.body = "changes"
        /\ UNCHANGED <<page, interruptions>>
    BY <1>3, <1>a, StepCall DEF NameChange, Steps, ghosts
  <2>2. /\ manifest \in Manifest /\ manifest' \in Manifest
        /\ manifest'.changes =
              Append(manifest.changes, [seq |-> op.seq, base |-> op.base, save |-> op.save])
    BY <1>3, NameChangeManifest
  <2>3. Named /\ Named'
    BY <2>2, DocEntryAssumption DEF Named
  <2>4. Len(manifest.changes) \in Nat /\ Len(manifest'.changes) = Len(manifest.changes) + 1
    BY <1>a, <2>2, <2>3, LogLength, AppendProperties
  <2>5. op.client \in Client /\ page[op.client].step = "append" /\ ~page[op.client].due
    BY <1>a, <2>1 DEF OpOK, InFlight, LogRoom
  <2>6. op.client \in Free
    BY <2>1, <2>5 DEF Free, Written
  <2>7. Free' = Free \ {op.client}
    BY <2>1, <2>5 DEF Free, Written, SameCall
  <2>8. Cardinality(Free') = Cardinality(Free) - 1
    BY <2>6, <2>7, FreeSize, FS_RemoveElement
  <2>9. Len(manifest'.changes) + Cardinality(Free') < Room'
    <3>1. Len(manifest.changes) + Cardinality(Free) < Room /\ Room' = Room
      BY <2>1, <2>3 DEF LogRoom, Room
    <3> QED BY <1>a, <2>4, <2>8, <3>1, FreeSize, RoomType
  <2> QED BY <2>1, <2>3, <2>5, <2>9 DEF LogRoom, Written, SameCall
<1>4. CASE NamePending
  <2>1. /\ op'.step = "rename" /\ SameCall(op) /\ op.step = "blobs" /\ op.body = "snapshot"
        /\ UNCHANGED <<page, interruptions>>
    BY <1>4, <1>a, StepCall DEF NamePending, Steps, ghosts
  <2>2. Named /\ Named' /\ manifest'.changes = manifest.changes
    BY <1>4, NamePendingManifest, DocEntryAssumption DEF Named
  <2>3. Free' = Free
    BY <2>1 DEF Free, Written
  <2>4. Cardinality(Free') = Cardinality(Free) /\ Room' = Room
    BY <2>1, <2>3 DEF Room
  <2> QED BY <2>1, <2>2, <2>4 DEF LogRoom, Written, SameCall
<1>5. CASE RenameSnapshot
  <2>1. op'.step = "name" /\ SameCall(op) /\ op.step \in {"rename", "blobs"}
    BY <1>5, <1>a, StepCall DEF RenameSnapshot, Steps
  <2> QED BY <1>5, <2>1, RoomFrame DEF RenameSnapshot, ghosts, SameCall, Written
<1>6. CASE NameSnapshot
  <2>1. /\ op'.step = "sweep" /\ SameCall(op) /\ op.step = "name"
        /\ UNCHANGED <<page, interruptions>>
    BY <1>6, <1>a, StepCall DEF NameSnapshot, Steps
  <2>2. manifest'.changes = <<>> /\ Named'
    BY <1>6, NameSnapshotManifest, DocEntryAssumption DEF Named
  <2>3. op.body = "snapshot"
    BY <1>a, <2>1 DEF OpOK
  <2>4. Len(manifest'.changes) = 0 /\ Room' = Room
    BY <2>1, <2>2 DEF Room
  <2>5. Len(manifest'.changes) + Cardinality(Free') < Room'
    BY <1>a, <2>4, FreeSizeNext, RoomType
  <2> QED BY <2>1, <2>2, <2>3, <2>5 DEF LogRoom, SameCall
<1>7. ASSUME NEW f \in changeFiles, SweepChange(f)
      PROVE  LogRoom'
  BY <1>7, RoomFrame DEF SweepChange, memory, ghosts, Written
<1> QED BY <1>1, <1>2, <1>3, <1>4, <1>5, <1>6, <1>7 DEF Writing

\* A call that ends without asking for a compaction leaves room for every page.
LEMMA RoomFinish ==
    ASSUME TypeInv, LogRoom, Finish
    PROVE  LogRoom'
<1>a. /\ TypeOK /\ OpOK /\ op \in OpType
      /\ page \in [Client -> [step : PageSteps, due : BOOLEAN]]
  BY DEF TypeInv, TypeOK
<1>1. /\ Written /\ op'.body = "none" /\ op'.step = "idle"
      /\ UNCHANGED <<manifest, interruptions>>
      /\ page' = [page EXCEPT ![op.client].step = Reported]
  BY SweptWritten, IdleFields DEF Finish, files
<1>2. /\ Named /\ Named' /\ op.body \in {"changes", "snapshot"} /\ op.client \in Client
      /\ Room' = Room
  BY <1>a, <1>1 DEF OpOK, OpType, Written, InFlight, Named, Room
<1>3. \A c \in Client : /\ c # op.client => page'[c] = page[c]
                        /\ page'[op.client].step = Reported
                        /\ page'[op.client].due = page[op.client].due
  BY <1>a, <1>1, <1>2
<1>4. Reported # "append" /\ ~Written'
  BY <1>1 DEF Reported, Written
<1>5. \A c \in Client : page'[c].step = "append" => ~page'[c].due
  BY <1>2, <1>3, <1>4 DEF LogRoom
<1>6. Len(manifest.changes) \in Nat
  BY <1>a, <1>2, LogLength
<1>7. Len(manifest'.changes) + Cardinality(Free') < Room'
  <2>1. CASE op.body = "changes" /\ CompactDue
    <3>1. Reported = "asked" /\ page[op.client].step = "append"
      BY <2>1 DEF Reported, LogRoom
    <3>2. Free' = Free
      BY <1>1, <1>2, <1>3, <1>4, <2>1, <3>1 DEF Free
    <3>3. Cardinality(Free') = Cardinality(Free)
      BY <3>2
    <3> QED BY <1>1, <1>2, <3>3 DEF LogRoom
  <2>2. CASE op.body = "changes" /\ ~CompactDue
    <3>1. Len(manifest.changes) < CompactAfter
      BY <1>a, <1>6, <2>2, RoomType DEF CompactDue
    <3> QED BY <1>a, <1>1, <1>2, <1>6, <3>1, FreeSizeNext, RoomType
  <2>3. CASE op.body = "snapshot"
    <3>1. Len(manifest.changes) = 0
      BY <1>1, <2>3 DEF LogRoom
    <3> QED BY <1>a, <1>1, <1>2, <3>1, FreeSizeNext, RoomType
  <2> QED BY <1>2, <2>1, <2>2, <2>3
<1> QED BY <1>1, <1>4, <1>5, <1>7 DEF LogRoom

LEMMA RoomRecording ==
    ASSUME TypeInv, LogRoom, Recording
    PROVE  LogRoom'
<1>c. UNCHANGED <<manifest, interruptions>> /\ (Finish \/ UNCHANGED page)
  BY DEF Recording, ClearHistory, RecordCheckpoint, CollectBlob, Finish, CheckpointNow, files,
         memory, ghosts
<1>2. CASE UNCHANGED page /\ op'.step = "history" /\ SameCall(op) /\ Written
  BY <1>2, <1>c, RoomFrame DEF SameCall, Written
<1>3. CASE UNCHANGED <<op, page>>
  BY <1>3, <1>c, RoomFrame DEF Written
<1> QED BY <1>2, <1>3, <1>c, RoomFinish, RecordingFrame DEF TypeInv

LEMMA RoomInterrupted ==
    ASSUME TypeInv, LogRoom, Fail \/ Crash
    PROVE  LogRoom'
<1>a. /\ TypeOK /\ OpOK
      /\ page \in [Client -> [step : PageSteps, due : BOOLEAN]]
  BY DEF TypeInv, TypeOK
<1>1. /\ op'.step = "idle" /\ op'.body = "none" /\ UNCHANGED manifest
      /\ interruptions' = interruptions + 1
  BY IdleFields DEF Fail, Crash, Interrupted, files
<1>2. \A c \in Client : page'[c].step = "append" => ~page'[c].due
  <2>1. CASE Crash
    BY <2>1 DEF Crash, NewPage
  <2>2. CASE Fail
    <3>1. \A c \in Client :
              page'[c] = IF c = op.client THEN [page[c] EXCEPT !.step = "idle"] ELSE page[c]
      BY <2>2 DEF Fail
    <3>2. \A c \in Client : c = op.client => page'[c].step = "idle"
      BY <1>a, <3>1
    <3> QED BY <3>1, <3>2 DEF LogRoom
  <2> QED BY <2>1, <2>2
<1>3. Named' => Len(manifest'.changes) + Cardinality(Free') < Room'
  <2> SUFFICES ASSUME Named
               PROVE  Len(manifest'.changes) + Cardinality(Free') < Room'
    BY <1>1 DEF Named
  <2>1. Len(manifest.changes) \in Nat /\ Len(manifest.changes) + Cardinality(Free) < Room
    BY <1>a, LogLength DEF LogRoom
  <2>2. Room' = Room + Pages
    <3>1. Pages \in Nat /\ interruptions \in Nat /\ CompactAfter \in Nat
      BY <1>a, RoomType
    <3>2. Pages * (interruptions' + 1) = Pages * (interruptions + 1) + Pages
      BY <1>1, <3>1, Multiples
    <3>3. Pages * (interruptions + 1) \in Nat
      BY <3>1, Multiples
    <3> QED BY <3>1, <3>2, <3>3 DEF Room
  <2> QED BY <1>a, <1>1, <2>1, <2>2, FreeSize, FreeSizeNext, RoomType
<1> QED BY <1>1, <1>2, <1>3 DEF LogRoom

LEMMA RoomDeleting ==
    ASSUME TypeInv, LogRoom, Deleting \/ Damage
    PROVE  LogRoom'
<1>a. TypeOK /\ OpOK
  BY DEF TypeInv
<1>1. CASE BeginDelete
  <2>1. op'.step = "delete" /\ op'.body = "none" /\ AtRest
        /\ UNCHANGED <<manifest, page, interruptions>>
    BY <1>1 DEF BeginDelete, Idle, files, ghosts
  <2> QED BY <2>1, RoomBegin DEF AtRest, Written
<1>2. CASE DeleteFile
  <2>1. UNCHANGED <<op, page, interruptions>> /\ manifest' \in {manifest, None}
        /\ op.step = "delete"
    BY <1>2 DEF DeleteFile, memory, ghosts
  <2>2. CASE UNCHANGED manifest
    BY <2>1, <2>2, RoomFrame DEF Written
  <2>3. CASE manifest' = None
    BY <1>a, <2>1, <2>3 DEF LogRoom, Named, OpOK, InFlight
  <2> QED BY <2>1, <2>2, <2>3
<1>3. CASE FinishDelete
  <2>1. /\ op'.step = "idle" /\ op'.body = "none" /\ op.step = "delete"
        /\ UNCHANGED <<manifest, page, interruptions>>
    BY <1>3, IdleFields DEF FinishDelete, files
  <2> QED BY <2>1, RoomBegin DEF Written
<1>4. CASE Damage
  BY <1>4, RoomFrame DEF Damage, memory, Written
<1> QED BY <1>1, <1>2, <1>3, <1>4 DEF Deleting

\* The log outgrows the length at which the store asks for a compaction
\* (entry.rs:512-524) by less than one change a page, and as many again for each
\* interruption: a page hears of a full log from the answer to its own append only
\* (kitionHost.ts:145), after which it appends no more before a snapshot is stored.
THEOREM LogStaysShort == Spec => []LogBounded
<1>1. Init => LogRoom
  BY IdleFields DEF Init, LogRoom, Named, NewPage
<1>2. TypeInv /\ LogRoom /\ [Next]_vars => LogRoom'
  <2>1. ASSUME TypeInv, LogRoom, UNCHANGED vars
        PROVE  LogRoom'
    BY <2>1, RoomFrame DEF vars, Written
  <2> QED BY <2>1, RoomEditing, RoomWriting, RoomRecording, RoomInterrupted, RoomDeleting DEF Next
<1>3. TypeInv /\ LogRoom => LogBounded
  <2> SUFFICES ASSUME TypeInv, LogRoom, Named
               PROVE  Len(manifest.changes) < Room
    BY DEF LogBounded, Named, Room, Pages
  <2>1. Len(manifest.changes) \in Nat /\ Len(manifest.changes) + Cardinality(Free) < Room
    BY LogLength DEF TypeInv, LogRoom
  <2> QED BY <2>1, FreeSize, RoomType DEF TypeInv
<1> QED BY <1>1, <1>2, <1>3, TypeInvariance, PTL DEF Spec

-----------------------------------------------------------------------------
(* The changes a reader loads.                                             *)

LEMMA LargestOf ==
    ASSUME NEW size \in Nat, NEW T \in SUBSET (0 .. size), T # {}
    PROVE  \E n \in T : \A k \in T : k <= n
<1> DEFINE Rests == {n .. size : n \in T}
<1>1. IsFiniteSet(0 .. size)
  BY FS_Interval
<1>2. IsWellFoundedOn(StrictSubsetOrdering(0 .. size), SUBSET (0 .. size))
  BY <1>1, FS_StrictSubsetOrderingWellFounded, FS_FiniteSubsetsOfFinite
<1>3. Rests \subseteq SUBSET (0 .. size) /\ Rests # {}
  <2>1. \A n \in T : n .. size \in SUBSET (0 .. size)
    OBVIOUS
  <2>2. PICK n \in T : TRUE
    OBVIOUS
  <2>3. n .. size \in Rests
    BY Zenon
  <2>4. Rests \subseteq SUBSET (0 .. size)
    BY <2>1, Zenon
  <2> QED BY <2>3, <2>4, Zenon
<1>4. \E x \in Rests : \A y \in Rests : <<y, x>> \notin StrictSubsetOrdering(0 .. size)
  BY <1>2, <1>3, WFMin, Zenon
<1>5. PICK n \in T : \A k \in T : <<k .. size, n .. size>> \notin StrictSubsetOrdering(0 .. size)
  BY <1>4, Zenon
<1>6. ASSUME NEW k \in T, n < k
      PROVE  FALSE
  <2>1. n \in 0 .. size /\ k \in 0 .. size
    OBVIOUS
  <2>2. k .. size \in SUBSET (0 .. size) /\ n .. size \in SUBSET (0 .. size)
    BY <2>1
  <2>3. k .. size \subseteq n .. size
    BY <1>6, <2>1
  <2>4. n \in n .. size /\ n \notin k .. size
    BY <1>6, <2>1
  <2>5. k .. size # n .. size
    BY <2>4
  <2> QED BY <1>5, <2>2, <2>3, <2>5 DEF StrictSubsetOrdering
<1> QED BY <1>6

\* There is a longest run of changes whose files are there.
LEMMA LoadedRun ==
    ASSUME NEW m \in Manifest, NEW there
    PROVE  Loaded(m, there) \in 0 .. Len(m.changes)
<1> DEFINE size == Len(m.changes)
           P(n) == /\ \A i \in 1 .. n : m.changes[i] \in there
                   /\ n < size => m.changes[n + 1] \notin there
           T == {n \in 0 .. size : \A i \in 1 .. n : m.changes[i] \in there}
<1>1. size \in Nat
  BY LenProperties DEF Manifest
<1>2. T \subseteq 0 .. size /\ 0 \in T
  BY <1>1
<1>3. PICK n \in T : \A k \in T : k <= n
  BY <1>1, <1>2, LargestOf
<1>4. P(n)
  <2>1. n \in 0 .. size /\ \A i \in 1 .. n : m.changes[i] \in there
    OBVIOUS
  <2>2. ASSUME n < size, m.changes[n + 1] \in there
        PROVE  FALSE
    <3>1. n + 1 \in 0 .. size /\ n \in Nat
      BY <1>1, <2>1, <2>2
    <3>2. \A i \in 1 .. n + 1 : i \in 1 .. n \/ i = n + 1
      BY <3>1
    <3>3. n + 1 \in T
      BY <2>1, <2>2, <3>1, <3>2
    <3>4. n + 1 <= n
      BY <1>3, <3>3
    <3> QED BY <3>1, <3>4
  <2> QED BY <2>1, <2>2
<1>5. \E k \in 0 .. size : P(k)
  BY <1>2, <1>4
<1>6. Loaded(m, there) = CHOOSE k \in 0 .. size : P(k)
  BY DEF Loaded
<1> HIDE DEF P, size
<1> QED BY <1>5, <1>6 DEF size

\* An entry reads as a version of its log, or as its pending snapshot.
LEMMA ReadOfLog ==
    ASSUME Inv, SnapshotNamed
    PROVE  /\ Named /\ Read \in Entry
           /\ \/ Read.at = manifest.snapshot.save
              \/ \E i \in 1 .. Len(manifest.changes) : Read.at = manifest.changes[i].save
           /\ Read.at # None
           /\ Read.complete => OneSave(Read) /\ Read.at = manifest.head.save
<1> DEFINE m == manifest
           n == Loaded(m, changeFiles)
           all == n = Len(m.changes)
<1>a. /\ TypeOK /\ LogOK /\ ManifestVersion
      /\ m \in Manifest /\ Named
  BY DEF Inv, LogInv, TypeInv, TypeOK, RecoveryOK, VersionOK, SnapshotNamed, Named
<1>1. n \in 0 .. Len(m.changes) /\ Len(m.changes) \in Nat /\ m.changes \in Seq(Change)
  BY <1>a, LoadedRun, LenProperties DEF Manifest
<1>2. LogOf(m) /\ \A i \in 1 .. n : Continues(m, i)
  BY <1>a, <1>1 DEF LogOK, LogOf, Chained
<1>3. Read = [meta |-> m.meta,
              at |-> IF n = 0 THEN m.snapshot.save ELSE m.changes[n].save,
              seq |-> IF all THEN m.head.seq
                      ELSE IF n = 0 THEN m.snapshot.seq ELSE m.changes[n].seq,
              version |-> IF all THEN m.head.save ELSE None,
              blobs |-> IF BlobsWhole(m.blobs) THEN m.blobs ELSE {},
              complete |-> all /\ BlobsWhole(m.blobs)]
  BY <1>2 DEF Read, SnapshotNamed
<1>4. n # 0 => n \in 1 .. Len(m.changes) /\ m.changes[n] \in Change
  BY <1>1, ElementOfSeq
<1>5. /\ m.meta \in Save /\ m.snapshot.save \in Save /\ m.snapshot.seq \in Nat
      /\ m.head.save \in Save /\ m.head.seq \in Nat /\ m.blobs \in Bundle
  BY <1>a DEF Manifest, Heads
<1>6. Read.at = IF n = 0 THEN m.snapshot.save ELSE m.changes[n].save
  BY <1>3
<1>7. Read.at \in Save
  BY <1>4, <1>5, <1>6 DEF Change
<1>8. Read \in Entry
  <2>1. (IF all THEN m.head.seq ELSE IF n = 0 THEN m.snapshot.seq ELSE m.changes[n].seq) \in Nat
    BY <1>4, <1>5 DEF Change
  <2>2. (IF all THEN m.head.save ELSE None) \in Save \cup {None}
    BY <1>5
  <2>3. (IF BlobsWhole(m.blobs) THEN m.blobs ELSE {}) \in Bundle
    BY <1>5 DEF Bundle
  <2>4. (all /\ BlobsWhole(m.blobs)) \in BOOLEAN
    OBVIOUS
  <2>5. (IF n = 0 THEN m.snapshot.save ELSE m.changes[n].save) \in Save \cup {None}
    BY <1>6, <1>7
  <2> HIDE DEF m, n, all
  <2> QED BY <1>3, <1>5, <2>1, <2>2, <2>3, <2>4, <2>5 DEF Entry
<1>9. ASSUME Read.complete
      PROVE  OneSave(Read) /\ Read.at = m.head.save
  <2>1. all /\ BlobsWhole(m.blobs)
    BY <1>3, <1>9
  <2>2. n = 0 <=> m.changes = <<>>
    BY <1>1, <2>1, EmptySeq
  <2>3. Read.at = m.head.save
    BY <1>2, <1>6, <2>1, <2>2 DEF LogOf, Tip, Last
  <2>4. Read.meta = m.meta /\ Read.version = m.head.save /\ Read.blobs = m.blobs
    BY <1>3, <2>1
  <2>5. m.meta = m.head.save /\ m.blobs = carried[m.head.save]
    BY <1>a DEF ManifestVersion
  <2> QED BY <1>9, <2>3, <2>4, <2>5 DEF OneSave
<1> QED BY <1>a, <1>4, <1>6, <1>7, <1>8, <1>9, DocEntryAssumption

LEMMA ReadOfPending ==
    ASSUME Inv, ~SnapshotNamed, PendingAdopted
    PROVE  /\ Named /\ Read \in Entry
           /\ Read.at = manifest.pending.save /\ Read.at # None
           /\ Read.complete => OneSave(Read)
<1> DEFINE p == manifest.pending
<1>a. /\ TypeOK /\ ManifestVersion /\ Named /\ p \in Pending
  BY DEF Inv, LogInv, TypeInv, TypeOK, RecoveryOK, VersionOK, PendingAdopted, Named, Manifest
<1>1. Read = [meta |-> p.save, at |-> p.save, seq |-> p.seq, version |-> p.save,
              blobs |-> IF BlobsWhole(p.blobs) THEN p.blobs ELSE {},
              complete |-> BlobsWhole(p.blobs)]
  BY DEF Read
<1>2. p.save \in Save /\ p.seq \in Nat /\ p.blobs \in Bundle
  BY <1>a DEF Pending
<1>3. BlobsWhole(p.blobs) \in BOOLEAN
  BY DEF BlobsWhole
<1>4. Read \in Entry
  <2>1. (IF BlobsWhole(p.blobs) THEN p.blobs ELSE {}) \in Bundle
    BY <1>2 DEF Bundle
  <2> HIDE DEF p
  <2> QED BY <1>1, <1>2, <1>3, <2>1 DEF Entry
<1>5. p.blobs = carried[p.save]
  BY <1>a DEF ManifestVersion, PendingAdopted
<1> QED BY <1>a, <1>1, <1>2, <1>4, <1>5, DocEntryAssumption DEF OneSave

LEMMA NoOtherRead == ~SnapshotNamed /\ ~PendingAdopted => Read = None
  BY DEF Read

\* Whatever was lost, damaged or interrupted, and however many compactions were torn, what an
\* entry reads as fits together (entry.rs:236-319), if it is never deleted.
THEOREM ReadsFit ==
    ASSUME ~MayDelete
    PROVE  Spec => []ReadsFitTogether
<1>1. Inv => ReadsFitTogether
  BY ReadOfLog, ReadOfPending, NoOtherRead DEF ReadsFitTogether
<1> QED BY <1>1, RecoveryInvariance, PTL

-----------------------------------------------------------------------------
(* The abstract entry: what the files read as when a call is cut short.    *)

StoredNow ==
    IF ~Named THEN None
    ELSE IF snapshotFile = manifest.snapshot.save THEN manifest.head.save
    ELSE IF manifest.pending # None /\ snapshotFile = manifest.pending.save
         THEN manifest.pending.save
    ELSE None

LEMMA StoredIs ==
    ASSUME Inv, ~damaged
    PROVE  Stored = StoredNow
<1>a. /\ TypeOK /\ ChangesThere /\ StoredWhole
  BY DEF Inv, LogInv, TypeInv, RecoveryOK, FilesOK
<1>b. \A e \in Entry : e # None
  BY DocEntryAssumption
<1>1. CASE SnapshotNamed
  <2>1. Named /\ manifest \in Manifest /\ snapshotFile = manifest.snapshot.save
    BY <1>1, <1>a DEF SnapshotNamed, Named, TypeOK
  <2>2. Loaded(manifest, changeFiles) = Len(manifest.changes)
    BY <1>a, <2>1, LoadedAll DEF ChangesThere
  <2>3. BlobsWhole(manifest.blobs)
    BY <1>a, <2>1 DEF StoredWhole
  <2>4. Read.complete
    BY <1>1, <2>2, <2>3 DEF Read
  <2>5. Read # None /\ Read.at = manifest.head.save
    BY <1>1, <1>b, <2>4, ReadOfLog
  <2> QED BY <2>1, <2>4, <2>5 DEF Stored, StoredNow
<1>2. CASE ~SnapshotNamed /\ PendingAdopted
  <2>1. /\ Named /\ manifest.pending # None /\ snapshotFile = manifest.pending.save
        /\ snapshotFile # manifest.snapshot.save
    BY <1>2 DEF PendingAdopted, Named
  <2>2. BlobsWhole(manifest.pending.blobs)
    BY <1>a, <2>1 DEF StoredWhole
  <2>3. Read.complete
    BY <1>2, <2>2 DEF Read
  <2>4. Read # None /\ Read.at = manifest.pending.save
    BY <1>2, <1>b, ReadOfPending
  <2> QED BY <2>1, <2>3, <2>4 DEF Stored, StoredNow
<1>3. CASE ~SnapshotNamed /\ ~PendingAdopted
  BY <1>3, NoOtherRead DEF Stored, StoredNow, SnapshotNamed, PendingAdopted, Named
<1> QED BY <1>1, <1>2, <1>3

\* A call that is cut short here leaves what was stored before it, or what it stores. Of a
\* compaction over a torn one nothing is said while it is under way.
BeforeOK ==
    ~damaged =>
        /\ op.step \in {"change", "blobs"} => StoredNow = op.before
        /\ Compacting /\ (torn = 0 \/ ~Named) => StoredNow \in {op.before, op.save}
        /\ Written => StoredNow = op.save

LEMMA BeginBefore ==
    ASSUME TypeOK, NEW c \in Client
    PROVE  /\ BeginCompaction(c) => op'.before = Stored
           /\ \A s \in Save, bundle \in BlobSets, mark \in Marks, edit \in Marks :
                 /\ \A keep \in BOOLEAN :
                       BeginAppend(c, s, bundle, keep, mark, edit) => op'.before = Stored
                 /\ \A fresh \in Fresh :
                       BeginSnapshot(c, s, bundle, fresh, mark, edit) => op'.before = Stored
<1> HIDE DEF Stored
<1>1. BeginCompaction(c) => op'.before = Stored
  BY DEF BeginCompaction, Idle
<1>2. \A s \in Save, bundle \in BlobSets, mark \in Marks, edit \in Marks, keep \in BOOLEAN :
          BeginAppend(c, s, bundle, keep, mark, edit) => op'.before = Stored
  BY DEF BeginAppend, Idle
<1>3. \A s \in Save, bundle \in BlobSets, mark \in Marks, edit \in Marks, fresh \in Fresh :
          BeginSnapshot(c, s, bundle, fresh, mark, edit) => op'.before = Stored
  BY DEF BeginSnapshot, Idle
<1> QED BY <1>1, <1>2, <1>3

\* An editor's step keeps the files; a call begins from what they read as.
LEMMA EditingBegins ==
    ASSUME TypeOK, Editing
    PROVE  /\ UNCHANGED <<files, lawful, torn, damaged>>
           /\ \/ op' = op
              \/ AtRest /\ op'.step \in {"change", "blobs"} /\ op'.before = Stored
<1> HIDE DEF Stored
<1>0. ASSUME NEW c \in Client, Decide(c) \/ Hear(c)
      PROVE  UNCHANGED <<files, lawful, torn, damaged>> /\ op' = op
  BY <1>0, PageStep DEF ghosts
<1>1. ASSUME NEW c \in Client, KnowHead(c)
      PROVE  UNCHANGED <<files, lawful, torn, damaged>> /\ op' = op
  BY <1>1 DEF KnowHead, ghosts
<1>2. ASSUME NEW c \in Client, BeginCompaction(c)
      PROVE  /\ UNCHANGED <<files, lawful, torn, damaged>> /\ AtRest
             /\ op'.step \in {"change", "blobs"} /\ op'.before = Stored
  BY <1>2, BeginBefore, CompactionCall DEF BeginCompaction, ghosts
<1>3. ASSUME NEW c \in Client, NEW s \in Save, NEW bundle \in BlobSets,
             NEW mark \in Marks, NEW edit \in Marks, NEW keep \in BOOLEAN,
             BeginAppend(c, s, bundle, keep, mark, edit)
      PROVE  /\ UNCHANGED <<files, lawful, torn, damaged>> /\ AtRest
             /\ op'.step \in {"change", "blobs"} /\ op'.before = Stored
  <2>1. UNCHANGED <<files, lawful, torn, damaged>> /\ AtRest
    BY <1>3 DEF BeginAppend
  <2> QED BY <1>3, <2>1, BeginBefore, AppendCall
<1>4. ASSUME NEW c \in Client, NEW s \in Save, NEW bundle \in BlobSets,
             NEW mark \in Marks, NEW edit \in Marks, NEW fresh \in Fresh,
             BeginSnapshot(c, s, bundle, fresh, mark, edit)
      PROVE  /\ UNCHANGED <<files, lawful, torn, damaged>> /\ AtRest
             /\ op'.step \in {"change", "blobs"} /\ op'.before = Stored
  <2>1. UNCHANGED <<files, lawful, torn, damaged>> /\ AtRest
    BY <1>4 DEF BeginSnapshot
  <2> QED BY <1>4, <2>1, BeginBefore, SnapshotCall
<1> QED BY <1>0, <1>1, <1>2, <1>3, <1>4 DEF Editing

\* The later steps of a call keep what it began from.
KeepsBefore == op'.before = op.before

LEMMA WritingCall ==
    ASSUME TypeInv, Writing
    PROVE  SameCall(op) /\ KeepsBefore /\ InFlight /\ InFlight' /\ UNCHANGED damaged
<1>a. op \in OpType
  BY DEF TypeInv, TypeOK
<1>1. ASSUME NEW step \in Steps, op' = [op EXCEPT !.step = step]
      PROVE  SameCall(op) /\ KeepsBefore /\ op'.step = step
  BY <1>1, <1>a, StepCall DEF OpType, KeepsBefore
<1>2. ASSUME NEW b \in Blob, StoreBlob(b)
      PROVE  SameCall(op) /\ KeepsBefore /\ InFlight /\ InFlight' /\ UNCHANGED damaged
  BY <1>2 DEF StoreBlob, SameCall, KeepsBefore, InFlight, memory, ghosts
<1>3. CASE WriteChange
  BY <1>1, <1>3 DEF WriteChange, InFlight, Steps, ghosts
<1>4. CASE NameChange
  BY <1>1, <1>4 DEF NameChange, InFlight, Steps, ghosts
<1>5. CASE NamePending
  BY <1>1, <1>5 DEF NamePending, InFlight, Steps, ghosts
<1>6. CASE RenameSnapshot
  BY <1>1, <1>6 DEF RenameSnapshot, InFlight, Steps, ghosts
<1>7. CASE NameSnapshot
  BY <1>1, <1>7 DEF NameSnapshot, InFlight, Steps
<1>8. ASSUME NEW f \in changeFiles, SweepChange(f)
      PROVE  SameCall(op) /\ KeepsBefore /\ InFlight /\ InFlight' /\ UNCHANGED damaged
  BY <1>8 DEF SweepChange, SameCall, KeepsBefore, InFlight, memory, ghosts
<1> QED BY <1>2, <1>3, <1>4, <1>5, <1>6, <1>7, <1>8 DEF Writing

LEMMA RecordingCall ==
    ASSUME TypeInv, Recording, ~Finish
    PROVE  /\ UNCHANGED <<manifest, snapshotFile, changeFiles, damaged>>
           /\ \/ op' = op
              \/ Written /\ Written' /\ SameCall(op) /\ KeepsBefore
<1>a. op \in OpType
  BY DEF TypeInv, TypeOK
<1>b. UNCHANGED <<manifest, snapshotFile, changeFiles, damaged>>
  BY RecordingFrame
<1>1. ASSUME \/ op' = [op EXCEPT !.step = "history"]
             \/ op' = [op EXCEPT !.step = "history", !.fresh = FALSE]
             \/ op' = [op EXCEPT !.step = "history", !.mark = FALSE],
             Swept
      PROVE  Written /\ Written' /\ SameCall(op) /\ KeepsBefore
  <2>1. op'.before = op.before
    BY <1>1, <1>a DEF OpType
  <2> QED BY <1>1, <1>a, <2>1, RecordCall, SweptWritten DEF KeepsBefore, Written
<1> QED BY <1>1, <1>b DEF Recording, ClearHistory, RecordCheckpoint, CollectBlob, CheckpointNow,
                          memory

LEMMA SameStoredNow ==
    ASSUME UNCHANGED <<manifest, snapshotFile>>
    PROVE  StoredNow' = StoredNow
  BY DEF StoredNow, Named

LEMMA BeforeFrame ==
    ASSUME BeforeOK, UNCHANGED <<manifest, snapshotFile, torn, damaged>>,
           op'.step = op.step, op'.save = op.save, KeepsBefore
    PROVE  BeforeOK'
  BY SameStoredNow DEF BeforeOK, KeepsBefore, Compacting, Written, Named

LEMMA BeforeWriting ==
    ASSUME Inv, Inv', BeforeOK, Writing
    PROVE  BeforeOK'
<1>a. /\ TypeInv /\ OpOK /\ op \in OpType /\ PendingOK /\ PendingOK' /\ CallVersion'
      /\ torn \in Nat /\ LogOK'
  BY DEF Inv, LogInv, TypeInv, TypeOK, RecoveryOK, VersionOK
<1>b. SameCall(op) /\ KeepsBefore /\ UNCHANGED damaged
  BY <1>a, WritingCall
<1>1. ASSUME NEW b \in Blob, StoreBlob(b)
      PROVE  BeforeOK'
  BY <1>1, <1>b, BeforeFrame DEF StoreBlob, memory, ghosts
<1>2. CASE WriteChange
  <2>1. op'.step = "blobs" /\ op.step = "change" /\ UNCHANGED <<manifest, snapshotFile>>
    BY <1>2, <1>a, StepCall DEF WriteChange, Steps
  <2> QED BY <1>b, <2>1, SameStoredNow DEF BeforeOK, KeepsBefore, Compacting, Written
<1>3. CASE NameChange
  <2>1. op'.step = "history" /\ UNCHANGED snapshotFile
    BY <1>3, <1>a, StepCall DEF NameChange, Steps
  <2>2. Written' /\ Named'
    BY <1>a, <2>1, <1>3, NameChangeManifest, DocEntryAssumption DEF Written, Named
  <2>3. snapshotFile' = manifest'.snapshot.save /\ manifest'.head.save = op'.save
    BY <1>a, <2>2 DEF PendingOK, CallVersion, Compacting, Written
  <2>4. StoredNow' = op'.save
    BY <2>2, <2>3 DEF StoredNow
  <2> QED BY <2>1, <2>4 DEF BeforeOK, Compacting
<1>4. CASE NamePending
  <2>1. /\ op'.step = "rename" /\ op.step = "blobs" /\ UNCHANGED <<snapshotFile, torn>>
    BY <1>4, <1>a, StepCall DEF NamePending, Steps, ghosts
  <2>2. /\ Named /\ Named' /\ manifest'.head = manifest.head
        /\ manifest'.snapshot = manifest.snapshot
    BY <1>4, <1>a, NamePendingManifest, DocEntryAssumption DEF Named
  <2>3. ASSUME torn = 0, ~damaged
        PROVE  StoredNow' = op'.before
    <3>1. manifest.pending = None
      BY <1>a, <2>1, <2>2, <2>3 DEF PendingOK, Compacting
    <3>2. snapshotFile = manifest.snapshot.save
      BY <1>a, <2>2, <3>1 DEF PendingOK
    <3>3. StoredNow' = StoredNow
      BY <2>1, <2>2, <3>2 DEF StoredNow
    <3> QED BY <1>b, <2>1, <2>3, <3>3 DEF BeforeOK, KeepsBefore
  <2> QED BY <1>b, <2>1, <2>2, <2>3 DEF BeforeOK, Written
<1>5. CASE RenameSnapshot
  <2>1. /\ op'.step = "name" /\ op.step \in {"rename", "blobs"} /\ snapshotFile' = op.save
        /\ UNCHANGED <<manifest, torn>>
    BY <1>5, <1>a, StepCall DEF RenameSnapshot, Steps, ghosts
  <2>2. CASE ~Named
    <3>1. op.step = "blobs"
      BY <1>a, <2>1, <2>2 DEF PendingOK
    <3>2. StoredNow' = StoredNow
      BY <2>1, <2>2 DEF StoredNow, Named
    <3> QED BY <1>b, <2>1, <3>1, <3>2 DEF BeforeOK, KeepsBefore, Written
  <2>3. CASE Named
    <3>1. op.step = "rename"
      BY <1>5, <2>3 DEF RenameSnapshot, Named
    <3>2. manifest.pending = [seq |-> op.seq, save |-> op.save, blobs |-> op.blobs]
      BY <1>a, <2>3, <3>1 DEF PendingOK, Compacting
    <3>3. manifest.pending.save = op.save /\ manifest.pending # None
      <4>1. [seq |-> op.seq, save |-> op.save, blobs |-> op.blobs] \in Pending
        BY <1>a, <3>1 DEF OpType, OpOK, InFlight, Pending
      <4> QED BY <3>2, <4>1, DocEntryAssumption
    <3>4. ASSUME torn = 0, ~damaged
          PROVE  StoredNow' \in {op.before, op.save}
      <4>1. snapshotFile = manifest.snapshot.save
        BY <1>a, <3>1, <3>4 DEF PendingOK
      <4>2. StoredNow = manifest.head.save
        BY <2>3, <4>1 DEF StoredNow
      <4>3. manifest.head.save \in {op.before, op.save}
        BY <2>3, <3>1, <3>4, <4>2 DEF BeforeOK, Compacting
      <4>4. StoredNow' \in {manifest.head.save, op.save}
        BY <2>1, <2>3, <3>3 DEF StoredNow, Named
      <4> QED BY <4>3, <4>4
    <3> QED BY <1>b, <2>1, <2>3, <3>4 DEF BeforeOK, KeepsBefore, SameCall, Written, Named
  <2> QED BY <2>2, <2>3
<1>6. CASE NameSnapshot
  <2>1. op'.step = "sweep" /\ UNCHANGED snapshotFile
    BY <1>6, <1>a, StepCall DEF NameSnapshot, Steps
  <2>2. Written' /\ Named'
    BY <2>1, <1>6, <1>a, NameSnapshotManifest, DocEntryAssumption DEF Written, Named
  <2>3. snapshotFile' = manifest'.snapshot.save /\ manifest'.head.save = op'.save
    BY <1>a, <2>2 DEF PendingOK, CallVersion, Compacting, Written
  <2>4. StoredNow' = op'.save
    BY <2>2, <2>3 DEF StoredNow
  <2> QED BY <2>1, <2>4 DEF BeforeOK, Compacting
<1>7. ASSUME NEW f \in changeFiles, SweepChange(f)
      PROVE  BeforeOK'
  BY <1>7, <1>b, BeforeFrame DEF SweepChange, memory, ghosts
<1> QED BY <1>1, <1>2, <1>3, <1>4, <1>5, <1>6, <1>7 DEF Writing

LEMMA BeforeStep ==
    ASSUME Inv, Inv', BeforeOK, ~MayDelete, [Next]_vars
    PROVE  BeforeOK'
<1>a. /\ TypeInv /\ TypeOK /\ OpOK /\ LogOK
  BY DEF Inv, LogInv, TypeInv
<1>b. ASSUME op'.step = "idle" \/ damaged'
      PROVE  BeforeOK'
  BY <1>b DEF BeforeOK, Compacting, Written
<1>1. CASE Editing
  <2>1. /\ UNCHANGED <<files, lawful, torn, damaged>>
        /\ op' = op \/ (op'.step \in {"change", "blobs"} /\ op'.before = Stored)
    BY <1>1, <1>a, EditingBegins
  <2>2. UNCHANGED <<manifest, snapshotFile, damaged>>
    BY <2>1 DEF files
  <2>3. CASE op' = op
    BY <2>1, <2>2, <2>3, BeforeFrame DEF KeepsBefore
  <2>4. CASE op'.step \in {"change", "blobs"} /\ op'.before = Stored
    <3>1. ~damaged => StoredNow' = op'.before
      BY <2>2, <2>4, StoredIs, SameStoredNow
    <3> QED BY <2>2, <2>4, <3>1 DEF BeforeOK, Compacting, Written
  <2> QED BY <2>1, <2>3, <2>4
<1>2. CASE Writing
  BY <1>2, BeforeWriting
<1>3. CASE Recording
  <2>1. CASE Finish
    BY <1>b, <2>1, IdleFields DEF Finish
  <2>2. CASE ~Finish
    <3>1. /\ UNCHANGED <<manifest, snapshotFile, torn, damaged>>
          /\ op' = op \/ (Written /\ Written' /\ SameCall(op) /\ KeepsBefore)
      BY <1>3, <1>a, <2>2, RecordingCall, RecordingFrame
    <3>2. CASE op' = op
      BY <3>1, <3>2, BeforeFrame DEF KeepsBefore
    <3>3. CASE Written /\ Written' /\ SameCall(op) /\ KeepsBefore
      BY <3>1, <3>3, SameStoredNow DEF BeforeOK, Written, SameCall, Compacting
    <3> QED BY <3>1, <3>2, <3>3
  <2> QED BY <2>1, <2>2
<1>4. CASE Deleting
  BY <1>4, <1>a DEF Deleting, BeginDelete, DeleteFile, FinishDelete, LogOK
<1>5. CASE Fail \/ Crash
  BY <1>5, <1>b, IdleFields DEF Fail, Crash, Interrupted
<1>6. CASE Damage
  BY <1>6, <1>b DEF Damage
<1>7. CASE UNCHANGED vars
  BY <1>7, BeforeFrame DEF KeepsBefore, vars
<1> QED BY <1>1, <1>2, <1>3, <1>4, <1>5, <1>6, <1>7 DEF Next

LEMMA BeforeInvariance ==
    ASSUME ~MayDelete
    PROVE  Spec => [](Inv /\ BeforeOK)
<1>1. Init => BeforeOK
  BY IdleFields DEF Init, BeforeOK, Compacting, Written
<1>2. Inv /\ Inv' /\ BeforeOK /\ [Next]_vars => BeforeOK'
  BY BeforeStep
<1> QED BY <1>1, <1>2, RecoveryInvariance, PTL DEF Spec

-----------------------------------------------------------------------------
(* The step simulation.                                                    *)

NoTear == torn <= 1 /\ ~damaged

How == CASE op.step = "idle" -> "none"
         [] op.step = "delete" -> "delete"
         [] op.body = "changes" -> "append"
         [] op.body = "snapshot" -> "replace"
AbstractStored == IF AtRest THEN Stored ELSE op.before
AbstractWriting == [how |-> How, save |-> op.save, base |-> op.base]


Nobody == [how |-> "none", save |-> None, base |-> None]

LEMMA AbstractActions ==
    /\ Abstract!Nobody = Nobody
    /\ \A how, s, base :
          Abstract!Write(how, s, base) <=>
              /\ AbstractWriting = Nobody
              /\ AbstractWriting' = [how |-> how, save |-> s, base |-> base]
              /\ AbstractStored' = AbstractStored
    /\ \A base, s :
          Abstract!Append(base, s) <=>
              AbstractStored = base /\ Abstract!Write("append", s, base)
    /\ \A s : Abstract!Replace(s) <=> Abstract!Write("replace", s, None)
    /\ Abstract!Finish <=> /\ AbstractWriting # Nobody
                           /\ AbstractStored' = AbstractWriting.save
                           /\ AbstractWriting' = Nobody
    /\ Abstract!Interrupt <=> /\ AbstractWriting # Nobody
                              /\ AbstractStored' \in {AbstractStored, AbstractWriting.save}
                              /\ AbstractWriting' = Nobody
    /\ UNCHANGED <<AbstractStored, AbstractWriting>> => UNCHANGED Abstract!vars
<1> HIDE DEF Stored
<1>1. Abstract!Nobody = Nobody
  BY DEF Abstract!Nobody, Nobody
<1>2. \A how, s, base :
          Abstract!Write(how, s, base) <=>
              /\ AbstractWriting = Nobody
              /\ AbstractWriting' = [how |-> how, save |-> s, base |-> base]
              /\ AbstractStored' = AbstractStored
  BY <1>1, Zenon DEF Abstract!Write, AbstractWriting, AbstractStored, How
<1>3. \A base, s :
          Abstract!Append(base, s) <=>
              AbstractStored = base /\ Abstract!Write("append", s, base)
  BY Zenon DEF Abstract!Append, AbstractStored
<1>4. \A s : Abstract!Replace(s) <=> Abstract!Write("replace", s, None)
  BY Zenon DEF Abstract!Replace
<1>5. Abstract!Finish <=> /\ AbstractWriting # Nobody
                          /\ AbstractStored' = AbstractWriting.save
                          /\ AbstractWriting' = Nobody
  BY <1>1, Zenon DEF Abstract!Finish, AbstractWriting, AbstractStored, How
<1>6. Abstract!Interrupt <=> /\ AbstractWriting # Nobody
                             /\ AbstractStored' \in {AbstractStored, AbstractWriting.save}
                             /\ AbstractWriting' = Nobody
  BY <1>1, Zenon DEF Abstract!Interrupt, AbstractWriting, AbstractStored, How
<1>7. UNCHANGED <<AbstractStored, AbstractWriting>> => UNCHANGED Abstract!vars
  BY Zenon DEF Abstract!vars, AbstractWriting, AbstractStored, How
<1> QED BY <1>1, <1>2, <1>3, <1>4, <1>5, <1>6, <1>7

LEMMA IdleWriting ==
    ASSUME op = Idle
    PROVE  AbstractWriting = Nobody
  BY DEF AbstractWriting, How, Idle, Nobody

LEMMA StoredReads == Inv /\ ~damaged => Stored = StoredNow
  BY StoredIs

LEMMA StoredReadsNext == (Inv /\ ~damaged => Stored = StoredNow)'
  BY StoredReads, PTL

LEMMA SameRead ==
    ASSUME Inv, Inv', ~damaged, ~damaged', UNCHANGED <<manifest, snapshotFile>>
    PROVE  Stored' = Stored
<1>1. Stored = StoredNow /\ Stored' = StoredNow'
  BY StoredReads, StoredReadsNext
<1> QED BY <1>1, SameStoredNow


\* At rest there is no call.
RestIsIdle == AtRest => op = Idle

LEMMA IdleStep ==
    ASSUME TypeInv, RestIsIdle, ~MayDelete, op.step # "delete", [Next]_vars
    PROVE  RestIsIdle'
<1>1. CASE Editing
  <2>1. op' = op \/ op'.step \in {"change", "blobs"}
    BY <1>1, EditingBegins DEF TypeInv
  <2> QED BY <2>1 DEF RestIsIdle, AtRest
<1>2. CASE Writing
  BY <1>2, WritingCall DEF RestIsIdle, AtRest, InFlight
<1>3. CASE Recording
  BY <1>3, RecordingFrame DEF RestIsIdle, AtRest
<1>4. CASE Deleting
  BY <1>4 DEF Deleting, BeginDelete, DeleteFile, FinishDelete
<1>5. CASE Fail \/ Crash
  BY <1>5 DEF Fail, Crash, Interrupted, RestIsIdle
<1>6. CASE Damage \/ UNCHANGED vars
  BY <1>6 DEF Damage, memory, vars, RestIsIdle, AtRest
<1> QED BY <1>1, <1>2, <1>3, <1>4, <1>5, <1>6 DEF Next

\* The call that an editor's step begins: an append to the stored version, or a replacement.
LEMMA EditingCalls ==
    ASSUME Inv, ~damaged, Editing, op' # op
    PROVE  /\ op'.save \in Save
           /\ \/ op'.step = "change" /\ op'.body = "changes" /\ op'.base = StoredNow
                 /\ StoredNow \in Save
              \/ op'.step = "blobs" /\ op'.body = "snapshot" /\ op'.base = None
<1>a. /\ TypeInv /\ TypeOK /\ LogOK
  BY DEF Inv, LogInv, TypeInv
<1>1. ASSUME NEW c \in Client, BeginCompaction(c)
      PROVE  /\ op'.save \in Save
             /\ op'.step = "blobs" /\ op'.body = "snapshot" /\ op'.base = None
  <2>1. op'.base = None
    BY <1>1 DEF BeginCompaction, Idle
  <2> QED BY <1>1, <1>a, <2>1, CompactionCall DEF Heads
<1>2. ASSUME NEW c \in Client, NEW s \in Save, NEW bundle \in BlobSets,
             NEW mark \in Marks, NEW edit \in Marks, NEW keep \in BOOLEAN,
             BeginAppend(c, s, bundle, keep, mark, edit)
      PROVE  /\ op'.save \in Save
             /\ op'.step = "change" /\ op'.body = "changes" /\ op'.base = StoredNow
             /\ StoredNow \in Save
  <2>1. ~AppendRefused(known[c]) /\ known[c] \notin {None, Absent}
    BY <1>2 DEF BeginAppend
  <2>2. /\ Named /\ manifest.head.seq = known[c].seq
        /\ snapshotFile = manifest.snapshot.save
    BY <2>1 DEF AppendRefused, Named
  <2>3. known[c] \in Heads
    BY <1>a, <2>1 DEF TypeOK
  <2>4. known[c].save = manifest.head.save /\ known[c].save \in Save
    BY <1>a, <2>2, <2>3 DEF LogOK, KnownOK, Heads
  <2>5. StoredNow = manifest.head.save
    BY <2>2 DEF StoredNow
  <2> QED BY <1>2, <1>a, <2>4, <2>5, AppendCall
<1>3. ASSUME NEW c \in Client, NEW s \in Save, NEW bundle \in BlobSets,
             NEW mark \in Marks, NEW edit \in Marks, NEW fresh \in Fresh,
             BeginSnapshot(c, s, bundle, fresh, mark, edit)
      PROVE  /\ op'.save \in Save
             /\ op'.step = "blobs" /\ op'.body = "snapshot" /\ op'.base = None
  <2>1. op'.base = None
    BY <1>3 DEF BeginSnapshot, Idle
  <2> QED BY <1>3, <1>a, <2>1, SnapshotCall
<1>4. \A c \in Client : KnowHead(c) \/ Decide(c) \/ Hear(c) => op' = op
  BY PageStep DEF KnowHead
<1> QED BY <1>1, <1>2, <1>3, <1>4 DEF Editing

\* A call begins on what is stored, and writes nothing by that.
LEMMA EditingSimulated ==
    ASSUME Inv, Inv', ~damaged, RestIsIdle, Editing
    PROVE  Abstract!Next \/ UNCHANGED Abstract!vars
<1>a. /\ TypeInv /\ TypeOK
  BY DEF Inv, LogInv, TypeInv
<1>b. /\ UNCHANGED <<files, lawful, torn, damaged>>
      /\ op' = op \/ (AtRest /\ op'.step \in {"change", "blobs"} /\ op'.before = Stored)
  BY <1>a, EditingBegins
<1>c. Stored' = Stored
  BY <1>b, SameRead DEF files
<1>d. Stored = StoredNow
  BY StoredIs
<1> HIDE DEF Stored
<1>e. /\ AbstractStored' = AbstractStored
      /\ op' # op => AbstractStored = StoredNow
  BY <1>b, <1>c, <1>d DEF AbstractStored, AtRest
<1>1. CASE op' = op
  <2>1. AbstractWriting' = AbstractWriting
    BY <1>1 DEF AbstractWriting, How
  <2> QED BY <1>e, <2>1, AbstractActions
<1>2. CASE op' # op
  <2>1. AbstractWriting = Nobody
    BY <1>2, <1>b, IdleWriting DEF RestIsIdle
  <2>2. CASE op'.step = "change" /\ op'.body = "changes" /\ op'.base = StoredNow
             /\ StoredNow \in Save /\ op'.save \in Save
    <3>1. AbstractWriting' = [how |-> "append", save |-> op'.save, base |-> StoredNow]
      BY <2>2 DEF AbstractWriting, How
    <3>2. Abstract!Append(StoredNow, op'.save)
      BY <1>2, <1>e, <2>1, <3>1, AbstractActions
    <3> QED BY <2>2, <3>2 DEF Abstract!Next
  <2>3. CASE op'.step = "blobs" /\ op'.body = "snapshot" /\ op'.base = None
             /\ op'.save \in Save
    <3>1. AbstractWriting' = [how |-> "replace", save |-> op'.save, base |-> None]
      BY <2>3 DEF AbstractWriting, How
    <3>2. Abstract!Replace(op'.save)
      BY <1>2, <1>e, <2>1, <3>1, AbstractActions
    <3> QED BY <2>3, <3>2 DEF Abstract!Next
  <2> QED BY <1>2, <2>2, <2>3, EditingCalls
<1> QED BY <1>1, <1>2

\* The steps between do nothing to what is stored.
LEMMA SameCallSimulated ==
    ASSUME ~AtRest, ~AtRest', op.step # "delete", op'.step # "delete", SameCall(op), KeepsBefore
    PROVE  UNCHANGED Abstract!vars
<1> HIDE DEF Stored
<1>1. AbstractStored' = AbstractStored
  BY DEF AbstractStored, KeepsBefore
<1>2. AbstractWriting' = AbstractWriting
  BY DEF AbstractWriting, How, SameCall, AtRest
<1> QED BY <1>1, <1>2, AbstractActions

\* A call that is under way has a save.
LEMMA InFlightWriting ==
    ASSUME TypeInv, InFlight
    PROVE  AbstractWriting # Nobody /\ AbstractWriting.save = op.save
           /\ AbstractStored = op.before
<1>1. op.save \in Save /\ op.save # None
  BY DocEntryAssumption DEF TypeInv, OpOK
<1>2. Nobody.save = None /\ AbstractWriting.save = op.save
  BY DEF Nobody, AbstractWriting
<1> QED BY <1>1, <1>2 DEF AbstractStored, InFlight, AtRest

LEMMA FinishSimulated ==
    ASSUME Inv, Inv', ~damaged, ~damaged', BeforeOK, Finish
    PROVE  Abstract!Next
<1>a. TypeInv
  BY DEF Inv, LogInv
<1>1. Written /\ op' = Idle /\ UNCHANGED files
  BY SweptWritten DEF Finish
<1>2. Stored' = Stored /\ Stored = StoredNow /\ StoredNow = op.save
  BY <1>1, SameRead, StoredIs DEF BeforeOK, files
<1> HIDE DEF Stored
<1>3. AbstractStored' = op.save /\ AbstractWriting' = Nobody
  <2>1. AbstractStored' = Stored'
    BY <1>1, IdleFields DEF AbstractStored, AtRest
  <2>2. op' = Idle => AbstractWriting' = Nobody
    BY DEF AbstractWriting, How, Idle, Nobody
  <2> QED BY <1>1, <1>2, <2>1, <2>2
<1>4. AbstractWriting # Nobody /\ AbstractWriting.save = op.save
  BY <1>a, <1>1, InFlightWriting DEF Written, InFlight
<1> QED BY <1>3, <1>4, AbstractActions DEF Abstract!Next

LEMMA InterruptSimulated ==
    ASSUME Inv, Inv', NoTear', ~damaged, BeforeOK, RestIsIdle, Interrupted
    PROVE  Abstract!Next \/ UNCHANGED Abstract!vars
<1>a. TypeInv /\ op.step # "delete" /\ torn \in Nat
  BY DEF Inv, LogInv, LogOK, TypeInv, TypeOK
<1>1. /\ op' = Idle /\ UNCHANGED <<manifest, snapshotFile>>
      /\ torn' = IF Tearing THEN torn + 1 ELSE torn
  BY DEF Interrupted, files
<1>2. Stored' = Stored /\ Stored = StoredNow
  BY <1>1, SameRead, StoredIs DEF NoTear
<1> HIDE DEF Stored
<1>3. AbstractStored' = StoredNow /\ AbstractWriting' = Nobody
  <2>1. AbstractStored' = Stored'
    BY <1>1, IdleFields DEF AbstractStored, AtRest
  <2>2. op' = Idle => AbstractWriting' = Nobody
    BY DEF AbstractWriting, How, Idle, Nobody
  <2> QED BY <1>1, <1>2, <2>1, <2>2
<1>4. CASE AtRest
  <2>1. AbstractWriting = Nobody /\ AbstractStored = StoredNow
    BY <1>2, <1>4, IdleWriting DEF RestIsIdle, AbstractStored
  <2> QED BY <1>3, <2>1, AbstractActions
<1>5. CASE ~AtRest
  <2>1. InFlight
    BY <1>a, <1>5 DEF InFlight, AtRest
  <2>2. StoredNow \in {op.before, op.save}
    <3>1. Compacting => torn = 0 \/ ~Named
      BY <1>a, <1>1 DEF NoTear, Tearing, Compacting, Named
    <3>2. op.step \in {"change", "blobs"} \/ Compacting \/ Written
      BY <1>a, <2>1 DEF InFlight, Compacting, Written, TypeInv, TypeOK, OpType, Steps
    <3> QED BY <3>1, <3>2 DEF BeforeOK
  <2>3. Abstract!Interrupt
    BY <1>a, <1>3, <2>1, <2>2, InFlightWriting, AbstractActions
  <2> QED BY <2>3 DEF Abstract!Next
<1> QED BY <1>4, <1>5

LEMMA StepSimulated ==
    ASSUME Inv, Inv', NoTear, NoTear', BeforeOK, RestIsIdle, ~MayDelete, [Next]_vars
    PROVE  Abstract!Next \/ UNCHANGED Abstract!vars
<1>a. /\ TypeInv /\ OpOK /\ OpOK' /\ ~damaged /\ ~damaged' /\ op.step # "delete"
      /\ op'.step # "delete"
  BY DEF Inv, LogInv, TypeInv, LogOK, NoTear
<1>1. CASE Editing
  BY <1>1, <1>a, EditingSimulated
<1>2. CASE Writing
  BY <1>2, <1>a, WritingCall, SameCallSimulated DEF InFlight, AtRest
<1>3. CASE Recording
  <2>1. CASE Finish
    BY <1>a, <2>1, FinishSimulated
  <2>2. CASE ~Finish
    <3>1. /\ UNCHANGED <<manifest, snapshotFile>>
          /\ op' = op \/ (Written /\ Written' /\ SameCall(op) /\ KeepsBefore)
      BY <1>3, <1>a, <2>2, RecordingCall
    <3>2. CASE op' = op
      <4>1. Stored' = Stored
        BY <1>a, <3>1, SameRead
      <4> HIDE DEF Stored
      <4>2. AbstractStored' = AbstractStored /\ AbstractWriting' = AbstractWriting
        BY <3>2, <4>1 DEF AbstractStored, AbstractWriting, How, AtRest
      <4> QED BY <4>2, AbstractActions
    <3>3. CASE Written /\ Written' /\ SameCall(op) /\ KeepsBefore
      BY <1>a, <3>3, SameCallSimulated DEF Written, AtRest
    <3> QED BY <3>1, <3>2, <3>3
  <2> QED BY <2>1, <2>2
<1>4. CASE Deleting
  BY <1>4, <1>a DEF Deleting, BeginDelete, DeleteFile, FinishDelete
<1>5. CASE Fail \/ Crash
  BY <1>5, <1>a, InterruptSimulated DEF Fail, Crash
<1>6. CASE Damage
  BY <1>6, <1>a DEF Damage
<1>7. CASE UNCHANGED vars
  <2>1. Stored' = Stored
    BY <1>a, <1>7, SameRead DEF vars
  <2> HIDE DEF Stored
  <2>2. AbstractStored' = AbstractStored /\ AbstractWriting' = AbstractWriting
    BY <1>7, <2>1 DEF AbstractStored, AbstractWriting, How, AtRest, vars
  <2> QED BY <2>2, AbstractActions
<1> QED BY <1>1, <1>2, <1>3, <1>4, <1>5, <1>6, <1>7 DEF Next

LEMMA InitSimulated == Init => Abstract!Init
<1> SUFFICES ASSUME Init PROVE Abstract!Init
  OBVIOUS
<1>1. op = Idle /\ AtRest
  BY IdleFields DEF Init, AtRest
<1>2. Stored = None
  BY DEF Init, Stored, Read, SnapshotNamed, PendingAdopted
<1> HIDE DEF Stored
<1>3. AbstractStored = None /\ AbstractWriting = Nobody
  BY <1>1, <1>2, IdleWriting DEF AbstractStored
<1> QED BY <1>3, AbstractActions, Zenon DEF Abstract!Init, AbstractStored, AbstractWriting, How

\* However a write touches the entry's files, and wherever it is cut short, it happens at once or
\* not at all, and an append lands on the version its editor read (entry.rs:13-20, 455-463); as
\* long as the entry is not deleted, nothing is damaged from outside, and no second compaction in
\* a row is torn.
THEOREM ImplementsTheEntry ==
    ASSUME ~MayDelete
    PROVE  Spec /\ [](torn <= 1 /\ ~damaged) => ImplementsStoredEntry
<1>1. Init => RestIsIdle
  BY DEF Init, RestIsIdle
<1>2. Inv /\ RestIsIdle /\ [Next]_vars => RestIsIdle'
  BY IdleStep DEF Inv, LogInv, LogOK
<1>3. Inv /\ Inv' /\ NoTear /\ NoTear' /\ BeforeOK /\ RestIsIdle /\ [Next]_vars
      => [Abstract!Next]_(Abstract!vars)
  <2>1. Inv /\ Inv' /\ NoTear /\ NoTear' /\ BeforeOK /\ RestIsIdle /\ [Next]_vars
        => Abstract!Next \/ UNCHANGED Abstract!vars
    BY StepSimulated
  <2> QED BY <2>1
<1>4. torn <= 1 /\ ~damaged => NoTear
  BY DEF NoTear
<1> QED BY <1>1, <1>2, <1>3, <1>4, InitSimulated, BeforeInvariance, PTL
        DEF Spec, ImplementsStoredEntry, Abstract!Spec

-----------------------------------------------------------------------------
(* The lineage of the checkpoints, when the document has one editor.       *)

OneEditor == \A c, d \in Client : c = d

InHistory(s) == \E i \in 1 .. Len(history) : s = history[i].save
InLog(s) == Named /\ \/ s = manifest.snapshot.save
                     \/ \E i \in 1 .. Len(manifest.changes) : s = manifest.changes[i].save

\* What one editor read is the stored head until it writes another.
HeadKnown == ~Written => \A c \in Client :
    /\ known[c] \in Heads => Named /\ known[c].save = manifest.head.save
    /\ known[c] \notin Heads \cup {None} => ~Named

\* What is stored is one lineage, and a call continues it unless it brings a new replica.
LineageOK ==
    /\ \A s \in Save : InHistory(s) \/ InLog(s) => s \in made
    /\ \A s \in Save : InHistory(s) => Named
    /\ \A s \in Save : InLog(s) => root[s] = root[manifest.head.save]
    /\ ~InFlight \/ op.body = "changes" => ~op.fresh
    /\ Named /\ Unnamed /\ ~op.fresh => root[op.save] = root[manifest.head.save]
    /\ ~(Written /\ op.fresh) =>
          \A s \in Save : InHistory(s) => root[s] = root[manifest.head.save]

SameFiles == UNCHANGED <<manifest, history>>

LEMMA SameLists ==
    ASSUME SameFiles
    PROVE  /\ \A s : InHistory(s)' <=> InHistory(s)
           /\ \A s : InLog(s)' <=> InLog(s)
           /\ Named' <=> Named
  BY DEF InHistory, InLog, Named, SameFiles

LEMMA LineageFrame ==
    ASSUME LineageOK, SameFiles, UNCHANGED <<made, root>>,
           ~InFlight' \/ op'.body = "changes" => ~op'.fresh,
           Named /\ Unnamed' /\ ~op'.fresh => root[op'.save] = root[manifest.head.save],
           Written /\ op.fresh => Written' /\ op'.fresh
    PROVE  LineageOK'
<1>1. manifest'.head.save = manifest.head.save
  BY DEF SameFiles
<1> QED BY <1>1, SameLists DEF LineageOK

LEMMA SameFresh ==
    ASSUME LineageOK, SameFiles, UNCHANGED <<made, root>>,
           op'.fresh = op.fresh, op'.save = op.save, op'.body = op.body,
           InFlight => InFlight', Unnamed' => Unnamed, Written => Written'
    PROVE  LineageOK'
<1>1. /\ ~InFlight' \/ op'.body = "changes" => ~op'.fresh
      /\ Named /\ Unnamed' /\ ~op'.fresh => root[op'.save] = root[manifest.head.save]
      /\ Written /\ op.fresh => Written' /\ op'.fresh
  BY DEF LineageOK
<1> QED BY <1>1, LineageFrame

\* A save that is made changes the lineage of no other.
LEMMA LineageMade ==
    ASSUME Inv, LineageOK, AtRest, SameFiles, NEW c \in Client, NEW s \in Save,
           NEW bundle, NEW fresh \in BOOLEAN, Make(c, s, bundle, fresh),
           op'.step \in {"change", "blobs"}, op'.save = s, op'.fresh = fresh,
           op'.body = "changes" => ~fresh,
           Named /\ ~fresh => root'[s] = root[manifest.head.save]
    PROVE  LineageOK'
<1>a. Named => manifest.head.save \in made
  BY DEF Inv, LogInv, TypeInv, TypeOK, RecoveryOK, VersionOK, ManifestVersion
<1>1. /\ made' = made \cup {s} /\ \A x \in made : root'[x] = root[x]
  BY <1>a DEF Make
<1>2. manifest'.head.save = manifest.head.save
  BY DEF SameFiles
<1>3. Named => root'[manifest'.head.save] = root[manifest.head.save]
  <2>1. Named => root'[manifest.head.save] = root[manifest.head.save]
    BY <1>a, <1>1
  <2> QED BY <1>2, <2>1
<1>4. \A x \in Save : (InHistory(x)' \/ InLog(x)') => x \in made /\ Named
  BY SameLists DEF LineageOK, InLog
<1>5. ~Written /\ ~Written' /\ InFlight' /\ Unnamed'
  BY DEF AtRest, Written, InFlight, Unnamed
<1>6. \A x \in Save : (InHistory(x)' => InHistory(x)) /\ (InLog(x)' => InLog(x))
  BY SameLists
<1>7. \A x \in Save : (InHistory(x)' \/ InLog(x)') => root'[x] = root'[manifest'.head.save]
  BY <1>1, <1>3, <1>4, <1>5, <1>6 DEF LineageOK
<1>8. Named' => Named
  BY SameLists
<1> QED BY <1>1, <1>3, <1>4, <1>5, <1>7, <1>8, SameLists DEF LineageOK

LEMMA AnySaveTyped ==
    ASSUME TypeOK
    PROVE  /\ \A s : InHistory(s) => s \in Save
           /\ \A s : InLog(s) => s \in Save
<1>1. ASSUME NEW i \in 1 .. Len(history)
      PROVE  history[i].save \in Save
  <2>1. history[i] \in Checkpoint
    BY <1>1, ElementOfSeq DEF TypeOK
  <2> QED BY <2>1 DEF Checkpoint
<1>2. ASSUME Named
      PROVE  /\ manifest.snapshot.save \in Save
             /\ \A i \in 1 .. Len(manifest.changes) : manifest.changes[i].save \in Save
  <2>1. manifest \in Manifest /\ manifest.changes \in Seq(Change)
    BY <1>2 DEF TypeOK, Named, Manifest
  <2>2. \A i \in 1 .. Len(manifest.changes) : manifest.changes[i] \in Change
    BY <2>1, ElementOfSeq
  <2> QED BY <2>1, <2>2 DEF Manifest, Heads, Change
<1> QED BY <1>1, <1>2 DEF InHistory, InLog

LEMMA FreshCalls ==
    ASSUME TypeOK, NEW c \in Client
    PROVE  /\ BeginCompaction(c) => op'.fresh = FALSE
           /\ \A s \in Save, bundle \in BlobSets, mark \in Marks, edit \in Marks :
                 /\ \A keep \in BOOLEAN :
                       BeginAppend(c, s, bundle, keep, mark, edit) => op'.fresh = FALSE
                 /\ \A fresh \in Fresh :
                       BeginSnapshot(c, s, bundle, fresh, mark, edit) => op'.fresh = fresh
<1> HIDE DEF Stored
<1>1. BeginCompaction(c) => op'.fresh = FALSE
  BY DEF BeginCompaction, Idle
<1>2. \A s \in Save, bundle \in BlobSets, mark \in Marks, edit \in Marks, keep \in BOOLEAN :
          BeginAppend(c, s, bundle, keep, mark, edit) => op'.fresh = FALSE
  BY DEF BeginAppend, Idle
<1>3. \A s \in Save, bundle \in BlobSets, mark \in Marks, edit \in Marks, fresh \in Fresh :
          BeginSnapshot(c, s, bundle, fresh, mark, edit) => op'.fresh = fresh
  BY DEF BeginSnapshot, Idle
<1> QED BY <1>1, <1>2, <1>3

LEMMA LineageEditing ==
    ASSUME Inv, HeadKnown, LineageOK, Editing
    PROVE  LineageOK'
<1>a. /\ TypeOK /\ root \in [Save -> Save]
  BY DEF Inv, LogInv, TypeInv, TypeOK
<1>b. AtRest => ~Written /\ ~InFlight
  BY DEF AtRest, Written, InFlight
<1>c. Fresh \subseteq BOOLEAN
  BY DEF Fresh
<1>0. ASSUME NEW c \in Client, Decide(c) \/ Hear(c)
      PROVE  LineageOK'
  BY <1>0, PageStep, SameFresh DEF files, ghosts, SameFiles, InFlight, Unnamed, Written
<1>1. ASSUME NEW c \in Client, KnowHead(c)
      PROVE  LineageOK'
  BY <1>1, SameFresh DEF KnowHead, files, ghosts, SameFiles, InFlight, Unnamed, Written
<1>2. ASSUME NEW c \in Client, BeginCompaction(c)
      PROVE  LineageOK'
  <2>1. SameFiles /\ UNCHANGED <<made, root>> /\ AtRest
    BY <1>2 DEF BeginCompaction, files, ghosts, SameFiles
  <2>2. /\ op'.step = "blobs" /\ op'.fresh = FALSE /\ op'.save = known[c].save
        /\ known[c] \in Heads
    BY <1>2, <1>a, CompactionCall, FreshCalls
  <2>3. InFlight'
    BY <2>2 DEF InFlight
  <2> QED BY <1>b, <2>1, <2>2, <2>3, LineageFrame DEF HeadKnown
<1>3. ASSUME NEW c \in Client, NEW s \in Save, NEW bundle \in BlobSets,
             NEW mark \in Marks, NEW edit \in Marks, NEW keep \in BOOLEAN,
             BeginAppend(c, s, bundle, keep, mark, edit)
      PROVE  LineageOK'
  <2>1. /\ SameFiles /\ AtRest /\ known[c] \notin {None, Absent}
        /\ Make(c, s, IF keep THEN manifest.blobs ELSE bundle, FALSE)
    <3>1. UNCHANGED files
      BY <1>3 DEF BeginAppend
    <3>2. /\ AtRest /\ known[c] \notin {None, Absent}
          /\ Make(c, s, IF keep THEN manifest.blobs ELSE bundle, FALSE)
      BY <1>3, Zenon DEF BeginAppend
    <3> QED BY <3>1, <3>2 DEF files, SameFiles
  <2>2. op'.step = "change" /\ op'.save = s /\ op'.fresh = FALSE
    <3>1. op'.step = "change" /\ op'.save = s
      BY <1>3, <1>a, AppendCall
    <3>2. op'.fresh = FALSE
      BY <1>3, <1>a, FreshCalls
    <3> QED BY <3>1, <3>2
  <2>3. known[c] \in Heads
    BY <1>a, <2>1 DEF TypeOK
  <2>4. root'[s] = root[manifest.head.save]
    BY <1>a, <1>b, <2>1, <2>3 DEF HeadKnown, Make, Lineage
  <2> QED BY <2>1, <2>2, <2>4, LineageMade
<1>4. ASSUME NEW c \in Client, NEW s \in Save, NEW bundle \in BlobSets,
             NEW mark \in Marks, NEW edit \in Marks, NEW fresh \in Fresh,
             BeginSnapshot(c, s, bundle, fresh, mark, edit)
      PROVE  LineageOK'
  <2>1. /\ SameFiles /\ AtRest /\ known[c] # None
        /\ Make(c, s, bundle, fresh)
    BY <1>4 DEF BeginSnapshot, files, SameFiles
  <2>2. op'.step = "blobs" /\ op'.save = s /\ op'.fresh = fresh /\ op'.body = "snapshot"
    BY <1>4, <1>a, SnapshotCall, FreshCalls
  <2>3. known[c] \in Heads \cup {Absent}
    BY <1>a, <2>1 DEF TypeOK
  <2>4. Named /\ ~fresh => root'[s] = root[manifest.head.save]
    BY <1>a, <1>b, <2>1, <2>3, AbsentNotHead DEF HeadKnown, Make, Lineage
  <2>5. fresh \in BOOLEAN
    BY <1>c
  <2> QED BY <2>1, <2>2, <2>4, <2>5, LineageMade
<1> QED BY <1>0, <1>1, <1>2, <1>3, <1>4 DEF Editing

LEMMA LineageWriting ==
    ASSUME Inv, Inv', LineageOK, Writing
    PROVE  LineageOK'
<1>a. /\ TypeInv /\ TypeOK /\ TypeOK' /\ op \in OpType /\ CallVersion' /\ CallVersion /\ LogOK'
  BY DEF Inv, LogInv, TypeInv, TypeOK, RecoveryOK, VersionOK
<1>b. SameCall(op) /\ InFlight /\ InFlight' /\ op'.save = op.save /\ op'.body = op.body
  BY <1>a, WritingCall DEF SameCall
<1>c. /\ op'.fresh = op.fresh
      /\ UNCHANGED <<history, made, root>>
  <2>1. \A step \in Steps : op' = [op EXCEPT !.step = step] => op'.fresh = op.fresh
    BY <1>a DEF OpType
  <2>2. op' = op \/ \E step \in Steps : op' = [op EXCEPT !.step = step]
    BY DEF Writing, StoreBlob, WriteChange, NameChange, NamePending, RenameSnapshot,
           NameSnapshot, SweepChange, Steps, memory
  <2>3. UNCHANGED <<history, made, root>>
    BY DEF Writing, StoreBlob, WriteChange, NameChange, NamePending, RenameSnapshot,
           NameSnapshot, SweepChange, ghosts
  <2> QED BY <2>1, <2>2, <2>3
<1>d. op.save \in made
  BY <1>a, <1>b DEF CallVersion
<1>e. ASSUME UNCHANGED manifest, Unnamed' => Unnamed, Written => Written'
      PROVE  LineageOK'
  BY <1>b, <1>c, <1>e, SameFresh DEF SameFiles
<1>1. ASSUME NEW b \in Blob, StoreBlob(b)
      PROVE  LineageOK'
  BY <1>1, <1>e DEF StoreBlob, memory, Unnamed, Written
<1>2. CASE WriteChange
  BY <1>2, <1>a, <1>e, StepCall DEF WriteChange, Steps, Unnamed, Written
<1>3. CASE NameChange
  <2>1. op'.step = "history" /\ op.step = "blobs"
    BY <1>3, <1>a, StepCall DEF NameChange, Steps
  <2>2. Written' /\ Named' /\ Named /\ ~Unnamed' /\ Unnamed /\ ~Written
    BY <1>a, <2>1, <1>3, NameChangeManifest, DocEntryAssumption DEF Written, Named, Unnamed
  <2>3. manifest'.head.save = op.save
    BY <1>a, <1>b, <2>2 DEF CallVersion
  <2>4. manifest'.snapshot = manifest.snapshot
    BY <1>3 DEF NameChange
  <2>5. \A s \in Save : InLog(s)' => InLog(s) \/ s = op.save
    <3> DEFINE x == [seq |-> op.seq, base |-> op.base, save |-> op.save]
    <3>1. manifest'.changes = Append(manifest.changes, x)
      BY <1>3, <1>a, NameChangeManifest
    <3>2. manifest.changes \in Seq(Change) /\ x.save = op.save
      BY <1>a, <2>2, LogLength
    <3>3. \A i \in 1 .. Len(manifest'.changes) :
              \/ manifest'.changes[i] = x
              \/ i \in 1 .. Len(manifest.changes) /\ manifest'.changes[i] = manifest.changes[i]
      BY <3>1, <3>2, AppendProperties, LenProperties
    <3>4. ASSUME NEW s \in Save, InLog(s)'
          PROVE  InLog(s) \/ s = op.save
      <4>1. CASE s = manifest'.snapshot.save
        BY <2>2, <2>4, <4>1 DEF InLog
      <4>2. ASSUME NEW i \in 1 .. Len(manifest'.changes), s = manifest'.changes[i].save
            PROVE  InLog(s) \/ s = op.save
        BY <2>2, <3>2, <3>3, <4>2 DEF InLog
      <4> QED BY <3>4, <4>1, <4>2 DEF InLog
    <3> QED BY <3>4
  <2>6. \A s \in Save : InHistory(s)' <=> InHistory(s)
    BY <1>c DEF InHistory
  <2>7. ~op.fresh => root[op.save] = root[manifest.head.save]
    BY <2>2 DEF LineageOK
  <2>8. ~op.fresh
    BY <1>3 DEF NameChange, LineageOK
  <2> QED BY <1>b, <1>c, <1>d, <2>2, <2>3, <2>5, <2>6, <2>7, <2>8 DEF LineageOK
<1>4. CASE NamePending
  <2>1. op'.step = "rename" /\ op.step = "blobs"
    BY <1>4, <1>a, StepCall DEF NamePending, Steps
  <2>2. /\ Named /\ Named' /\ manifest'.head = manifest.head
        /\ manifest'.snapshot = manifest.snapshot /\ manifest'.changes = manifest.changes
    BY <1>4, <1>a, NamePendingManifest, DocEntryAssumption DEF Named
  <2>3. \A s : (InLog(s)' <=> InLog(s)) /\ (InHistory(s)' <=> InHistory(s))
    BY <1>c, <2>2 DEF InLog, InHistory
  <2>4. Unnamed /\ ~Written /\ ~Written'
    BY <2>1 DEF Unnamed, Written
  <2> QED BY <1>b, <1>c, <2>2, <2>3, <2>4 DEF LineageOK
<1>5. CASE RenameSnapshot
  BY <1>5, <1>a, <1>e, StepCall DEF RenameSnapshot, Steps, Unnamed, Written
<1>6. CASE NameSnapshot
  <2>1. op'.step = "sweep" /\ op.step = "name"
    BY <1>6, <1>a, StepCall DEF NameSnapshot, Steps
  <2>2. Written' /\ Named' /\ ~Unnamed' /\ Unnamed /\ ~Written
    BY <1>a, <2>1, <1>6, NameSnapshotManifest, DocEntryAssumption DEF Written, Named, Unnamed
  <2>3. /\ manifest'.head.save = op.save /\ manifest'.snapshot.save = op.save
        /\ manifest'.changes = <<>>
    BY <1>6, <1>a, NameSnapshotManifest
  <2>4. \A s : InLog(s)' => s = op.save
    <3>1. Len(manifest'.changes) = 0
      BY <2>3
    <3> QED BY <2>3, <3>1 DEF InLog
  <2>5. \A s : InHistory(s)' <=> InHistory(s)
    BY <1>c DEF InHistory
  <2>6. ~op.fresh => \A s \in Save : InHistory(s) => root[s] = root[op.save]
    BY <2>2 DEF LineageOK
  <2> QED BY <1>b, <1>c, <1>d, <2>2, <2>3, <2>4, <2>5, <2>6 DEF LineageOK
<1>7. ASSUME NEW f \in changeFiles, SweepChange(f)
      PROVE  LineageOK'
  BY <1>7, <1>e DEF SweepChange, memory, Unnamed, Written
<1> QED BY <1>1, <1>2, <1>3, <1>4, <1>5, <1>6, <1>7 DEF Writing

\* A checkpoint of the stored version is of its lineage.
LEMMA HistoryGrows ==
    ASSUME TypeOK, LineageOK, NEW cp \in Checkpoint, history' = Recorded(history, cp),
           Named, cp.save = manifest.head.save, manifest.head.save \in made,
           ~(Written /\ op.fresh), UNCHANGED <<manifest, made, root>>,
           op'.fresh = op.fresh, op'.save = op.save, op'.body = op.body,
           InFlight => InFlight', Unnamed' => Unnamed
    PROVE  LineageOK'
<1>1. ASSUME NEW s \in Save, InHistory(s)'
      PROVE  InHistory(s) \/ s = manifest.head.save
  <2>1. PICK i \in 1 .. Len(history') : s = history'[i].save
    BY <1>1 DEF InHistory
  <2>2. history'[i] = cp \/ \E j \in 1 .. Len(history) : history'[i] = history[j]
    BY RecordedElements DEF TypeOK
  <2> QED BY <2>1, <2>2 DEF InHistory
<1>2. \A s \in Save : InLog(s)' <=> InLog(s)
  BY DEF InLog, Named
<1>3. Named' /\ manifest'.head.save = manifest.head.save
  BY DEF Named
<1>4. \A s \in Save : InHistory(s)' => s \in made /\ root[s] = root[manifest.head.save]
  BY <1>1 DEF LineageOK
<1> QED BY <1>2, <1>3, <1>4 DEF LineageOK

LEMMA LineageRecording ==
    ASSUME Inv, LineageOK, Recording
    PROVE  LineageOK'
<1>a. /\ TypeInv /\ TypeOK /\ op \in OpType /\ OpOK /\ CallVersion /\ ManifestVersion
  BY DEF Inv, LogInv, TypeInv, TypeOK, RecoveryOK, VersionOK
<1>b. UNCHANGED <<manifest, made, root>>
  BY <1>a, RecordingFrame
<1>c. Written => InFlight /\ ~Unnamed
  BY DEF Written, InFlight, Unnamed
<1>d. Named => /\ manifest \in Manifest /\ manifest.head.save \in Save
               /\ manifest.head.seq \in Nat /\ manifest.blobs \in Bundle
               /\ manifest.head.save \in made
  BY <1>a DEF TypeOK, Named, Manifest, Heads, ManifestVersion
<1>1. CASE ClearHistory
  <2>1. Written /\ history' = <<>> /\ op' = [op EXCEPT !.step = "history", !.fresh = FALSE]
    BY <1>1, SweptWritten DEF ClearHistory
  <2>2. op'.step = "history" /\ op'.fresh = FALSE
    BY <1>a, <2>1 DEF OpType
  <2>3. /\ \A s : ~InHistory(s)'
        /\ \A s : InLog(s)' <=> InLog(s)
        /\ Named' <=> Named
    <3>1. Len(history') = 0
      BY <2>1
    <3> QED BY <1>b, <3>1 DEF InHistory, InLog, Named
  <2>4. ~Unnamed'
    BY <2>2 DEF Unnamed
  <2> QED BY <1>b, <2>2, <2>3, <2>4 DEF LineageOK
<1>2. CASE RecordCheckpoint
  <2> DEFINE cp == [save |-> op.save, seq |-> op.seq, blobs |-> manifest.blobs,
                    edit |-> op.edit]
  <2>1. /\ Written /\ history' = Recorded(history, cp) /\ ~op.fresh
        /\ op' = [op EXCEPT !.step = "history", !.mark = FALSE]
    BY <1>2, SweptWritten DEF RecordCheckpoint
  <2>2. /\ op'.step = "history" /\ op'.fresh = op.fresh /\ op'.save = op.save
        /\ op'.body = op.body
    BY <1>a, <2>1 DEF OpType
  <2>3. Named /\ op.save = manifest.head.save /\ op.seq \in Nat /\ op.edit \in BOOLEAN
    BY <1>a, <2>1 DEF OpOK, CallVersion, OpType
  <2>4. cp \in Checkpoint /\ cp.save = manifest.head.save
    BY <1>d, <2>3 DEF Checkpoint
  <2>5. InFlight' /\ ~Unnamed'
    BY <2>2 DEF InFlight, Unnamed
  <2> QED BY <1>a, <1>b, <1>d, <2>1, <2>2, <2>3, <2>4, <2>5, HistoryGrows
<1>3. ASSUME NEW b \in Blob, CollectBlob(b)
      PROVE  LineageOK'
  <2>1. /\ Written /\ history' = history /\ op' = [op EXCEPT !.step = "history"]
    BY <1>3, SweptWritten DEF CollectBlob
  <2>2. /\ op'.step = "history" /\ op'.fresh = op.fresh /\ op'.save = op.save
        /\ op'.body = op.body
    BY <1>a, <2>1 DEF OpType
  <2>3. InFlight' /\ ~Unnamed' /\ Written'
    BY <2>2 DEF InFlight, Unnamed, Written
  <2> QED BY <1>b, <2>1, <2>2, <2>3, SameFresh DEF SameFiles
<1>4. CASE Finish
  <2>1. /\ op' = Idle /\ ~op.fresh /\ UNCHANGED files
    BY <1>4 DEF Finish
  <2>2. op'.step = "idle" /\ op'.fresh = FALSE
    BY <2>1, IdleFields
  <2>3. SameFiles /\ ~Unnamed'
    BY <2>1, <2>2 DEF files, SameFiles, Unnamed
  <2> QED BY <1>b, <2>1, <2>2, <2>3, LineageFrame
<1>5. ASSUME NEW edit \in BOOLEAN, CheckpointNow(edit)
      PROVE  LineageOK'
  <2> DEFINE cp == [save |-> manifest.head.save, seq |-> manifest.head.seq,
                    blobs |-> manifest.blobs, edit |-> edit]
  <2>1. /\ AtRest /\ Named /\ op' = op /\ history' = Recorded(history, cp)
    BY <1>5 DEF CheckpointNow, Named, memory
  <2>2. cp \in Checkpoint /\ cp.save = manifest.head.save
    BY <1>d, <2>1 DEF Checkpoint
  <2>3. ~Written /\ (InFlight => InFlight') /\ (Unnamed' => Unnamed)
    BY <2>1 DEF AtRest, Written, InFlight, Unnamed
  <2> QED BY <1>a, <1>b, <1>d, <2>1, <2>2, <2>3, HistoryGrows
<1> QED BY <1>1, <1>2, <1>3, <1>4, <1>5 DEF Recording

LEMMA EditingKeeps ==
    ASSUME Editing
    PROVE  /\ UNCHANGED interruptions
           /\ (\E c \in Client : KnowHead(c)) \/ UNCHANGED known
<1>0. ASSUME NEW c \in Client, Decide(c) \/ Hear(c)
      PROVE  UNCHANGED <<known, interruptions>>
  BY <1>0, PageStep DEF ghosts
<1>1. ASSUME NEW c \in Client, KnowHead(c)
      PROVE  UNCHANGED interruptions
  BY <1>1 DEF KnowHead, ghosts
<1>2. ASSUME NEW c \in Client, BeginCompaction(c)
      PROVE  UNCHANGED <<known, interruptions>>
  BY <1>2 DEF BeginCompaction, ghosts
<1>3. ASSUME NEW c \in Client, NEW s \in Save, NEW bundle \in BlobSets,
             NEW mark \in Marks, NEW edit \in Marks, NEW keep \in BOOLEAN,
             BeginAppend(c, s, bundle, keep, mark, edit)
      PROVE  UNCHANGED <<known, interruptions>>
  BY <1>3 DEF BeginAppend
<1>4. ASSUME NEW c \in Client, NEW s \in Save, NEW bundle \in BlobSets,
             NEW mark \in Marks, NEW edit \in Marks, NEW fresh \in Fresh,
             BeginSnapshot(c, s, bundle, fresh, mark, edit)
      PROVE  UNCHANGED <<known, interruptions>>
  BY <1>4 DEF BeginSnapshot
<1> QED BY <1>0, <1>1, <1>2, <1>3, <1>4 DEF Editing

\* An editor's own write is the only one between its reading the head and its next reading.
LEMMA HeadKnownStep ==
    ASSUME Inv, Inv', OneEditor, HeadKnown, ~MayDelete, [Next]_vars, ~Fail, ~Crash
    PROVE  HeadKnown'
<1>a. /\ TypeInv /\ TypeOK /\ OpOK /\ LogOK /\ op \in OpType
      /\ known \in [Client -> Heads \cup {Absent, None}]
  BY DEF Inv, LogInv, TypeInv, TypeOK
<1>b. AtRest => ~Written
  BY DEF AtRest, Written
<1>c. ASSUME UNCHANGED <<manifest, known>>, ~Written \/ op' = op
      PROVE  HeadKnown'
  BY <1>c DEF HeadKnown, Named, Written
<1>d. ASSUME Written'
      PROVE  HeadKnown'
  BY <1>d DEF HeadKnown
<1>1. ASSUME NEW c \in Client, KnowHead(c)
      PROVE  HeadKnown'
  <2>1. /\ UNCHANGED manifest /\ ~Written
        /\ known' = [known EXCEPT ![c] = ReadHead]
    BY <1>1, <1>b DEF KnowHead, files
  <2>2. \A d \in Client : known'[d] = ReadHead
    BY <1>a, <2>1 DEF OneEditor
  <2>3. /\ ReadHead \in Heads => Named /\ ReadHead.save = manifest.head.save
        /\ ReadHead \notin Heads => ~Named
    <3>1. Named => manifest.head \in Heads
      BY <1>a DEF TypeOK, Named, Manifest
    <3> QED BY <3>1, AbsentNotHead DEF ReadHead, Named
  <2> QED BY <2>1, <2>2, <2>3 DEF HeadKnown, Named
<1>2. CASE Editing /\ UNCHANGED known
  <2>1. UNCHANGED manifest /\ (AtRest \/ op' = op)
    BY <1>2, <1>a, EditingBegins DEF files
  <2>2. UNCHANGED <<manifest, known>> /\ (~Written \/ op' = op)
    BY <1>2, <1>b, <2>1
  <2> QED BY <1>c, <2>2
<1>3. CASE Editing
  <2>1. (\E c \in Client : KnowHead(c)) \/ UNCHANGED known
    BY <1>3, EditingKeeps
  <2> QED BY <1>1, <1>2, <1>3, <2>1
<1>4. CASE Writing
  <2>1. UNCHANGED known
    BY <1>4 DEF Writing, StoreBlob, WriteChange, NameChange, NamePending, RenameSnapshot,
                NameSnapshot, SweepChange, memory
  <2>2. CASE NameChange
    <3>1. op'.step = "history"
      BY <1>a, <2>2, StepCall DEF NameChange, Steps
    <3> QED BY <1>d, <3>1 DEF Written
  <2>3. CASE NameSnapshot
    <3>1. op'.step = "sweep"
      BY <1>a, <2>3, StepCall DEF NameSnapshot, Steps
    <3> QED BY <1>d, <3>1 DEF Written
  <2>4. CASE NamePending
    <3>1. Named /\ Named' /\ manifest'.head = manifest.head
      BY <2>4, <1>a, NamePendingManifest, DocEntryAssumption DEF Named
    <3>2. ~Written
      BY <2>4 DEF NamePending, Written
    <3> QED BY <2>1, <3>1, <3>2 DEF HeadKnown
  <2>5. ASSUME NEW f \in changeFiles, SweepChange(f)
        PROVE  HeadKnown'
    BY <1>d, <2>5 DEF SweepChange, Written, memory
  <2>6. CASE WriteChange \/ RenameSnapshot \/ \E b \in Blob : StoreBlob(b)
    <3>1. UNCHANGED manifest /\ ~Written
      BY <2>6 DEF WriteChange, RenameSnapshot, StoreBlob, Written
    <3> QED BY <1>c, <2>1, <3>1
  <2> QED BY <1>4, <2>2, <2>3, <2>4, <2>5, <2>6 DEF Writing
<1>5. CASE Recording
  <2>1. CASE Finish
    <3>1. known' = [known EXCEPT ![op.client] = None] /\ Written
      BY <2>1, SweptWritten DEF Finish
    <3>2. op.client \in Client
      BY <1>a, <3>1 DEF OpOK, InFlight, Written
    <3>3. \A c \in Client : known'[c] = None
      BY <1>a, <3>1, <3>2 DEF OneEditor
    <3> QED BY <3>3, DocEntryAssumption DEF HeadKnown
  <2>2. CASE ~Finish
    <3>1. /\ UNCHANGED manifest
          /\ op' = op \/ (Written /\ Written')
      BY <1>5, <1>a, <2>2, RecordingCall
    <3>2. UNCHANGED known
      BY <1>5, <2>2 DEF Recording, ClearHistory, RecordCheckpoint, CollectBlob, CheckpointNow,
                        memory
    <3> QED BY <1>c, <1>d, <3>1, <3>2 DEF Written
  <2> QED BY <2>1, <2>2
<1>6. CASE Deleting
  BY <1>6, <1>a DEF Deleting, BeginDelete, DeleteFile, FinishDelete, LogOK
<1>7. CASE Damage \/ UNCHANGED vars
  <2>1. UNCHANGED <<manifest, known, op>>
    BY <1>7 DEF Damage, memory, vars
  <2> QED BY <1>c, <1>d, <2>1 DEF Written
<1> QED BY <1>3, <1>4, <1>5, <1>6, <1>7 DEF Next

LEMMA LineageStep ==
    ASSUME Inv, Inv', HeadKnown, LineageOK, ~MayDelete, [Next]_vars, ~Fail, ~Crash
    PROVE  LineageOK'
<1>a. LogOK
  BY DEF Inv, LogInv
<1>1. CASE Deleting
  BY <1>1, <1>a DEF Deleting, BeginDelete, DeleteFile, FinishDelete, LogOK
<1>2. CASE Damage \/ UNCHANGED vars
  <2>1. SameFiles /\ UNCHANGED <<op, made, root>>
    BY <1>2 DEF Damage, memory, vars, SameFiles
  <2>2. /\ op'.fresh = op.fresh /\ op'.save = op.save /\ op'.body = op.body
        /\ InFlight => InFlight'
        /\ Unnamed' => Unnamed
        /\ Written => Written'
    BY <2>1 DEF InFlight, Unnamed, Written
  <2> QED BY <2>1, <2>2, SameFresh
<1> QED BY <1>1, <1>2, LineageEditing, LineageWriting, LineageRecording DEF Next

\* Until something is interrupted, what one editor keeps is of one lineage.
LineageInv == interruptions = 0 => HeadKnown /\ LineageOK

LEMMA OnlyInterruptionsCount ==
    ASSUME [Next]_vars, ~Fail, ~Crash
    PROVE  UNCHANGED interruptions
<1>1. CASE Editing
  BY <1>1, EditingKeeps
<1>2. CASE Writing
  BY <1>2 DEF Writing, StoreBlob, WriteChange, NameChange, NamePending, RenameSnapshot,
              NameSnapshot, SweepChange, ghosts
<1>3. CASE Recording
  BY <1>3 DEF Recording, ClearHistory, RecordCheckpoint, CollectBlob, Finish, CheckpointNow, ghosts
<1>4. CASE Deleting
  BY <1>4 DEF Deleting, BeginDelete, DeleteFile, FinishDelete, ghosts
<1>5. CASE Damage \/ UNCHANGED vars
  BY <1>5 DEF Damage, vars
<1> QED BY <1>1, <1>2, <1>3, <1>4, <1>5 DEF Next

LEMMA LineageInvariance ==
    ASSUME ~MayDelete, OneEditor
    PROVE  Spec => []LineageInv
<1>1. Init => LineageInv
  <2> SUFFICES ASSUME Init PROVE HeadKnown /\ LineageOK
    BY DEF LineageInv
  <2>1. /\ op.step = "idle" /\ op.body = "none" /\ op.fresh = FALSE /\ ~Named /\ Len(history) = 0
        /\ \A c \in Client : known[c] = None
    BY IdleFields DEF Init, Named
  <2>2. \A s : ~InHistory(s) /\ ~InLog(s)
    BY <2>1 DEF InHistory, InLog
  <2> QED BY <2>1, <2>2, DocEntryAssumption DEF HeadKnown, LineageOK, Unnamed
<1>2. Inv /\ Inv' /\ LineageInv /\ [Next]_vars => LineageInv'
  <2> SUFFICES ASSUME Inv, Inv', LineageInv, [Next]_vars, interruptions' = 0
               PROVE  HeadKnown' /\ LineageOK'
    BY DEF LineageInv
  <2>1. interruptions \in Nat
    BY DEF Inv, LogInv, TypeInv, TypeOK
  <2>2. ~Fail /\ ~Crash
    BY <2>1 DEF Fail, Crash, Interrupted
  <2>3. interruptions = 0
    <3>1. UNCHANGED interruptions
      BY <2>2, OnlyInterruptionsCount
    <3> QED BY <3>1
  <2> QED BY <2>2, <2>3, HeadKnownStep, LineageStep DEF LineageInv
<1> QED BY <1>1, <1>2, RecoveryInvariance, PTL DEF Spec

\* The checkpoints an editor finds are of the stored replica's lineage (history.rs:173-174,
\* mod.rs:219), if it is the document's only one, nothing was interrupted and nothing deleted.
THEOREM CheckpointsStayOfTheLineage ==
    ASSUME ~MayDelete, OneEditor
    PROVE  Spec => []CheckpointsOfTheLineage
<1>1. Inv /\ LineageInv => CheckpointsOfTheLineage
  <2> SUFFICES ASSUME Inv, LineageInv, AtRest, interruptions = 0, SnapshotNamed,
                      NEW i \in 1 .. Len(history)
               PROVE  root[history[i].save] = root[Read.at]
    BY DEF CheckpointsOfTheLineage
  <2>1. LineageOK /\ ~Written
    BY DEF LineageInv, AtRest, Written
  <2>2. InHistory(history[i].save) /\ InLog(Read.at)
    BY ReadOfLog DEF InHistory, InLog
  <2>3. history[i].save \in Save /\ Read.at \in Save
    BY <2>2, AnySaveTyped DEF Inv, LogInv, TypeInv
  <2> QED BY <2>1, <2>2, <2>3 DEF LineageOK
<1> QED BY <1>1, LineageInvariance, RecoveryInvariance, PTL

-----------------------------------------------------------------------------
(* A reader of another Kition.                                             *)

\* A manifest that the writer wrote whole, whatever it writes next.
Sound(m) ==
    /\ m \in Manifest
    /\ LogOf(m)
    /\ m.meta = m.head.save
    /\ m.head.save \in made
    /\ m.blobs = carried[m.head.save]
    /\ m.snapshot.save \in made
    /\ m.pending # None =>
          m.pending.save \in made /\ m.pending.blobs = carried[m.pending.save]

\* The snapshot that m names is not there, and comes back only to make the entry
\* read as m's version again.
SnapshotGone(m) ==
    /\ Named
    /\ snapshotFile # m.snapshot.save
    /\ \/ /\ manifest.snapshot.save = m.snapshot.save
          /\ manifest.head.save = m.head.save
       \/ /\ manifest.head.save # m.snapshot.save
          /\ InFlight => op.save # m.snapshot.save

\* The same of the snapshot that m calls pending.
PendingGone(m) ==
    /\ Named
    /\ snapshotFile # m.pending.save
    /\ manifest.snapshot.save # m.pending.save

ManifestRead == view.step = "snapshot" =>
    /\ Sound(view.m)
    /\ cut \/ view.m.head.save \in window \/ SnapshotGone(view.m)
    /\ view.m.pending # None /\ view.m.pending.save # view.m.snapshot.save =>
          cut \/ view.m.pending.save \in window \/ PendingGone(view.m)

\* The version the first k changes of m bring its snapshot to.
Reaches(m, k) == IF k = 0 THEN m.snapshot.save ELSE m.changes[k].save

SnapshotRead == view.step = "changes" =>
    /\ Sound(view.m)
    /\ view.answer # None
    /\ view.answer.meta = view.m.head.save
    /\ view.answer.version = view.m.head.save
    /\ view.answer.blobs = view.m.blobs
    /\ view.answer.complete
    /\ \E k \in 0 .. Len(view.m.changes) :
          /\ view.left = (k + 1) .. Len(view.m.changes)
          /\ view.answer.at = Reaches(view.m, k)
    /\ cut \/ view.m.head.save \in window

PartsRead ==
    /\ view.step = "blobs" => view.answer # None
    /\ view.step \in {"blobs", "done"} /\ view.answer # None =>
          /\ view.answer.at # None
          /\ view.answer.complete =>
                /\ OneSave(view.answer)
                /\ view.answer.at \in made
                /\ cut \/ view.answer.at \in window

ViewType ==
    view \in [step : {"idle", "snapshot", "changes", "blobs", "done"},
              m : Manifest \cup {None}, left : SUBSET (Nat \cup Blob),
              answer : Entry \cup {None}]

SnapshotMade == Named => manifest.snapshot.save \in made

ReaderInv == ViewType /\ ManifestRead /\ SnapshotRead /\ PartsRead

-----------------------------------------------------------------------------
(* What the writer's steps leave of what a reader has read.                *)

\* Saves are only ever added, each with its blobs.
LEMMA MadeGrows ==
    ASSUME Inv, [Next]_vars
    PROVE  made \subseteq made' /\ \A s \in made : carried'[s] = carried[s]
<1>a. TypeInv /\ TypeOK
  BY DEF Inv, LogInv, TypeInv
<1>1. CASE UNCHANGED <<made, carried>>
  BY <1>1
<1>2. CASE Editing
  <2>1. ASSUME NEW c \in Client, NEW s \in Save, NEW bundle \in BlobSets,
               NEW mark \in Marks, NEW edit \in Marks, NEW keep \in BOOLEAN,
               BeginAppend(c, s, bundle, keep, mark, edit)
        PROVE  made \subseteq made' /\ \A x \in made : carried'[x] = carried[x]
    <3>1. manifest \in Manifest
      BY <1>a, <2>1, AppendCall
    <3>2. (IF keep THEN manifest.blobs ELSE bundle) \in Bundle
      BY <3>1, DocEntryAssumption DEF Manifest
    <3> QED BY <1>a, <2>1, <3>2, MakeFrame DEF BeginAppend
  <2>2. ASSUME NEW c \in Client, NEW s \in Save, NEW bundle \in BlobSets,
               NEW mark \in Marks, NEW edit \in Marks, NEW fresh \in Fresh,
               BeginSnapshot(c, s, bundle, fresh, mark, edit)
        PROVE  made \subseteq made' /\ \A x \in made : carried'[x] = carried[x]
    <3>1. bundle \in Bundle
      BY DocEntryAssumption
    <3> QED BY <1>a, <2>2, <3>1, MakeFrame DEF BeginSnapshot
  <2> QED BY <1>1, <1>2, <2>1, <2>2, PageStep DEF Editing, KnowHead, BeginCompaction, ghosts
<1>3. CASE Writing
  <2>1. UNCHANGED <<made, carried>>
    BY <1>3 DEF Writing, StoreBlob, WriteChange, NameChange, NamePending, RenameSnapshot,
                NameSnapshot, SweepChange, ghosts
  <2> QED BY <1>1, <2>1
<1>4. CASE Recording
  BY <1>1, <1>4, <1>a, RecordingFrame
<1>5. CASE Deleting \/ Fail \/ Crash \/ Damage \/ UNCHANGED vars
  <2>1. UNCHANGED <<made, carried>>
    BY <1>5 DEF Deleting, BeginDelete, DeleteFile, FinishDelete, ghosts, Fail, Crash,
                Interrupted, Damage, vars
  <2> QED BY <1>1, <2>1
<1> QED BY <1>2, <1>3, <1>4, <1>5 DEF Next

\* So a manifest once written whole stays so.
LEMMA SoundStays ==
    ASSUME NEW m, Sound(m), made \subseteq made', \A s \in made : carried'[s] = carried[s]
    PROVE  Sound(m)'
  BY DEF Sound

LEMMA ManifestSound ==
    ASSUME Inv, SnapshotMade, Named
    PROVE  Sound(manifest)
<1>1. /\ manifest \in Manifest
      /\ LogOf(manifest)
      /\ ManifestVersion
  BY DEF Inv, LogInv, LogOK, TypeInv, TypeOK, Named, RecoveryOK, VersionOK
<1> QED BY <1>1 DEF Sound, ManifestVersion, SnapshotMade

\* Which call the writer begins: of a new save, or a fold of what its editor knows.
LEMMA WhatBegins ==
    ASSUME TypeOK, Editing
    PROVE  \/ op' = op
           \/ op'.save \notin made
           \/ \E c \in Client : BeginCompaction(c) /\ op'.save = known[c].save
<1>1. ASSUME NEW c \in Client, BeginCompaction(c)
      PROVE  op'.save = known[c].save
  BY <1>1, CompactionCall
<1>2. ASSUME NEW c \in Client, NEW s \in Save, NEW bundle \in BlobSets,
             NEW mark \in Marks, NEW edit \in Marks, NEW keep \in BOOLEAN,
             BeginAppend(c, s, bundle, keep, mark, edit)
      PROVE  op'.save \notin made
  <2>1. op'.save = s
    BY <1>2, AppendCall
  <2> QED BY <1>2, <2>1 DEF BeginAppend, Make
<1>3. ASSUME NEW c \in Client, NEW s \in Save, NEW bundle \in BlobSets,
             NEW mark \in Marks, NEW edit \in Marks, NEW fresh \in Fresh,
             BeginSnapshot(c, s, bundle, fresh, mark, edit)
      PROVE  op'.save \notin made
  <2>1. op'.save = s
    BY <1>3, SnapshotCall
  <2> QED BY <1>3, <2>1 DEF BeginSnapshot, Make
<1>4. ASSUME NEW c \in Client, KnowHead(c) \/ Decide(c) \/ Hear(c)
      PROVE  op' = op
  BY <1>4, PageStep DEF KnowHead
<1> QED BY <1>1, <1>2, <1>3, <1>4 DEF Editing

\* What a step of the writer does to the manifest and to the snapshot.
LEMMA FilesMove ==
    ASSUME Inv, ~MayDelete, [Next]_vars
    PROVE  \/ NameChange \/ NamePending \/ RenameSnapshot \/ NameSnapshot
           \/ UNCHANGED <<manifest, snapshotFile>>
<1>a. TypeInv /\ TypeOK /\ LogOK
  BY DEF Inv, LogInv, TypeInv
<1>1. CASE Editing
  BY <1>1, <1>a, EditingBegins DEF files
<1>2. CASE Writing
  BY <1>2 DEF Writing, StoreBlob, WriteChange, SweepChange
<1>3. CASE Recording
  BY <1>3, <1>a, RecordingFrame
<1>4. CASE Deleting
  BY <1>4, <1>a DEF Deleting, BeginDelete, DeleteFile, FinishDelete, LogOK
<1>5. CASE Fail \/ Crash \/ Damage \/ UNCHANGED vars
  BY <1>5 DEF Fail, Crash, Interrupted, Damage, files, vars
<1> QED BY <1>1, <1>2, <1>3, <1>4, <1>5 DEF Next

\* Whose save the call in flight brings after a step.
LEMMA CallMoves ==
    ASSUME Inv, ~MayDelete, [Next]_vars, InFlight'
    PROVE  \/ InFlight /\ op'.save = op.save
           \/ UNCHANGED <<manifest, snapshotFile>> /\ op'.save \notin made
           \/ /\ UNCHANGED <<manifest, snapshotFile>>
              /\ \E c \in Client : BeginCompaction(c) /\ op'.save = known[c].save
<1>a. TypeInv /\ TypeOK /\ LogOK
  BY DEF Inv, LogInv, TypeInv
<1>0. CASE op' = op
  BY <1>0 DEF InFlight
<1>1. CASE Editing
  BY <1>0, <1>1, <1>a, EditingBegins, WhatBegins DEF files
<1>2. CASE Writing
  BY <1>2, <1>a, WritingCall DEF SameCall
<1>3. CASE Recording
  <2>1. CASE Finish
    BY <2>1, IdleFields DEF Finish, InFlight
  <2>2. CASE ~Finish
    <3>1. op' = op \/ (Written /\ SameCall(op))
      BY <1>3, <2>2, <1>a, RecordingCall
    <3> QED BY <1>0, <3>1 DEF SameCall, Written, InFlight
  <2> QED BY <2>1, <2>2
<1>4. CASE Deleting
  BY <1>4, <1>a DEF Deleting, BeginDelete, DeleteFile, FinishDelete, LogOK
<1>5. CASE Fail \/ Crash
  BY <1>5, IdleFields DEF Fail, Crash, Interrupted, InFlight
<1>6. CASE Damage \/ UNCHANGED vars
  BY <1>0, <1>6 DEF Damage, memory, vars
<1> QED BY <1>1, <1>2, <1>3, <1>4, <1>5, <1>6 DEF Next

\* The reader's snapshot, gone from the file, comes back only with the version it had.
LEMMA SnapshotStaysGone ==
    ASSUME Inv, Inv', ~MayDelete, [Next]_vars, ~damaged', ~GoesBack,
           NEW m, m.snapshot.save \in made, SnapshotGone(m)
    PROVE  SnapshotGone(m)' \/ Stored' = m.head.save
<1> DEFINE ours == /\ manifest.snapshot.save = m.snapshot.save
                   /\ manifest.head.save = m.head.save
           past == /\ manifest.head.save # m.snapshot.save
                   /\ InFlight => op.save # m.snapshot.save
<1>a. /\ TypeInv /\ TypeOK /\ OpOK /\ PendingOK /\ CallVersion /\ op \in OpType
  BY DEF Inv, LogInv, TypeInv, TypeOK, RecoveryOK, VersionOK
<1>b. Named /\ snapshotFile # m.snapshot.save /\ (ours \/ past)
  BY DEF SnapshotGone
<1>c. Stored' = StoredNow'
  BY StoredReadsNext
<1>d. ASSUME Named', snapshotFile' # m.snapshot.save,
             manifest'.head.save # m.snapshot.save, InFlight' => op'.save # m.snapshot.save
      PROVE  SnapshotGone(m)'
  BY <1>d DEF SnapshotGone
<1>e. ASSUME Named', snapshotFile' # m.snapshot.save,
             manifest'.snapshot.save = m.snapshot.save, manifest'.head.save = m.head.save
      PROVE  SnapshotGone(m)'
  BY <1>e DEF SnapshotGone
<1> HIDE DEF ours, past
<1>1. CASE UNCHANGED <<manifest, snapshotFile>>
  <2>1. Named'
    BY <1>1, <1>b DEF Named
  <2>2. CASE ours
    BY <1>1, <1>b, <1>e, <2>1, <2>2 DEF ours
  <2>3. CASE past
    <3>1. ASSUME NEW c \in Client, BeginCompaction(c), op'.save = known[c].save
          PROVE  op'.save # m.snapshot.save
      BY <1>b, <2>3, <3>1 DEF GoesBack, ReadHead, Named, past
    <3>2. InFlight' => op'.save # m.snapshot.save
      BY <2>3, <3>1, CallMoves DEF past
    <3> QED BY <1>1, <1>b, <1>d, <2>1, <2>3, <3>2 DEF past
  <2> QED BY <1>b, <2>2, <2>3
<1>2. CASE NameChange
  <2>1. op.body = "changes" /\ InFlight /\ snapshotFile' = snapshotFile
    BY <1>2 DEF NameChange, InFlight
  <2>2. past
    BY <1>a, <1>b, <2>1 DEF PendingOK, ours
  <2>3. op'.save = op.save /\ op.save # m.snapshot.save
    BY <1>2, <1>a, <2>1, <2>2, StepCall DEF NameChange, Steps, SameCall, past
  <2>4. Named' /\ manifest'.head.save = op.save
    BY <1>2, <1>a, NameChangeManifest, DocEntryAssumption DEF Named
  <2> QED BY <1>b, <1>d, <2>1, <2>3, <2>4
<1>3. CASE NamePending
  <2>1. InFlight /\ snapshotFile' = snapshotFile
    BY <1>3 DEF NamePending, InFlight
  <2>2. op'.save = op.save
    BY <1>3, <1>a, StepCall DEF NamePending, Steps, SameCall
  <2>3. /\ Named' /\ manifest'.head = manifest.head
        /\ manifest'.snapshot = manifest.snapshot
    BY <1>3, <1>a, NamePendingManifest, DocEntryAssumption DEF Named
  <2> QED BY <1>b, <1>d, <1>e, <2>1, <2>2, <2>3 DEF ours, past
<1>4. CASE RenameSnapshot
  <2>1. /\ op.step = "rename" /\ InFlight
        /\ snapshotFile' = op.save /\ manifest' = manifest /\ Named'
    BY <1>4, <1>b DEF RenameSnapshot, InFlight, Named
  <2>2. op'.save = op.save
    BY <1>4, <1>a, StepCall DEF RenameSnapshot, Steps, SameCall
  <2>3. CASE past
    BY <1>d, <2>1, <2>2, <2>3 DEF past
  <2>4. CASE ours /\ op.save # m.snapshot.save
    BY <1>e, <2>1, <2>4 DEF ours
  <2>5. CASE ours /\ op.save = m.snapshot.save
    BY <1>c, <2>1, <2>5 DEF ours, StoredNow
  <2> QED BY <1>b, <2>3, <2>4, <2>5
<1>5. CASE NameSnapshot
  <2>1. snapshotFile = op.save /\ snapshotFile' = snapshotFile
    BY <1>5, <1>a DEF NameSnapshot, PendingOK
  <2>2. op'.save = op.save
    BY <1>5, <1>a, StepCall DEF NameSnapshot, Steps, SameCall
  <2>3. Named' /\ manifest'.head.save = op.save
    BY <1>5, <1>a, NameSnapshotManifest, DocEntryAssumption DEF Named
  <2> QED BY <1>b, <1>d, <2>1, <2>2, <2>3
<1> QED BY <1>1, <1>2, <1>3, <1>4, <1>5, FilesMove

\* And so does the snapshot it knows as pending.
LEMMA PendingStaysGone ==
    ASSUME Inv, Inv', ~MayDelete, [Next]_vars, ~damaged', NEW m, PendingGone(m)
    PROVE  PendingGone(m)' \/ Stored' = m.pending.save
<1>a. /\ TypeInv /\ TypeOK /\ OpOK /\ PendingOK
  BY DEF Inv, LogInv, TypeInv, RecoveryOK
<1>b. /\ Named /\ snapshotFile # m.pending.save
      /\ manifest.snapshot.save # m.pending.save
  BY DEF PendingGone
<1>c. Stored' = StoredNow'
  BY StoredReadsNext
<1>d. ASSUME Named', snapshotFile' # m.pending.save, manifest'.snapshot.save # m.pending.save
      PROVE  PendingGone(m)'
  BY <1>d DEF PendingGone
<1>1. CASE UNCHANGED <<manifest, snapshotFile>>
  BY <1>1, <1>b, <1>d DEF Named
<1>2. CASE NameChange
  BY <1>2, <1>a, <1>b, <1>d, NameChangeManifest, DocEntryAssumption DEF Named, NameChange
<1>3. CASE NamePending
  BY <1>3, <1>a, <1>b, <1>d, NamePendingManifest, DocEntryAssumption DEF Named, NamePending
<1>4. CASE RenameSnapshot
  <2>1. /\ op.step = "rename" /\ Compacting
        /\ snapshotFile' = op.save /\ manifest' = manifest /\ Named'
    BY <1>4, <1>b DEF RenameSnapshot, Compacting, Named
  <2>2. manifest.pending = [seq |-> op.seq, save |-> op.save, blobs |-> op.blobs]
    BY <1>a, <1>b, <2>1 DEF PendingOK
  <2>3. manifest.pending # None /\ manifest.pending.save = op.save
    <3>1. op.save \in Save /\ op.seq \in Nat /\ op.blobs \in Bundle
      BY <1>a, <2>1 DEF TypeOK, OpOK, OpType, InFlight
    <3>2. manifest.pending \in Pending
      BY <2>2, <3>1 DEF Pending
    <3> QED BY <2>2, <3>2, DocEntryAssumption
  <2>4. CASE op.save = m.pending.save
    BY <1>b, <1>c, <2>1, <2>3, <2>4 DEF StoredNow
  <2> QED BY <1>b, <1>d, <2>1, <2>4
<1>5. CASE NameSnapshot
  <2>1. snapshotFile = op.save /\ snapshotFile' = snapshotFile
    BY <1>5, <1>a DEF NameSnapshot, PendingOK
  <2>2. Named' /\ manifest'.snapshot.save = op.save
    BY <1>5, <1>a, NameSnapshotManifest, DocEntryAssumption DEF Named
  <2> QED BY <1>b, <1>d, <2>1, <2>2
<1> QED BY <1>1, <1>2, <1>3, <1>4, <1>5, FilesMove

\* The snapshot the manifest names is of a save that was made.
LEMMA SnapshotMadeStep ==
    ASSUME Inv, SnapshotMade, ~MayDelete, [Next]_vars
    PROVE  SnapshotMade'
<1>a. TypeInv /\ CallVersion
  BY DEF Inv, LogInv, RecoveryOK, VersionOK
<1>b. made \subseteq made'
  BY MadeGrows
<1>1. CASE UNCHANGED manifest
  BY <1>1, <1>b DEF SnapshotMade, Named
<1>2. CASE NameChange
  <2>1. Named /\ manifest'.snapshot = manifest.snapshot
    BY <1>2, <1>a, NameChangeManifest, DocEntryAssumption DEF Named
  <2> QED BY <1>b, <2>1 DEF SnapshotMade
<1>3. CASE NamePending
  <2>1. Named /\ manifest'.snapshot = manifest.snapshot
    BY <1>3, <1>a, NamePendingManifest, DocEntryAssumption DEF Named
  <2> QED BY <1>b, <2>1 DEF SnapshotMade
<1>4. CASE NameSnapshot
  <2>1. manifest'.snapshot.save = op.save
    BY <1>4, <1>a, NameSnapshotManifest
  <2>2. InFlight
    BY <1>4 DEF NameSnapshot, InFlight
  <2> QED BY <1>a, <1>b, <2>1, <2>2 DEF SnapshotMade, CallVersion
<1>5. CASE RenameSnapshot
  BY <1>1, <1>5 DEF RenameSnapshot
<1> QED BY <1>1, <1>2, <1>3, <1>4, <1>5, FilesMove

\* What the writer does leaves the reader what its invariant says.
LEMMA WriterKeeps ==
    ASSUME Inv, Inv', ~MayDelete, ReaderInv, WriterStep
    PROVE  ReaderInv'
<1>a. [Next]_vars /\ UNCHANGED view
  BY DEF WriterStep
<1>b. made \subseteq made' /\ \A s \in made : carried'[s] = carried[s]
  BY <1>a, MadeGrows
<1>c. ASSUME view.step \notin {"idle", "done"}
      PROVE  /\ window' = window \cup {Stored'}
             /\ ~cut' => ~cut /\ ~damaged' /\ ~GoesBack
  BY <1>c DEF WriterStep, Unsettled
<1>d. ASSUME NEW s, cut \/ s \in window
      PROVE  cut' \/ s \in window'
  BY <1>d DEF WriterStep
<1>1. ViewType'
  BY <1>a DEF ReaderInv, ViewType
<1>2. ManifestRead'
  <2> SUFFICES ASSUME view.step = "snapshot" PROVE ManifestRead'
    BY <1>a DEF ManifestRead
  <2> DEFINE m == view.m
  <2>1. PICK n : n = m
    OBVIOUS
  <2>2. view'.m = n /\ view.m = n
    BY <1>a, <2>1
  <2>3. Sound(n)
    BY <2>2 DEF ReaderInv, ManifestRead
  <2>4. Sound(n)'
    BY <1>b, <2>3, SoundStays
  <2>5. n.snapshot.save \in made
    BY <2>3 DEF Sound
  <2>6. cut' \/ n.head.save \in window' \/ SnapshotGone(n)'
    <3>1. CASE cut \/ n.head.save \in window
      BY <1>d, <3>1
    <3>2. CASE SnapshotGone(n) /\ ~cut'
      BY <1>a, <1>c, <2>5, <3>2, SnapshotStaysGone
    <3> QED BY <2>2, <3>1, <3>2 DEF ReaderInv, ManifestRead
  <2>7. ASSUME n.pending # None, n.pending.save # n.snapshot.save
        PROVE  cut' \/ n.pending.save \in window' \/ PendingGone(n)'
    <3>1. CASE cut \/ n.pending.save \in window
      BY <1>d, <3>1
    <3>2. CASE PendingGone(n) /\ ~cut'
      BY <1>a, <1>c, <3>2, PendingStaysGone
    <3> QED BY <2>2, <2>7, <3>1, <3>2 DEF ReaderInv, ManifestRead
  <2> QED BY <2>2, <2>4, <2>6, <2>7 DEF ManifestRead
<1>3. SnapshotRead'
  <2> SUFFICES ASSUME view.step = "changes" PROVE SnapshotRead'
    BY <1>a DEF SnapshotRead
  <2>1. SnapshotRead
    BY DEF ReaderInv
  <2>2. Sound(view.m)'
    <3>1. PICK n : n = view.m
      OBVIOUS
    <3>2. Sound(n)
      BY <2>1, <3>1 DEF SnapshotRead
    <3>3. Sound(n)'
      BY <1>b, <3>2, SoundStays
    <3> QED BY <1>a, <3>1, <3>3
  <2>3. cut' \/ view.m.head.save \in window'
    BY <1>d, <2>1 DEF SnapshotRead
  <2> QED BY <1>a, <2>1, <2>2, <2>3 DEF SnapshotRead, Reaches
<1>4. PartsRead'
  <2>0. view.step = "blobs" => view.answer # None
    BY DEF ReaderInv, PartsRead
  <2> SUFFICES ASSUME view.step \in {"blobs", "done"}, view.answer # None
               PROVE  PartsRead'
    BY <1>a, <2>0 DEF PartsRead
  <2>1. PartsRead
    BY DEF ReaderInv
  <2>2. view.answer.at # None
    BY <2>1 DEF PartsRead
  <2>3. ASSUME view.answer.complete
        PROVE  /\ OneSave(view.answer)'
               /\ view.answer.at \in made'
               /\ cut' \/ view.answer.at \in window'
    <3>1. /\ OneSave(view.answer) /\ view.answer.at \in made
          /\ cut \/ view.answer.at \in window
      BY <2>1, <2>3 DEF PartsRead
    <3>2. carried'[view.answer.at] = carried[view.answer.at]
      BY <1>b, <3>1
    <3>3. OneSave(view.answer)'
      BY <1>a, <3>1, <3>2 DEF OneSave
    <3> QED BY <1>b, <1>d, <3>1, <3>3
  <2> QED BY <1>a, <2>2, <2>3 DEF PartsRead
<1> QED BY <1>1, <1>2, <1>3, <1>4 DEF ReaderInv


LEMMA UnreadType ==
    /\ Unread \in [step : {"idle", "snapshot", "changes", "blobs", "done"},
                   m : Manifest \cup {None}, left : SUBSET (Nat \cup Blob),
                   answer : Entry \cup {None}]
    /\ Unread.answer = None
  BY DEF Unread

LEMMA AnsweredType ==
    ASSUME NEW a \in Entry \cup {None}, view' = Answered(a)
    PROVE  ViewType' /\ view'.step = "done" /\ view'.answer = a
  BY UnreadType DEF Answered, ViewType

\* The saves a whole manifest names.
LEMMA SoundSaves ==
    ASSUME NEW m, Sound(m)
    PROVE  /\ m.head.save \in Save /\ m.head.seq \in Nat
           /\ m.snapshot.save \in Save
           /\ m.blobs \in Bundle
           /\ m.pending # None => /\ m.pending.save \in Save /\ m.pending.seq \in Nat
                                  /\ m.pending.blobs \in Bundle
           /\ m.changes \in Seq(Change)
           /\ Len(m.changes) \in Nat
           /\ \A i \in 1 .. Len(m.changes) : m.changes[i] \in Change
<1>1. m \in Manifest
  BY DEF Sound
<1>2. m.changes \in Seq(Change)
  BY <1>1 DEF Manifest
<1>3. Len(m.changes) \in Nat /\ \A i \in 1 .. Len(m.changes) : m.changes[i] \in Change
  BY <1>2, LenProperties, ElementOfSeq
<1> QED BY <1>1, <1>2, <1>3 DEF Manifest, Heads, Pending

\* Each change of a log continues what the changes before it reach, and the last one reaches
\* the head.
LEMMA ReachedOneByOne ==
    ASSUME NEW m, Sound(m)
    PROVE  /\ \A k \in 0 .. Len(m.changes) : Reaches(m, k) \in Save
           /\ \A k \in 0 .. (Len(m.changes) - 1) :
                 /\ m.changes[k + 1].base = Reaches(m, k)
                 /\ m.changes[k + 1].save = Reaches(m, k + 1)
           /\ Reaches(m, Len(m.changes)) = m.head.save
<1> DEFINE len == Len(m.changes)
<1>1. /\ m.snapshot.save \in Save /\ len \in Nat
      /\ \A i \in 1 .. len : m.changes[i].save \in Save
      /\ m.changes \in Seq(Change)
  BY SoundSaves DEF Change
<1>2. Chained(m) /\ m.head.save = Tip(m)
  BY DEF Sound, LogOf
<1>3. \A k \in 0 .. len : Reaches(m, k) \in Save
  BY <1>1 DEF Reaches
<1>4. ASSUME NEW k \in 0 .. (len - 1)
      PROVE  /\ m.changes[k + 1].base = Reaches(m, k)
             /\ m.changes[k + 1].save = Reaches(m, k + 1)
  <2>1. k \in Nat /\ k + 1 \in 1 .. len /\ (k + 1 = 1 <=> k = 0) /\ (k + 1) - 1 = k /\ k + 1 # 0
    BY <1>1
  <2>2. Continues(m, k + 1)
    BY <1>2, <2>1 DEF Chained
  <2> QED BY <2>1, <2>2 DEF Continues, Reaches
<1>5. Reaches(m, len) = m.head.save
  <2>1. m.changes = <<>> <=> len = 0
    BY <1>1, EmptySeq
  <2> QED BY <1>1, <1>2, <2>1 DEF Tip, Last, Reaches
<1> QED BY <1>3, <1>4, <1>5

\* The reader opens the manifest while the writer is anywhere in a write.
LEMMA ManifestOpened ==
    ASSUME Inv, SnapshotMade, ReaderInv, OpenManifest, UNCHANGED vars,
           window' = {Stored}, cut' = Unsettled
    PROVE  ReaderInv'
<1>1. CASE manifest = None
  <2>1. view' = Answered(None)
    BY <1>1 DEF OpenManifest
  <2>2. ViewType' /\ view'.step = "done" /\ view'.answer = None
    BY <2>1, AnsweredType
  <2> QED BY <2>2 DEF ReaderInv, ManifestRead, SnapshotRead, PartsRead
<1>2. CASE manifest # None
  <2> DEFINE m == manifest
  <2>1. Named /\ Sound(m) /\ m \in Manifest
    BY <1>2, ManifestSound DEF Named, Sound
  <2>2. view' = [Unread EXCEPT !.step = "snapshot", !.m = m]
    BY <1>2 DEF OpenManifest
  <2>3. ViewType' /\ view'.step = "snapshot" /\ view'.m = m
    BY <2>1, <2>2, UnreadType DEF ViewType
  <2>4. PICK n : n = m
    OBVIOUS
  <2>5. view'.m = n /\ Sound(n)'
    BY <2>1, <2>3, <2>4 DEF Sound, vars
  <2>6. ~cut' => Stored = StoredNow
    BY StoredReads DEF Unsettled
  <2>7. cut' \/ n.head.save \in window' \/ SnapshotGone(n)'
    <3>1. CASE snapshotFile = m.snapshot.save
      BY <2>1, <2>4, <2>6, <3>1 DEF StoredNow
    <3>2. CASE snapshotFile # m.snapshot.save
      <4>1. SnapshotGone(n)
        BY <2>1, <2>4, <3>2 DEF SnapshotGone
      <4>2. SnapshotGone(n)'
        BY <4>1 DEF SnapshotGone, vars, Named, InFlight
      <4> QED BY <4>2
    <3> QED BY <3>1, <3>2
  <2>8. ASSUME n.pending # None, n.pending.save # n.snapshot.save
        PROVE  cut' \/ n.pending.save \in window' \/ PendingGone(n)'
    <3>1. CASE snapshotFile = m.pending.save
      BY <2>1, <2>4, <2>6, <2>8, <3>1 DEF StoredNow
    <3>2. CASE snapshotFile # m.pending.save
      BY <2>1, <2>4, <2>8, <3>2 DEF PendingGone, vars, Named
    <3> QED BY <3>1, <3>2
  <2> QED BY <2>3, <2>5, <2>7, <2>8 DEF ReaderInv, ManifestRead, SnapshotRead, PartsRead
<1> QED BY <1>1, <1>2

\* What the reader makes of the snapshot, from the manifest it read before.
LEMMA SnapshotOpened ==
    ASSUME ReaderInv, OpenSnapshot, UNCHANGED <<vars, window, cut>>
    PROVE  ReaderInv'
<1> DEFINE m == view.m
           found(meta, seq, version, bundle) ==
               [meta |-> meta, at |-> snapshotFile, seq |-> seq, version |-> version,
                blobs |-> bundle, complete |-> TRUE]
           whole == found(m.meta, m.head.seq, m.head.save, m.blobs)
           adopted == found(m.pending.save, m.pending.seq, m.pending.save, m.pending.blobs)
<1>a. /\ ViewType /\ ManifestRead /\ view.step = "snapshot" /\ m \in Manifest
  BY DEF ReaderInv, OpenSnapshot, ManifestRead, Sound
<1>b. Sound(m) /\ UNCHANGED <<snapshotFile, made, carried, window, cut>>
  BY <1>a DEF ManifestRead, vars
<1>1. CASE SnapshotIs(m)
  <2>1. whole \in Entry
    BY <1>1, <1>b, SoundSaves DEF SnapshotIs, Entry, Sound
  <2>2. view' = [view EXCEPT !.step = "changes", !.left = 1 .. Len(m.changes), !.answer = whole]
    BY <1>1 DEF OpenSnapshot
  <2>3. 1 .. Len(m.changes) \in SUBSET (Nat \cup Blob) /\ Len(m.changes) \in Nat
    BY <1>b, SoundSaves
  <2> DEFINE left == 1 .. Len(m.changes)
  <2> HIDE DEF whole, left
  <2>4. /\ ViewType' /\ view'.step = "changes" /\ view'.m = m
        /\ view'.left = left /\ view'.answer = whole
    BY <1>a, <2>1, <2>2, <2>3 DEF ViewType, left
  <2>5. /\ whole.meta = m.head.save /\ whole.version = m.head.save
        /\ whole.blobs = m.blobs /\ whole.complete /\ whole.at = m.snapshot.save
    BY <1>1, <1>b DEF whole, SnapshotIs, Sound
  <2>6. whole # None
    BY <2>1, DocEntryAssumption
  <2>7. cut \/ m.head.save \in window
    BY <1>1, <1>a DEF ManifestRead, SnapshotGone, SnapshotIs
  <2>8. Sound(m)' /\ view'.m = m
    BY <1>b, <2>4 DEF Sound
  <2>9. 0 \in 0 .. Len(m.changes) /\ left = (0 + 1) .. Len(m.changes)
        /\ whole.at = Reaches(m, 0)
    BY <2>3, <2>5 DEF left, Reaches
  <2>10. SnapshotRead'
    <3>1. PICK n : n = m
      OBVIOUS
    <3>2. /\ view'.m = n /\ Sound(n)'
          /\ 0 \in 0 .. Len(n.changes) /\ view'.left = (0 + 1) .. Len(n.changes)
          /\ view'.answer.at = Reaches(n, 0)
      BY <1>b, <2>4, <2>9, <3>1 DEF Sound
    <3>3. Reaches(n, 0)' = Reaches(n, 0)
      BY DEF Reaches
    <3> QED BY <1>b, <2>4, <2>5, <2>6, <2>7, <3>1, <3>2, <3>3 DEF SnapshotRead
  <2> QED BY <2>4, <2>10 DEF ReaderInv, ManifestRead, PartsRead
<1>2. CASE ~SnapshotIs(m) /\ m.pending # None /\ snapshotFile = m.pending.save
  <2>1. adopted \in Entry /\ m.pending.blobs \in SUBSET (Nat \cup Blob)
    BY <1>2, <1>b, SoundSaves DEF Entry, Bundle
  <2>2. view' = [view EXCEPT !.step = "blobs", !.left = m.pending.blobs, !.answer = adopted]
    BY <1>2 DEF OpenSnapshot
  <2> HIDE DEF adopted
  <2>3. /\ ViewType' /\ view'.step = "blobs" /\ view'.answer = adopted
        /\ adopted # None
    BY DocEntryAssumption, <1>a, <2>1, <2>2 DEF ViewType
  <2>4. /\ adopted.meta = m.pending.save /\ adopted.version = m.pending.save
        /\ adopted.blobs = m.pending.blobs /\ adopted.complete /\ adopted.at = m.pending.save
    BY <1>2 DEF adopted
  <2>5. cut \/ m.pending.save \in window
    BY <1>2, <1>a DEF ManifestRead, PendingGone, SnapshotIs
  <2>6. /\ m.pending.save \in made /\ m.pending.blobs = carried[m.pending.save]
        /\ m.pending.save # None
    BY <1>2, <1>b, SoundSaves, DocEntryAssumption DEF Sound
  <2>7. OneSave(adopted)
    BY <2>4, <2>6 DEF OneSave
  <2>8. OneSave(view.answer)'
    BY <1>b, <2>3, <2>7 DEF OneSave
  <2>9. PartsRead'
    BY <1>b, <2>3, <2>4, <2>5, <2>6, <2>8 DEF PartsRead
  <2> QED BY <2>3, <2>9 DEF ReaderInv, ManifestRead, SnapshotRead
<1>3. CASE ~SnapshotIs(m) /\ ~(m.pending # None /\ snapshotFile = m.pending.save)
  <2>1. view' = Answered(None)
    BY <1>3 DEF OpenSnapshot
  <2>2. ViewType' /\ view'.step = "done" /\ view'.answer = None
    BY <2>1, AnsweredType
  <2> QED BY <2>2 DEF ReaderInv, ManifestRead, SnapshotRead, PartsRead
<1> QED BY <1>1, <1>2, <1>3

\* The changes follow one another, up to the version the manifest names.
LEMMA ChangeOpened ==
    ASSUME ReaderInv, OpenChange, UNCHANGED <<vars, window, cut>>
    PROVE  ReaderInv'
<1> DEFINE m == view.m
           e == view.answer
           len == Len(m.changes)
<1>a. /\ ViewType /\ SnapshotRead /\ view.step = "changes" /\ view.left # {}
      /\ Sound(m) /\ e \in Entry /\ m.blobs \in SUBSET (Nat \cup Blob) /\ m \in Manifest
  <2>1. ViewType /\ SnapshotRead /\ view.step = "changes" /\ view.left # {}
    BY DEF ReaderInv, OpenChange
  <2>2. Sound(m) /\ e # None
    BY <2>1 DEF SnapshotRead
  <2> QED BY <2>1, <2>2, SoundSaves DEF ViewType, Bundle, Sound
<1>b. UNCHANGED <<made, carried, window, cut>>
  BY DEF vars
<1>1. PICK k \in 0 .. len : view.left = (k + 1) .. len /\ e.at = Reaches(m, k)
  BY <1>a DEF SnapshotRead
<1>2. k \in 0 .. (len - 1) /\ len \in Nat /\ k \in Nat
  BY <1>1, <1>a, SoundSaves
<1>3. /\ m.changes[k + 1].base = e.at
      /\ m.changes[k + 1].save = Reaches(m, k + 1)
      /\ e.at \in Save /\ Reaches(m, k + 1) \in Save
  <2>1. k \in 0 .. len /\ k + 1 \in 0 .. len
    BY <1>2
  <2> QED BY <1>a, <1>1, <1>2, <2>1, ReachedOneByOne
<1>4. (CHOOSE i \in view.left : \A j \in view.left : i <= j) = k + 1
  <2>1. k + 1 \in view.left /\ \A j \in view.left : k + 1 <= j
    BY <1>1, <1>2
  <2>2. \A i \in view.left : (\A j \in view.left : i <= j) => i = k + 1
    BY <1>1, <1>2, <2>1
  <2> QED BY <2>1, <2>2
<1> DEFINE further == [view EXCEPT !.left = @ \ {k + 1}, !.answer.at = m.changes[k + 1].save]
           stopped == [view EXCEPT !.step = "blobs", !.left = m.blobs,
                                   !.answer.complete = FALSE, !.answer.version = None]
<1>5. view' = IF m.changes[k + 1] \in changeFiles THEN further ELSE stopped
  BY <1>3, <1>4 DEF OpenChange
<1>6. CASE m.changes[k + 1] \in changeFiles
  <2> DEFINE left == view.left \ {k + 1}
             answer == [e EXCEPT !.at = Reaches(m, k + 1)]
  <2>1. view' = [view EXCEPT !.left = left, !.answer = answer]
    BY <1>3, <1>5, <1>6, <1>a DEF ViewType
  <2>2. answer \in Entry
    BY <1>3, <1>a DEF Entry
  <2>3. left \in SUBSET (Nat \cup Blob) /\ left = ((k + 1) + 1) .. len
    BY <1>1, <1>2
  <2>4. /\ answer.meta = e.meta /\ answer.version = e.version /\ answer.blobs = e.blobs
        /\ answer.complete = e.complete /\ answer.at = Reaches(m, k + 1) /\ answer # None
    BY <1>a, <2>2, DocEntryAssumption DEF Entry
  <2> HIDE DEF left, answer
  <2>5. /\ ViewType' /\ view'.step = "changes" /\ view'.m = m
        /\ view'.left = left /\ view'.answer = answer
    BY <1>a, <2>1, <2>2, <2>3 DEF ViewType
  <2>6. SnapshotRead'
    <3>1. PICK n : n = m
      OBVIOUS
    <3>2. /\ view'.m = n /\ Sound(n)' /\ k + 1 \in 0 .. Len(n.changes)
          /\ view'.left = ((k + 1) + 1) .. Len(n.changes)
          /\ view'.answer.at = Reaches(n, k + 1)
      <4>1. Sound(n)'
        BY <1>a, <1>b, <3>1 DEF Sound
      <4>2. k + 1 \in 0 .. len
        BY <1>2
      <4> QED BY <2>3, <2>4, <2>5, <3>1, <4>1, <4>2
    <3>3. Reaches(n, k + 1)' = Reaches(n, k + 1)
      BY DEF Reaches
    <3>4. /\ n.head.save = answer.meta /\ n.head.save = answer.version
          /\ n.blobs = answer.blobs /\ answer.complete /\ (cut \/ n.head.save \in window)
      BY <1>a, <2>4, <3>1 DEF SnapshotRead
    <3> QED BY <1>b, <2>4, <2>5, <3>2, <3>3, <3>4 DEF SnapshotRead
  <2> QED BY <2>5, <2>6 DEF ReaderInv, ManifestRead, PartsRead
<1>7. CASE m.changes[k + 1] \notin changeFiles
  <2> DEFINE answer == [e EXCEPT !.complete = FALSE, !.version = None]
  <2>1. view' = [view EXCEPT !.step = "blobs", !.left = m.blobs, !.answer = answer]
    BY <1>5, <1>7, <1>a DEF ViewType
  <2>2. answer \in Entry /\ answer.at = e.at /\ answer.complete = FALSE
    BY <1>a DEF Entry
  <2> HIDE DEF answer
  <2>3. ViewType' /\ view'.step = "blobs" /\ view'.answer = answer
    BY <1>a, <2>1, <2>2 DEF ViewType
  <2>4. PartsRead'
    BY <1>3, <2>2, <2>3, DocEntryAssumption DEF PartsRead
  <2> QED BY <2>3, <2>4 DEF ReaderInv, ManifestRead, SnapshotRead
<1> QED BY <1>6, <1>7

LEMMA AllChangesOpened ==
    ASSUME ReaderInv, ChangesRead, UNCHANGED <<vars, window, cut>>
    PROVE  ReaderInv'
<1> DEFINE m == view.m
           e == view.answer
<1>a. /\ ViewType /\ SnapshotRead /\ view.step = "changes" /\ view.left = {}
      /\ view' = [view EXCEPT !.step = "blobs", !.left = m.blobs]
  BY DEF ReaderInv, ChangesRead
<1>b. Sound(m) /\ UNCHANGED <<made, carried, window, cut>>
  BY <1>a DEF SnapshotRead, vars
<1>1. PICK k \in 0 .. Len(m.changes) :
          view.left = (k + 1) .. Len(m.changes) /\ e.at = Reaches(m, k)
  BY <1>a DEF SnapshotRead
<1>2. k = Len(m.changes)
  <2> DEFINE len == Len(m.changes)
  <2>1. len \in Nat /\ k \in 0 .. len /\ (k + 1) .. len = {}
    BY <1>1, <1>a, <1>b, SoundSaves
  <2> HIDE DEF len
  <2>2. k + 1 > len
    BY <2>1
  <2>3. k = len
    BY <2>1, <2>2
  <2> QED BY <2>3 DEF len
<1>3. e.at = m.head.save /\ m.head.save \in Save
  BY <1>1, <1>2, <1>b, ReachedOneByOne, SoundSaves
<1>4. OneSave(e) /\ e.at \in made /\ (cut \/ e.at \in window) /\ e.at # None
      /\ e # None
  BY <1>3, <1>a, <1>b, DocEntryAssumption DEF SnapshotRead, OneSave, Sound
<1>5. ViewType' /\ view'.step = "blobs" /\ view'.answer = e
  BY <1>a, <1>b, SoundSaves DEF ViewType, Bundle
<1>6. OneSave(view.answer)'
  BY <1>4, <1>5, <1>b DEF OneSave
<1>7. PartsRead'
  BY <1>4, <1>5, <1>6, <1>b DEF PartsRead
<1> QED BY <1>5, <1>7 DEF ReaderInv, ManifestRead, SnapshotRead

\* A blob that is missing makes the answer incomplete, and changes nothing else of it.
LEMMA BlobOpened ==
    ASSUME ReaderInv, OpenBlob, UNCHANGED <<vars, window, cut>>
    PROVE  ReaderInv'
<1> DEFINE e == view.answer
<1>a. ViewType /\ PartsRead /\ view.step = "blobs" /\ view.left \in SUBSET (Nat \cup Blob)
  BY DEF ReaderInv, OpenBlob, ViewType
<1>b. UNCHANGED <<made, carried, window, cut>>
  BY DEF vars
<1>1. PICK b \in view.left :
        view' = IF blobFile[b] = "whole" THEN [view EXCEPT !.left = @ \ {b}]
                ELSE [view EXCEPT !.left = {}, !.answer.complete = FALSE, !.answer.blobs = {}]
  BY DEF OpenBlob
<1>2. CASE blobFile[b] = "whole"
  <2>1. ViewType' /\ view'.step = "blobs" /\ view'.answer = e
    BY <1>1, <1>2, <1>a DEF ViewType
  <2>2. PartsRead'
    BY <1>a, <1>b, <2>1 DEF PartsRead, OneSave
  <2> QED BY <2>1, <2>2 DEF ReaderInv, ManifestRead, SnapshotRead
<1>3. CASE blobFile[b] # "whole"
  <2> DEFINE answer == [e EXCEPT !.complete = FALSE, !.blobs = {}]
  <2>1. view' = [view EXCEPT !.left = {}, !.answer = answer]
    BY <1>1, <1>3, <1>a DEF ViewType
  <2>2. e \in Entry /\ e # None
    BY <1>a DEF PartsRead, ViewType
  <2>3. answer \in Entry /\ answer.at = e.at /\ answer.complete = FALSE
    BY <2>2 DEF Entry, Bundle
  <2> HIDE DEF answer
  <2>4. ViewType' /\ view'.step = "blobs" /\ view'.answer = answer
    BY <1>a, <2>1, <2>3 DEF ViewType
  <2>5. answer # None
    BY <2>3, DocEntryAssumption
  <2>6. PartsRead'
    BY <1>a, <2>2, <2>3, <2>4, <2>5 DEF PartsRead
  <2> QED BY <2>4, <2>6 DEF ReaderInv, ManifestRead, SnapshotRead
<1> QED BY <1>2, <1>3

LEMMA PartsAnswered ==
    ASSUME ReaderInv, Answer, UNCHANGED <<vars, window, cut>>
    PROVE  ReaderInv'
<1>a. ViewType /\ PartsRead /\ view.step = "blobs" /\ view' = Answered(view.answer)
  BY DEF ReaderInv, Answer
<1>1. view.answer \in Entry \cup {None}
  BY <1>a DEF ViewType
<1>2. ViewType' /\ view'.step = "done" /\ view'.answer = view.answer
  BY <1>a, <1>1, AnsweredType
<1>3. PartsRead'
  BY <1>a, <1>2 DEF PartsRead, OneSave, vars
<1> QED BY <1>2, <1>3 DEF ReaderInv, ManifestRead, SnapshotRead

LEMMA ReadingKeeps ==
    ASSUME Inv, SnapshotMade, ReaderInv, Reading
    PROVE  ReaderInv'
<1>1. UNCHANGED vars
  BY DEF Reading
<1>2. CASE OpenManifest
  <2>1. window' = {Stored} /\ cut' = Unsettled
    BY <1>2 DEF Reading, OpenManifest
  <2> QED BY <1>1, <1>2, <2>1, ManifestOpened
<1>3. CASE OpenSnapshot \/ OpenChange \/ ChangesRead \/ OpenBlob \/ Answer
  <2>1. UNCHANGED <<window, cut>>
    BY <1>3 DEF Reading, OpenSnapshot, OpenChange, ChangesRead, OpenBlob, Answer
  <2>2. UNCHANGED <<vars, window, cut>>
    BY <1>1, <2>1
  <2> QED BY <1>3, <2>2, SnapshotOpened, ChangeOpened, AllChangesOpened, BlobOpened, PartsAnswered
<1> QED BY <1>2, <1>3 DEF Reading

LEMMA ReaderStutters ==
    ASSUME ReaderInv, UNCHANGED <<vars, readerVars>>
    PROVE  ReaderInv'
<1>1. UNCHANGED <<view, window, cut, made, carried, snapshotFile, manifest, op>>
  BY DEF vars, readerVars
<1>2. ViewType' /\ PartsRead'
  BY <1>1 DEF ReaderInv, ViewType, PartsRead, OneSave
<1>3. ManifestRead'
  BY <1>1 DEF ReaderInv, ManifestRead, Sound, SnapshotGone, PendingGone, Named, InFlight
<1>4. SnapshotRead'
  BY <1>1 DEF ReaderInv, SnapshotRead, Sound, Reaches
<1> QED BY <1>2, <1>3, <1>4 DEF ReaderInv

\* A read in another Kition answers one save's parts, whole, that the entry held while it read, or
\* calls its answer incomplete; whatever is damaged or interrupted, if no entry is deleted and no
\* editor that lags behind folds what it knows meanwhile (entry.rs:236-319).
THEOREM ForeignReadsHold ==
    ASSUME ~MayDelete
    PROVE  ReaderSpec => []ForeignReadIsStored
<1>1. ReaderInit => Init /\ ReaderInv /\ SnapshotMade
  <2> SUFFICES ASSUME ReaderInit PROVE ReaderInv /\ SnapshotMade
    BY DEF ReaderInit
  <2>1. view = Unread /\ ~Named
    BY DEF ReaderInit, Init, Named
  <2>2. view.step = "idle" /\ ViewType
    BY <2>1, UnreadType DEF ViewType, Unread
  <2> QED BY <2>1, <2>2 DEF ReaderInv, ManifestRead, SnapshotRead, PartsRead, SnapshotMade
<1>2. [ReaderNext]_<<vars, readerVars>> => [Next]_vars
  BY DEF ReaderNext, WriterStep, Reading
<1>3. Inv /\ Inv' /\ SnapshotMade /\ ReaderInv /\ [ReaderNext]_<<vars, readerVars>>
        => SnapshotMade' /\ ReaderInv'
  <2> SUFFICES ASSUME Inv, Inv', SnapshotMade, ReaderInv, [ReaderNext]_<<vars, readerVars>>
               PROVE  ReaderInv'
    BY <1>2, SnapshotMadeStep
  <2> QED BY WriterKeeps, ReadingKeeps, ReaderStutters DEF ReaderNext
<1>4. ReaderInv => ForeignReadIsStored
  BY DEF ReaderInv, PartsRead, ForeignReadIsStored
<1>5. ReaderSpec => Spec
  BY <1>1, <1>2, PTL DEF ReaderSpec, Spec
<1> QED BY <1>1, <1>3, <1>4, <1>5, RecoveryInvariance, PTL DEF ReaderSpec
=============================================================================
