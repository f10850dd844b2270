-------------------------- MODULE KitReplicaProofs --------------------------
(***************************************************************************)
(* What KitReplica keeps for any number of editors, edits, lineages and    *)
(* saves, and any failure and restart.                                     *)
(***************************************************************************)
EXTENDS KitReplica, TLAPS

\* A call has its replica, and one that goes on from the stored head has read it.
CallsAreMade ==
    \A e \in Editor :
        /\ write[e].step # "idle" => write[e].replica # None
        /\ write[e].step = "append" => write[e].head # None /\ Follows(write[e].replica, write[e].head)
        /\ fold[e].step # "idle" => fold[e].replica # None
        /\ fold[e].step = "write" => fold[e].head # None

\* The stored seq names one version: an append that finds the seq it read finds the version.
AppendsKnowTheStore ==
    \A e \in Editor : write[e].step = "append" =>
        /\ store # None
        /\ write[e].head.seq <= store.seq
        /\ write[e].head.seq = store.seq => write[e].head.version = store.version

EntryHasHistory == store = None => history = {}

\* Unless a save could not read the head, what is stored and what will be is named.
NamedUnlessUnread ==
    ~unread => /\ store # None => store.named
               /\ \A e \in Editor : write[e].step \in {"append", "snapshot"} => write[e].named

-----------------------------------------------------------------------------
(* While editors take turns.                                               *)

Active(e) == replica[e] # None \/ ~Quiet(e)
OneAtATime == \A e, o \in Editor : Active(e) /\ Active(o) => e = o

\* A write is of the open replica, and a fold of one that was closed.
CallsAreOwn ==
    \A e \in Editor :
        /\ replica[e] # None => fold[e].step = "idle"
        /\ write[e].step # "idle" =>
              /\ replica[e] # None
              /\ write[e].replica.id = replica[e].id
              /\ write[e].replica.version \subseteq replica[e].version

\* A replica holds what the entry has of its lineage.
Contains(r) == store # None /\ store.id = r.id => store.version \subseteq r.version
ReplicasContain ==
    \A e \in Editor :
        /\ replica[e] # None => Contains(replica[e])
        /\ write[e].step \in {"head", "append", "snapshot"} => Contains(write[e].replica)

\* Nothing comes between the head a call read and what it writes.
HeadsAreCurrent ==
    \A e \in Editor :
        /\ write[e].step = "append" => store = write[e].head
        /\ fold[e].step = "write" =>
              store = fold[e].head /\ store.version = fold[e].replica.version

HistoryIsContained == \A v \in history : store # None => v \subseteq store.version

\* A snapshot of the stored replica holds what is stored.
SnapshotsContain ==
    \A e \in Editor : write[e].step = "snapshot" /\ ~write[e].fresh /\ store # None =>
        store.version \subseteq write[e].replica.version

HistoryIsKept == unread \/ (HistoryIsContained /\ SnapshotsContain)

TurnsAreKept ==
    /\ OneAtATime /\ CallsAreOwn /\ ReplicasContain /\ HeadsAreCurrent /\ HistoryIsKept

Inductive ==
    /\ TypeOK
    /\ CallsAreMade /\ AppendsKnowTheStore /\ EntryHasHistory /\ NamedUnlessUnread
    /\ StoreHoldsItsVersion
    /\ overlapped \/ TurnsAreKept

-----------------------------------------------------------------------------
(* What the calls and the entry are made of.                               *)

WriteCall == Calls(WriteSteps)
FoldCall == Calls(FoldSteps)

LEMMA Types ==
    ASSUME TypeOK, NEW e \in Editor
    PROVE  /\ write \in [Editor -> WriteCall] /\ fold \in [Editor -> FoldCall]
           /\ write[e] \in WriteCall /\ fold[e] \in FoldCall
           /\ write[e].replica \in Replica \cup {None} /\ fold[e].replica \in Replica \cup {None}
           /\ write[e].head \in Stored \cup {None} /\ fold[e].head \in Stored \cup {None}
           /\ replica[e] \in Replica \cup {None}
BY DEF TypeOK, WriteCall, FoldCall, Calls

LEMMA NoCallType ==
    /\ NoCall \in WriteCall /\ NoCall \in FoldCall
    /\ NoCall.step = "idle" /\ NoCall.replica = None /\ NoCall.head = None /\ ~NoCall.fresh
    /\ ~NoCall.named
BY DEF NoCall, WriteCall, FoldCall, Calls, WriteSteps, FoldSteps

LEMMA WholeType ==
    ASSUME TypeOK, NEW r \in Replica, NEW named \in BOOLEAN
    PROVE  /\ Whole(r, named) \in Stored /\ Whole(r, named) # None
           /\ Whole(r, named).id = r.id /\ Whole(r, named).version = r.version
           /\ Whole(r, named).holds = r.version /\ Whole(r, named).named = named
           /\ Whole(r, named).seq = SeqOf(store) + 1
<1>1. SeqOf(store) + 1 \in Nat
  BY DEF TypeOK, SeqOf, Stored
<1> QED BY <1>1, KitReplicaAssumption DEF Whole, Replica, Stored

LEMMA InductiveInit == Init => Inductive
<1> SUFFICES ASSUME Init PROVE Inductive
  OBVIOUS
<1>1. /\ \A e \in Editor : write[e] = NoCall /\ fold[e] = NoCall /\ replica[e] = None
      /\ write \in [Editor -> WriteCall] /\ fold \in [Editor -> FoldCall]
  BY NoCallType DEF Init
<1>2. TypeOK
  BY <1>1 DEF Init, TypeOK, WriteCall, FoldCall, Calls
<1>3. CallsAreMade /\ AppendsKnowTheStore
  BY <1>1, NoCallType DEF CallsAreMade, AppendsKnowTheStore
<1>4. OneAtATime /\ CallsAreOwn /\ ReplicasContain /\ HeadsAreCurrent
  BY <1>1, NoCallType DEF OneAtATime, Active, Quiet, CallsAreOwn, ReplicasContain, HeadsAreCurrent
<1>5. EntryHasHistory /\ StoreHoldsItsVersion /\ HistoryIsKept /\ NamedUnlessUnread
  BY <1>1, NoCallType DEF Init, EntryHasHistory, StoreHoldsItsVersion, HistoryIsKept,
     HistoryIsContained, SnapshotsContain, NamedUnlessUnread
<1> QED BY <1>2, <1>3, <1>4, <1>5 DEF Inductive, TurnsAreKept

\* The parts of the invariant about the entry stay when the entry does.
LEMMA EntryStays ==
    ASSUME Inductive, UNCHANGED <<store, history>>
    PROVE  EntryHasHistory' /\ StoreHoldsItsVersion' /\ (HistoryIsContained => HistoryIsContained')
BY DEF Inductive, EntryHasHistory, StoreHoldsItsVersion, HistoryIsContained

-----------------------------------------------------------------------------
(* The editors.                                                            *)

\* An editor that opens in turn finds no other at work.
LEMMA OpenedAlone ==
    ASSUME Inductive, NEW e \in Editor, Opens(e), ~overlapped', NEW r, replica' = [replica EXCEPT ![e] = r],
           UNCHANGED <<store, history, write, fold, unread>>, r # None, Contains(r)
    PROVE  TurnsAreKept'
<1>1. /\ ~overlapped /\ TurnsAreKept
      /\ \A o \in Editor : replica[o] = None /\ Quiet(o)
  BY DEF Opens, Inductive
<1>2. /\ replica'[e] = r /\ \A o \in Editor : o # e => replica'[o] = None
      /\ \A o \in Editor : write'[o].step = "idle" /\ fold'[o].step = "idle"
  BY <1>1 DEF Inductive, TypeOK, Quiet
<1>3. OneAtATime' /\ CallsAreOwn'
  BY <1>2 DEF OneAtATime, Active, Quiet, CallsAreOwn
<1>4. ReplicasContain' /\ HeadsAreCurrent'
  BY <1>2 DEF ReplicasContain, Contains, HeadsAreCurrent
<1>5. HistoryIsKept'
  BY <1>1, <1>2, EntryStays DEF TurnsAreKept, HistoryIsKept, SnapshotsContain
<1> QED BY <1>3, <1>4, <1>5 DEF TurnsAreKept

LEMMA InductiveOpenStored ==
    ASSUME Inductive, NEW e \in Editor, OpenStored(e)
    PROVE  Inductive'
<1> DEFINE r == [id |-> store.id, version |-> store.holds]
<1>1. /\ store # None /\ Opens(e)
      /\ replica' = [replica EXCEPT ![e] = r]
      /\ UNCHANGED <<store, history, appended, compactDue, write, fold, made, unread>>
  BY DEF OpenStored
<1>2. r \in Replica /\ r # None /\ Contains(r)
  BY <1>1, KitReplicaAssumption DEF Inductive, TypeOK, Stored, Replica, Contains, StoreHoldsItsVersion
<1> HIDE DEF r
<1>3. TypeOK'
  <2>1. overlapped' \in BOOLEAN
    BY <1>1 DEF Opens
  <2> QED BY <1>1, <1>2, <2>1 DEF Inductive, TypeOK
<1>4. CallsAreMade' /\ AppendsKnowTheStore' /\ NamedUnlessUnread'
  BY <1>1 DEF Inductive, CallsAreMade, AppendsKnowTheStore, NamedUnlessUnread, Follows
<1>5. overlapped' \/ TurnsAreKept'
  BY <1>1, <1>2, OpenedAlone
<1> QED BY <1>1, <1>3, <1>4, <1>5, EntryStays DEF Inductive

LEMMA InductiveOpenAnew ==
    ASSUME Inductive, NEW e \in Editor, OpenAnew(e)
    PROVE  Inductive'
<1>1. PICK id \in Lineage, x \in Edit \ made :
          /\ store # None => store.id # id
          /\ replica' = [replica EXCEPT ![e] = [id |-> id, version |-> {x}]]
          /\ made' = made \cup {x}
  BY DEF OpenAnew
<1> DEFINE r == [id |-> id, version |-> {x}]
<1>2. Opens(e) /\ UNCHANGED <<store, history, appended, compactDue, write, fold, unread>>
  BY DEF OpenAnew
<1>3. r \in Replica /\ r # None /\ Contains(r)
  BY <1>1, KitReplicaAssumption DEF Replica, Contains
<1> HIDE DEF r
<1>4. TypeOK'
  <2>1. overlapped' \in BOOLEAN
    BY <1>2 DEF Opens
  <2>2. replica' \in [Editor -> Replica \cup {None}]
    BY <1>1, <1>3 DEF Inductive, TypeOK, r
  <2> QED BY <1>1, <1>2, <2>1, <2>2 DEF Inductive, TypeOK
<1>5. CallsAreMade' /\ AppendsKnowTheStore' /\ NamedUnlessUnread'
  BY <1>2 DEF Inductive, CallsAreMade, AppendsKnowTheStore, NamedUnlessUnread, Follows
<1>6. overlapped' \/ TurnsAreKept'
  BY <1>1, <1>2, <1>3, OpenedAlone DEF r
<1> QED BY <1>2, <1>4, <1>5, <1>6, EntryStays DEF Inductive

LEMMA InductiveMakeEdit ==
    ASSUME Inductive, NEW e \in Editor, MakeEdit(e)
    PROVE  Inductive'
<1>1. PICK x \in Edit \ made :
          /\ replica' = [replica EXCEPT ![e].version = @ \cup {x}]
          /\ made' = made \cup {x}
  BY DEF MakeEdit
<1>2. /\ replica[e] # None
      /\ UNCHANGED <<store, history, appended, compactDue, write, fold, overlapped, unread>>
  BY DEF MakeEdit
<1>3. /\ replica[e] \in Replica /\ replica'[e] \in Replica
      /\ replica'[e].id = replica[e].id /\ replica[e].version \subseteq replica'[e].version
      /\ replica' \in [Editor -> Replica \cup {None}]
      /\ \A o \in Editor : o # e => replica'[o] = replica[o]
  BY <1>1, <1>2, Types DEF Inductive, TypeOK, Replica
<1>4. TypeOK'
  BY <1>1, <1>2, <1>3 DEF Inductive, TypeOK
<1>5. CallsAreMade' /\ AppendsKnowTheStore' /\ NamedUnlessUnread'
  BY <1>2 DEF Inductive, CallsAreMade, AppendsKnowTheStore, NamedUnlessUnread, Follows
<1>6. ASSUME TurnsAreKept PROVE TurnsAreKept'
  <2>1. replica'[e] # None
    BY <1>3, KitReplicaAssumption
  <2>2. OneAtATime'
    BY <1>2, <1>3, <1>6 DEF TurnsAreKept, OneAtATime, Active, Quiet
  <2>3. CallsAreOwn'
    BY <1>2, <1>3, <1>6, <2>1 DEF TurnsAreKept, CallsAreOwn
  <2>4. ReplicasContain'
    BY <1>2, <1>3, <1>6 DEF TurnsAreKept, ReplicasContain, Contains
  <2>5. HeadsAreCurrent' /\ HistoryIsKept'
    BY <1>2, <1>6 DEF TurnsAreKept, HeadsAreCurrent, HistoryIsKept, HistoryIsContained,
       SnapshotsContain
  <2> QED BY <2>2, <2>3, <2>4, <2>5 DEF TurnsAreKept
<1> QED BY <1>2, <1>4, <1>5, <1>6, EntryStays DEF Inductive

-----------------------------------------------------------------------------
(* The writes.                                                             *)

\* A write that goes on, with the entry, the replicas and the folds as they were.
LEMMA WriteGoesOn ==
    ASSUME Inductive, NEW e \in Editor, NEW c \in WriteCall, write' = [write EXCEPT ![e] = c],
           UNCHANGED <<store, history, replica, fold, overlapped>>, unread => unread',
           c.step # "idle" => c.replica # None,
           ~unread' /\ c.step \in {"append", "snapshot"} => c.named,
           c.step = "append" =>
              /\ c.head # None /\ Follows(c.replica, c.head)
              /\ store # None /\ c.head.seq <= store.seq
              /\ c.head.seq = store.seq => c.head.version = store.version,
           TurnsAreKept =>
              /\ c.step # "idle" => /\ replica[e] # None
                                    /\ c.replica.id = replica[e].id
                                    /\ c.replica.version \subseteq replica[e].version
              /\ c.step \in {"head", "append", "snapshot"} => Contains(c.replica)
              /\ c.step = "append" => store = c.head
              /\ ~unread' /\ c.step = "snapshot" /\ ~c.fresh /\ store # None =>
                    store.version \subseteq c.replica.version
    PROVE  /\ write' \in [Editor -> WriteCall]
           /\ CallsAreMade' /\ AppendsKnowTheStore' /\ NamedUnlessUnread'
           /\ EntryHasHistory' /\ StoreHoldsItsVersion'
           /\ overlapped' \/ TurnsAreKept'
<1>1. /\ write' \in [Editor -> WriteCall] /\ write'[e] = c
      /\ \A o \in Editor : o # e => write'[o] = write[o]
  BY Types DEF Inductive
<1>2. CallsAreMade'
  BY <1>1 DEF Inductive, CallsAreMade, Follows
<1>3. AppendsKnowTheStore' /\ NamedUnlessUnread'
  BY <1>1 DEF Inductive, AppendsKnowTheStore, NamedUnlessUnread
<1>4. ASSUME TurnsAreKept PROVE TurnsAreKept'
  <2>1. \A o \in Editor : Active(o)' => Active(o)
    BY <1>1, <1>4 DEF Active, Quiet
  <2>2. OneAtATime'
    BY <1>4, <2>1 DEF TurnsAreKept, OneAtATime
  <2>3. CallsAreOwn'
    BY <1>1, <1>4 DEF TurnsAreKept, CallsAreOwn
  <2>4. ReplicasContain'
    BY <1>1, <1>4 DEF TurnsAreKept, ReplicasContain, Contains
  <2>5. HeadsAreCurrent'
    BY <1>1, <1>4 DEF TurnsAreKept, HeadsAreCurrent
  <2>6. HistoryIsKept'
    BY <1>1, <1>4, EntryStays DEF TurnsAreKept, HistoryIsKept, SnapshotsContain
  <2> QED BY <2>2, <2>3, <2>4, <2>5, <2>6 DEF TurnsAreKept
<1> QED BY <1>1, <1>2, <1>3, <1>4, EntryStays DEF Inductive

LEMMA InductiveBeginWrite ==
    ASSUME Inductive, NEW e \in Editor, BeginWrite(e)
    PROVE  Inductive'
<1> DEFINE c == [NoCall EXCEPT !.step = "head", !.replica = replica[e]]
<1>1. /\ replica[e] # None
      /\ write' = [write EXCEPT ![e] = c]
      /\ UNCHANGED <<store, history, appended, compactDue, replica, fold, made, overlapped, unread>>
  BY DEF BeginWrite
<1>2. replica[e] \in Replica
  BY <1>1, Types DEF Inductive
<1>3. c \in WriteCall /\ c.step = "head" /\ c.replica = replica[e]
  BY <1>2, NoCallType DEF WriteCall, Calls, WriteSteps
<1> HIDE DEF c
<1>4. TurnsAreKept => Contains(replica[e])
  BY <1>1 DEF TurnsAreKept, ReplicasContain
<1>5. /\ write' \in [Editor -> WriteCall]
      /\ CallsAreMade' /\ AppendsKnowTheStore' /\ NamedUnlessUnread'
      /\ EntryHasHistory' /\ StoreHoldsItsVersion'
      /\ overlapped' \/ TurnsAreKept'
  BY <1>1, <1>3, <1>4, WriteGoesOn
<1>6. TypeOK'
  BY <1>1, <1>5 DEF Inductive, TypeOK, WriteCall, Calls
<1> QED BY <1>5, <1>6 DEF Inductive

LEMMA InductiveReadHead ==
    ASSUME Inductive, NEW e \in Editor, ReadHead(e)
    PROVE  Inductive'
<1> DEFINE r == write[e].replica
           known == store # None /\ store.named
           follow == known /\ Follows(r, store)
           asked == known /\ store.id = r.id /\ compactDue
           s == IF follow /\ ~compactDue THEN "append" ELSE "snapshot"
           f == known /\ ~follow /\ ~asked
           c == [write[e] EXCEPT !.head = store, !.named = TRUE, !.step = s, !.fresh = f]
<1>0. write[e] \in WriteCall /\ write \in [Editor -> WriteCall] /\ store \in Stored \cup {None}
  BY Types DEF Inductive, TypeOK
<1>1. /\ write[e].step = "head"
      /\ write' = [write EXCEPT ![e] = c]
      /\ UNCHANGED <<store, history, appended, compactDue, replica, fold, made, overlapped, unread>>
  BY DEF ReadHead
<1>2. ~unread => (store # None => store.named)
  BY DEF Inductive, NamedUnlessUnread
<1>3. s \in {"append", "snapshot"} /\ f \in BOOLEAN
  BY DEF Follows
<1>4. /\ s = "append" => follow
      /\ s = "snapshot" /\ ~f /\ known => follow \/ store.id = r.id
  OBVIOUS
<1>5. r # None
  BY <1>1 DEF Inductive, CallsAreMade
<1>6. TurnsAreKept =>
         /\ Contains(r)
         /\ replica[e] # None /\ r.id = replica[e].id /\ r.version \subseteq replica[e].version
  BY <1>1 DEF TurnsAreKept, ReplicasContain, CallsAreOwn
<1>7. store # None => store.seq \in Nat /\ store.seq <= store.seq
  BY <1>0 DEF Stored
<1>8. /\ follow => store # None /\ Follows(r, store)
      /\ follow => store.version \subseteq r.version
      /\ Contains(r) /\ store # None /\ store.id = r.id => store.version \subseteq r.version
  BY DEF Follows, Contains
<1> HIDE DEF s, f, follow
<1>9. c \in WriteCall /\ c.step = s /\ c.replica = r /\ c.head = store /\ c.fresh = f /\ c.named
  BY <1>0, <1>3 DEF WriteCall, Calls, WriteSteps
<1> HIDE DEF c, r
<1>10. /\ write' \in [Editor -> WriteCall]
       /\ CallsAreMade' /\ AppendsKnowTheStore' /\ NamedUnlessUnread'
       /\ EntryHasHistory' /\ StoreHoldsItsVersion'
       /\ overlapped' \/ TurnsAreKept'
  BY <1>1, <1>2, <1>3, <1>4, <1>5, <1>6, <1>7, <1>8, <1>9, WriteGoesOn
<1>11. TypeOK'
  BY <1>1, <1>10 DEF Inductive, TypeOK, WriteCall, Calls
<1> QED BY <1>10, <1>11 DEF Inductive

LEMMA InductiveHeadFails ==
    ASSUME Inductive, NEW e \in Editor, HeadFails(e)
    PROVE  Inductive'
<1> DEFINE c == [write[e] EXCEPT !.step = "snapshot"]
<1>0. write[e] \in WriteCall /\ write \in [Editor -> WriteCall]
  BY Types DEF Inductive
<1>1. /\ write[e].step = "head" /\ write' = [write EXCEPT ![e] = c] /\ unread'
      /\ UNCHANGED <<store, history, appended, compactDue, replica, fold, made, overlapped>>
  BY <1>0 DEF HeadFails
<1>2. c \in WriteCall /\ c.step = "snapshot" /\ c.replica = write[e].replica
  BY <1>0 DEF WriteCall, Calls, WriteSteps
<1>3. /\ c.replica # None
      /\ TurnsAreKept => /\ Contains(c.replica)
                         /\ replica[e] # None /\ c.replica.id = replica[e].id
                         /\ c.replica.version \subseteq replica[e].version
  BY <1>1, <1>2 DEF Inductive, CallsAreMade, TurnsAreKept, ReplicasContain, CallsAreOwn
<1> HIDE DEF c
<1>4. /\ write' \in [Editor -> WriteCall]
      /\ CallsAreMade' /\ AppendsKnowTheStore' /\ NamedUnlessUnread'
      /\ EntryHasHistory' /\ StoreHoldsItsVersion'
      /\ overlapped' \/ TurnsAreKept'
  BY <1>1, <1>2, <1>3, WriteGoesOn
<1>5. TypeOK'
  BY <1>1, <1>4 DEF HeadFails, Inductive, TypeOK, WriteCall
<1> QED BY <1>4, <1>5 DEF Inductive

\* A write that ends, answered or not.
LEMMA WriteEnds ==
    ASSUME Inductive, NEW e \in Editor, write' = [write EXCEPT ![e] = NoCall],
           UNCHANGED <<store, history, replica, fold, made, overlapped, unread>>,
           appended' \in Replica \cup {None}, compactDue' \in BOOLEAN
    PROVE  Inductive'
<1>1. /\ write' \in [Editor -> WriteCall]
      /\ CallsAreMade' /\ AppendsKnowTheStore' /\ NamedUnlessUnread'
      /\ EntryHasHistory' /\ StoreHoldsItsVersion'
      /\ overlapped' \/ TurnsAreKept'
  BY NoCallType, WriteGoesOn
<1>2. TypeOK'
  BY <1>1 DEF Inductive, TypeOK, WriteCall, Calls
<1> QED BY <1>1, <1>2 DEF Inductive

LEMMA InductiveAppendAnswered ==
    ASSUME Inductive, NEW e \in Editor, AppendAnswered(e)
    PROVE  Inductive'
<1>1. appended' \in Replica \cup {None} /\ compactDue' \in BOOLEAN
  BY Types DEF AppendAnswered, Inductive
<1> QED BY <1>1, WriteEnds DEF AppendAnswered

LEMMA InductiveReplaceAnswered ==
    ASSUME Inductive, NEW e \in Editor, ReplaceAnswered(e)
    PROVE  Inductive'
BY WriteEnds DEF ReplaceAnswered

LEMMA InductiveWriteFails ==
    ASSUME Inductive, NEW e \in Editor, WriteFails(e)
    PROVE  Inductive'
<1>1. appended \in Replica \cup {None} /\ compactDue \in BOOLEAN
  BY DEF Inductive, TypeOK
<1> QED BY <1>1, WriteEnds DEF WriteFails

-----------------------------------------------------------------------------
(* The steps that change the entry.                                        *)

\* An entry of a higher seq makes every append under way try in vain.
LEMMA SeqGoesUp ==
    ASSUME Inductive, store' \in Stored, store' # None, store'.seq = SeqOf(store) + 1,
           \A o \in Editor : write'[o].step = "append" => write'[o] = write[o]
    PROVE  AppendsKnowTheStore'
<1> SUFFICES ASSUME NEW o \in Editor, write'[o].step = "append"
             PROVE  write'[o].head.seq <= store'.seq /\ write'[o].head.seq # store'.seq
  BY DEF AppendsKnowTheStore
<1>1. write'[o] = write[o] /\ write[o].step = "append"
  OBVIOUS
<1>2. store # None /\ write[o].head # None /\ write[o].head.seq <= store.seq
  BY <1>1 DEF Inductive, CallsAreMade, AppendsKnowTheStore
<1>3. store.seq \in Nat /\ write[o].head.seq \in Nat /\ store'.seq = store.seq + 1
  BY <1>2, Types DEF Inductive, TypeOK, Stored, SeqOf
<1> QED BY <1>1, <1>2, <1>3

\* In turn, an entry that holds what it held and what the editor has keeps the rest.
LEMMA TurnStores ==
    ASSUME Inductive, TurnsAreKept, NEW e \in Editor, Active(e),
           replica' = replica,
           \A o \in Editor : o # e => write'[o] = write[o] /\ fold'[o] = fold[o],
           store' # None,
           fold'[e].step # "write" /\ write'[e].step \notin {"head", "append", "snapshot"},
           write'[e].step = "idle" \/ (fold'[e].step = "idle" /\ write'[e].replica = write[e].replica
                                       /\ write[e].step # "idle"),
           replica[e] # None => /\ fold'[e].step = "idle"
                                /\ store'.id = replica[e].id => store'.version \subseteq replica[e].version,
           ~unread' => \A v \in history' : v \subseteq store'.version
    PROVE  TurnsAreKept'
<1>1. \A o \in Editor : o # e => ~Active(o)
  BY DEF TurnsAreKept, OneAtATime
<1>2. \A o \in Editor : o # e =>
          replica'[o] = None /\ write'[o].step = "idle" /\ fold'[o].step = "idle"
  BY <1>1 DEF Active, Quiet
<1>3. OneAtATime'
  BY <1>2 DEF OneAtATime, Active, Quiet
<1>4. CallsAreOwn'
  BY <1>2 DEF TurnsAreKept, CallsAreOwn
<1>5. ReplicasContain' /\ HeadsAreCurrent'
  BY <1>2 DEF ReplicasContain, Contains, HeadsAreCurrent
<1>6. HistoryIsKept'
  BY <1>2 DEF HistoryIsKept, HistoryIsContained, SnapshotsContain
<1> QED BY <1>3, <1>4, <1>5, <1>6 DEF TurnsAreKept

LEMMA StoredFields ==
    ASSUME NEW st \in Stored
    PROVE  /\ st.id \in Lineage /\ st.version \in SUBSET Edit /\ st.holds \in SUBSET Edit
           /\ st.seq \in Nat /\ st.log \in Nat /\ st.named \in BOOLEAN
           /\ st = [id |-> st.id, version |-> st.version, named |-> st.named, holds |-> st.holds,
                    seq |-> st.seq, log |-> st.log]
BY DEF Stored

Appended(st, v, h) == [st EXCEPT !.version = v, !.holds = h,
                                 !.seq = st.seq + 1, !.log = st.log + 1]

LEMMA AppendedType ==
    ASSUME NEW st \in Stored, NEW v \in SUBSET Edit, NEW h \in SUBSET Edit,
           NEW next, next = Appended(st, v, h)
    PROVE  /\ next \in Stored /\ next.version = v /\ next.id = st.id
           /\ next.seq = st.seq + 1 /\ next.holds = h /\ next.named = st.named
<1>1. next = [id |-> st.id, version |-> v, named |-> st.named, holds |-> h,
              seq |-> st.seq + 1, log |-> st.log + 1]
  <2>1. DOMAIN st = {"id", "version", "named", "holds", "seq", "log"}
    BY StoredFields
  <2> QED BY <2>1 DEF Appended
<1>2. st.id \in Lineage /\ st.seq + 1 \in Nat /\ st.log + 1 \in Nat /\ st.named \in BOOLEAN
  BY StoredFields
<1> QED BY <1>1, <1>2 DEF Stored

LEMMA InductiveAppendChanges ==
    ASSUME Inductive, NEW e \in Editor, AppendChanges(e)
    PROVE  Inductive'
<1> DEFINE w == write[e]
<1>0. /\ w \in WriteCall /\ write \in [Editor -> WriteCall] /\ w.step = "append"
      /\ w.replica \in Replica /\ w.head \in Stored /\ Follows(w.replica, w.head)
      /\ store \in Stored
      /\ w.head.seq = store.seq => w.head.version = store.version
      /\ store.holds = store.version
      /\ ~unread => w.named /\ store.named
  BY Types DEF NamedUnlessUnread, AppendChanges, Inductive, CallsAreMade, AppendsKnowTheStore, TypeOK,
               StoreHoldsItsVersion
<1>1. UNCHANGED <<appended, compactDue, replica, fold, made, overlapped, unread>>
  BY DEF AppendChanges
<1>2. CASE AtSeq(store, w.head)
  <2>1. /\ store' = [store EXCEPT !.version = w.replica.version,
                         !.holds = @ \cup (w.replica.version \ w.head.version),
                         !.seq = @ + 1, !.log = @ + 1]
        /\ history' = history \cup {w.replica.version}
        /\ write' = [write EXCEPT ![e].step = "appended",
                                  ![e].compact = store.log + 1 >= CompactAfter]
    BY <1>2 DEF AppendChanges
  <2>2. /\ store' \in Stored /\ store'.version = w.replica.version /\ store'.id = store.id
        /\ store'.seq = store.seq + 1 /\ store'.named = store.named
        /\ store'.holds = store.holds \cup (w.replica.version \ w.head.version)
    <3> DEFINE h == store.holds \cup (w.replica.version \ w.head.version)
    <3>1. w.replica.version \in SUBSET Edit /\ h \in SUBSET Edit
      <4>1. w.replica.version \in SUBSET Edit
        BY <1>0 DEF Replica
      <4>2. store.holds \in SUBSET Edit
        BY <1>0, StoredFields
      <4> HIDE DEF w
      <4> QED BY <4>1, <4>2
    <3> DEFINE v == w.replica.version
    <3>2. store' = Appended(store, v, h)
      BY <2>1, Zenon DEF Appended
    <3> HIDE DEF w, h
    <3>3. /\ store' \in Stored /\ store'.version = w.replica.version /\ store'.named = store.named
          /\ store'.id = store.id /\ store'.seq = store.seq + 1 /\ store'.holds = h
      <4> HIDE DEF v
      <4>1. v \in SUBSET Edit
        BY <3>1 DEF v
      <4>2. store \in Stored
        BY <1>0
      <4>3. /\ store' \in Stored /\ store'.version = v /\ store'.id = store.id
            /\ store'.seq = store.seq + 1 /\ store'.holds = h /\ store'.named = store.named
        BY <3>1, <3>2, <4>1, <4>2, AppendedType
      <4> QED BY <4>3 DEF v
    <3> QED BY <3>3 DEF h
  <2>3. store.version = w.head.version /\ store.version \subseteq w.replica.version
    BY <1>0, <1>2 DEF AtSeq, Follows
  <2>4. /\ write' \in [Editor -> WriteCall]
        /\ write'[e].step = "appended" /\ write'[e].replica = w.replica
        /\ \A o \in Editor : o # e => write'[o] = write[o]
    <3>1. (store.log + 1 >= CompactAfter) \in BOOLEAN
      OBVIOUS
    <3> QED BY <1>0, <2>1, <3>1 DEF WriteCall, Calls, WriteSteps
  <2>5. store # None /\ store' # None /\ SeqOf(store) = store.seq
    BY <1>0, <2>2, KitReplicaAssumption DEF SeqOf
  <2>6. TypeOK'
    <3>1. history' \subseteq SUBSET Edit
      BY <1>0, <2>1 DEF Inductive, TypeOK, Replica
    <3> QED BY <1>1, <2>2, <2>4, <3>1 DEF Inductive, TypeOK, WriteCall, Calls
  <2>7. CallsAreMade'
    BY <1>0, <1>1, <2>4 DEF Inductive, CallsAreMade, Follows
  <2>8. AppendsKnowTheStore'
    BY <2>2, <2>4, <2>5, SeqGoesUp
  <2>9. EntryHasHistory' /\ StoreHoldsItsVersion'
    BY <1>0, <2>2, <2>3, <2>5 DEF EntryHasHistory, StoreHoldsItsVersion
  <2>11. NamedUnlessUnread'
    BY <1>0, <1>1, <2>2, <2>4 DEF Inductive, NamedUnlessUnread
  <2>10. ASSUME TurnsAreKept PROVE TurnsAreKept'
    <3>1. Active(e) /\ fold[e].step = "idle" /\ replica[e] # None
      BY <1>0, <2>10 DEF Active, Quiet, TurnsAreKept, CallsAreOwn
    <3>2. store'.version \subseteq replica[e].version
      BY <1>0, <2>2, <2>10 DEF TurnsAreKept, CallsAreOwn
    <3>3. ~unread' => \A v \in history' : v \subseteq store'.version
      BY <1>1, <2>1, <2>2, <2>3, <2>5, <2>10 DEF TurnsAreKept, HistoryIsKept, HistoryIsContained
    <3>4. \A o \in Editor : o # e => write'[o] = write[o] /\ fold'[o] = fold[o]
      BY <1>1, <2>4
    <3> HIDE DEF w
    <3> QED BY <1>0, <1>1, <2>4, <2>5, <2>10, <3>1, <3>2, <3>3, <3>4, TurnStores DEF w
  <2> QED BY <1>1, <2>6, <2>7, <2>8, <2>9, <2>10, <2>11 DEF Inductive
<1>3. CASE ~AtSeq(store, w.head)
  <2> DEFINE c == [w EXCEPT !.step = "snapshot"]
  <2>1. write' = [write EXCEPT ![e] = c] /\ UNCHANGED <<store, history>>
    BY <1>0, <1>3 DEF AppendChanges
  <2>2. /\ c \in WriteCall /\ c.step = "snapshot" /\ c.replica = w.replica /\ c.head = w.head
        /\ c.named = w.named
    BY <1>0 DEF WriteCall, Calls, WriteSteps
  <2>3. ~TurnsAreKept
    BY <1>0, <1>3, KitReplicaAssumption DEF TurnsAreKept, HeadsAreCurrent, AtSeq
  <2>4. c.replica # None
    BY <1>0, <2>2, KitReplicaAssumption
  <2> HIDE DEF c
  <2>5. /\ write' \in [Editor -> WriteCall]
        /\ CallsAreMade' /\ AppendsKnowTheStore' /\ NamedUnlessUnread'
        /\ EntryHasHistory' /\ StoreHoldsItsVersion'
        /\ overlapped' \/ TurnsAreKept'
    BY <1>0, <1>1, <2>1, <2>2, <2>3, <2>4, WriteGoesOn
  <2>6. TypeOK'
    BY <1>1, <2>1, <2>5 DEF Inductive, TypeOK, WriteCall, Calls
  <2> QED BY <2>5, <2>6 DEF Inductive
<1> QED BY <1>2, <1>3

LEMMA InductiveReplaceStored ==
    ASSUME Inductive, NEW e \in Editor, ReplaceStored(e)
    PROVE  Inductive'
<1> DEFINE w == write[e]
<1>0. /\ w \in WriteCall /\ write \in [Editor -> WriteCall] /\ w.step = "snapshot"
      /\ w.replica \in Replica /\ w.named \in BOOLEAN
  BY Types DEF ReplaceStored, Inductive, CallsAreMade, WriteCall, Calls
<1>1. /\ store' = Whole(w.replica, w.named)
      /\ history' = HistoryLeft(w.fresh) \cup {w.replica.version}
      /\ write' = [write EXCEPT ![e].step = "replaced"]
      /\ UNCHANGED <<appended, compactDue, replica, fold, made, overlapped, unread>>
  BY DEF ReplaceStored
<1>2. /\ store' \in Stored /\ store' # None
      /\ store'.id = w.replica.id /\ store'.version = w.replica.version
      /\ store'.holds = w.replica.version /\ store'.seq = SeqOf(store) + 1
      /\ store'.named = w.named
  <2> HIDE DEF w
  <2> QED BY <1>0, <1>1, WholeType DEF Inductive
<1>3. /\ write' \in [Editor -> WriteCall]
      /\ write'[e].step = "replaced" /\ write'[e].replica = w.replica
      /\ \A o \in Editor : o # e => write'[o] = write[o]
  BY <1>0, <1>1 DEF WriteCall, Calls, WriteSteps
<1>4. TypeOK'
  <2>1. history' \subseteq SUBSET Edit
    BY <1>0, <1>1 DEF Inductive, TypeOK, Replica, HistoryLeft
  <2> QED BY <1>1, <1>2, <1>3, <2>1 DEF Inductive, TypeOK, WriteCall, Calls
<1>5. CallsAreMade'
  BY <1>0, <1>1, <1>3, KitReplicaAssumption DEF Inductive, CallsAreMade, Follows
<1>6. AppendsKnowTheStore'
  BY <1>2, <1>3, SeqGoesUp
<1>7. EntryHasHistory' /\ StoreHoldsItsVersion'
  BY <1>2 DEF EntryHasHistory, StoreHoldsItsVersion
<1>9. NamedUnlessUnread'
  BY <1>0, <1>1, <1>2, <1>3 DEF Inductive, NamedUnlessUnread
<1>8. ASSUME TurnsAreKept PROVE TurnsAreKept'
  <2>1. Active(e) /\ fold[e].step = "idle" /\ replica[e] # None
    BY <1>0, <1>8 DEF Active, Quiet, TurnsAreKept, CallsAreOwn
  <2>2. store'.version \subseteq replica[e].version
    BY <1>0, <1>2, <1>8 DEF TurnsAreKept, CallsAreOwn
  <2>3. ~unread' => \A v \in history' : v \subseteq store'.version
    <3> SUFFICES ASSUME ~unread PROVE \A v \in history' : v \subseteq store'.version
      BY <1>1
    <3>1. CASE w.fresh
      BY <1>1, <1>2, <3>1 DEF HistoryLeft
    <3>2. CASE ~w.fresh /\ store = None
      BY <1>1, <1>2, <3>2 DEF HistoryLeft, Inductive, EntryHasHistory
    <3>3. CASE ~w.fresh /\ store # None
      <4>1. store.version \subseteq w.replica.version
        BY <1>0, <1>8, <3>3 DEF TurnsAreKept, HistoryIsKept, SnapshotsContain
      <4> QED BY <1>1, <1>2, <1>8, <3>3, <4>1 DEF HistoryLeft, TurnsAreKept, HistoryIsKept,
              HistoryIsContained
    <3> QED BY <3>1, <3>2, <3>3
  <2>4. \A o \in Editor : o # e => write'[o] = write[o] /\ fold'[o] = fold[o]
    BY <1>1, <1>3
  <2> HIDE DEF w
  <2> QED BY <1>0, <1>1, <1>2, <1>3, <1>8, <2>1, <2>2, <2>3, <2>4, TurnStores DEF w
<1> QED BY <1>1, <1>4, <1>5, <1>6, <1>7, <1>8, <1>9 DEF Inductive

-----------------------------------------------------------------------------
(* The folds.                                                              *)

LEMMA InductiveClose ==
    ASSUME Inductive, NEW e \in Editor, Close(e)
    PROVE  Inductive'
<1> DEFINE c == [NoCall EXCEPT !.step = "head", !.replica = appended]
<1>0. /\ write \in [Editor -> WriteCall] /\ fold \in [Editor -> FoldCall]
      /\ appended \in Replica \cup {None}
  BY DEF Inductive, TypeOK, WriteCall, FoldCall, Calls
<1>1. /\ replica[e] # None /\ fold[e].step = "idle"
      /\ overlapped' = (overlapped \/ write[e].step # "idle")
      /\ replica' = [replica EXCEPT ![e] = None]
      /\ appended' = None
      /\ fold' = IF appended = None THEN fold ELSE [fold EXCEPT ![e] = c]
      /\ UNCHANGED <<store, history, compactDue, write, made, unread>>
  BY DEF Close
<1>2. c \in FoldCall /\ c.step = "head" /\ c.replica = appended
  BY <1>0, NoCallType DEF FoldCall, Calls, FoldSteps
<1> HIDE DEF c
<1>3. /\ fold' \in [Editor -> FoldCall]
      /\ \A o \in Editor : o # e => fold'[o] = fold[o]
      /\ fold'[e].step # "write"
      /\ fold'[e].step # "idle" => fold'[e].replica # None
  <2>1. CASE appended = None
    BY <1>0, <1>1, <2>1
  <2>2. CASE appended # None
    BY <1>0, <1>1, <1>2, <2>2
  <2> QED BY <2>1, <2>2
<1>4. /\ replica' \in [Editor -> Replica \cup {None}] /\ replica'[e] = None
      /\ \A o \in Editor : o # e => replica'[o] = replica[o]
  BY <1>1 DEF Inductive, TypeOK
<1>5. TypeOK'
  <2>1. overlapped' \in BOOLEAN
    BY <1>1 DEF Inductive, TypeOK
  <2> QED BY <1>1, <1>3, <1>4, <2>1 DEF Inductive, TypeOK, FoldCall, Calls
<1>6. CallsAreMade' /\ AppendsKnowTheStore' /\ NamedUnlessUnread'
  BY <1>1, <1>3 DEF Inductive, CallsAreMade, AppendsKnowTheStore, NamedUnlessUnread, Follows
<1>7. ASSUME ~overlapped' PROVE TurnsAreKept'
  <2>1. write[e].step = "idle" /\ TurnsAreKept
    BY <1>1, <1>7 DEF Inductive
  <2>2. \A o \in Editor : o # e => ~Active(o)
    BY <1>1, <2>1 DEF Active, TurnsAreKept, OneAtATime
  <2>3. /\ \A o \in Editor : replica'[o] = None /\ write'[o].step = "idle"
        /\ \A o \in Editor : o # e => fold'[o].step = "idle"
    BY <1>1, <1>3, <1>4, <2>1, <2>2 DEF Active, Quiet
  <2>4. OneAtATime' /\ CallsAreOwn' /\ ReplicasContain'
    BY <2>3 DEF OneAtATime, Active, Quiet, CallsAreOwn, ReplicasContain
  <2>5. HeadsAreCurrent'
    BY <1>3, <2>3 DEF HeadsAreCurrent
  <2>6. HistoryIsKept'
    BY <1>1, <2>1, EntryStays DEF TurnsAreKept, HistoryIsKept, SnapshotsContain
  <2> QED BY <2>4, <2>5, <2>6 DEF TurnsAreKept
<1> QED BY <1>1, <1>5, <1>6, <1>7, EntryStays DEF Inductive

\* A fold that goes on or ends, with the rest as it was.
LEMMA FoldGoesOn ==
    ASSUME Inductive, NEW e \in Editor, NEW c \in FoldCall, fold' = [fold EXCEPT ![e] = c],
           fold[e].step # "idle",
           UNCHANGED <<store, history, appended, replica, write, made, overlapped, unread>>,
           compactDue' \in BOOLEAN,
           c.step # "idle" => c.replica # None,
           c.step = "write" => /\ c.head # None /\ store = c.head
                               /\ store.version = c.replica.version
    PROVE  Inductive'
<1>1. /\ fold' \in [Editor -> FoldCall] /\ fold'[e] = c
      /\ \A o \in Editor : o # e => fold'[o] = fold[o]
  BY Types DEF Inductive
<1>2. TypeOK'
  BY <1>1 DEF Inductive, TypeOK, FoldCall, Calls
<1>3. CallsAreMade' /\ AppendsKnowTheStore' /\ NamedUnlessUnread'
  BY <1>1 DEF Inductive, CallsAreMade, AppendsKnowTheStore, NamedUnlessUnread, Follows
<1>4. ASSUME TurnsAreKept PROVE TurnsAreKept'
  <2>1. \A o \in Editor : Active(o)' => Active(o)
    BY <1>1 DEF Active, Quiet
  <2>2. OneAtATime'
    BY <1>4, <2>1 DEF TurnsAreKept, OneAtATime
  <2>3. CallsAreOwn' /\ ReplicasContain'
    BY <1>1, <1>4 DEF TurnsAreKept, CallsAreOwn, ReplicasContain, Contains
  <2>4. HeadsAreCurrent'
    BY <1>1, <1>4 DEF TurnsAreKept, HeadsAreCurrent
  <2>5. HistoryIsKept'
    BY <1>4, EntryStays DEF TurnsAreKept, HistoryIsKept, SnapshotsContain
  <2> QED BY <2>2, <2>3, <2>4, <2>5 DEF TurnsAreKept
<1> QED BY <1>2, <1>3, <1>4, EntryStays DEF Inductive

LEMMA InductiveFoldHead ==
    ASSUME Inductive, NEW e \in Editor, FoldHead(e)
    PROVE  Inductive'
<1> DEFINE c == IF StillStored(fold[e].replica)
                THEN [fold[e] EXCEPT !.step = "write", !.head = store] ELSE NoCall
<1>0. /\ fold[e] \in FoldCall /\ fold \in [Editor -> FoldCall] /\ store \in Stored \cup {None}
      /\ compactDue \in BOOLEAN
  BY Types DEF Inductive, TypeOK
<1>1. /\ fold[e].step = "head" /\ fold[e].replica # None
      /\ fold' = [fold EXCEPT ![e] = c]
      /\ UNCHANGED <<store, history, appended, compactDue, replica, write, made, overlapped, unread>>
  BY <1>0 DEF FoldHead, Inductive, CallsAreMade
<1>2. /\ c \in FoldCall
      /\ c.step # "idle" => c.replica # None
      /\ c.step = "write" => c.head # None /\ store = c.head /\ store.version = c.replica.version
  <2>1. CASE StillStored(fold[e].replica)
    <3>1. /\ c \in FoldCall /\ c.step = "write" /\ c.head = store /\ c.replica = fold[e].replica
      BY <1>0, <2>1 DEF FoldCall, Calls, FoldSteps
    <3> QED BY <1>1, <2>1, <3>1 DEF StillStored
  <2>2. CASE ~StillStored(fold[e].replica)
    BY <2>2, NoCallType
  <2> QED BY <2>1, <2>2
<1> HIDE DEF c
<1> QED BY <1>0, <1>1, <1>2, FoldGoesOn

LEMMA InductiveFoldAnswered ==
    ASSUME Inductive, NEW e \in Editor, FoldAnswered(e)
    PROVE  Inductive'
<1>1. NoCall \in FoldCall /\ NoCall.step = "idle"
  BY NoCallType
<1> QED BY <1>1, FoldGoesOn DEF FoldAnswered

LEMMA InductiveFoldFails ==
    ASSUME Inductive, NEW e \in Editor, FoldFails(e)
    PROVE  Inductive'
<1>1. NoCall \in FoldCall /\ NoCall.step = "idle" /\ compactDue \in BOOLEAN
  BY NoCallType DEF Inductive, TypeOK
<1> QED BY <1>1, FoldGoesOn DEF FoldFails

\* What a fold writes.
LEMMA Folded ==
    ASSUME Inductive, NEW e \in Editor, FoldWrite(e)
    PROVE  /\ fold[e].replica \in Replica /\ fold[e].head \in Stored
           /\ store' \in Stored /\ store' # None
           /\ store'.id = fold[e].head.id /\ store'.version = fold[e].replica.version
           /\ store'.holds = fold[e].replica.version /\ store'.seq = SeqOf(store) + 1
           /\ store'.named
<1> DEFINE r == [fold[e].replica EXCEPT !.id = fold[e].head.id]
<1>1. fold[e].replica \in Replica /\ fold[e].head \in Stored
  BY Types DEF FoldWrite, Inductive, CallsAreMade
<1>2. r \in Replica /\ r.id = fold[e].head.id /\ r.version = fold[e].replica.version
  BY <1>1 DEF Replica, Stored
<1>3. store' = Whole(r, TRUE)
  BY DEF FoldWrite
<1> HIDE DEF r
<1> QED BY <1>1, <1>2, <1>3, WholeType DEF Inductive

LEMMA InductiveFoldWrite ==
    ASSUME Inductive, NEW e \in Editor, FoldWrite(e)
    PROVE  Inductive'
<1>0. fold[e] \in FoldCall /\ fold \in [Editor -> FoldCall] /\ fold[e].step = "write"
  BY Types DEF FoldWrite, Inductive
<1>1. /\ fold' = [fold EXCEPT ![e].step = "written"]
      /\ UNCHANGED <<history, appended, compactDue, replica, write, made, overlapped, unread>>
  BY DEF FoldWrite
<1>2. /\ fold[e].replica \in Replica /\ store' \in Stored /\ store' # None
      /\ store'.id = fold[e].head.id /\ store'.version = fold[e].replica.version
      /\ store'.holds = fold[e].replica.version /\ store'.seq = SeqOf(store) + 1
      /\ store'.named
  BY Folded
<1>3. /\ fold' \in [Editor -> FoldCall]
      /\ fold'[e].step = "written" /\ fold'[e].replica = fold[e].replica
      /\ \A o \in Editor : o # e => fold'[o] = fold[o]
  BY <1>0, <1>1 DEF FoldCall, Calls, FoldSteps
<1>4. TypeOK'
  BY <1>1, <1>2, <1>3 DEF Inductive, TypeOK, FoldCall, Calls
<1>5. CallsAreMade'
  BY <1>1, <1>2, <1>3, KitReplicaAssumption DEF Inductive, CallsAreMade, Follows
<1>6. AppendsKnowTheStore'
  BY <1>1, <1>2, SeqGoesUp
<1>7. EntryHasHistory' /\ StoreHoldsItsVersion'
  BY <1>2 DEF EntryHasHistory, StoreHoldsItsVersion
<1>9. NamedUnlessUnread'
  BY <1>1, <1>2 DEF Inductive, NamedUnlessUnread
<1>8. ASSUME TurnsAreKept PROVE TurnsAreKept'
  <2>1. Active(e) /\ replica[e] = None /\ write[e].step = "idle"
    BY <1>0, <1>8 DEF Active, Quiet, TurnsAreKept, CallsAreOwn
  <2>2. store = fold[e].head /\ store.version = fold[e].replica.version /\ store # None
    BY <1>0, <1>8 DEF TurnsAreKept, HeadsAreCurrent, Inductive, CallsAreMade
  <2>3. ~unread' => \A v \in history' : v \subseteq store'.version
    BY <1>1, <1>2, <1>8, <2>2 DEF TurnsAreKept, HistoryIsKept, HistoryIsContained
  <2> QED BY <1>1, <1>2, <1>3, <1>8, <2>1, <2>3, TurnStores
<1> QED BY <1>1, <1>4, <1>5, <1>6, <1>7, <1>8, <1>9 DEF Inductive

-----------------------------------------------------------------------------
(* The theorems.                                                           *)

LEMMA InductiveRestart == ASSUME Inductive, Restart PROVE Inductive'
<1>1. /\ \A e \in Editor : write'[e] = NoCall /\ fold'[e] = NoCall /\ replica'[e] = None
      /\ write' \in [Editor -> WriteCall] /\ fold' \in [Editor -> FoldCall]
      /\ replica' \in [Editor -> Replica \cup {None}]
      /\ appended' = None /\ compactDue' = FALSE
      /\ UNCHANGED <<store, history, made, overlapped, unread>>
  BY NoCallType DEF Restart
<1>2. TypeOK'
  BY <1>1 DEF Inductive, TypeOK, WriteCall, FoldCall, Calls
<1>3. CallsAreMade' /\ AppendsKnowTheStore' /\ NamedUnlessUnread'
  BY <1>1, NoCallType DEF Inductive, CallsAreMade, AppendsKnowTheStore, NamedUnlessUnread
<1>4. OneAtATime' /\ CallsAreOwn' /\ ReplicasContain' /\ HeadsAreCurrent'
  BY <1>1, NoCallType DEF OneAtATime, Active, Quiet, CallsAreOwn, ReplicasContain, HeadsAreCurrent
<1>5. TurnsAreKept => HistoryIsKept'
  BY <1>1, NoCallType, EntryStays DEF TurnsAreKept, HistoryIsKept, SnapshotsContain
<1> QED BY <1>1, <1>2, <1>3, <1>4, <1>5, EntryStays DEF Inductive, TurnsAreKept

LEMMA InductiveStutter == ASSUME Inductive, UNCHANGED vars PROVE Inductive'
BY DEF Inductive, vars, TypeOK, CallsAreMade, Follows, AppendsKnowTheStore, EntryHasHistory,
       StoreHoldsItsVersion, TurnsAreKept, OneAtATime, Active, Quiet, CallsAreOwn, ReplicasContain,
       Contains, HeadsAreCurrent, NamedUnlessUnread, HistoryIsKept, HistoryIsContained,
       SnapshotsContain

\* No other step ends what a fold writes.
LEMMA OnlyFoldWriteFolds ==
    ASSUME Inductive, Next, NEW e \in Editor, fold[e].step = "write", fold'[e].step = "written"
    PROVE  FoldWrite(e)
<1>0. fold \in [Editor -> FoldCall] /\ NoCall.step = "idle"
  BY NoCallType, Types DEF Inductive
<1>1. CASE Restart
  BY <1>0, <1>1 DEF Restart
<1>2. ASSUME NEW o \in Editor,
             \/ OpenStored(o) \/ OpenAnew(o) \/ MakeEdit(o) \/ BeginWrite(o) \/ ReadHead(o)
             \/ HeadFails(o) \/ AppendChanges(o) \/ AppendAnswered(o) \/ ReplaceStored(o) \/ ReplaceAnswered(o)
             \/ WriteFails(o)
      PROVE  FoldWrite(e)
  BY <1>2 DEF OpenStored, OpenAnew, MakeEdit, BeginWrite, ReadHead, HeadFails, AppendChanges,
              AppendAnswered, ReplaceStored, ReplaceAnswered, WriteFails
<1>3. ASSUME NEW o \in Editor, Close(o) PROVE FoldWrite(e)
  <2>1. [NoCall EXCEPT !.step = "head", !.replica = appended].step = "head"
    BY DEF NoCall
  <2> QED BY <1>0, <1>3, <2>1 DEF Close
<1>4. ASSUME NEW o \in Editor, FoldHead(o) PROVE FoldWrite(e)
  <2>1. o # e
    BY <1>4 DEF FoldHead
  <2> QED BY <1>0, <1>4, <2>1 DEF FoldHead
<1>5. ASSUME NEW o \in Editor, FoldAnswered(o) \/ FoldFails(o) PROVE FoldWrite(e)
  BY <1>0, <1>5 DEF FoldAnswered, FoldFails
<1>6. ASSUME NEW o \in Editor, FoldWrite(o) PROVE FoldWrite(e)
  BY <1>0, <1>6 DEF FoldWrite
<1> QED BY <1>1, <1>2, <1>3, <1>4, <1>5, <1>6 DEF Next

THEOREM Invariance == Spec => []Inductive
<1>1. ASSUME Inductive, [Next]_vars PROVE Inductive'
  BY <1>1, InductiveRestart, InductiveOpenStored, InductiveOpenAnew, InductiveMakeEdit,
     InductiveBeginWrite, InductiveReadHead, InductiveHeadFails, InductiveAppendChanges,
     InductiveAppendAnswered,
     InductiveReplaceStored, InductiveReplaceAnswered, InductiveWriteFails, InductiveClose,
     InductiveFoldHead, InductiveFoldWrite, InductiveFoldAnswered, InductiveFoldFails,
     InductiveStutter DEF Next
<1> QED BY InductiveInit, <1>1, PTL DEF Spec

\* The state keeps its type.
THEOREM TypeCorrect == Spec => []TypeOK
<1>1. Inductive => TypeOK
  BY DEF Inductive
<1> QED BY Invariance, <1>1, PTL

\* The stored bytes hold the version the head names, whatever saves, folds and failures of
\* several editors interleave (kitionHost.ts:129-131).
THEOREM BytesHoldTheVersion == Spec => []StoreHoldsItsVersion
<1>1. Inductive => StoreHoldsItsVersion
  BY DEF Inductive
<1> QED BY Invariance, <1>1, PTL

\* While editors take turns and every save reads the head it goes on from, an entry
\* holds the version of each of its checkpoints (kitionHost.ts:110-112).
THEOREM HistoryIsOfTheEntry == Spec => []InTurnTheHistoryIsItsOwn
<1>1. Inductive => InTurnTheHistoryIsItsOwn
  BY DEF Inductive, TurnsAreKept, HistoryIsKept, HistoryIsContained, InTurnTheHistoryIsItsOwn
<1> QED BY Invariance, <1>1, PTL

\* While they do, a fold stores what is stored (kitionHost.ts:161-174).
THEOREM FoldsKeepTheVersion == Spec => InTurnAFoldKeepsTheVersion
<1>1. ASSUME Inductive, [Next]_vars
      PROVE  [overlapped \/ \A e \in Editor : FoldsTheStored(e)]_vars
  <2> SUFFICES ASSUME ~overlapped, Next, NEW e \in Editor,
                      fold[e].step = "write", fold'[e].step = "written"
               PROVE  store'.id = store.id /\ store'.version = store.version
    BY <1>1 DEF FoldsTheStored
  <2>1. store = fold[e].head /\ store.version = fold[e].replica.version
    BY <1>1 DEF Inductive, TurnsAreKept, HeadsAreCurrent
  <2>2. CASE FoldWrite(e)
    BY <1>1, <2>1, <2>2, Folded
  <2>3. CASE ~FoldWrite(e)
    BY <1>1, <2>3, OnlyFoldWriteFolds
  <2> QED BY <2>2, <2>3
<1> QED BY Invariance, <1>1, PTL DEF Spec, InTurnAFoldKeepsTheVersion

=============================================================================
