--------------------------- MODULE RoomSaveProofs ---------------------------
(***************************************************************************)
(* What RoomSave keeps for any number of people, saves, changes,           *)
(* connections and faults.                                                 *)
(***************************************************************************)
EXTENDS RoomSave, TLAPS

\* `dirty` says what the two seqs say.
DirtyIsAhead == room.dirty <=> room.headSeq > room.savedSeq

\* Sessions are numbered as they are made and belong to one person each; the server counts
\* every session that is up.
SessionsApart ==
    /\ editors \subseteq 1 .. joins
    /\ \A p \in Person : Online(p) => session[p] \in editors
    /\ \A p, q \in Person : Online(p) /\ session[p] = session[q] => p = q

\* A run that says its write was taken is right, and one that failed says so.
RunsAreHeld ==
    \A r \in Run : /\ run[r].step = "written" => run[r].seq <= host
                   /\ run[r].step = "failed" => run[r].error # None

\* A run whose session is its own is the room's save, and its person's only run.
OwnIsAlone ==
    \A r \in Run : run[r].own =>
        /\ Online(r[1])
        /\ run[r].step # "idle"
        /\ \A q \in Run : q[1] = r[1] /\ q # r => run[q].step = "idle"

Inductive ==
    /\ TypeOK
    /\ DirtyIsAhead
    /\ SessionsApart
    /\ RunsAreHeld
    /\ OwnIsAlone
    /\ SavedIsHeld
    /\ SaverIsThere
    /\ EmptyRoomTellsItsState
    /\ AloneTheRoomHears

-----------------------------------------------------------------------------
(* The machine's events keep its state's type.                             *)

LEMMA ChangedType ==
    ASSUME NEW s \in SaveState, NEW seq \in Nat
    PROVE  Changed(s, seq) \in SaveState
<1> DEFINE head == IF seq > s.headSeq THEN seq ELSE s.headSeq
           status == IF s.status = "closed" THEN "editing" ELSE s.status
<1>1. head \in Nat /\ (head > s.savedSeq) \in BOOLEAN /\ status \in Statuses
  BY DEF SaveState, Statuses
<1>2. Changed(s, seq) = [s EXCEPT !.headSeq = head, !.dirty = (head > s.savedSeq), !.status = status]
  BY DEF Changed, SaveState
<1> HIDE DEF head, status
<1> QED BY <1>1, <1>2 DEF SaveState

LEMMA JoinedType == ASSUME NEW s \in SaveState PROVE Joined(s) \in SaveState
  BY DEF Joined, SaveState, Statuses

LEMMA BegunType ==
    ASSUME NEW s \in SaveState, NEW by \in Session, NEW trigger
    PROVE  Begun(s, by, trigger) \in SaveState
  BY DEF Begun, SaveState, Statuses

LEMMA EndedType ==
    ASSUME NEW s \in SaveState, NEW by, NEW seq \in Nat, NEW error
    PROVE  Ended(s, by, seq, error) \in SaveState
<1>1. (s.headSeq > seq) \in BOOLEAN
  BY DEF SaveState
<1>2. [s EXCEPT !.status = "editing", !.savedSeq = seq, !.dirty = s.headSeq > seq,
                !.by = None, !.savingSeq = None] \in SaveState
  BY <1>1 DEF SaveState, Statuses
<1>3. \A status \in Statuses :
          [s EXCEPT !.status = status, !.by = None, !.savingSeq = None] \in SaveState
  BY DEF SaveState
<1> QED BY <1>2, <1>3 DEF Ended, Statuses

LEMMA LeftType ==
    ASSUME NEW s \in SaveState, NEW by, NEW last \in BOOLEAN
    PROVE  Left(s, by, last) \in SaveState
<1> DEFINE ended == IF s.status = "force-save" /\ s.by = by
                    THEN [s EXCEPT !.status = "editing", !.by = None, !.savingSeq = None]
                    ELSE s
<1>1. ended \in SaveState
  BY DEF SaveState, Statuses
<1>2. [ended EXCEPT !.status = IF ended.dirty THEN "must-save" ELSE "closed"] \in SaveState
  <2> HIDE DEF ended
  <2> QED BY <1>1 DEF SaveState, Statuses
<1> QED BY <1>1, <1>2 DEF Left

-----------------------------------------------------------------------------
(* One lemma for each action.                                              *)

LEMMA InductiveInit == Init => Inductive
<1> SUFFICES ASSUME Init PROVE Inductive
  OBVIOUS
<1>1. NoRun \in Runs /\ InitialSaveState \in SaveState
  BY DEF NoRun, Runs, Steps, InitialSaveState, SaveState, Statuses
<1>2. TypeOK
  BY <1>1, RoomSaveAssumption DEF Init, TypeOK
<1>3. DirtyIsAhead /\ SavedIsHeld /\ SaverIsThere /\ EmptyRoomTellsItsState
  BY DEF Init, InitialSaveState, DirtyIsAhead, SavedIsHeld, SaverIsThere, EmptyRoomTellsItsState
<1>4. SessionsApart
  BY DEF Init, SessionsApart, Online
<1>5. RunsAreHeld /\ OwnIsAlone /\ AloneTheRoomHears
  BY DEF Init, NoRun, RunsAreHeld, OwnIsAlone, AloneTheRoomHears
<1> QED BY <1>2, <1>3, <1>4, <1>5 DEF Inductive

LEMMA InductiveConnect ==
    ASSUME Inductive, NEW p \in Person, Connect(p)
    PROVE  Inductive'
<1> USE RoomSaveAssumption DEF Inductive
<1>1. /\ joins' = joins + 1 /\ joins' \in 1 .. MaxJoins
      /\ session' = [session EXCEPT ![p] = joins']
      /\ editors' = editors \cup {joins'}
      /\ ~Online(p)
      /\ UNCHANGED <<knows, run, host, faults>>
  BY DEF Connect, TypeOK, Online
<1>2. /\ room' \in SaveState
      /\ room'.dirty = room.dirty /\ room'.headSeq = room.headSeq
      /\ room'.savedSeq = room.savedSeq /\ room'.by = room.by
      /\ room'.savingSeq = room.savingSeq
      /\ room'.status = IF room.status = "closed" THEN "editing" ELSE room.status
  BY JoinedType DEF Connect, Joined, TypeOK, SaveState
<1>3. TypeOK'
  BY <1>1, <1>2 DEF TypeOK, Session
<1>4. SessionsApart'
  <2>1. editors' \subseteq 1 .. joins'
    BY <1>1 DEF SessionsApart, TypeOK
  <2>2. \A q \in Person : q # p => session'[q] = session[q]
    BY <1>1 DEF TypeOK
  <2>3. session'[p] = joins' /\ joins' \notin editors
    BY <1>1 DEF TypeOK, SessionsApart
  <2>4. \A q \in Person : session'[q] # None => session'[q] \in editors'
    BY <1>1, <2>2, <2>3 DEF SessionsApart, Online
  <2>5. \A q \in Person : q # p /\ session'[q] # None => session'[q] # joins'
    BY <2>2, <2>3 DEF SessionsApart, Online
  <2>6. \A q, u \in Person : session'[q] # None /\ session'[q] = session'[u] => q = u
    BY <2>2, <2>3, <2>5 DEF SessionsApart, Online
  <2> QED BY <2>1, <2>4, <2>6 DEF SessionsApart, Online
<1>5. DirtyIsAhead' /\ SavedIsHeld'
  BY <1>1, <1>2 DEF DirtyIsAhead, SavedIsHeld
<1>6. SaverIsThere'
  BY <1>1, <1>2 DEF SaverIsThere
<1>7. EmptyRoomTellsItsState'
  BY <1>1, <1>2 DEF EmptyRoomTellsItsState
<1>8. RunsAreHeld'
  BY <1>1 DEF RunsAreHeld
<1>9. \A r \in Run : run[r].own => r[1] # p /\ r[1] \in Person /\ session'[r[1]] = session[r[1]]
  BY <1>1 DEF OwnIsAlone, TypeOK
<1>10. OwnIsAlone'
  BY <1>1, <1>9 DEF OwnIsAlone, Online
<1>11. AloneTheRoomHears'
  BY <1>1, <1>2, <1>9 DEF AloneTheRoomHears
<1> QED BY <1>3, <1>4, <1>5, <1>6, <1>7, <1>8, <1>10, <1>11

\* Ending a connection disowns the saves its person runs.
LEMMA Disowning ==
    ASSUME TypeOK, NEW p \in Person
    PROVE  /\ Disowned(p) \in [Run -> Runs]
           /\ \A r \in Run : /\ Disowned(p)[r].step = run[r].step
                             /\ Disowned(p)[r].seq = run[r].seq
                             /\ Disowned(p)[r].error = run[r].error
                             /\ Disowned(p)[r].own => run[r].own /\ r[1] # p
<1>1. \A r \in Run : run[r] \in Runs
  BY DEF TypeOK
<1>2. \A r \in Run : [run[r] EXCEPT !.own = FALSE] \in Runs
  BY <1>1 DEF Runs
<1>3. Disowned(p) \in [Run -> Runs]
  BY <1>1, <1>2 DEF Disowned
<1>4. ASSUME NEW r \in Run
      PROVE  /\ Disowned(p)[r].step = run[r].step
             /\ Disowned(p)[r].seq = run[r].seq
             /\ Disowned(p)[r].error = run[r].error
             /\ Disowned(p)[r].own => run[r].own /\ r[1] # p
  BY <1>1 DEF Disowned, Runs
<1> QED BY <1>3, <1>4

LEMMA InductiveDisconnect ==
    ASSUME Inductive, NEW p \in Person, Disconnect(p)
    PROVE  Inductive'
<1> USE DEF Inductive
<1>1. /\ UNCHANGED <<room, editors, joins, knows, host, faults>>
      /\ session' = [session EXCEPT ![p] = None]
      /\ run' = Disowned(p)
  BY DEF Disconnect
<1>0. /\ run' \in [Run -> Runs]
      /\ \A r \in Run : /\ run'[r].step = run[r].step
                        /\ run'[r].seq = run[r].seq
                        /\ run'[r].error = run[r].error
                        /\ run'[r].own => run[r].own /\ r[1] # p
  BY <1>1, Disowning
<1>2. /\ session' \in [Person -> Session \cup {None}]
      /\ session'[p] = None
      /\ \A q \in Person : q # p => session'[q] = session[q]
  BY <1>1 DEF TypeOK
<1>3. TypeOK'
  BY <1>0, <1>1, <1>2 DEF TypeOK
<1>4. DirtyIsAhead' /\ SavedIsHeld' /\ SaverIsThere' /\ EmptyRoomTellsItsState'
  BY <1>1 DEF DirtyIsAhead, SavedIsHeld, SaverIsThere, EmptyRoomTellsItsState
<1>5. SessionsApart'
  BY <1>1, <1>2 DEF SessionsApart, Online
<1>6. RunsAreHeld'
  BY <1>0, <1>1 DEF RunsAreHeld
<1>7. \A r \in Run : run'[r].own =>
          run[r].own /\ r[1] # p /\ r[1] \in Person /\ session'[r[1]] = session[r[1]]
  BY <1>0, <1>1, <1>2, RoomSaveAssumption
<1>8. OwnIsAlone'
  BY <1>0, <1>1, <1>7 DEF OwnIsAlone, Online
<1>9. AloneTheRoomHears'
  BY <1>0, <1>1, <1>7 DEF AloneTheRoomHears
<1> QED BY <1>3, <1>4, <1>5, <1>6, <1>8, <1>9

LEMMA InductiveSessionLeft ==
    ASSUME Inductive, NEW n \in Session, SessionLeft(n)
    PROVE  Inductive'
<1> USE DEF Inductive
<1>1. /\ n \in editors
      /\ \A p \in Person : session[p] # n
      /\ editors' = editors \ {n}
      /\ room' = Left(room, n, editors' = {})
      /\ UNCHANGED <<joins, session, knows, run, host, faults>>
  BY DEF SessionLeft
<1>2. room' \in SaveState
  BY <1>1, LeftType DEF TypeOK
<1>3. /\ room'.dirty = room.dirty /\ room'.headSeq = room.headSeq
      /\ room'.savedSeq = room.savedSeq
      /\ room.status = "force-save" /\ room.by # n /\ editors' # {} => room' = room
      /\ ~(room.status = "force-save" /\ room.by # n) =>
            /\ room'.savingSeq = None
            /\ room'.status # "force-save"
      /\ editors' = {} /\ ~(room.status = "force-save" /\ room.by # n) =>
            room'.status = IF room.status = "corrupted" THEN "corrupted"
                           ELSE IF room.dirty THEN "must-save" ELSE "closed"
      /\ editors' # {} /\ ~(room.status = "force-save" /\ room.by # n) =>
            room'.status \in {room.status, "editing"}
  BY <1>1 DEF Left, TypeOK, SaveState, SaverIsThere
<1>4. room.status = "force-save" /\ room.by # n => editors' # {}
  BY <1>1 DEF SaverIsThere
<1>5. TypeOK'
  BY <1>1, <1>2 DEF TypeOK
<1>6. DirtyIsAhead' /\ SavedIsHeld'
  BY <1>1, <1>3 DEF DirtyIsAhead, SavedIsHeld
<1>7. SessionsApart'
  BY <1>1 DEF SessionsApart, Online
<1>8. RunsAreHeld' /\ OwnIsAlone'
  BY <1>1 DEF RunsAreHeld, OwnIsAlone, Online
<1>9. SaverIsThere'
  BY <1>1, <1>3, <1>4 DEF SaverIsThere
<1>10. EmptyRoomTellsItsState'
  BY <1>1, <1>3, <1>4 DEF EmptyRoomTellsItsState
<1>11. ASSUME NEW r \in Run, run[r].own
       PROVE  room.status = "force-save" /\ room.by # n
  BY <1>1, <1>11, RoomSaveAssumption DEF AloneTheRoomHears
<1>12. AloneTheRoomHears'
  BY <1>1, <1>3, <1>4, <1>11 DEF AloneTheRoomHears
<1> QED BY <1>5, <1>6, <1>7, <1>8, <1>9, <1>10, <1>12

LEMMA InductiveTakeChange ==
    ASSUME Inductive, NEW p \in Person, TakeChange(p)
    PROVE  Inductive'
<1> USE DEF Inductive
<1>1. /\ room' = Changed(room, room.headSeq + 1)
      /\ session[p] \in editors
      /\ UNCHANGED <<editors, joins, session, knows, run, host, faults>>
  BY DEF TakeChange, SessionsApart
<1>2. room' \in SaveState
  <2>1. room \in SaveState /\ room.headSeq + 1 \in Nat
    BY DEF TypeOK, SaveState
  <2> QED BY <1>1, <2>1, ChangedType
<1>3. /\ room'.headSeq = room.headSeq + 1
      /\ room'.dirty <=> room.headSeq + 1 > room.savedSeq
      /\ room'.savedSeq = room.savedSeq /\ room'.by = room.by
      /\ room'.savingSeq = room.savingSeq
      /\ room'.status = IF room.status = "closed" THEN "editing" ELSE room.status
  <2> DEFINE head == room.headSeq + 1
             ahead == head > room.savedSeq
             status == IF room.status = "closed" THEN "editing" ELSE room.status
  <2>1. room \in SaveState /\ head > room.headSeq
    BY DEF TypeOK, SaveState
  <2>2. room' = [room EXCEPT !.headSeq = head, !.dirty = ahead, !.status = status]
    BY <1>1, <2>1 DEF Changed, SaveState
  <2> HIDE DEF head, ahead, status
  <2>3. /\ room'.headSeq = head /\ room'.dirty = ahead /\ room'.status = status
        /\ room'.savedSeq = room.savedSeq /\ room'.by = room.by
        /\ room'.savingSeq = room.savingSeq
    BY <2>1, <2>2 DEF SaveState
  <2> QED BY <2>3 DEF head, ahead, status
<1>4. TypeOK'
  BY <1>1, <1>2 DEF TypeOK
<1>5. DirtyIsAhead' /\ SavedIsHeld'
  <2>1. room.savedSeq \in Nat /\ room.headSeq \in Nat /\ host \in Nat
    BY DEF TypeOK, SaveState
  <2>2. DirtyIsAhead'
    BY <1>3 DEF DirtyIsAhead
  <2>3. ~room'.dirty => room'.headSeq <= host'
    BY <1>1, <1>3, <2>1 DEF SavedIsHeld
  <2> QED BY <1>1, <1>3, <2>2, <2>3 DEF SavedIsHeld
<1>6. SessionsApart' /\ RunsAreHeld' /\ OwnIsAlone'
  BY <1>1 DEF SessionsApart, RunsAreHeld, OwnIsAlone, Online
<1>7. SaverIsThere'
  BY <1>1, <1>3, RoomSaveAssumption DEF SaverIsThere, TypeOK, SaveState
<1>8. EmptyRoomTellsItsState'
  BY <1>1, <1>3 DEF EmptyRoomTellsItsState, DirtyIsAhead, TypeOK, SaveState
<1>9. AloneTheRoomHears'
  BY <1>1, <1>3 DEF AloneTheRoomHears
<1> QED BY <1>4, <1>5, <1>6, <1>7, <1>8, <1>9

\* What `save/begin` does to the room, answered or not.
LEMMA Beginning ==
    ASSUME Inductive, NEW p \in Person, Online(p), NEW t, room' = Begun(room, session[p], t)
    PROVE  /\ room' \in SaveState
           /\ room'.dirty = room.dirty /\ room'.headSeq = room.headSeq
           /\ room'.savedSeq = room.savedSeq
           /\ \/ room' = room
              \/ /\ room.status # "force-save"
                 /\ room'.status = "force-save" /\ room'.by = session[p]
                 /\ room'.savingSeq = room.headSeq
           /\ session[p] \in Session /\ session[p] \in editors
<1> USE DEF Inductive
<1>1. session[p] \in editors /\ session[p] \in Session
  BY DEF SessionsApart, TypeOK
<1>2. room' \in SaveState
  BY <1>1, BegunType DEF TypeOK
<1>3. /\ room'.dirty = room.dirty /\ room'.headSeq = room.headSeq
      /\ room'.savedSeq = room.savedSeq
      /\ \/ room' = room
         \/ /\ room.status # "force-save"
            /\ room'.status = "force-save" /\ room'.by = session[p]
            /\ room'.savingSeq = room.headSeq
  BY DEF Begun, TypeOK, SaveState
<1> QED BY <1>1, <1>2, <1>3

LEMMA BeginningKeeps ==
    ASSUME Inductive, NEW p \in Person, Online(p), NEW t, room' = Begun(room, session[p], t),
           UNCHANGED <<editors, joins, knows, host, faults>>
    PROVE  DirtyIsAhead' /\ SavedIsHeld' /\ SaverIsThere' /\ EmptyRoomTellsItsState'
<1> USE DEF Inductive
<1>1. /\ room' \in SaveState
      /\ room'.dirty = room.dirty /\ room'.headSeq = room.headSeq
      /\ room'.savedSeq = room.savedSeq
      /\ \/ room' = room
         \/ /\ room.status # "force-save"
            /\ room'.status = "force-save" /\ room'.by = session[p]
            /\ room'.savingSeq = room.headSeq
      /\ session[p] \in Session /\ session[p] \in editors
  BY Beginning
<1>2. DirtyIsAhead' /\ SavedIsHeld'
  BY <1>1 DEF DirtyIsAhead, SavedIsHeld
<1>3. SaverIsThere'
  BY <1>1, RoomSaveAssumption DEF SaverIsThere, TypeOK, SaveState
<1>4. EmptyRoomTellsItsState'
  BY <1>1 DEF EmptyRoomTellsItsState
<1> QED BY <1>2, <1>3, <1>4

LEMMA InductiveSaveBegin ==
    ASSUME Inductive, NEW p \in Person, NEW t \in Trigger, <<p, t>> \in Run, SaveBegin(p, t)
    PROVE  Inductive'
<1> DEFINE r == <<p, t>>
           begun == Begun(room, session[p], t)
           saves == ~BeginRefused(room, session[p]) /\ begun.status = "force-save"
           alone == \A q \in Run : q[1] = p => run[q].step = "idle"
           begins == [NoRun EXCEPT !.step = "write", !.seq = begun.savingSeq,
                                   !.fresh = knows[p], !.own = alone]
<1>1. /\ Online(p) /\ run[r].step = "idle" /\ room' = begun
      /\ run' = IF ~saves THEN run ELSE [Disowned(p) EXCEPT ![r] = begins]
      /\ UNCHANGED <<editors, joins, session, knows, host, faults>>
  BY DEF SaveBegin, MayRun
<1>2. /\ room' \in SaveState
      /\ \/ room' = room
         \/ /\ room.status # "force-save"
            /\ room'.status = "force-save" /\ room'.by = session[p]
            /\ room'.savingSeq = room.headSeq
      /\ session[p] \in Session
  BY <1>1, Beginning
<1>3. DirtyIsAhead' /\ SavedIsHeld' /\ SaverIsThere' /\ EmptyRoomTellsItsState'
  BY <1>1, BeginningKeeps
<1>4. SessionsApart'
  BY <1>1 DEF Inductive, SessionsApart, Online
<1>5. CASE ~saves
  <2>1. run' = run
    BY <1>1, <1>5
  <2>2. TypeOK'
    BY <1>1, <1>2, <2>1 DEF Inductive, TypeOK
  <2>3. RunsAreHeld' /\ OwnIsAlone'
    BY <1>1, <2>1 DEF Inductive, RunsAreHeld, OwnIsAlone, Online
  <2>4. AloneTheRoomHears'
    BY <1>1, <1>2, <2>1 DEF Inductive, AloneTheRoomHears
  <2> QED BY <1>3, <1>4, <2>2, <2>3, <2>4 DEF Inductive
<1>6. CASE saves
  <2>1. run' = [Disowned(p) EXCEPT ![r] = begins]
    BY <1>1, <1>6
  <2>2. room'.status = "force-save" /\ room'.savingSeq = begun.savingSeq /\ begun.savingSeq \in Nat
    BY <1>1, <1>2, <1>3, <1>6 DEF SaverIsThere, SaveState
  <2>3. room'.by = session[p]
    BY <1>1, <1>2, <1>6 DEF BeginRefused
  <2>4. /\ Disowned(p) \in [Run -> Runs]
        /\ \A q \in Run : /\ Disowned(p)[q].step = run[q].step
                          /\ Disowned(p)[q].seq = run[q].seq
                          /\ Disowned(p)[q].error = run[q].error
                          /\ Disowned(p)[q].own => run[q].own /\ q[1] # p
    BY Disowning DEF Inductive
  <2>5. /\ begins \in Runs /\ begins.step = "write" /\ begins.seq = begun.savingSeq
        /\ begins.own = alone
    <3>1. alone \in BOOLEAN /\ knows[p] \in BOOLEAN
      BY DEF Inductive, TypeOK
    <3> HIDE DEF alone, begun
    <3> QED BY <2>2, <3>1 DEF NoRun, Runs, Steps
  <2>6. /\ run' \in [Run -> Runs] /\ run'[r] = begins
        /\ \A q \in Run : q # r => run'[q] = Disowned(p)[q]
    <3> HIDE DEF begins
    <3> QED BY <2>1, <2>4, <2>5
  <2> HIDE DEF begins, begun
  <2>7. TypeOK'
    BY <1>1, <1>2, <2>6 DEF Inductive, TypeOK
  <2>8. RunsAreHeld'
    BY <1>1, <2>4, <2>5, <2>6 DEF Inductive, RunsAreHeld
  <2>9. ASSUME NEW q \in Run, run'[q].own
        PROVE  /\ Online(q[1])'
               /\ run'[q].step # "idle"
               /\ \A u \in Run : u[1] = q[1] /\ u # q => run'[u].step = "idle"
               /\ room'.by = session'[q[1]]
               /\ room'.savingSeq = run'[q].seq
    <3>1. CASE q = r
      <4>1. alone
        BY <2>5, <2>6, <2>9, <3>1
      <4>2. \A u \in Run : u[1] = p /\ u # r => run'[u].step = "idle"
        BY <2>4, <2>6, <4>1
      <4>3. q[1] = p /\ run'[q] = begins
        BY <2>6, <3>1
      <4>4. session'[p] = session[p] /\ session'[p] # None
        BY <1>1 DEF Online
      <4> QED BY <2>2, <2>3, <2>5, <3>1, <4>2, <4>3, <4>4 DEF Online
    <3>2. CASE q # r
      <4>1. run[q].own /\ q[1] # p /\ run'[q].step = run[q].step /\ run'[q].seq = run[q].seq
        BY <2>4, <2>6, <2>9, <3>2
      <4>2. room.status = "force-save" /\ room.by = session[q[1]] /\ q[1] \in Person
        BY <4>1, RoomSaveAssumption DEF Inductive, AloneTheRoomHears
      <4>3. room.by # session[p]
        BY <1>1, <4>1, <4>2 DEF Inductive, SessionsApart
      <4> QED BY <1>2, <2>3, <4>2, <4>3
    <3> QED BY <3>1, <3>2
  <2>10. OwnIsAlone'
    BY <2>9 DEF OwnIsAlone
  <2>11. AloneTheRoomHears'
    BY <2>2, <2>9 DEF AloneTheRoomHears
  <2> QED BY <1>3, <1>4, <2>7, <2>8, <2>10, <2>11 DEF Inductive
<1> QED BY <1>5, <1>6

LEMMA InductiveSaveBeginLost ==
    ASSUME Inductive, NEW p \in Person, NEW t \in Trigger, SaveBeginLost(p, t)
    PROVE  Inductive'
<1>1. /\ Online(p) /\ room' = Begun(room, session[p], t)
      /\ session' = [session EXCEPT ![p] = None]
      /\ run' = Disowned(p)
      /\ UNCHANGED <<editors, joins, knows, host, faults>>
  BY DEF SaveBeginLost
<1>2. /\ room' \in SaveState
      /\ room' = room \/ room.status # "force-save"
  BY <1>1, Beginning
<1>3. DirtyIsAhead' /\ SavedIsHeld' /\ SaverIsThere' /\ EmptyRoomTellsItsState'
  BY <1>1, BeginningKeeps
<1>4. /\ run' \in [Run -> Runs]
      /\ \A r \in Run : /\ run'[r].step = run[r].step
                        /\ run'[r].seq = run[r].seq
                        /\ run'[r].error = run[r].error
                        /\ run'[r].own => run[r].own /\ r[1] # p
  BY <1>1, Disowning DEF Inductive
<1>5. /\ session' \in [Person -> Session \cup {None}]
      /\ session'[p] = None
      /\ \A q \in Person : q # p => session'[q] = session[q]
  BY <1>1 DEF Inductive, TypeOK
<1>6. TypeOK'
  BY <1>1, <1>2, <1>4, <1>5 DEF Inductive, TypeOK
<1>7. SessionsApart'
  BY <1>1, <1>5 DEF Inductive, SessionsApart, Online
<1>8. RunsAreHeld'
  BY <1>1, <1>4 DEF Inductive, RunsAreHeld
<1>9. \A r \in Run : run'[r].own =>
          run[r].own /\ r[1] # p /\ r[1] \in Person /\ session'[r[1]] = session[r[1]]
  BY <1>4, <1>5, RoomSaveAssumption
<1>10. OwnIsAlone'
  BY <1>4, <1>9 DEF Inductive, OwnIsAlone, Online
<1>11. AloneTheRoomHears'
  BY <1>2, <1>4, <1>9 DEF Inductive, AloneTheRoomHears
<1> QED BY <1>3, <1>6, <1>7, <1>8, <1>10, <1>11 DEF Inductive

\* The host takes the write of r, and every other write under way is a conflict.
LEMMA Replacing ==
    ASSUME Inductive, NEW r \in Run, NEW answered \in BOOLEAN, NEW after \in Runs,
           Replace(r, answered, after), after.own => run[r].own,
           after.step # "idle", after.seq = run[r].seq,
           after.step = "written" \/ after.error # None, faults' \in Nat
    PROVE  Inductive'
<1>1. PICK seq \in run[r].seq .. room.headSeq : seq >= host /\ host' = seq
  BY DEF Replace
<1>2. /\ run[r].step = "write"
      /\ knows' = [q \in Person |-> answered /\ q = r[1]]
      /\ run' = [q \in Run |-> IF q = r THEN after ELSE [run[q] EXCEPT !.fresh = FALSE]]
      /\ UNCHANGED <<room, editors, joins, session>>
  BY DEF Replace
<1>3. /\ room.headSeq \in Nat /\ room.savedSeq \in Nat /\ host \in Nat
      /\ \A q \in Run : run[q] \in Runs
  BY DEF Inductive, TypeOK, SaveState
<1>4. run[r].seq \in Nat /\ host' \in Nat /\ host' >= host /\ host' >= run[r].seq
  BY <1>1, <1>3 DEF Runs
<1>5. \A q \in Run : /\ [run[q] EXCEPT !.fresh = FALSE] \in Runs
                     /\ [run[q] EXCEPT !.fresh = FALSE].step = run[q].step
                     /\ [run[q] EXCEPT !.fresh = FALSE].seq = run[q].seq
                     /\ [run[q] EXCEPT !.fresh = FALSE].error = run[q].error
                     /\ [run[q] EXCEPT !.fresh = FALSE].own = run[q].own
  BY <1>3 DEF Runs
<1>6. /\ run' \in [Run -> Runs]
      /\ run'[r] = after
      /\ \A q \in Run : q # r => /\ run'[q].step = run[q].step
                                 /\ run'[q].seq = run[q].seq
                                 /\ run'[q].error = run[q].error
                                 /\ run'[q].own = run[q].own
  BY <1>2, <1>5
<1>7. TypeOK'
  BY <1>2, <1>4, <1>6 DEF Inductive, TypeOK
<1>8. DirtyIsAhead' /\ SaverIsThere' /\ EmptyRoomTellsItsState' /\ SessionsApart'
  BY <1>2 DEF Inductive, DirtyIsAhead, SaverIsThere, EmptyRoomTellsItsState, SessionsApart, Online
<1>9. SavedIsHeld'
  BY <1>2, <1>3, <1>4 DEF Inductive, SavedIsHeld
<1>10. RunsAreHeld'
  <2>1. \A q \in Run : run[q].step = "written" => run[q].seq <= host'
    BY <1>3, <1>4 DEF Inductive, RunsAreHeld, Runs
  <2>2. after.seq <= host'
    BY <1>4
  <2>3. after.step = "failed" => after.error # None
    OBVIOUS
  <2> QED BY <1>6, <2>1, <2>2, <2>3 DEF Inductive, RunsAreHeld
<1>11. /\ \A q \in Run : run'[q].own => run[q].own
       /\ \A q \in Run : run'[q].step = "idle" <=> run[q].step = "idle"
       /\ \A q \in Run : run'[q].seq = run[q].seq
  BY <1>2, <1>6
<1>12. OwnIsAlone'
  BY <1>2, <1>11 DEF Inductive, OwnIsAlone, Online
<1>13. AloneTheRoomHears'
  BY <1>2, <1>11 DEF Inductive, AloneTheRoomHears
<1> QED BY <1>7, <1>8, <1>9, <1>10, <1>12, <1>13 DEF Inductive

LEMMA InductiveHostTakes ==
    ASSUME Inductive, NEW r \in Run, HostTakes(r)
    PROVE  Inductive'
<1> DEFINE after == [run[r] EXCEPT !.step = "written", !.fresh = FALSE]
<1>1. run[r] \in Runs
  BY DEF Inductive, TypeOK
<1>2. /\ after \in Runs /\ after.own = run[r].own /\ after.seq = run[r].seq
      /\ after.step = "written"
  BY <1>1 DEF Runs, Steps
<1>3. Replace(r, TRUE, after) /\ faults' \in Nat
  BY DEF HostTakes, Inductive, TypeOK
<1> HIDE DEF after
<1> QED BY <1>2, <1>3, Replacing

LEMMA InductiveHostTakesUnheard ==
    ASSUME Inductive, NEW r \in Run, HostTakesUnheard(r)
    PROVE  Inductive'
<1> DEFINE after == [run[r] EXCEPT !.step = "failed", !.fresh = FALSE, !.error = "failed"]
<1>1. run[r] \in Runs
  BY DEF Inductive, TypeOK
<1>2. /\ after \in Runs /\ after.own = run[r].own /\ after.seq = run[r].seq
      /\ after.step = "failed" /\ after.error = "failed"
  BY <1>1 DEF Runs, Steps, Failures
<1>3. "failed" # None
  BY RoomSaveAssumption DEF Failures
<1>4. Replace(r, FALSE, after)
  BY DEF HostTakesUnheard
<1>5. faults' \in Nat
  BY DEF HostTakesUnheard, Inductive, TypeOK
<1> HIDE DEF after
<1> QED BY <1>2, <1>3, <1>4, <1>5, Replacing

\* A write that ends without a version.
LEMMA Failing ==
    ASSUME Inductive, NEW r \in Run, NEW after \in Runs, run[r].step = "write",
           run' = [run EXCEPT ![r] = after],
           after.own = run[r].own, after.seq = run[r].seq, after.step = "failed",
           after.error # None,
           knows' \in [Person -> BOOLEAN], faults' \in Nat,
           UNCHANGED <<room, editors, joins, session, host>>
    PROVE  Inductive'
<1>1. /\ run' \in [Run -> Runs]
      /\ run'[r] = after
      /\ \A q \in Run : q # r => run'[q] = run[q]
  BY DEF Inductive, TypeOK
<1>2. TypeOK'
  BY <1>1 DEF Inductive, TypeOK
<1>3. DirtyIsAhead' /\ SaverIsThere' /\ EmptyRoomTellsItsState' /\ SessionsApart' /\ SavedIsHeld'
  BY DEF Inductive, DirtyIsAhead, SaverIsThere, EmptyRoomTellsItsState, SessionsApart, SavedIsHeld,
         Online
<1>4. RunsAreHeld'
  BY <1>1 DEF Inductive, RunsAreHeld
<1>5. /\ \A q \in Run : run'[q].own = run[q].own
      /\ \A q \in Run : run'[q].step = "idle" <=> run[q].step = "idle"
      /\ \A q \in Run : run'[q].seq = run[q].seq
  BY <1>1
<1>6. OwnIsAlone'
  BY <1>5 DEF Inductive, OwnIsAlone, Online
<1>7. AloneTheRoomHears'
  BY <1>5 DEF Inductive, AloneTheRoomHears
<1> QED BY <1>2, <1>3, <1>4, <1>6, <1>7 DEF Inductive

LEMMA InductiveHostConflict ==
    ASSUME Inductive, NEW r \in Run, HostConflict(r)
    PROVE  Inductive'
<1> DEFINE after == [run[r] EXCEPT !.step = "failed", !.error = "failed"]
<1>1. run[r] \in Runs
  BY DEF Inductive, TypeOK
<1>2. /\ after \in Runs /\ after.own = run[r].own /\ after.seq = run[r].seq
      /\ after.step = "failed" /\ after.error = "failed"
  BY <1>1 DEF Runs, Steps, Failures
<1>3. "failed" # None
  BY RoomSaveAssumption DEF Failures
<1>4. /\ run[r].step = "write" /\ run' = [run EXCEPT ![r] = after]
      /\ knows' \in [Person -> BOOLEAN] /\ faults' \in Nat
      /\ UNCHANGED <<room, editors, joins, session, host>>
  BY DEF HostConflict, Inductive, TypeOK
<1> HIDE DEF after
<1> QED BY <1>2, <1>3, <1>4, Failing

LEMMA InductiveHostFails ==
    ASSUME Inductive, NEW r \in Run, HostFails(r)
    PROVE  Inductive'
<1>1. PICK error \in Failures :
          run' = [run EXCEPT ![r] = [@ EXCEPT !.step = "failed", !.fresh = FALSE, !.error = error]]
  BY DEF HostFails
<1> DEFINE after == [run[r] EXCEPT !.step = "failed", !.fresh = FALSE, !.error = error]
<1>2. run[r] \in Runs
  BY DEF Inductive, TypeOK
<1>3. /\ after \in Runs /\ after.own = run[r].own /\ after.seq = run[r].seq
      /\ after.step = "failed" /\ after.error = error
  BY <1>2 DEF Runs, Steps
<1>4. error # None
  BY RoomSaveAssumption
<1>5. run' = [run EXCEPT ![r] = after]
  BY <1>1
<1>6. /\ run[r].step = "write"
      /\ UNCHANGED <<room, editors, joins, session, knows, host>>
  BY DEF HostFails
<1>7. knows' \in [Person -> BOOLEAN] /\ faults' \in Nat
  BY DEF HostFails, Inductive, TypeOK
<1> HIDE DEF after
<1> QED BY <1>3, <1>4, <1>5, <1>6, <1>7, Failing

LEMMA InductiveSaveEnd ==
    ASSUME Inductive, NEW r \in Run, SaveEnd(r)
    PROVE  Inductive'
<1> DEFINE p == r[1]
           seq == run[r].seq
           error == run[r].error
           ends == Online(p) /\ ~EndRefused(room, session[p], seq)
<1>1. /\ run[r].step \in {"written", "failed"}
      /\ room' = IF Online(p) THEN Ended(room, session[p], seq, error) ELSE room
      /\ run' = [run EXCEPT ![r] = NoRun]
      /\ UNCHANGED <<editors, joins, session, host, faults>>
  BY DEF SaveEnd
<1>2. p \in Person /\ run[r] \in Runs /\ seq \in Nat /\ room \in SaveState /\ host \in Nat
  BY RoomSaveAssumption DEF Inductive, TypeOK, Runs
<1>3. knows' \in [Person -> BOOLEAN]
  <2>1. \A q \in Person : (knows[q] \/ (Online(p) /\ error = None
             /\ ~EndRefused(room, session[p], seq) /\ knows[p] /\ Online(q))) \in BOOLEAN
    BY DEF Inductive, TypeOK
  <2> QED BY <2>1 DEF SaveEnd
<1>4. room' \in SaveState
  BY <1>1, <1>2, EndedType
<1>5. /\ run' \in [Run -> Runs]
      /\ run'[r] = NoRun
      /\ NoRun.step = "idle" /\ NoRun.own = FALSE
      /\ \A q \in Run : q # r => run'[q] = run[q]
  <2>1. NoRun \in Runs /\ NoRun.step = "idle" /\ NoRun.own = FALSE
    BY DEF NoRun, Runs, Steps
  <2> QED BY <1>1, <2>1 DEF Inductive, TypeOK
<1>6. TypeOK'
  BY <1>1, <1>3, <1>4, <1>5 DEF Inductive, TypeOK
<1>7. error = None => seq <= host
  BY <1>1 DEF Inductive, RunsAreHeld
<1>8. SessionsApart'
  BY <1>1 DEF Inductive, SessionsApart, Online
<1>9. RunsAreHeld'
  BY <1>1, <1>5 DEF Inductive, RunsAreHeld
<1>10. OwnIsAlone'
  BY <1>1, <1>5 DEF Inductive, OwnIsAlone, Online
<1>11. CASE ~ends
  <2>1. room' = room
    BY <1>1, <1>11 DEF Ended
  <2>2. DirtyIsAhead' /\ SavedIsHeld' /\ SaverIsThere' /\ EmptyRoomTellsItsState'
    BY <1>1, <2>1 DEF Inductive, DirtyIsAhead, SavedIsHeld, SaverIsThere, EmptyRoomTellsItsState
  <2>3. AloneTheRoomHears'
    BY <1>1, <1>5, <2>1 DEF Inductive, AloneTheRoomHears
  <2> QED BY <1>6, <1>8, <1>9, <1>10, <2>2, <2>3 DEF Inductive
<1>12. CASE ends
  <2>1. room.by = session[p] /\ session[p] \in editors /\ Online(p)
    BY <1>2, <1>12 DEF EndRefused, Inductive, SessionsApart
  <2>2. room' = Ended(room, session[p], seq, error)
    BY <1>1, <2>1
  <2>3. /\ room'.headSeq = room.headSeq /\ room'.savingSeq = None
        /\ room'.status \in {"editing", "corrupted"}
        /\ error # None => room'.dirty = room.dirty /\ room'.savedSeq = room.savedSeq
    BY <1>2, <1>12, <2>2 DEF Ended, SaveState
  <2>4. error = None => /\ room'.savedSeq = seq
                        /\ room'.dirty <=> room.headSeq > seq
    <3> DEFINE ahead == room.headSeq > seq
    <3>1. SUFFICES ASSUME error = None PROVE room'.savedSeq = seq /\ room'.dirty = ahead
      OBVIOUS
    <3>2. room' = [room EXCEPT !.status = "editing", !.savedSeq = seq, !.dirty = ahead,
                               !.by = None, !.savingSeq = None]
      BY <1>12, <2>2, <3>1 DEF Ended
    <3> HIDE DEF ahead
    <3> QED BY <1>2, <3>2 DEF SaveState
  <2>5. DirtyIsAhead'
    BY <2>3, <2>4 DEF Inductive, DirtyIsAhead
  <2>6. SavedIsHeld'
    <3>1. room.headSeq \in Nat
      BY <1>2 DEF SaveState
    <3>2. CASE error = None
      BY <1>1, <1>2, <1>7, <2>3, <2>4, <3>1, <3>2 DEF SavedIsHeld
    <3>3. CASE error # None
      BY <1>1, <2>3, <3>3 DEF Inductive, SavedIsHeld
    <3> QED BY <3>2, <3>3
  <2>7. SaverIsThere'
    BY <2>3 DEF SaverIsThere
  <2>8. EmptyRoomTellsItsState'
    BY <1>1, <2>1, <2>3 DEF EmptyRoomTellsItsState
  <2>9. \A q \in Run : ~run'[q].own
    <3> SUFFICES ASSUME NEW q \in Run, run'[q].own PROVE FALSE
      OBVIOUS
    <3>1. q # r /\ run[q].own
      BY <1>5
    <3>2. q[1] \in Person /\ session[q[1]] = session[p]
      BY <2>1, <3>1, RoomSaveAssumption DEF Inductive, AloneTheRoomHears
    <3>3. q[1] = p
      BY <1>2, <2>1, <3>2 DEF Inductive, SessionsApart
    <3>4. run[r].step = "idle"
      BY <3>1, <3>3 DEF Inductive, OwnIsAlone
    <3> QED BY <1>1, <3>4
  <2>10. AloneTheRoomHears'
    BY <2>9 DEF AloneTheRoomHears
  <2> QED BY <1>6, <1>8, <1>9, <1>10, <2>5, <2>6, <2>7, <2>8, <2>10 DEF Inductive
<1> QED BY <1>11, <1>12

LEMMA InductiveStutter ==
    ASSUME Inductive, UNCHANGED vars
    PROVE  Inductive'
<1>1. TypeOK' /\ DirtyIsAhead' /\ SessionsApart' /\ RunsAreHeld' /\ OwnIsAlone'
  BY DEF Inductive, vars, TypeOK, DirtyIsAhead, SessionsApart, RunsAreHeld, OwnIsAlone, Online
<1>2. SavedIsHeld' /\ SaverIsThere' /\ EmptyRoomTellsItsState' /\ AloneTheRoomHears'
  BY DEF Inductive, vars, SavedIsHeld, SaverIsThere, EmptyRoomTellsItsState, AloneTheRoomHears
<1> QED BY <1>1, <1>2 DEF Inductive

LEMMA InductiveStep == Inductive /\ [Next]_vars => Inductive'
<1> SUFFICES ASSUME Inductive, [Next]_vars PROVE Inductive'
  OBVIOUS
<1>1. ASSUME NEW n \in Session, SessionLeft(n) PROVE Inductive'
  BY <1>1, InductiveSessionLeft
<1>2. ASSUME NEW p \in Person, Connect(p) \/ Disconnect(p) \/ TakeChange(p) PROVE Inductive'
  BY <1>2, InductiveConnect, InductiveDisconnect, InductiveTakeChange
<1>3. ASSUME NEW r \in Run, SaveBegin(r[1], r[2]) \/ SaveBeginLost(r[1], r[2])
      PROVE  Inductive'
  <2>1. r[1] \in Person /\ r[2] \in Trigger /\ <<r[1], r[2]>> \in Run
    BY RoomSaveAssumption
  <2> QED BY <1>3, <2>1, InductiveSaveBegin, InductiveSaveBeginLost
<1>4. ASSUME NEW r \in Run,
             HostTakes(r) \/ HostTakesUnheard(r) \/ HostConflict(r) \/ HostFails(r) \/ SaveEnd(r)
      PROVE  Inductive'
  BY <1>4, InductiveHostTakes, InductiveHostTakesUnheard, InductiveHostConflict,
     InductiveHostFails, InductiveSaveEnd
<1>5. CASE UNCHANGED vars
  BY <1>5, InductiveStutter
<1> QED BY <1>1, <1>2, <1>3, <1>4, <1>5 DEF Next

-----------------------------------------------------------------------------
(* The theorems.                                                           *)

LEMMA Invariance == Spec => []Inductive
<1>1. Init => Inductive
  BY InductiveInit
<1>2. Inductive /\ [Next]_vars => Inductive'
  BY InductiveStep
<1> QED BY <1>1, <1>2, PTL DEF Spec

\* The room's state, the connections and the runs keep their types (saveMachine.ts:17-40).
THEOREM TypeCorrect == Spec => []TypeOK
<1>1. Inductive => TypeOK
  BY DEF Inductive
<1> QED BY <1>1, Invariance, PTL

\* What a room calls saved is in the host's last version, and a clean room is saved whole:
\* `saveEnd` takes only a version the host has, and `change` makes the room dirty again.
THEOREM SavedStaysHeld == Spec => []SavedIsHeld
<1>1. Inductive => SavedIsHeld
  BY DEF Inductive
<1> QED BY <1>1, Invariance, PTL

\* A save under way is of a session the server still counts: `leave` ends it (saveMachine.ts:97).
THEOREM SaversStay == Spec => []SaverIsThere
<1>1. Inductive => SaverIsThere
  BY DEF Inductive
<1> QED BY <1>1, Invariance, PTL

\* The last one out leaves a room that is closed only when it is saved (saveMachine.ts:100).
THEOREM EmptyRoomsTell == Spec => []EmptyRoomTellsItsState
<1>1. Inductive => EmptyRoomTellsItsState
  BY DEF Inductive
<1> QED BY <1>1, Invariance, PTL

\* No other session takes or ends the save of one that stays and runs one save at a time
\* (saveMachine.ts:82, 88-91).
THEOREM OwnSavesAreHeard == Spec => []AloneTheRoomHears
<1>1. Inductive => AloneTheRoomHears
  BY DEF Inductive
<1> QED BY <1>1, Invariance, PTL

=============================================================================
