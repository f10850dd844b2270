------------------------------ MODULE RoomSave ------------------------------
(***************************************************************************)
(* The save of a co-edited room: the state machine every side shares       *)
(* (`saveTransition` of saveMachine.ts, kept by the sync server) and the   *)
(* saves the sessions run through it (`runSave` of saveRun.ts), each       *)
(* started by its person or by the autosave timer, against a host that     *)
(* writes one version at a time, conditionally.                            *)
(*                                                                         *)
(* A connection may end at any moment, and the server learns of it later:  *)
(* by then the person may be back on another connection, and the write the *)
(* first one began still be on its way to the host.  One that the server   *)
(* gives up first ends the same way: nothing sent on it is answered any    *)
(* more, so for its person it is over when the server learns of it.        *)
(*                                                                         *)
(* A document is known by the room's changes it holds, up to a `seq`.      *)
(***************************************************************************)
EXTENDS Naturals, FiniteSets

CONSTANTS
    Person,     \* the editors
    Run,        \* the saves they may run: a person and what starts it
    None,
    MaxSeq,     \* bound: the changes the room takes
    MaxJoins,   \* bound: the connections made
    MaxRuns,    \* bound: the saves under way at once
    MaxFaults   \* bound: the writes the host fails, refuses or does not answer

Trigger == {"user", "timer"}
Session == 1 .. MaxJoins                \* numbered as they are made
Statuses == {"editing", "force-save", "must-save", "corrupted", "closed"}
Failures == {"failed", "corrupted"}     \* to the room, a conflict is a failure
Steps == {"idle", "write", "written", "failed"}

ASSUME RoomSaveAssumption ==
    /\ Run \subseteq Person \X Trigger
    /\ MaxSeq \in Nat /\ MaxJoins \in Nat /\ MaxRuns \in Nat /\ MaxFaults \in Nat
    /\ None \notin Nat /\ None \notin Failures

VARIABLES
    room,       \* the room's `SaveState`
    editors,    \* the sessions the server counts as the room's editors
    joins,      \* the connections made so far
    session,    \* the connection of each person, as long as it is up for them, or None
    knows,      \* whether the version a person's next write is conditional on is the host's
    run,        \* `runSave`, for the person's Save and for the timer
    host,       \* the change the host's last version holds
    faults

vars == <<room, editors, joins, session, knows, run, host, faults>>

SaveState == [status : Statuses, dirty : BOOLEAN, headSeq : Nat, savedSeq : Nat,
              by : Session \cup {None}, savingSeq : Nat \cup {None}]

\* `seq`: the change `save/begin` answered; `fresh`: the host still has the version the write
\* is conditional on; `own`: the session is still the one that began it, and has run no other
\* save meanwhile.
Runs == [step : Steps, seq : Nat, fresh : BOOLEAN, error : Failures \cup {None},
         own : BOOLEAN]
NoRun == [step |-> "idle", seq |-> 0, fresh |-> FALSE, error |-> None, own |-> FALSE]

TypeOK ==
    /\ room \in SaveState
    /\ editors \subseteq Session
    /\ joins \in 0 .. MaxJoins
    /\ session \in [Person -> Session \cup {None}]
    /\ knows \in [Person -> BOOLEAN]
    /\ run \in [Run -> Runs]
    /\ host \in Nat
    /\ faults \in Nat

-----------------------------------------------------------------------------
(* `saveTransition`, one operator per event. The outcome of a refused      *)
(* event is the state before it. `by` is kept while the save runs; the     *)
(* code keeps it for display afterwards, as it does the last trigger, the  *)
(* last version and the last reason.                                       *)

\* `initialSaveState`, with the first of the room's changes its snapshot.
InitialSaveState == [status |-> "editing", dirty |-> FALSE, headSeq |-> 0,
                     savedSeq |-> 0, by |-> None, savingSeq |-> None]

Changed(s, seq) ==
    LET head == IF seq > s.headSeq THEN seq ELSE s.headSeq
    IN  [s EXCEPT !.headSeq = head, !.dirty = head > s.savedSeq,
                  !.status = IF @ = "closed" THEN "editing" ELSE @]

Joined(s) == [s EXCEPT !.status = IF @ = "closed" THEN "editing" ELSE @]

BeginRefused(s, by) == s.status = "force-save" /\ s.by # by

\* Not so: a save takes the place of another.
BegunOver(s, by, trigger) ==
    IF ~s.dirty /\ trigger # "user" THEN s
    ELSE [s EXCEPT !.status = "force-save", !.by = by, !.savingSeq = s.headSeq]

\* Not so: a room that was left dirty is not saved by the one who comes back.
BegunNotLeft(s, by, trigger) ==
    IF s.status \in {"force-save", "must-save"} \/ (~s.dirty /\ trigger # "user") THEN s
    ELSE [s EXCEPT !.status = "force-save", !.by = by, !.savingSeq = s.headSeq]

\* A clean room needs no version unless the person asked for one.
Begun(s, by, trigger) ==
    IF s.status = "force-save" \/ (~s.dirty /\ trigger # "user")
    THEN s
    ELSE [s EXCEPT !.status = "force-save", !.by = by, !.savingSeq = s.headSeq]

EndRefused(s, by, seq) == s.status # "force-save" \/ s.by # by \/ seq # s.savingSeq

\* Not so: a change that came during the save counts as saved.
EndedClean(s, by, seq, error) ==
    IF EndRefused(s, by, seq) THEN s
    ELSE IF error = None
         THEN [s EXCEPT !.status = "editing", !.savedSeq = seq, !.dirty = FALSE,
                        !.by = None, !.savingSeq = None]
         ELSE [s EXCEPT !.status = IF error = "corrupted" THEN "corrupted" ELSE "editing",
                        !.by = None, !.savingSeq = None]

Ended(s, by, seq, error) ==
    IF EndRefused(s, by, seq) THEN s
    ELSE IF error = None
         THEN [s EXCEPT !.status = "editing", !.savedSeq = seq,
                        !.dirty = s.headSeq > seq, !.by = None, !.savingSeq = None]
         ELSE [s EXCEPT !.status = IF error = "corrupted" THEN "corrupted" ELSE "editing",
                        !.by = None, !.savingSeq = None]

\* Not so: the save of the session goes on.
LeftSaving(s, by, last) ==
    IF last /\ s.status # "corrupted"
    THEN [s EXCEPT !.status = IF s.dirty THEN "must-save" ELSE "closed"]
    ELSE s

\* Not so: the last one out closes the room, saved or not.
LeftClosed(s, by, last) ==
    LET ended == IF s.status = "force-save" /\ s.by = by
                 THEN [s EXCEPT !.status = "editing", !.by = None, !.savingSeq = None]
                 ELSE s
    IN  IF last /\ ended.status # "corrupted" THEN [ended EXCEPT !.status = "closed"] ELSE ended

\* A save whose session went away ends without a version.
Left(s, by, last) ==
    LET ended == IF s.status = "force-save" /\ s.by = by
                 THEN [s EXCEPT !.status = "editing", !.by = None, !.savingSeq = None]
                 ELSE s
    IN  IF last /\ ended.status # "corrupted"
        THEN [ended EXCEPT !.status = IF ended.dirty THEN "must-save" ELSE "closed"]
        ELSE ended

-----------------------------------------------------------------------------
(* Connections.                                                            *)

Online(p) == session[p] # None

Init ==
    /\ room = InitialSaveState
    /\ editors = {}
    /\ joins = 0
    /\ session = [p \in Person |-> None]
    /\ knows = [p \in Person |-> TRUE]
    /\ run = [r \in Run |-> NoRun]
    /\ host = 0
    /\ faults = 0

Connect(p) ==
    /\ session[p] = None
    /\ joins < MaxJoins
    /\ joins' = joins + 1
    /\ session' = [session EXCEPT ![p] = joins']
    /\ editors' = editors \cup {joins'}
    /\ room' = Joined(room)
    /\ UNCHANGED <<knows, run, host, faults>>

Disowned(p) == [r \in Run |-> IF r[1] = p THEN [run[r] EXCEPT !.own = FALSE] ELSE run[r]]

Disconnect(p) ==
    /\ Online(p)
    /\ session' = [session EXCEPT ![p] = None]
    /\ run' = Disowned(p)
    /\ UNCHANGED <<room, editors, joins, knows, host, faults>>

\* The server learns that a connection is gone.
SessionLeft(n) ==
    /\ n \in editors
    /\ \A p \in Person : session[p] # n
    /\ editors' = editors \ {n}
    /\ room' = Left(room, n, editors' = {})
    /\ UNCHANGED <<joins, session, knows, run, host, faults>>

\* The room takes a change of an editor.
TakeChange(p) ==
    /\ Online(p)
    /\ room.headSeq < MaxSeq
    /\ room' = Changed(room, room.headSeq + 1)
    /\ UNCHANGED <<editors, joins, session, knows, run, host, faults>>

-----------------------------------------------------------------------------
(* `runSave`. What a person receives on a connection it receives in order: *)
(* an answer of the room after the changes before it.                      *)

MayRun(r) == run[r].step = "idle" /\ Cardinality({q \in Run : run[q].step # "idle"}) < MaxRuns

\* `save/begin` is answered: the room is busy, is clean, or is to be saved by this session,
\* which writes on the version it knows.
SaveBegin(p, t) ==
    LET begun == Begun(room, session[p], t)
        saves == ~BeginRefused(room, session[p]) /\ begun.status = "force-save"
        alone == \A r \in Run : r[1] = p => run[r].step = "idle"
    IN  /\ Online(p)
        /\ MayRun(<<p, t>>)
        /\ room' = begun
        /\ run' = IF ~saves THEN run
                  ELSE [Disowned(p) EXCEPT ![<<p, t>>] =
                          [NoRun EXCEPT !.step = "write", !.seq = begun.savingSeq,
                                        !.fresh = knows[p], !.own = alone]]
        /\ UNCHANGED <<editors, joins, session, knows, host, faults>>

\* The connection ends before the answer.
SaveBeginLost(p, t) ==
    /\ Online(p)
    /\ MayRun(<<p, t>>)
    /\ room' = Begun(room, session[p], t)
    /\ session' = [session EXCEPT ![p] = None]
    /\ run' = Disowned(p)
    /\ UNCHANGED <<editors, joins, knows, host, faults>>

\* The host writes a version on the one it has: it holds the change that was asked for and what
\* the one before it held, and perhaps later changes. Every other write under way is a conflict
\* from now on.
Replace(r, answered, after) ==
    /\ run[r].step = "write" /\ run[r].fresh
    /\ \E seq \in run[r].seq .. room.headSeq : seq >= host /\ host' = seq
    /\ knows' = [q \in Person |-> answered /\ q = r[1]]
    /\ run' = [q \in Run |-> IF q = r THEN after ELSE [run[q] EXCEPT !.fresh = FALSE]]
    /\ UNCHANGED <<room, editors, joins, session>>

HostTakes(r) ==
    /\ Replace(r, TRUE, [run[r] EXCEPT !.step = "written", !.fresh = FALSE])
    /\ UNCHANGED faults

\* The answer is lost: for the run, the write failed.
HostTakesUnheard(r) ==
    /\ faults < MaxFaults
    /\ Replace(r, FALSE,
               [run[r] EXCEPT !.step = "failed", !.fresh = FALSE, !.error = "failed"])
    /\ faults' = faults + 1

\* The host has another version by now; the person reads it.
HostConflict(r) ==
    /\ run[r].step = "write" /\ ~run[r].fresh
    /\ run' = [run EXCEPT ![r] = [@ EXCEPT !.step = "failed", !.error = "failed"]]
    /\ knows' = [knows EXCEPT ![r[1]] = TRUE]
    /\ UNCHANGED <<room, editors, joins, session, host, faults>>

HostFails(r) ==
    /\ run[r].step = "write"
    /\ faults < MaxFaults
    /\ \E error \in Failures :
          run' = [run EXCEPT ![r] = [@ EXCEPT !.step = "failed", !.fresh = FALSE, !.error = error]]
    /\ faults' = faults + 1
    /\ UNCHANGED <<room, editors, joins, session, knows, host>>

\* `save/end` on the connection the person has by now; offline, it fails, as the room's
\* refusal does. Either way the run is over. A saved version is told to everyone online.
SaveEnd(r) ==
    LET p == r[1]
        seq == run[r].seq
        error == run[r].error
        told == Online(p) /\ error = None /\ ~EndRefused(room, session[p], seq) /\ knows[p]
    IN  /\ run[r].step \in {"written", "failed"}
        /\ room' = IF Online(p) THEN Ended(room, session[p], seq, error) ELSE room
        /\ run' = [run EXCEPT ![r] = NoRun]
        /\ knows' = [q \in Person |-> knows[q] \/ (told /\ Online(q))]
        /\ UNCHANGED <<editors, joins, session, host, faults>>

-----------------------------------------------------------------------------

Next ==
    \/ \E n \in Session : SessionLeft(n)
    \/ \E p \in Person : Connect(p) \/ Disconnect(p) \/ TakeChange(p)
    \/ \E r \in Run :
        \/ SaveBegin(r[1], r[2])
        \/ SaveBeginLost(r[1], r[2])
        \/ HostTakes(r)
        \/ HostTakesUnheard(r)
        \/ HostConflict(r)
        \/ HostFails(r)
        \/ SaveEnd(r)

Spec == Init /\ [][Next]_vars

(* A run goes on, the autosave timer of someone online fires, the host answers, and the    *)
(* server notices connections that are gone. No one has to press Save, to make changes, or *)
(* to come back; and in a corrupted room no timer has to fire (saveMachine.ts:14).         *)
Fairness ==
    /\ WF_vars(\E n \in Session : SessionLeft(n))
    /\ \A r \in Run : /\ r[2] = "timer"
                          => WF_vars(room.status # "corrupted" /\ SaveBegin(r[1], r[2]))
                     /\ WF_vars(HostTakes(r) \/ HostConflict(r) \/ SaveEnd(r))

FairSpec == Spec /\ Fairness

-----------------------------------------------------------------------------
(* Properties.                                                             *)

\* What the room calls saved is in the host's last version, and all of it when the room is
\* clean: after a change that came while it was being saved, the late write of a session whose
\* connection ended, two saves of one session, a write whose answer was lost.
SavedIsHeld == room.savedSeq <= host /\ (~room.dirty => room.headSeq <= host)

\* A save under way belongs to a session the server counts, and names a change the room has:
\* no save is left behind that would keep everyone else from saving.
SaverIsThere ==
    /\ (room.status = "force-save") <=> (room.savingSeq # None)
    /\ room.status = "force-save" => room.by \in editors /\ room.savingSeq <= room.headSeq

\* A room no one is in holds no unsaved change unless it says so to the next one to join, and a
\* closed room is empty.
EmptyRoomTellsItsState ==
    /\ editors = {} /\ room.dirty => room.status \in {"must-save", "corrupted"}
    /\ room.status = "must-save" => room.dirty
    /\ room.status = "closed" => ~room.dirty /\ editors = {}

\* A session that stays connected and runs one save at a time keeps the room's save until it
\* ends it: what the host wrote is what the room hears of.
AloneTheRoomHears ==
    \A r \in Run :
        run[r].own
        => room.status = "force-save" /\ room.by = session[r[1]] /\ room.savingSeq = run[r].seq

\* With the timer alone saving, and someone staying, everything is saved in the end, whatever
\* connections ended in the middle of a save, or the room stays corrupted for the person to
\* deal with: a room that was left dirty, or whose save failed, is never left so.
TimerAlone == \A r \in Run : r[2] = "user" => run[r].step = "idle"
EverythingIsSaved ==
    \A p \in Person :
        <<p, "timer">> \in Run /\ <>[](Online(p) /\ TimerAlone)
        => \/ <>[](~room.dirty /\ room.headSeq <= host)
           \/ <>[](room.status = "corrupted")

=============================================================================
