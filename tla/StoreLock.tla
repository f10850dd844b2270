------------------------------ MODULE StoreLock -----------------------------
(***************************************************************************)
(* The one writer of a document store: `.kition/docs/store.lock`, as       *)
(* docstore/lock.rs keeps it.  Several Kitions open one workspace's store, *)
(* each with a heartbeat thread that refreshes the lock; a Kition may      *)
(* crash, quit, leave for another workspace, or sleep with its device      *)
(* between any two steps.                                                  *)
(*                                                                         *)
(* The Kitions share one directory: a second Kition of the device, or a    *)
(* drive two devices have mounted, whose clocks are at most Skew apart.    *)
(* A file sync, where each device has a copy of the file of its own and    *)
(* heartbeats arrive late or beside each other, is not modelled, and       *)
(* nothing said here holds for it.  The file that is there parses: it is   *)
(* linked or renamed into place.                                           *)
(*                                                                         *)
(* Time is counted in ticks.  The file's heartbeat is kept as its age, so  *)
(* that time needs no bound: every age stops counting at Oldest, where     *)
(* nothing tells it apart any more.  Each member of Kition opens the store *)
(* once: an instance id is never used again.                               *)
(***************************************************************************)
EXTENDS Naturals

CONSTANTS
    Kition,         \* the Kitions (instances of the lock)
    Placement,      \* the ways they may be spread over devices
    None,
    Heartbeat,      \* HEARTBEAT, in ticks
    StaleAfter,     \* STALE_AFTER, in ticks
    Skew,           \* how far the clocks of two devices are apart
    MaxFaults       \* bound: sleeps and failed refreshes of a behaviour

\* The age from which on everyone calls a heartbeat stale.
Oldest == StaleAfter + Skew + 1

\* What store.lock holds: who holds it, and how old its heartbeat is.
Record == [holder : Kition, age : 0..Oldest]

ASSUME StoreLockAssumption ==
    /\ None \notin Kition
    /\ None \notin Record
    /\ Heartbeat \in Nat \ {0}
    /\ StaleAfter \in Nat
    /\ Skew \in Nat
    /\ Heartbeat + Skew <= StaleAfter
    /\ MaxFaults \in Nat

VARIABLES
    lockFile,   \* the record in store.lock, or None
    host,       \* where each Kition runs
    phase,      \* "new", "opening", "open", "left" (another workspace) or "dead"
    writer,     \* state.writer
    asleep,     \* the Kitions whose device sleeps
    thread,     \* the refresh under way: its step, and the age of the heartbeat it writes
    leaving,    \* whether `release` has read its own record
    since,      \* ticks of its sleep the heartbeat thread has behind it
    faults,
    overlap     \* ticks for which two awake Kitions have been writers (counted up
                \*   to 2 * Heartbeat + 1)

vars == <<lockFile, host, phase, writer, asleep, thread, leaving, since, faults, overlap>>

NotRefreshing == [step |-> "idle", age |-> 0]

TypeOK ==
    /\ lockFile \in Record \cup {None}
    /\ host \in Placement
    /\ phase \in [Kition -> {"new", "opening", "open", "left", "dead"}]
    /\ writer \in [Kition -> BOOLEAN]
    /\ asleep \subseteq Kition
    /\ thread \in [Kition -> [step : {"idle", "begin", "create", "renew", "take", "check"},
                              age : 0..Oldest]]
    /\ leaving \in [Kition -> BOOLEAN]
    /\ since \in [Kition -> 0..Heartbeat]
    /\ faults \in 0..MaxFaults
    /\ overlap \in 0..(2 * Heartbeat + 1)

Awake(k) == k \notin asleep /\ phase[k] # "dead"
Writers == {k \in Kition : writer[k] /\ phase[k] = "open"}
AwakeWriters == {k \in Writers : Awake(k)}
TwoWrite == \E j, k \in AwakeWriters : j # k

Older(age) == IF age = Oldest THEN age ELSE age + 1

Running(k) == phase[k] \in {"opening", "open", "left"}

\* `is_stale`, by one of this host.  A process that is gone may look as if it ran:
\* outside unix nothing tells, and its pid may be another's by now.
HolderGone(record, k) == host[record.holder] = host[k] /\ ~Running(record.holder)
Apart(j, k) == IF host[j] = host[k] THEN 0 ELSE Skew
MayLookStale(record, k) ==
    HolderGone(record, k) \/ record.age + Apart(record.holder, k) > StaleAfter
MayLookFresh(record, k) == record.age <= StaleAfter + Apart(record.holder, k)

-----------------------------------------------------------------------------
(* `refresh`, by `open` and by the heartbeat thread.                       *)

\* Not so: a refresh that never takes the writer's part away.
EndedForGood(k, isWriter) ==
    /\ writer' = [writer EXCEPT ![k] = @ \/ isWriter]
    /\ thread' = [thread EXCEPT ![k] = NotRefreshing]
    /\ phase' = [phase EXCEPT ![k] = IF @ = "opening" THEN "open" ELSE @]

\* `set_state`; a lock that was opening is open.
Ended(k, isWriter) ==
    /\ writer' = [writer EXCEPT ![k] = isWriter]
    /\ thread' = [thread EXCEPT ![k] = NotRefreshing]
    /\ phase' = [phase EXCEPT ![k] = IF @ = "opening" THEN "open" ELSE @]

\* The thread sleeps HEARTBEAT, then refreshes the lock that is open by then.
Beat(k) ==
    /\ Awake(k)
    /\ phase[k] = "open"
    /\ thread[k].step = "idle"
    /\ since[k] = Heartbeat
    /\ since' = [since EXCEPT ![k] = 0]
    /\ thread' = [thread EXCEPT ![k].step = "begin"]
    /\ UNCHANGED <<lockFile, phase, writer, asleep, leaving, faults, overlap>>

\* Not so: a writer that renews the lock without looking whose it is by now.
NextStepsBlind(k) ==
    IF lockFile = None THEN {"create"}
    ELSE IF writer[k] \/ lockFile.holder = k THEN {"renew"}
    ELSE {step \in {"take", "none"} :
             IF step = "take" THEN MayLookStale(lockFile, k) ELSE MayLookFresh(lockFile, k)}

\* What a refresh may go on to do, by what it finds.
NextSteps(k) ==
    IF lockFile = None THEN {"create"}
    ELSE IF lockFile.holder = k THEN {"renew"}
    ELSE {step \in {"take", "none"} :
             IF step = "take" THEN MayLookStale(lockFile, k) ELSE MayLookFresh(lockFile, k)}

\* The clock is read, then the file: the heartbeat written later is of now.
ReadLock(k) ==
    /\ Awake(k)
    /\ thread[k].step = "begin"
    /\ \E step \in NextSteps(k) :
          IF step = "none" THEN Ended(k, FALSE)
          ELSE /\ thread' = [thread EXCEPT ![k] = [step |-> step, age |-> 0]]
               /\ UNCHANGED <<phase, writer>>
    /\ UNCHANGED <<lockFile, asleep, leaving, since, faults, overlap>>

\* `create_record`: the hard link fails when another made the file first.
CreateLock(k) ==
    /\ Awake(k)
    /\ thread[k].step = "create"
    /\ IF lockFile = None
       THEN lockFile' = [holder |-> k, age |-> thread[k].age] /\ Ended(k, TRUE)
       ELSE UNCHANGED lockFile /\ Ended(k, FALSE)
    /\ UNCHANGED <<asleep, leaving, since, faults, overlap>>

\* `write_record`: it replaces whatever record is there by now.
WriteLock(k) ==
    /\ Awake(k)
    /\ thread[k].step \in {"renew", "take"}
    /\ lockFile' = [holder |-> k, age |-> thread[k].age]
    /\ IF thread[k].step = "renew" THEN Ended(k, TRUE)
       ELSE /\ thread' = [thread EXCEPT ![k] = [step |-> "check", age |-> 0]]
            /\ UNCHANGED <<phase, writer>>
    /\ UNCHANGED <<asleep, leaving, since, faults, overlap>>

\* After a takeover, and a moment: is the record still this Kition's?
CheckLock(k) ==
    /\ Awake(k)
    /\ thread[k].step = "check"
    /\ Ended(k, lockFile # None /\ lockFile.holder = k)
    /\ UNCHANGED <<lockFile, asleep, leaving, since, faults, overlap>>

\* The file cannot be read or written: read-only, with no holder known.
RefreshFails(k) ==
    /\ Awake(k)
    /\ thread[k].step # "idle"
    /\ faults < MaxFaults
    /\ faults' = faults + 1
    /\ Ended(k, FALSE)
    /\ UNCHANGED <<lockFile, asleep, leaving, since, overlap>>

-----------------------------------------------------------------------------
(* The rest of a Kition's life.                                            *)

\* `StoreLocks::lock_for`: `open` refreshes at once, with the mutex of `current`
\* held.  The heartbeat thread of the process is anywhere in its sleep.
Open(k) ==
    /\ phase[k] = "new"
    /\ phase' = [phase EXCEPT ![k] = "opening"]
    /\ thread' = [thread EXCEPT ![k].step = "begin"]
    /\ \E elapsed \in 0..Heartbeat : since' = [since EXCEPT ![k] = elapsed]
    /\ UNCHANGED <<lockFile, writer, asleep, leaving, faults, overlap>>

\* `release`, when the workspace changes or the app quits: it reads the record
\* and removes the file if it is its own.  A refresh the heartbeat thread has
\* begun goes on.
Release(k) ==
    /\ Awake(k)
    /\ phase[k] = "open"
    /\ ~leaving[k]
    /\ IF writer[k] /\ lockFile # None /\ lockFile.holder = k
       THEN leaving' = [leaving EXCEPT ![k] = TRUE] /\ UNCHANGED <<phase, writer>>
       ELSE /\ phase' = [phase EXCEPT ![k] = "left"]
            /\ writer' = [writer EXCEPT ![k] = FALSE]
            /\ UNCHANGED leaving
    /\ UNCHANGED <<lockFile, asleep, thread, since, faults, overlap>>

RemoveLock(k) ==
    /\ Awake(k)
    /\ leaving[k]
    /\ lockFile' = None
    /\ leaving' = [leaving EXCEPT ![k] = FALSE]
    /\ phase' = [phase EXCEPT ![k] = "left"]
    /\ writer' = [writer EXCEPT ![k] = FALSE]
    /\ UNCHANGED <<asleep, thread, since, faults, overlap>>

\* The process ends: it quits, or crashes with the store open.
Die(k) ==
    /\ Running(k)
    /\ phase' = [phase EXCEPT ![k] = "dead"]
    /\ writer' = [writer EXCEPT ![k] = FALSE]
    /\ thread' = [thread EXCEPT ![k] = NotRefreshing]
    /\ leaving' = [leaving EXCEPT ![k] = FALSE]
    /\ asleep' = asleep \ {k}
    /\ UNCHANGED <<lockFile, since, faults, overlap>>

Sleep(k) ==
    /\ Running(k)
    /\ Awake(k)
    /\ faults < MaxFaults
    /\ faults' = faults + 1
    /\ asleep' = asleep \cup {k}
    /\ UNCHANGED <<lockFile, phase, writer, thread, leaving, since, overlap>>

Wake(k) ==
    /\ k \in asleep
    /\ asleep' = asleep \ {k}
    /\ UNCHANGED <<lockFile, phase, writer, thread, leaving, since, faults, overlap>>

\* Time passes.  An awake Kition ends a refresh within a tick, and begins one
\* every Heartbeat ticks; a sleeping one does nothing, and the clock its heartbeat
\* thread sleeps by may stop with the device.
Tick ==
    /\ \A k \in Kition : Awake(k) =>
          /\ thread[k].step = "idle"
          /\ ~leaving[k]
          /\ phase[k] = "open" => since[k] < Heartbeat
    /\ lockFile' = IF lockFile = None THEN None
                   ELSE [lockFile EXCEPT !.age = Older(@)]
    /\ thread' = [k \in Kition |->
                     IF thread[k].step \in {"create", "renew", "take"}
                     THEN [thread[k] EXCEPT !.age = Older(@)] ELSE thread[k]]
    /\ \E stopped \in SUBSET asleep :
          since' = [k \in Kition |->
                       IF phase[k] \notin {"opening", "open"} THEN 0
                       ELSE IF k \in stopped \/ since[k] = Heartbeat THEN since[k]
                       ELSE since[k] + 1]
    /\ overlap' = IF ~TwoWrite THEN 0
                  ELSE IF overlap > 2 * Heartbeat THEN overlap ELSE overlap + 1
    /\ UNCHANGED <<phase, writer, asleep, leaving, faults>>

-----------------------------------------------------------------------------
Init ==
    /\ lockFile = None
    /\ host \in Placement
    /\ phase = [k \in Kition |-> "new"]
    /\ writer = [k \in Kition |-> FALSE]
    /\ asleep = {}
    /\ thread = [k \in Kition |-> NotRefreshing]
    /\ leaving = [k \in Kition |-> FALSE]
    /\ since = [k \in Kition |-> 0]
    /\ faults = 0
    /\ overlap = 0

Refresh(k) == Beat(k) \/ ReadLock(k) \/ CreateLock(k) \/ WriteLock(k) \/ CheckLock(k)

Next ==
    /\ \/ \E k \in Kition :
             \/ Refresh(k)
             \/ RefreshFails(k)
             \/ Open(k)
             \/ Release(k)
             \/ RemoveLock(k)
             \/ Die(k)
             \/ Sleep(k)
             \/ Wake(k)
       \/ Tick
    /\ UNCHANGED host

Spec == Init /\ [][Next]_vars

\* Time goes on, and an awake Kition's threads run; a device may sleep for good.
Fairness ==
    /\ WF_vars(Tick /\ UNCHANGED host)
    /\ \A k \in Kition : /\ WF_vars(Refresh(k) /\ UNCHANGED host)
                         /\ WF_vars(RemoveLock(k) /\ UNCHANGED host)

FairSpec == Spec /\ Fairness

-----------------------------------------------------------------------------
(* Properties.                                                             *)

\* Two awake Kitions that both believe they are the writer find out within two
\* heartbeats, whatever put them there: a takeover both made, a writer that woke up
\* after it was taken over, or one whose refresh slept half way and left a heartbeat
\* that was old when it was written (lock.rs:15-16, 220-221).  It is a property of two
\* Kitions: a third one can take the store over again before the second knows.
OverlapShort == overlap <= 2 * Heartbeat

\* Once nothing else happens, exactly one of the open Kitions that are awake is the
\* writer, and the lock names it.
SettlesOnOneWriter ==
    <>[]((\E k \in Kition : phase[k] = "open" /\ Awake(k)) =>
            \E k \in AwakeWriters :
               AwakeWriters = {k} /\ lockFile # None /\ lockFile.holder = k)

=============================================================================
