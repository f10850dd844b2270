--------------------------- MODULE StoreLockProofs --------------------------
(***************************************************************************)
(* What StoreLock keeps for any heartbeat, staleness, clocks, sleeps and   *)
(* failed refreshes.                                                       *)
(*                                                                         *)
(* While two Kitions are writers, either neither has looked at the record  *)
(* since they both became writers, or one of them has written it since and *)
(* it is fresh: then nobody takes it over, and the other finds out at its  *)
(* next beat.  Neither part is longer than a heartbeat.                    *)
(***************************************************************************)
EXTENDS StoreLock, TLAPS

Steps == {"idle", "begin", "create", "renew", "take", "check"}
Phases == {"new", "opening", "open", "left", "dead"}
Ages == 0 .. Oldest
Threads == [step : Steps, age : Ages]

\* A Kition left the store or ended: at most one is left of two.
Gone == \E k \in Kition : phase[k] \in {"left", "dead"}

Refreshing(k) == thread[k].step # "idle"

\* A refresh that is not under way has written all it had to.
Resting == \A k \in Kition :
    /\ phase[k] = "new" => ~Refreshing(k)
    /\ ~Refreshing(k) => thread[k].age = 0

LockThere == (\E k \in Kition : writer[k]) => lockFile # None \/ Gone

\* The record was written since its Kition's last beat, or a heartbeat ago.
Fresh ==
    /\ lockFile.age <= Heartbeat
    /\ LET h == lockFile.holder
       IN  ~Refreshing(h) /\ writer[h] => lockFile.age <= since[h]

Early == overlap <= Heartbeat

\* Of two that are writers, what is known of each: where it is in its refresh, ...
AtWork(k) ==
    /\ phase[k] = "open"
    /\ thread[k].age = 0
    /\ Refreshing(k) => writer[k] /\ since[k] = 0
    /\ ~writer[k] => since[k] = 0

\* ... how long the one the record does not name has been a second writer, ...
FindsOut(k) == lockFile.holder # k =>
    /\ thread[k].step \notin {"idle", "begin"} => Early
    /\ writer[k] /\ ~Refreshing(k) => overlap <= Heartbeat + since[k]

\* ... and each of them while nobody has written the record since.
NotLooked(k) == ~Fresh =>
    /\ Refreshing(k) => Early
    /\ writer[k] /\ ~Refreshing(k) => overlap <= since[k]

\* A record that is being checked has just been written.
JustWritten(k) == lockFile.holder = k /\ thread[k].step = "check" => lockFile.age = 0

OneKnows(k) == AtWork(k) /\ FindsOut(k) /\ NotLooked(k) /\ JustWritten(k)

Overlapping == overlap > 0 /\ ~Gone => lockFile # None /\ \A k \in Kition : OneKnows(k)

IInv == Resting /\ LockThere /\ Overlapping

\* At most two Kitions share the store.
AtMostTwo == \A i, j, k \in Kition : i = j \/ j = k \/ i = k

-----------------------------------------------------------------------------
\* The types of all that changes.
Typed ==
    /\ lockFile \in Record \cup {None}
    /\ phase \in [Kition -> Phases]
    /\ writer \in [Kition -> BOOLEAN]
    /\ asleep \subseteq Kition
    /\ thread \in [Kition -> Threads]
    /\ leaving \in [Kition -> BOOLEAN]
    /\ since \in [Kition -> 0 .. Heartbeat]
    /\ faults \in 0 .. MaxFaults
    /\ overlap \in 0 .. (2 * Heartbeat + 1)

LEMMA TypedAll == TypeOK <=> Typed /\ host \in Placement
  BY DEF TypeOK, Typed, Threads, Phases, Steps, Ages

LEMMA TypedAllNext == (TypeOK <=> Typed /\ host \in Placement)'
  BY TypedAll, PTL

LEMMA Types == TypeOK => Typed
  BY TypedAll

LEMMA Numbers ==
    /\ Heartbeat \in Nat /\ StaleAfter \in Nat /\ MaxFaults \in Nat /\ Skew \in Nat
    /\ 0 < Heartbeat /\ Heartbeat + Skew <= StaleAfter
  BY StoreLockAssumption

LEMMA Bounds ==
    /\ Heartbeat \in Nat /\ StaleAfter \in Nat /\ MaxFaults \in Nat /\ Skew \in Nat
    /\ 0 < Heartbeat /\ Heartbeat + Skew <= StaleAfter
    /\ NotRefreshing \in Threads /\ NotRefreshing.step = "idle" /\ NotRefreshing.age = 0
    /\ \A a \in Ages : Older(a) \in Ages
    /\ 0 \in Ages
    /\ Record = [holder : Kition, age : Ages]
    /\ None \notin Record
<1>1. /\ Heartbeat \in Nat /\ StaleAfter \in Nat /\ MaxFaults \in Nat /\ Skew \in Nat
      /\ 0 < Heartbeat /\ Heartbeat + Skew <= StaleAfter /\ None \notin Record
  BY StoreLockAssumption
<1>2. 0 \in Ages /\ \A a \in Ages : Older(a) \in Ages
  BY <1>1 DEF Older, Ages, Oldest
<1> QED BY <1>1, <1>2 DEF NotRefreshing, Threads, Steps, Record, Ages, Oldest

\* The refresh of k goes on: what it does to its thread.
ThreadIs(k, step, age) ==
    /\ thread'[k].step = step
    /\ thread'[k].age = age

\* Nothing of the others is touched.
OthersKeep(k) == \A j \in Kition : j # k =>
    /\ thread'[j] = thread[j]
    /\ since'[j] = since[j]
    /\ writer'[j] = writer[j]
    /\ phase'[j] = phase[j]

LEMMA EndedEffect ==
    ASSUME TypeOK, NEW k \in Kition, NEW b \in BOOLEAN, Ended(k, b), UNCHANGED since
    PROVE  /\ phase' \in [Kition -> Phases]
           /\ writer' \in [Kition -> BOOLEAN]
           /\ thread' \in [Kition -> Threads]
           /\ OthersKeep(k)
           /\ ThreadIs(k, "idle", 0)
           /\ writer'[k] = b
           /\ phase'[k] = IF phase[k] = "opening" THEN "open" ELSE phase[k]
           /\ since'[k] = since[k]
  BY Types, Bounds DEF Typed, Ended, Phases, OthersKeep, ThreadIs

LEMMA ThreadEffect ==
    ASSUME TypeOK, NEW k \in Kition, NEW step \in Steps, NEW age \in Ages,
           thread' = [thread EXCEPT ![k] = [step |-> step, age |-> age]]
    PROVE  /\ thread' \in [Kition -> Threads]
           /\ \A j \in Kition : j # k => thread'[j] = thread[j]
           /\ ThreadIs(k, step, age)
  BY Types DEF Typed, Threads, ThreadIs

LEMMA StepEffect ==
    ASSUME TypeOK, NEW k \in Kition, NEW step \in Steps,
           thread' = [thread EXCEPT ![k].step = step]
    PROVE  /\ thread' \in [Kition -> Threads]
           /\ \A j \in Kition : j # k => thread'[j] = thread[j]
           /\ ThreadIs(k, step, thread[k].age)
  BY Types DEF Typed, Threads, ThreadIs

\* What each step of a refresh does.
LEMMA BeatEffect ==
    ASSUME TypeOK, NEW k \in Kition, Beat(k)
    PROVE  /\ Typed' /\ OthersKeep(k)
           /\ UNCHANGED <<lockFile, phase, writer, overlap>>
           /\ thread[k].step = "idle" /\ since[k] = Heartbeat
           /\ ThreadIs(k, "begin", thread[k].age) /\ since'[k] = 0
<1>1. /\ thread' \in [Kition -> Threads]
      /\ \A j \in Kition : j # k => thread'[j] = thread[j]
      /\ ThreadIs(k, "begin", thread[k].age)
  BY StepEffect DEF Beat, Steps
<1>2. since' \in [Kition -> 0 .. Heartbeat] /\ since'[k] = 0
      /\ \A j \in Kition : j # k => since'[j] = since[j]
  <2>1. since \in [Kition -> 0 .. Heartbeat] /\ 0 \in 0 .. Heartbeat
    <3>1. since \in [Kition -> 0 .. Heartbeat]
      BY Types DEF Typed
    <3>2. 0 \in 0 .. Heartbeat
      BY Numbers
    <3> QED BY <3>1, <3>2
  <2>2. since' = [since EXCEPT ![k] = 0]
    BY DEF Beat
  <2> QED BY <2>1, <2>2
<1> QED BY <1>1, <1>2, Types DEF Typed, Beat, OthersKeep

LEMMA ReadEffect ==
    ASSUME TypeOK, NEW k \in Kition, ReadLock(k)
    PROVE  /\ Typed' /\ OthersKeep(k)
           /\ UNCHANGED <<lockFile, since, overlap>>
           /\ thread[k].step = "begin"
           /\ \E step \in NextSteps(k) :
                 /\ ThreadIs(k, IF step = "none" THEN "idle" ELSE step, 0)
                 /\ step # "none" => UNCHANGED <<phase, writer>>
                 /\ step = "none" =>
                       /\ ~writer'[k]
                       /\ phase'[k] = IF phase[k] = "opening" THEN "open" ELSE phase[k]
<1>0. UNCHANGED <<lockFile, asleep, leaving, since, faults, overlap>> /\ thread[k].step = "begin"
  BY DEF ReadLock
<1>a. PICK step \in NextSteps(k) :
         IF step = "none" THEN Ended(k, FALSE)
         ELSE /\ thread' = [thread EXCEPT ![k] = [step |-> step, age |-> 0]]
              /\ UNCHANGED <<phase, writer>>
  BY DEF ReadLock
<1>1. CASE step = "none"
  <2>1. Ended(k, FALSE)
    BY <1>a, <1>1
  <2> QED BY <1>0, <1>1, <2>1, EndedEffect, Types DEF Typed
<1>2. CASE step # "none"
  <2>1. step \in {"create", "renew", "take"}
    BY <1>2 DEF NextSteps
  <2>2. /\ thread' = [thread EXCEPT ![k] = [step |-> step, age |-> 0]]
        /\ UNCHANGED <<phase, writer>>
    BY <1>a, <1>2
  <2>3. step \in Steps /\ 0 \in Ages
    BY <2>1, Bounds DEF Steps
  <2>4. /\ thread' \in [Kition -> Threads]
        /\ \A j \in Kition : j # k => thread'[j] = thread[j]
        /\ ThreadIs(k, step, 0)
    BY <2>2, <2>3, ThreadEffect
  <2> QED BY <1>0, <1>2, <2>1, <2>2, <2>4, Types DEF Typed, OthersKeep
<1> QED BY <1>1, <1>2

\* A record of k, as old as its refresh.
Writes(k) == /\ lockFile' # None
             /\ lockFile'.holder = k
             /\ lockFile'.age = thread[k].age

LEMMA WrittenRecord ==
    ASSUME TypeOK, NEW k \in Kition, lockFile' = [holder |-> k, age |-> thread[k].age]
    PROVE  lockFile' \in Record \cup {None} /\ Writes(k)
<1>1. lockFile' \in Record
  BY Types, Bounds DEF Typed, Threads
<1> QED BY <1>1, Bounds DEF Writes

\* The refresh of k has ended: whether k is the writer, and what became of the lock.
EndsAs(k, b) ==
    /\ ThreadIs(k, "idle", 0)
    /\ writer'[k] = b
    /\ phase'[k] = IF phase[k] = "opening" THEN "open" ELSE phase[k]

LEMMA CreateEffect ==
    ASSUME TypeOK, NEW k \in Kition, CreateLock(k)
    PROVE  /\ Typed' /\ OthersKeep(k)
           /\ UNCHANGED <<since, overlap>>
           /\ thread[k].step = "create"
           /\ \/ lockFile = None /\ Writes(k) /\ EndsAs(k, TRUE)
              \/ UNCHANGED lockFile /\ EndsAs(k, FALSE)
<1>0. UNCHANGED <<asleep, leaving, since, faults, overlap>> /\ thread[k].step = "create"
  BY DEF CreateLock
<1>1. CASE lockFile = None
  <2>1. lockFile' = [holder |-> k, age |-> thread[k].age] /\ Ended(k, TRUE)
    BY <1>1 DEF CreateLock
  <2> QED BY <1>0, <1>1, <2>1, EndedEffect, WrittenRecord, Types DEF Typed, EndsAs
<1>2. CASE lockFile # None
  <2>1. UNCHANGED lockFile /\ Ended(k, FALSE)
    BY <1>2 DEF CreateLock
  <2> QED BY <1>0, <2>1, EndedEffect, Types DEF Typed, EndsAs
<1> QED BY <1>1, <1>2

LEMMA WriteEffect ==
    ASSUME TypeOK, NEW k \in Kition, WriteLock(k)
    PROVE  /\ Typed' /\ OthersKeep(k)
           /\ UNCHANGED <<since, overlap>>
           /\ thread[k].step \in {"renew", "take"}
           /\ Writes(k)
           /\ \/ EndsAs(k, TRUE)
              \/ ThreadIs(k, "check", 0) /\ UNCHANGED <<phase, writer>>
<1>0. /\ UNCHANGED <<asleep, leaving, since, faults, overlap>>
      /\ thread[k].step \in {"renew", "take"}
      /\ lockFile' = [holder |-> k, age |-> thread[k].age]
  BY DEF WriteLock
<1>1. CASE thread[k].step = "renew"
  <2>1. Ended(k, TRUE)
    BY <1>1 DEF WriteLock
  <2> QED BY <1>0, <2>1, EndedEffect, WrittenRecord, Types DEF Typed, EndsAs
<1>2. CASE thread[k].step # "renew"
  <2>1. /\ thread' = [thread EXCEPT ![k] = [step |-> "check", age |-> 0]]
        /\ UNCHANGED <<phase, writer>>
    BY <1>2 DEF WriteLock
  <2>2. /\ thread' \in [Kition -> Threads]
        /\ \A j \in Kition : j # k => thread'[j] = thread[j]
        /\ ThreadIs(k, "check", 0)
    <3>1. "check" \in Steps /\ 0 \in Ages
      BY Bounds DEF Steps
    <3> QED BY <2>1, <3>1, ThreadEffect
  <2> QED BY <1>0, <2>1, <2>2, WrittenRecord, Types DEF Typed, OthersKeep
<1> QED BY <1>1, <1>2

LEMMA EndEffect ==
    ASSUME TypeOK, NEW k \in Kition, CheckLock(k) \/ RefreshFails(k)
    PROVE  /\ Typed' /\ OthersKeep(k)
           /\ UNCHANGED <<lockFile, since, overlap>>
           /\ Refreshing(k)
           /\ \E b \in BOOLEAN :
                 /\ EndsAs(k, b)
                 /\ b => thread[k].step = "check" /\ lockFile # None /\ lockFile.holder = k
<1>1. PICK b \in BOOLEAN :
         /\ Ended(k, b)
         /\ b => thread[k].step = "check" /\ lockFile # None /\ lockFile.holder = k
  BY DEF CheckLock, RefreshFails
<1>2. /\ UNCHANGED <<lockFile, asleep, leaving, since, overlap>>
      /\ Refreshing(k) /\ faults' \in 0 .. MaxFaults
  <2>1. faults \in 0 .. MaxFaults /\ MaxFaults \in Nat
    BY Types, Bounds DEF Typed
  <2>2. CASE CheckLock(k)
    BY <2>1, <2>2 DEF CheckLock, Refreshing
  <2>3. CASE RefreshFails(k)
    BY <2>1, <2>3 DEF RefreshFails, Refreshing
  <2> QED BY <2>2, <2>3
<1> QED BY <1>1, <1>2, EndedEffect, Types DEF Typed, EndsAs

\* What the other steps of a Kition's life do.
LEMMA OpenEffect ==
    ASSUME TypeOK, NEW k \in Kition, Open(k)
    PROVE  /\ Typed' /\ OthersKeep(k)
           /\ UNCHANGED <<lockFile, writer, overlap>>
           /\ phase[k] = "new" /\ phase'[k] = "opening"
           /\ ThreadIs(k, "begin", thread[k].age)
           /\ since'[k] \in 0 .. Heartbeat
<1>1. /\ thread' \in [Kition -> Threads]
      /\ \A j \in Kition : j # k => thread'[j] = thread[j]
      /\ ThreadIs(k, "begin", thread[k].age)
  BY StepEffect DEF Open, Steps
<1>2. since' \in [Kition -> 0 .. Heartbeat] /\ since'[k] \in 0 .. Heartbeat
      /\ \A j \in Kition : j # k => since'[j] = since[j]
  <2>1. since \in [Kition -> 0 .. Heartbeat]
    BY Types DEF Typed
  <2>2. PICK elapsed \in 0 .. Heartbeat : since' = [since EXCEPT ![k] = elapsed]
    BY DEF Open
  <2> QED BY <2>1, <2>2
<1>3. /\ phase' \in [Kition -> Phases] /\ phase'[k] = "opening"
      /\ \A j \in Kition : j # k => phase'[j] = phase[j]
  BY Types DEF Typed, Open, Phases
<1> QED BY <1>1, <1>2, <1>3, Types DEF Typed, Open, OthersKeep

LEMMA LeaveEffect ==
    ASSUME TypeOK, NEW k \in Kition, Release(k) \/ RemoveLock(k) \/ Die(k)
    PROVE  /\ Typed' /\ OthersKeep(k)
           /\ UNCHANGED <<since, overlap>>
           /\ \/ /\ phase'[k] \in {"left", "dead"} /\ ~writer'[k]
                 /\ thread'[k] \in {thread[k], NotRefreshing}
                 /\ lockFile' \in {lockFile, None}
              \/ UNCHANGED <<lockFile, phase, writer, thread>>
<1> DEFINE leaves(p) == /\ phase' = [phase EXCEPT ![k] = p]
                        /\ writer' = [writer EXCEPT ![k] = FALSE]
<1>0. /\ phase \in [Kition -> Phases] /\ writer \in [Kition -> BOOLEAN]
      /\ thread \in [Kition -> Threads] /\ leaving \in [Kition -> BOOLEAN]
  BY Types DEF Typed
<1>a. ASSUME NEW p \in {"left", "dead"}, leaves(p)
      PROVE  /\ phase' \in [Kition -> Phases] /\ writer' \in [Kition -> BOOLEAN]
             /\ phase'[k] \in {"left", "dead"} /\ ~writer'[k]
             /\ \A j \in Kition : j # k => writer'[j] = writer[j] /\ phase'[j] = phase[j]
  BY <1>0, <1>a DEF Phases
<1>1. CASE Release(k)
  <2>1. UNCHANGED <<lockFile, asleep, thread, since, faults, overlap>>
    BY <1>1 DEF Release
  <2>2. CASE leaving' = [leaving EXCEPT ![k] = TRUE] /\ UNCHANGED <<phase, writer>>
    BY <1>0, <2>1, <2>2, Types DEF Typed, OthersKeep
  <2>3. CASE leaves("left") /\ UNCHANGED leaving
    BY <1>a, <2>1, <2>3, Types DEF Typed, OthersKeep
  <2> QED BY <1>1, <2>2, <2>3 DEF Release
<1>2. CASE RemoveLock(k)
  <2>1. /\ lockFile' = None /\ leaves("left")
        /\ leaving' = [leaving EXCEPT ![k] = FALSE]
        /\ UNCHANGED <<asleep, thread, since, faults, overlap>>
    BY <1>2 DEF RemoveLock
  <2>2. leaving' \in [Kition -> BOOLEAN]
    BY <1>0, <2>1
  <2> QED BY <1>a, <2>1, <2>2, Types DEF Typed, OthersKeep
<1>3. CASE Die(k)
  <2>1. /\ leaves("dead")
        /\ leaving' = [leaving EXCEPT ![k] = FALSE]
        /\ thread' = [thread EXCEPT ![k] = NotRefreshing]
        /\ asleep' = asleep \ {k}
        /\ UNCHANGED <<lockFile, since, faults, overlap>>
    BY <1>3 DEF Die
  <2>2. leaving' \in [Kition -> BOOLEAN] /\ asleep' \subseteq Kition
    BY <1>0, <2>1, Types DEF Typed
  <2>3. /\ thread' \in [Kition -> Threads] /\ thread'[k] = NotRefreshing
        /\ \A j \in Kition : j # k => thread'[j] = thread[j]
    BY <1>0, <2>1, Bounds
  <2> QED BY <1>a, <2>1, <2>2, <2>3, Types DEF Typed, OthersKeep
<1> QED BY <1>1, <1>2, <1>3

LEMMA SleepEffect ==
    ASSUME TypeOK, NEW k \in Kition, Sleep(k) \/ Wake(k)
    PROVE  Typed' /\ UNCHANGED <<lockFile, phase, writer, thread, since, overlap>>
<1>1. faults \in 0 .. MaxFaults /\ MaxFaults \in Nat /\ asleep \subseteq Kition
  BY Types, Bounds DEF Typed
<1>2. CASE Sleep(k)
  <2>1. faults' \in 0 .. MaxFaults /\ asleep' \subseteq Kition
    BY <1>1, <1>2 DEF Sleep
  <2> QED BY <1>2, <2>1, Types DEF Typed, Sleep
<1>3. CASE Wake(k)
  <2>1. asleep' \subseteq Kition
    BY <1>1, <1>3 DEF Wake
  <2> QED BY <1>3, <2>1, Types DEF Typed, Wake
<1> QED BY <1>2, <1>3

\* How a tick ages a number that stops at its limit.
LEMMA TickEffect ==
    ASSUME TypeOK, Tick
    PROVE  /\ Typed' /\ UNCHANGED <<phase, writer>>
           /\ lockFile # None => /\ lockFile' # None /\ lockFile'.holder = lockFile.holder
                                 /\ lockFile'.age = Older(lockFile.age)
           /\ lockFile = None => lockFile' = None
           /\ \A k \in Kition :
                 /\ thread'[k].step = thread[k].step
                 /\ thread[k].step = "idle" => thread'[k] = thread[k]
                 /\ since'[k] \in 0 .. Heartbeat
                 /\ phase[k] = "open" /\ k \notin asleep /\ since[k] < Heartbeat
                       => since'[k] = since[k] + 1
<1>0. /\ lockFile \in Record \cup {None} /\ thread \in [Kition -> Threads]
      /\ since \in [Kition -> 0 .. Heartbeat] /\ overlap \in 0 .. (2 * Heartbeat + 1)
  BY Types DEF Typed
<1>1. ASSUME lockFile = None
      PROVE  lockFile' = None
  BY <1>1 DEF Tick
<1>2. ASSUME lockFile # None
      PROVE  /\ lockFile' \in Record /\ lockFile'.holder = lockFile.holder
             /\ lockFile'.age = Older(lockFile.age)
  <2>1. lockFile' = [lockFile EXCEPT !.age = Older(@)]
    BY <1>2 DEF Tick
  <2>2. lockFile \in [holder : Kition, age : Ages]
    BY <1>0, <1>2, Bounds
  <2>3. Older(lockFile.age) \in Ages
    BY <2>2, Bounds
  <2> QED BY <2>1, <2>2, <2>3, Bounds
<1>3. lockFile' \in Record \cup {None}
      /\ (lockFile = None => lockFile' = None) /\ (lockFile # None => lockFile' # None)
  BY <1>1, <1>2, Bounds DEF Tick
<1>4. \A k \in Kition :
         /\ thread'[k].step = thread[k].step
         /\ thread[k].step = "idle" => thread'[k] = thread[k]
         /\ thread'[k] \in Threads
  <2> SUFFICES ASSUME NEW k \in Kition
               PROVE  /\ thread'[k].step = thread[k].step
                      /\ thread[k].step = "idle" => thread'[k] = thread[k]
                      /\ thread'[k] \in Threads
    OBVIOUS
  <2>1. thread[k] \in Threads /\ Older(thread[k].age) \in Ages
    BY <1>0, Bounds DEF Threads
  <2>2. thread'[k] = IF thread[k].step \in {"create", "renew", "take"}
                     THEN [thread[k] EXCEPT !.age = Older(@)] ELSE thread[k]
    BY DEF Tick
  <2> QED BY <2>1, <2>2 DEF Threads
<1>5. thread' \in [Kition -> Threads]
  <2>1. thread' = [k \in Kition |-> thread'[k]]
    BY DEF Tick
  <2> QED BY <1>4, <2>1
<1>6. /\ \A k \in Kition : phase[k] = "open" /\ k \notin asleep /\ since[k] < Heartbeat
                              => since'[k] = since[k] + 1
      /\ since' \in [Kition -> 0 .. Heartbeat]
  <2>1. PICK stopped \in SUBSET asleep :
           since' = [k \in Kition |->
                        IF phase[k] \notin {"opening", "open"} THEN 0
                        ELSE IF k \in stopped \/ since[k] = Heartbeat THEN since[k]
                        ELSE since[k] + 1]
    BY DEF Tick
  <2>2. \A k \in Kition : since[k] \in 0 .. Heartbeat
    BY <1>0
  <2>3. ASSUME NEW k \in Kition
        PROVE  /\ since'[k] \in 0 .. Heartbeat
               /\ phase[k] = "open" /\ k \notin asleep /\ since[k] < Heartbeat
                     => since'[k] = since[k] + 1
    <3>1. since'[k] = IF phase[k] \notin {"opening", "open"} THEN 0
                      ELSE IF k \in stopped \/ since[k] = Heartbeat THEN since[k]
                      ELSE since[k] + 1
      BY <2>1, <2>3
    <3> QED BY <2>2, <2>3, <3>1, Numbers
  <2>4. since' = [k \in Kition |-> since'[k]]
    BY <2>1
  <2> QED BY <2>3, <2>4
<1>7. overlap' \in 0 .. (2 * Heartbeat + 1)
  <2>1. overlap' \in {0, IF overlap > 2 * Heartbeat THEN overlap ELSE overlap + 1}
    BY DEF Tick
  <2> QED BY <1>0, <2>1, Numbers
<1> QED BY <1>2, <1>3, <1>4, <1>5, <1>6, <1>7, Types DEF Typed, Tick

-----------------------------------------------------------------------------
(* The invariant.                                                          *)

LEMMA GoneStays ==
    ASSUME TypeOK, [Next]_vars, Gone
    PROVE  Gone'
<1>1. PICK g \in Kition : phase[g] \in {"left", "dead"}
  BY DEF Gone
<1>2. phase'[g] \in {"left", "dead"}
  <2>1. ASSUME NEW k \in Kition, Beat(k) \/ ReadLock(k) \/ CreateLock(k) \/ WriteLock(k)
                                 \/ CheckLock(k) \/ RefreshFails(k)
        PROVE  phase'[g] \in {"left", "dead"}
    <3>1. CASE Beat(k)
      BY <1>1, <3>1 DEF Beat
    <3>2. CASE ReadLock(k)
      BY <1>1, <3>2, ReadEffect DEF OthersKeep
    <3>3. CASE CreateLock(k)
      BY <1>1, <3>3, CreateEffect DEF OthersKeep, EndsAs
    <3>4. CASE WriteLock(k)
      BY <1>1, <3>4, WriteEffect DEF OthersKeep, EndsAs
    <3>5. CASE CheckLock(k) \/ RefreshFails(k)
      BY <1>1, <3>5, EndEffect DEF OthersKeep, EndsAs
    <3> QED BY <2>1, <3>1, <3>2, <3>3, <3>4, <3>5
  <2>2. ASSUME NEW k \in Kition, Open(k)
        PROVE  phase'[g] \in {"left", "dead"}
    BY <1>1, <2>2, OpenEffect DEF OthersKeep
  <2>3. ASSUME NEW k \in Kition, Release(k) \/ RemoveLock(k) \/ Die(k)
        PROVE  phase'[g] \in {"left", "dead"}
    BY <1>1, <2>3, LeaveEffect DEF OthersKeep
  <2>4. ASSUME NEW k \in Kition, Sleep(k) \/ Wake(k)
        PROVE  phase'[g] \in {"left", "dead"}
    BY <1>1, <2>4, SleepEffect
  <2>5. CASE Tick \/ UNCHANGED vars
    BY <1>1, <2>5, TickEffect DEF vars
  <2> QED BY <2>1, <2>2, <2>3, <2>4, <2>5 DEF Next, Refresh
<1> QED BY <1>2 DEF Gone

\* What is said of a refresh that rests.
RestOK(k) ==
    /\ phase[k] = "new" => ~Refreshing(k)
    /\ ~Refreshing(k) => thread[k].age = 0

LEMMA ByKition == Resting <=> \A k \in Kition : RestOK(k)
  BY DEF Resting, RestOK

LEMMA ByKitionNext == (Resting <=> \A k \in Kition : RestOK(k))'
  BY ByKition, PTL

\* The parts of two that are writers.
LEMMA Overlaps ==
    ASSUME Overlapping, overlap > 0, ~Gone
    PROVE  lockFile # None /\ \A k \in Kition : OneKnows(k)
  BY DEF Overlapping

\* An age, and the ticks since a beat.
LEMMA Numbered ==
    ASSUME TypeOK, NEW k \in Kition
    PROVE  /\ thread[k].age \in Nat /\ since[k] \in Nat /\ since[k] <= Heartbeat
           /\ lockFile # None => lockFile.age \in Nat /\ lockFile.holder \in Kition
           /\ overlap \in Nat
<1>1. /\ thread \in [Kition -> Threads] /\ since \in [Kition -> 0 .. Heartbeat]
      /\ lockFile \in Record \cup {None} /\ overlap \in 0 .. (2 * Heartbeat + 1)
  BY Types DEF Typed
<1> QED BY <1>1, Numbers DEF Threads, Ages, Record, Oldest

\* A record that is fresh and names a Kition that runs does not look stale.
LEMMA NotStale ==
    ASSUME TypeOK, NEW k \in Kition, lockFile # None, Fresh, phase[lockFile.holder] = "open"
    PROVE  ~MayLookStale(lockFile, k)
<1>1. lockFile.age \in Nat /\ lockFile.age <= Heartbeat
  BY Numbered DEF Fresh
<1>2. ~HolderGone(lockFile, k)
  BY DEF HolderGone, Running
<1>3. Apart(lockFile.holder, k) \in {0, Skew}
  BY DEF Apart
<1>4. ~(lockFile.age + Apart(lockFile.holder, k) > StaleAfter)
  BY <1>1, <1>3, Numbers
<1> QED BY <1>2, <1>4 DEF MayLookStale

LEMMA SameFrame ==
    ASSUME IInv, UNCHANGED <<lockFile, phase, writer, thread, since, overlap>>
    PROVE  IInv'
<1>1. (Fresh => Fresh') /\ (Fresh' => Fresh) /\ (Early <=> Early') /\ (Gone <=> Gone')
  BY DEF Fresh, Early, Gone, Refreshing
<1>2. Resting' /\ LockThere'
  BY <1>1 DEF IInv, Resting, LockThere, Refreshing
<1>3. ASSUME NEW k \in Kition, OneKnows(k) PROVE OneKnows(k)'
  BY <1>1, <1>3 DEF OneKnows, AtWork, FindsOut, NotLooked, JustWritten, Refreshing
<1>4. Overlapping'
  BY <1>1, <1>3 DEF IInv, Overlapping
<1> QED BY <1>2, <1>4 DEF IInv

\* How a step of k's refresh, or of its life, keeps the invariant: what is left to show.
LEMMA StepOf ==
    ASSUME TypeOK, IInv, [Next]_vars, NEW k \in Kition, OthersKeep(k), UNCHANGED overlap,
           lockFile' # None \/ lockFile = None \/ Gone',
           writer'[k] => writer[k] \/ lockFile' # None \/ Gone',
           RestOK(k)',
           overlap > 0 /\ ~Gone' => lockFile' # None /\ \A j \in Kition : OneKnows(j)'
    PROVE  IInv'
<1>1. Resting'
  <2>1. \A j \in Kition : j # k => RestOK(j)'
    BY ByKition DEF IInv, OthersKeep, RestOK, Refreshing
  <2>2. \A j \in Kition : RestOK(j)'
    BY <2>1
  <2> QED BY <2>2, ByKitionNext
<1>2. LockThere'
  <2> SUFFICES ASSUME NEW j \in Kition, writer'[j], ~Gone'
               PROVE  lockFile' # None
    BY DEF LockThere
  <2>1. ~Gone
    BY GoneStays
  <2>2. writer[j] \/ lockFile' # None
    BY DEF OthersKeep
  <2> QED BY <2>1, <2>2 DEF IInv, LockThere
<1>3. Overlapping'
  BY DEF Overlapping
<1> QED BY <1>1, <1>2, <1>3 DEF IInv

\* What is known of the others stays known while k leaves the record alone, ...
LEMMA OthersKnow ==
    ASSUME NEW k \in Kition, OthersKeep(k), UNCHANGED <<lockFile, overlap>>,
           Fresh => Fresh', NEW j \in Kition, j # k, OneKnows(j)
    PROVE  OneKnows(j)'
<1>1. /\ thread'[j] = thread[j] /\ since'[j] = since[j] /\ writer'[j] = writer[j]
      /\ phase'[j] = phase[j] /\ lockFile' = lockFile /\ overlap' = overlap
  BY DEF OthersKeep
<1>2. AtWork(j)'
  BY <1>1 DEF OneKnows, AtWork, Refreshing
<1>3. FindsOut(j)'
  BY <1>1 DEF OneKnows, FindsOut, Refreshing, Early
<1>4. NotLooked(j)'
  BY <1>1 DEF OneKnows, NotLooked, Refreshing, Early
<1>5. JustWritten(j)'
  BY <1>1 DEF OneKnows, JustWritten
<1> QED BY <1>2, <1>3, <1>4, <1>5 DEF OneKnows

\* ... which stays fresh unless k ends as a writer whose record is older than its beat.
LEMMA StaysFresh ==
    ASSUME NEW k \in Kition, OthersKeep(k), lockFile' = lockFile, lockFile.holder \in Kition,
           lockFile.holder = k => Refreshing(k)' \/ ~writer'[k] \/ lockFile.age <= since'[k]
    PROVE  Fresh => Fresh'
<1> SUFFICES ASSUME Fresh PROVE Fresh'
  OBVIOUS
<1> DEFINE h == lockFile.holder
<1>1. lockFile.age <= Heartbeat /\ (~Refreshing(h) /\ writer[h] => lockFile.age <= since[h])
  BY DEF Fresh
<1>2. ~Refreshing(h)' /\ writer'[h] => lockFile.age <= since'[h]
  <2>1. CASE h = k
    BY <2>1
  <2>2. CASE h # k
    BY <1>1, <2>2 DEF OthersKeep, Refreshing
  <2> QED BY <2>1, <2>2
<1>3. lockFile'.holder = h /\ lockFile'.age = lockFile.age
  OBVIOUS
<1> QED BY <1>1, <1>2, <1>3 DEF Fresh, Refreshing

\* What is left to show of a step of k that leaves the record alone.
LEMMA QuietStep ==
    ASSUME TypeOK, IInv, [Next]_vars, NEW k \in Kition, OthersKeep(k),
           UNCHANGED <<lockFile, overlap>>,
           writer'[k] => writer[k] \/ lockFile # None,
           RestOK(k)',
           overlap > 0 /\ ~Gone =>
              /\ lockFile.holder = k => Refreshing(k)' \/ ~writer'[k] \/ lockFile.age <= since'[k]
              /\ (Fresh => Fresh') => OneKnows(k)'
    PROVE  IInv'
<1>1. ASSUME overlap > 0, ~Gone'
      PROVE  lockFile' # None /\ \A j \in Kition : OneKnows(j)'
  <2>1. ~Gone /\ lockFile # None /\ \A j \in Kition : OneKnows(j)
    BY <1>1, GoneStays, Overlaps DEF IInv
  <2>2. lockFile.holder \in Kition
    BY <2>1, Numbered
  <2>3. Fresh => Fresh'
    BY <1>1, <2>1, <2>2, StaysFresh
  <2>4. ASSUME NEW j \in Kition, j # k PROVE OneKnows(j)'
    BY <2>1, <2>3, <2>4, OthersKnow
  <2>5. OneKnows(k)'
    BY <1>1, <2>1, <2>3
  <2> QED BY <2>1, <2>4, <2>5
<1> QED BY <1>1, StepOf

LEMMA BeatStep ==
    ASSUME TypeOK, IInv, NEW k \in Kition, Beat(k), [Next]_vars
    PROVE  IInv'
<1>a. /\ OthersKeep(k) /\ UNCHANGED <<lockFile, phase, writer, overlap>>
      /\ thread[k].step = "idle" /\ since[k] = Heartbeat /\ phase[k] = "open"
      /\ thread'[k].step = "begin" /\ thread'[k].age = thread[k].age /\ since'[k] = 0
  BY BeatEffect DEF Beat, ThreadIs
<1>1. RestOK(k)'
  BY <1>a DEF RestOK, Refreshing
<1>2. ASSUME overlap > 0, ~Gone, Fresh => Fresh'
      PROVE  OneKnows(k)'
  <2>1. OneKnows(k) /\ writer[k]
    <3>1. OneKnows(k)
      BY <1>2, Overlaps DEF IInv
    <3> QED BY <1>a, <3>1, Numbers DEF OneKnows, AtWork
  <2>2. AtWork(k)'
    BY <1>a, <2>1 DEF OneKnows, AtWork
  <2>3. FindsOut(k)' /\ JustWritten(k)'
    BY <1>a DEF FindsOut, JustWritten, Refreshing
  <2>4. NotLooked(k)'
    BY <1>a, <1>2, <2>1 DEF OneKnows, NotLooked, Refreshing, Early
  <2> QED BY <2>2, <2>3, <2>4 DEF OneKnows
<1>3. Refreshing(k)'
  BY <1>a DEF Refreshing
<1> QED BY <1>a, <1>1, <1>2, <1>3, QuietStep

\* A Kition that rests and is no writer knows all it has to.
LEMMA NoWriterKnows ==
    ASSUME NEW k \in Kition, phase'[k] = "open", thread'[k].step = "idle", thread'[k].age = 0,
           ~writer'[k], since'[k] = 0
    PROVE  OneKnows(k)'
  BY DEF OneKnows, AtWork, FindsOut, NotLooked, JustWritten, Refreshing

LEMMA ReadStep ==
    ASSUME TypeOK, IInv, NEW k \in Kition, ReadLock(k), [Next]_vars
    PROVE  IInv'
<1>a. /\ OthersKeep(k) /\ UNCHANGED <<lockFile, since, overlap>>
      /\ thread[k].step = "begin"
  BY ReadEffect
<1>b. PICK step \in NextSteps(k) :
         /\ ThreadIs(k, IF step = "none" THEN "idle" ELSE step, 0)
         /\ step # "none" => UNCHANGED <<phase, writer>>
         /\ step = "none" =>
               /\ ~writer'[k]
               /\ phase'[k] = IF phase[k] = "opening" THEN "open" ELSE phase[k]
  BY ReadEffect
<1>c. step \in {"create", "renew", "take", "none"}
  BY DEF NextSteps
<1>d. RestOK(k) /\ Refreshing(k) /\ (writer'[k] => writer[k])
  BY <1>a, <1>b, ByKition DEF IInv, Refreshing
<1>1. RestOK(k)'
  BY <1>a, <1>b, <1>c, <1>d DEF RestOK, Refreshing, ThreadIs
<1>2. ASSUME overlap > 0, ~Gone
      PROVE  /\ lockFile.holder = k => Refreshing(k)' \/ ~writer'[k] \/ lockFile.age <= since'[k]
             /\ (Fresh => Fresh') => OneKnows(k)'
  <2>1. lockFile # None /\ OneKnows(k) /\ \A j \in Kition : OneKnows(j)
    BY <1>2, Overlaps DEF IInv
  <2>2. phase[k] = "open" /\ since'[k] = 0 /\ writer[k]
    BY <1>a, <1>d, <2>1 DEF OneKnows, AtWork
  <2>3. CASE step = "none"
    <3>1. ~writer'[k] /\ thread'[k].step = "idle" /\ thread'[k].age = 0 /\ phase'[k] = "open"
      BY <1>b, <2>2, <2>3 DEF ThreadIs
    <3> QED BY <2>2, <3>1, NoWriterKnows
  <2>4. CASE step # "none"
    <3>1. /\ thread'[k].step = step /\ thread'[k].age = 0 /\ Refreshing(k)'
          /\ phase'[k] = "open" /\ writer'[k]
      BY <1>b, <1>c, <2>2, <2>4 DEF ThreadIs, Refreshing
    <3>2. AtWork(k)'
      BY <2>2, <3>1 DEF AtWork
    <3>3. ASSUME lockFile.holder # k PROVE ~Fresh
      <4>1. step = "take" /\ MayLookStale(lockFile, k)
        BY <2>1, <2>4, <3>3 DEF NextSteps
      <4>2. phase[lockFile.holder] = "open"
        BY <2>1, Numbered DEF OneKnows, AtWork
      <4> QED BY <2>1, <4>1, <4>2, NotStale
    <3>4. ~Fresh => Early
      BY <1>d, <2>1 DEF OneKnows, NotLooked
    <3>5. ASSUME Fresh => Fresh' PROVE FindsOut(k)' /\ NotLooked(k)'
      BY <1>a, <3>1, <3>3, <3>4, <3>5 DEF FindsOut, NotLooked, Early
    <3>6. JustWritten(k)'
      BY <1>c, <3>1 DEF JustWritten
    <3> QED BY <3>1, <3>2, <3>5, <3>6 DEF OneKnows
  <2> QED BY <2>3, <2>4
<1> QED BY <1>a, <1>d, <1>1, <1>2, QuietStep

\* What is left to show of a refresh that writes the record.
LEMMA WritingStep ==
    ASSUME TypeOK, IInv, [Next]_vars, NEW k \in Kition, OthersKeep(k),
           UNCHANGED <<since, overlap>>, Writes(k),
           thread[k].step \in {"renew", "take"},
           RestOK(k)',
           \/ EndsAs(k, TRUE)
           \/ ThreadIs(k, "check", 0) /\ UNCHANGED <<phase, writer>>
    PROVE  IInv'
<1>a. lockFile' # None /\ lockFile'.holder = k /\ lockFile'.age = thread[k].age
  BY DEF Writes
<1>1. ASSUME overlap > 0, ~Gone'
      PROVE  \A j \in Kition : OneKnows(j)'
  <2>1. \A j \in Kition : OneKnows(j)
    BY <1>1, GoneStays, Overlaps DEF IInv
  <2>2. /\ phase[k] = "open" /\ thread[k].age = 0 /\ since[k] = 0 /\ writer[k]
        /\ lockFile.holder # k => Early
    BY <2>1 DEF OneKnows, AtWork, FindsOut, Refreshing
  <2>3. phase'[k] = "open" /\ thread'[k].age = 0 /\ since'[k] = 0 /\ writer'[k]
    BY <2>2 DEF EndsAs, ThreadIs
  <2>4. Fresh'
    <3>1. lockFile'.age = 0 /\ lockFile'.holder = k
      BY <1>a, <2>2
    <3> QED BY <2>3, <3>1, Numbers DEF Fresh
  <2>5. OneKnows(k)'
    BY <1>a, <2>2, <2>3, <2>4 DEF OneKnows, AtWork, FindsOut, NotLooked, JustWritten
  <2>6. ASSUME NEW j \in Kition, j # k
        PROVE  OneKnows(j)'
    <3>1. /\ thread'[j] = thread[j] /\ since'[j] = since[j] /\ writer'[j] = writer[j]
          /\ phase'[j] = phase[j] /\ overlap' = overlap
      BY <2>6 DEF OthersKeep
    <3>2. AtWork(j)'
      BY <2>1, <3>1 DEF OneKnows, AtWork, Refreshing
    <3>3. /\ thread[j].step \notin {"idle", "begin"} => Early
          /\ writer[j] /\ ~Refreshing(j) => overlap <= Heartbeat + since[j]
      <4>1. CASE lockFile.holder = k
        BY <2>1, <2>6, <4>1 DEF OneKnows, FindsOut
      <4>2. CASE lockFile.holder # k
        <5>1. Early /\ since[j] \in Nat /\ overlap \in Nat
          BY <2>2, <4>2, Numbered
        <5> QED BY <5>1, Numbers DEF Early
      <4> QED BY <4>1, <4>2
    <3>4. FindsOut(j)'
      BY <3>1, <3>3 DEF FindsOut, Refreshing, Early
    <3>5. NotLooked(j)' /\ JustWritten(j)'
      BY <1>a, <2>4, <2>6 DEF NotLooked, JustWritten
    <3> QED BY <3>2, <3>4, <3>5 DEF OneKnows
  <2> QED BY <2>5, <2>6
<1> QED BY <1>a, <1>1, StepOf

LEMMA CreateStep ==
    ASSUME TypeOK, IInv, NEW k \in Kition, CreateLock(k), [Next]_vars
    PROVE  IInv'
<1>a. /\ OthersKeep(k) /\ UNCHANGED <<since, overlap>>
      /\ thread[k].step = "create"
      /\ \/ lockFile = None /\ Writes(k) /\ EndsAs(k, TRUE)
         \/ UNCHANGED lockFile /\ EndsAs(k, FALSE)
  BY CreateEffect
<1>b. RestOK(k) /\ Refreshing(k)
  BY <1>a, ByKition DEF IInv, Refreshing
<1>c. thread'[k].step = "idle" /\ thread'[k].age = 0 /\ (phase'[k] = "new" => phase[k] = "new")
  BY <1>a DEF EndsAs, ThreadIs
<1>1. RestOK(k)'
  BY <1>b, <1>c DEF RestOK, Refreshing
<1>2. CASE lockFile = None /\ Writes(k) /\ EndsAs(k, TRUE)
  <2>1. lockFile' # None
    BY <1>2 DEF Writes
  <2>2. ~(overlap > 0 /\ ~Gone')
    BY <1>2, GoneStays, Overlaps DEF IInv
  <2> QED BY <1>a, <1>1, <2>1, <2>2, StepOf
<1>3. CASE UNCHANGED lockFile /\ EndsAs(k, FALSE)
  <2>1. ~writer'[k]
    BY <1>3 DEF EndsAs
  <2>2. ASSUME overlap > 0, ~Gone PROVE OneKnows(k)'
    <3>1. OneKnows(k)
      BY <2>2, Overlaps DEF IInv
    <3>2. since'[k] = 0 /\ phase'[k] = "open"
      BY <1>a, <1>b, <1>3, <3>1 DEF OneKnows, AtWork, EndsAs
    <3> QED BY <1>c, <2>1, <3>2, NoWriterKnows
  <2> QED BY <1>a, <1>1, <1>3, <2>1, <2>2, QuietStep
<1> QED BY <1>a, <1>2, <1>3

LEMMA WriteStep ==
    ASSUME TypeOK, IInv, NEW k \in Kition, WriteLock(k), [Next]_vars
    PROVE  IInv'
<1>a. /\ OthersKeep(k) /\ UNCHANGED <<since, overlap>>
      /\ thread[k].step \in {"renew", "take"}
      /\ Writes(k)
      /\ \/ EndsAs(k, TRUE)
         \/ ThreadIs(k, "check", 0) /\ UNCHANGED <<phase, writer>>
  BY WriteEffect
<1>b. RestOK(k) /\ Refreshing(k)
  BY <1>a, ByKition DEF IInv, Refreshing
<1>1. RestOK(k)'
  BY <1>a, <1>b DEF RestOK, Refreshing, EndsAs, ThreadIs
<1> QED BY <1>a, <1>1, WritingStep

LEMMA EndStep ==
    ASSUME TypeOK, IInv, NEW k \in Kition, CheckLock(k) \/ RefreshFails(k), [Next]_vars
    PROVE  IInv'
<1>a. /\ OthersKeep(k) /\ UNCHANGED <<lockFile, since, overlap>> /\ Refreshing(k)
  BY EndEffect
<1>b. PICK b \in BOOLEAN :
         /\ EndsAs(k, b)
         /\ b => thread[k].step = "check" /\ lockFile # None /\ lockFile.holder = k
  BY EndEffect
<1>c. RestOK(k)
  BY ByKition DEF IInv
<1>d. thread'[k].step = "idle" /\ thread'[k].age = 0 /\ writer'[k] = b
      /\ (phase'[k] = "new" => phase[k] = "new") /\ (phase[k] = "open" => phase'[k] = "open")
  BY <1>b DEF EndsAs, ThreadIs
<1>1. RestOK(k)'
  BY <1>a, <1>c, <1>d DEF RestOK, Refreshing
<1>2. ASSUME overlap > 0, ~Gone
      PROVE  /\ lockFile.holder = k => Refreshing(k)' \/ ~writer'[k] \/ lockFile.age <= since'[k]
             /\ (Fresh => Fresh') => OneKnows(k)'
  <2>1. OneKnows(k)
    BY <1>2, Overlaps DEF IInv
  <2>2. since'[k] = 0 /\ phase'[k] = "open"
    BY <1>a, <1>d, <2>1 DEF OneKnows, AtWork
  <2>3. CASE ~b
    BY <1>d, <2>2, <2>3, NoWriterKnows
  <2>4. CASE b
    <3>1. lockFile.holder = k /\ lockFile.age = 0 /\ writer'[k]
      BY <1>b, <1>d, <2>1, <2>4 DEF OneKnows, JustWritten
    <3>2. lockFile'.holder = k /\ lockFile'.age = 0 /\ lockFile.age <= since'[k]
      BY <1>a, <2>2, <3>1
    <3>3. Fresh'
      BY <2>2, <3>2, Numbers DEF Fresh
    <3>4. OneKnows(k)'
      BY <1>d, <2>2, <3>1, <3>2, <3>3
         DEF OneKnows, AtWork, FindsOut, NotLooked, JustWritten, Refreshing
    <3> QED BY <3>2, <3>4
  <2> QED BY <2>3, <2>4
<1>3. writer'[k] => lockFile # None
  BY <1>b, <1>d
<1> QED BY <1>a, <1>1, <1>2, <1>3, QuietStep

LEMMA OpenStep ==
    ASSUME TypeOK, IInv, NEW k \in Kition, Open(k), [Next]_vars
    PROVE  IInv'
<1>a. /\ OthersKeep(k) /\ UNCHANGED <<lockFile, writer, overlap>>
      /\ phase[k] = "new" /\ phase'[k] = "opening"
      /\ thread'[k].step = "begin"
  BY OpenEffect DEF ThreadIs
<1>1. RestOK(k)'
  BY <1>a DEF RestOK, Refreshing
<1>2. ~(overlap > 0 /\ ~Gone')
  <2> SUFFICES ASSUME overlap > 0, ~Gone' PROVE FALSE
    OBVIOUS
  <2>1. OneKnows(k)
    BY GoneStays, Overlaps DEF IInv
  <2> QED BY <1>a, <2>1 DEF OneKnows, AtWork
<1> QED BY <1>a, <1>1, <1>2, StepOf

LEMMA LeaveStep ==
    ASSUME TypeOK, IInv, NEW k \in Kition, Release(k) \/ RemoveLock(k) \/ Die(k), [Next]_vars
    PROVE  IInv'
<1>a. /\ OthersKeep(k) /\ UNCHANGED <<since, overlap>>
      /\ \/ /\ phase'[k] \in {"left", "dead"} /\ ~writer'[k]
            /\ thread'[k] \in {thread[k], NotRefreshing}
            /\ lockFile' \in {lockFile, None}
         \/ UNCHANGED <<lockFile, phase, writer, thread>>
  BY LeaveEffect
<1>b. RestOK(k)
  BY ByKition DEF IInv
<1>1. CASE /\ phase'[k] \in {"left", "dead"} /\ ~writer'[k]
           /\ thread'[k] \in {thread[k], NotRefreshing}
           /\ lockFile' \in {lockFile, None}
  <2>1. Gone'
    BY <1>1 DEF Gone
  <2>2. RestOK(k)'
    <3>1. NotRefreshing.step = "idle" /\ NotRefreshing.age = 0
      BY DEF NotRefreshing
    <3> QED BY <1>b, <1>1, <3>1 DEF RestOK, Refreshing
  <2> QED BY <1>a, <1>1, <2>1, <2>2, StepOf
<1>2. CASE UNCHANGED <<lockFile, phase, writer, thread>>
  BY <1>a, <1>2, SameFrame
<1> QED BY <1>a, <1>1, <1>2

LEMMA AgesOn ==
    ASSUME NEW a \in Nat
    PROVE  Older(a) \in Nat /\ Older(a) <= a + 1
  BY Numbers DEF Older, Oldest

\* Of two Kitions, both are the writer when two of them are.
LEMMA BothWrite ==
    ASSUME AtMostTwo, TwoWrite
    PROVE  \A k \in Kition : k \in AwakeWriters
<1>1. PICK i, j \in AwakeWriters : i # j
  BY DEF TwoWrite
<1>2. AwakeWriters \subseteq Kition
  BY DEF AwakeWriters, Writers
<1> QED BY <1>1, <1>2 DEF AtMostTwo

\* Time passes while both are the writer: each beats within a heartbeat, and what is
\* known of each before the tick is known after it.
LEMMA TickOverlaps ==
    ASSUME TypeOK, IInv, AtMostTwo, Tick, ~Gone, TwoWrite
    PROVE  /\ lockFile' # None
           /\ \A k \in Kition : OneKnows(k)'
           /\ overlap' <= 2 * Heartbeat
<1>a. \A k \in Kition : k \in AwakeWriters
  BY BothWrite
<1>b. ASSUME NEW k \in Kition
      PROVE  /\ phase[k] = "open" /\ writer[k] /\ ~Refreshing(k) /\ thread[k].age = 0
             /\ phase'[k] = "open" /\ writer'[k] /\ thread'[k] = thread[k] /\ ~Refreshing(k)'
             /\ since[k] \in Nat /\ since[k] < Heartbeat /\ since'[k] = since[k] + 1
  <2>1. k \in AwakeWriters
    BY <1>a
  <2>2. phase[k] = "open" /\ writer[k] /\ Awake(k)
    BY <2>1 DEF AwakeWriters, Writers
  <2>3. thread[k].step = "idle" /\ since[k] < Heartbeat /\ k \notin asleep
    BY <2>2 DEF Tick, Awake
  <2>4. thread[k].age = 0
    BY <2>3, ByKition DEF IInv, RestOK, Refreshing
  <2>5. since[k] \in Nat
    BY Numbered
  <2> QED BY <2>2, <2>3, <2>4, <2>5, TickEffect DEF Refreshing
<1>c. \E k \in Kition : k \in AwakeWriters
  BY DEF TwoWrite, AwakeWriters, Writers
<1>d. lockFile # None
  BY <1>b, <1>c DEF IInv, LockThere
<1>e. lockFile.age \in Nat /\ lockFile.holder \in Kition /\ overlap \in Nat
  BY <1>c, <1>d, Numbered
<1>f. /\ lockFile' # None /\ lockFile'.holder = lockFile.holder
      /\ lockFile'.age \in Nat /\ lockFile'.age <= lockFile.age + 1
  BY <1>d, <1>e, TickEffect, AgesOn
<1>g. overlap' = IF overlap > 2 * Heartbeat THEN overlap ELSE overlap + 1
  BY DEF Tick
<1>h. ASSUME overlap > 0, NEW k \in Kition
      PROVE  /\ lockFile.holder # k => overlap <= Heartbeat + since[k]
             /\ ~Fresh => overlap <= since[k]
  <2>1. OneKnows(k)
    BY <1>h, Overlaps DEF IInv
  <2> QED BY <1>b, <2>1 DEF OneKnows, FindsOut, NotLooked
<1>1. \E k \in Kition : lockFile.holder # k
  BY DEF TwoWrite, AwakeWriters, Writers
<1>2. overlap < 2 * Heartbeat
  <2>1. PICK k \in Kition : lockFile.holder # k
    BY <1>1
  <2>2. since[k] \in Nat /\ since[k] < Heartbeat
    BY <1>b
  <2> QED BY <1>e, <1>h, <2>1, <2>2, Numbers
<1>3. overlap' = overlap + 1
  BY <1>e, <1>g, <1>2, Numbers
<1>4. Fresh => Fresh'
  <2> SUFFICES ASSUME Fresh PROVE Fresh'
    OBVIOUS
  <2> DEFINE h == lockFile.holder
  <2>1. /\ h \in Kition /\ since[h] \in Nat /\ since[h] < Heartbeat /\ since'[h] = since[h] + 1
        /\ writer[h] /\ ~Refreshing(h)
    BY <1>b, <1>e
  <2>2. lockFile.age <= since[h]
    BY <2>1 DEF Fresh
  <2>3. lockFile'.age <= since'[h] /\ lockFile'.age <= Heartbeat /\ lockFile'.holder = h
    BY <1>e, <1>f, <2>1, <2>2, Numbers
  <2> QED BY <2>3 DEF Fresh
<1>5. ASSUME NEW k \in Kition
      PROVE  OneKnows(k)'
  <2>1. /\ phase'[k] = "open" /\ writer'[k] /\ thread'[k].age = 0 /\ ~Refreshing(k)'
        /\ since[k] \in Nat /\ since'[k] = since[k] + 1
    BY <1>b
  <2>2. AtWork(k)'
    BY <2>1 DEF AtWork
  <2>3. lockFile'.holder # k => overlap' <= Heartbeat + since'[k]
    BY <1>e, <1>f, <1>h, <1>3, <2>1, Numbers
  <2>4. ~Fresh' => overlap' <= since'[k]
    BY <1>e, <1>h, <1>3, <1>4, <2>1
  <2>5. FindsOut(k)' /\ NotLooked(k)' /\ JustWritten(k)'
    BY <2>1, <2>3, <2>4 DEF FindsOut, NotLooked, JustWritten, Refreshing
  <2> QED BY <2>2, <2>5 DEF OneKnows
<1>6. overlap' <= 2 * Heartbeat
  BY <1>e, <1>2, <1>3, Numbers
<1> QED BY <1>f, <1>5, <1>6

LEMMA TickStep ==
    ASSUME TypeOK, IInv, AtMostTwo, Tick, [Next]_vars, OverlapShort
    PROVE  IInv' /\ OverlapShort'
<1>1. Resting'
  BY TickEffect DEF IInv, Resting, Refreshing
<1>2. LockThere'
  <2> SUFFICES ASSUME NEW k \in Kition, writer'[k], ~Gone'
               PROVE  lockFile' # None
    BY DEF LockThere
  <2>1. writer[k] /\ ~Gone
    BY TickEffect, GoneStays
  <2> QED BY <2>1, TickEffect DEF IInv, LockThere
<1>3. Overlapping'
  <2> SUFFICES ASSUME overlap' > 0, ~Gone'
               PROVE  lockFile' # None /\ \A k \in Kition : OneKnows(k)'
    BY DEF Overlapping
  <2>1. TwoWrite
    BY Numbers DEF Tick
  <2> QED BY <2>1, GoneStays, TickOverlaps
<1>4. OverlapShort'
  <2>1. CASE ~TwoWrite
    <3>1. overlap' = 0
      BY <2>1 DEF Tick
    <3> QED BY <3>1, Numbers DEF OverlapShort
  <2>2. CASE TwoWrite
    <3>1. ~Gone
      <4> SUFFICES ASSUME NEW g \in Kition, phase[g] \in {"left", "dead"} PROVE FALSE
        BY DEF Gone
      <4>1. g \in AwakeWriters
        BY <2>2, BothWrite
      <4> QED BY <4>1 DEF AwakeWriters, Writers
    <3> QED BY <2>2, <3>1, TickOverlaps DEF OverlapShort
  <2> QED BY <2>1, <2>2
<1> QED BY <1>1, <1>2, <1>3, <1>4 DEF IInv

LEMMA InitStep ==
    ASSUME Init
    PROVE  TypeOK /\ IInv /\ OverlapShort
<1>1. TypeOK
  <2>1. 0 \in 0 .. Heartbeat /\ 0 \in 0 .. MaxFaults /\ 0 \in 0 .. (2 * Heartbeat + 1)
    BY Numbers
  <2>2. Typed
    BY <2>1, Bounds DEF Init, Typed, Phases
  <2> QED BY <2>2, TypedAll DEF Init
<1>2. \A k \in Kition : thread[k].step = "idle" /\ thread[k].age = 0 /\ ~writer[k]
  BY Bounds DEF Init
<1>3. lockFile = None /\ overlap = 0
  BY DEF Init
<1>4. Resting
  BY <1>2 DEF Resting, Refreshing
<1>5. LockThere /\ Overlapping
  BY <1>2, <1>3 DEF LockThere, Overlapping
<1>6. OverlapShort
  BY <1>3, Numbers DEF OverlapShort
<1> QED BY <1>1, <1>4, <1>5, <1>6 DEF IInv

\* Every step but the tick leaves the overlap as it is.
LEMMA TypeStep ==
    ASSUME TypeOK, [Next]_vars
    PROVE  TypeOK' /\ (Tick \/ UNCHANGED overlap)
<1>1. CASE UNCHANGED vars
  BY <1>1, Types, TypedAll, TypedAllNext DEF vars, Typed
<1>2. ASSUME NEW k \in Kition, Refresh(k) \/ RefreshFails(k)
      PROVE  Typed' /\ UNCHANGED overlap
  BY <1>2, BeatEffect, ReadEffect, CreateEffect, WriteEffect, EndEffect DEF Refresh
<1>3. ASSUME NEW k \in Kition,
             Open(k) \/ Release(k) \/ RemoveLock(k) \/ Die(k) \/ Sleep(k) \/ Wake(k)
      PROVE  Typed' /\ UNCHANGED overlap
  BY <1>3, OpenEffect, LeaveEffect, SleepEffect
<1>4. ASSUME Tick
      PROVE  Typed'
  BY <1>4, TickEffect
<1>5. CASE Next
  <2>1. Typed' /\ (Tick \/ UNCHANGED overlap)
    BY <1>2, <1>3, <1>4, <1>5 DEF Next
  <2>2. UNCHANGED host
    BY <1>5 DEF Next
  <2> QED BY <2>1, <2>2, TypedAll, TypedAllNext
<1> QED BY <1>1, <1>5

LEMMA InvStep ==
    ASSUME TypeOK, IInv, OverlapShort, AtMostTwo, [Next]_vars
    PROVE  IInv' /\ OverlapShort'
<1>1. CASE Tick
  BY <1>1, TickStep
<1>2. CASE UNCHANGED vars
  BY <1>2, SameFrame DEF vars, OverlapShort
<1>3. ASSUME NEW k \in Kition, Refresh(k) \/ RefreshFails(k)
      PROVE  IInv'
  BY <1>3, BeatStep, ReadStep, CreateStep, WriteStep, EndStep DEF Refresh
<1>4. ASSUME NEW k \in Kition, Open(k) \/ Release(k) \/ RemoveLock(k) \/ Die(k)
      PROVE  IInv'
  BY <1>4, OpenStep, LeaveStep
<1>5. ASSUME NEW k \in Kition, Sleep(k) \/ Wake(k)
      PROVE  IInv'
  BY <1>5, SleepEffect, SameFrame
<1>6. ~Tick => OverlapShort'
  <2>1. ~Tick => UNCHANGED overlap
    BY TypeStep
  <2> QED BY <2>1 DEF OverlapShort
<1> QED BY <1>1, <1>2, <1>3, <1>4, <1>5, <1>6 DEF Next

\* Every variable keeps its type, whatever the Kitions do.
THEOREM TypeCorrect == Spec => []TypeOK
<1>1. Init => TypeOK
  BY InitStep
<1>2. TypeOK /\ [Next]_vars => TypeOK'
  BY TypeStep
<1> QED BY <1>1, <1>2, PTL DEF Spec

\* Two Kitions of one directory that both believe they are the writer find out within
\* two heartbeats (lock.rs:15-16, 220-221), on one device or two whose clocks are at
\* most Skew apart, whatever the heartbeat, the time after which a lock is stale, and
\* the number of sleeps and of failed refreshes, and wherever a refresh sleeps.
THEOREM OverlapIsShort == ASSUME AtMostTwo PROVE Spec => []OverlapShort
<1>1. Init => TypeOK /\ IInv /\ OverlapShort
  BY InitStep
<1>2. TypeOK /\ IInv /\ OverlapShort /\ [Next]_vars => TypeOK' /\ IInv' /\ OverlapShort'
  BY InvStep, TypeStep
<1> QED BY <1>1, <1>2, PTL DEF Spec
=============================================================================
