-------------------------- MODULE WorkflowDispatch --------------------------
(***************************************************************************)
(* The workflows that time starts (dispatch.rs, with Dedup of store.rs): a *)
(* loop that looks every minute first for records whose date is today, in  *)
(* UTC, then for the schedule, in local time. What was fired is kept as    *)
(* keys in one file, and both look for the first time on a day remove the  *)
(* keys of the days before.                                                *)
(*                                                                         *)
(* One workflow of each kind. Days are numbered, UTC and local ones alike. *)
(* A local day begins before the UTC day of its number in zones east of    *)
(* UTC, and after it in those west of it.                                  *)
(***************************************************************************)
EXTENDS Naturals

CONSTANTS
    Record,
    None,
    MaxMinute,      \* bound: the minutes of the clock
    MaxDay,         \* bound: the days
    MaxFailures,    \* bound: the writes of the keys that fail
    MaxCrashes      \* bound: the restarts of Kition

Minute == 0 .. MaxMinute
Day == 1 .. MaxDay

VARIABLES
    zone,           \* "east" or "west" of UTC, or there
    minute, utcDay, localDay,
    date,           \* the date of each record that has its required fields, or None
    dates,          \* the keys of fired dates
    minutes,        \* and of the minutes the schedule fired in, with their days
    saved,          \* both as the file has them
    cleaned,        \* the day each dispatcher last removed keys on, or None
    scan,           \* the scan under way
    fired,          \* how often each record's workflow ran on each day
    scheduled,      \* how often the schedule's did in each minute
    unsaved,        \* whether the keys were once not written
    failures, crashes

clock == <<zone, minute, utcDay, localDay>>
keys == <<dates, minutes, saved, unsaved, failures>>
past == <<fired, scheduled>>
vars == <<clock, date, keys, cleaned, scan, past, crashes>>

Idle == [step |-> "idle", day |-> None, minute |-> None, todo |-> {}, record |-> None]
Scans == [step : {"idle", "dates", "list", "date", "schedule", "minute"},
          day : Day \cup {None}, minute : Minute \cup {None},
          todo : SUBSET Record, record : Record \cup {None}]

InZone(utc, local) ==
    CASE zone = "east" -> local \in {utc, utc + 1}
      [] zone = "west" -> local \in {utc - 1, utc}
      [] zone = "utc" -> local = utc

TypeOK ==
    /\ zone \in {"east", "west", "utc"}
    /\ minute \in Minute /\ utcDay \in Day /\ localDay \in Day
    /\ date \in [Record -> Day \cup {None}]
    /\ dates \subseteq Record \X Day /\ minutes \subseteq Minute \X Day
    /\ saved \in [dates : SUBSET (Record \X Day), minutes : SUBSET (Minute \X Day)]
    /\ cleaned \in [{"dates", "schedule"} -> Day \cup {None}]
    /\ scan \in Scans
    /\ fired \in [Record \X Day -> Nat] /\ scheduled \in [Minute -> Nat]
    /\ unsaved \in BOOLEAN /\ failures \in Nat /\ crashes \in Nat

Init ==
    /\ zone \in {"east", "west", "utc"}
    /\ minute = 0 /\ utcDay \in Day /\ localDay \in Day /\ InZone(utcDay, localDay)
    /\ date \in [Record -> Day \cup {None}]
    /\ dates = {} /\ minutes = {} /\ saved = [dates |-> {}, minutes |-> {}]
    /\ cleaned = [d \in {"dates", "schedule"} |-> None]
    /\ scan = Idle
    /\ fired = [k \in Record \X Day |-> 0] /\ scheduled = [m \in Minute |-> 0]
    /\ unsaved = FALSE /\ failures = 0 /\ crashes = 0

-----------------------------------------------------------------------------
(* Time, and the records' dates.                                           *)

\* A day begins with a minute of its own.
Tick ==
    /\ minute < MaxMinute
    /\ minute' = minute + 1
    /\ utcDay' \in {d \in Day : d >= utcDay} /\ localDay' \in {d \in Day : d >= localDay}
    /\ InZone(utcDay', localDay')
    /\ UNCHANGED <<zone, date, keys, cleaned, scan, past, crashes>>

EditRecord(r) ==
    /\ date' \in {[date EXCEPT ![r] = d] : d \in Day \cup {None}}
    /\ UNCHANGED <<clock, keys, cleaned, scan, past, crashes>>

-----------------------------------------------------------------------------
(* The keys. The operators set `keys`.                                     *)

\* The file is written whole, or not at all.
Keep(newDates, newMinutes) ==
    /\ dates' = newDates /\ minutes' = newMinutes
    /\ \/ /\ saved' = [dates |-> newDates, minutes |-> newMinutes]
          /\ UNCHANGED <<unsaved, failures>>
       \/ /\ failures < MaxFailures
          /\ failures' = failures + 1 /\ unsaved' = TRUE
          /\ UNCHANGED saved

\* `gc_before`, on the first scan of a dispatcher's day.
Clean(dispatcher, day) ==
    LET keptDates == {k \in dates : k[2] >= day}
        keptMinutes == {k \in minutes : k[2] >= day}
    IN  /\ cleaned' = [cleaned EXCEPT ![dispatcher] = day]
        /\ IF cleaned[dispatcher] = day \/ (keptDates = dates /\ keptMinutes = minutes)
           THEN UNCHANGED keys
           ELSE Keep(keptDates, keptMinutes)

-----------------------------------------------------------------------------
(* The scan.                                                               *)

\* `TimeDispatcher::tick`.
BeginDates ==
    /\ scan.step = "idle"
    /\ Clean("dates", utcDay)
    /\ scan' = [Idle EXCEPT !.step = "dates", !.day = utcDay]
    /\ UNCHANGED <<clock, date, past, crashes>>

\* The records are read if the workflow is enabled, its time of the day has come, and they can be.
ListRecords ==
    /\ scan.step = "dates"
    /\ \/ scan' = [scan EXCEPT !.step = "list", !.todo = {r \in Record : date[r] = scan.day}]
       \/ scan' = [scan EXCEPT !.step = "list"]
    /\ UNCHANGED <<clock, date, keys, cleaned, past, crashes>>

SkipDate(r) ==
    /\ scan.step = "list" /\ r \in scan.todo
    /\ <<r, scan.day>> \in dates
    /\ scan' = [scan EXCEPT !.todo = @ \ {r}]
    /\ UNCHANGED <<clock, date, keys, cleaned, past, crashes>>

\* The key first, and then the run.
MarkDate(r) ==
    /\ scan.step = "list" /\ r \in scan.todo
    /\ <<r, scan.day>> \notin dates
    /\ Keep(dates \cup {<<r, scan.day>>}, minutes)
    /\ scan' = [scan EXCEPT !.step = "date", !.todo = @ \ {r}, !.record = r]
    /\ UNCHANGED <<clock, date, cleaned, past, crashes>>

DeliverDate ==
    /\ scan.step = "date"
    /\ fired' = [fired EXCEPT ![<<scan.record, scan.day>>] = @ + 1]
    /\ scan' = [scan EXCEPT !.step = "list", !.record = None]
    /\ UNCHANGED <<clock, date, keys, cleaned, scheduled, crashes>>

\* `ScheduledDispatcher::tick`, at the minute it is by then.
BeginSchedule ==
    /\ scan.step = "list" /\ scan.todo = {}
    /\ Clean("schedule", localDay)
    /\ scan' = [Idle EXCEPT !.step = "schedule", !.day = localDay, !.minute = minute]
    /\ UNCHANGED <<clock, date, past, crashes>>

\* The workflow is not enabled, not due, or has fired.
SkipMinute ==
    /\ scan.step = "schedule"
    /\ scan' = Idle
    /\ UNCHANGED <<clock, date, keys, cleaned, past, crashes>>

MarkMinute ==
    /\ scan.step = "schedule" /\ <<scan.minute, scan.day>> \notin minutes
    /\ Keep(dates, minutes \cup {<<scan.minute, scan.day>>})
    /\ scan' = [scan EXCEPT !.step = "minute"]
    /\ UNCHANGED <<clock, date, cleaned, past, crashes>>

DeliverMinute ==
    /\ scan.step = "minute"
    /\ scheduled' = [scheduled EXCEPT ![scan.minute] = @ + 1]
    /\ scan' = Idle
    /\ UNCHANGED <<clock, date, keys, cleaned, fired, crashes>>

\* Kition stops, and starts again with the keys of the file.
Crash ==
    /\ crashes < MaxCrashes
    /\ crashes' = crashes + 1
    /\ dates' = saved.dates /\ minutes' = saved.minutes
    /\ cleaned' = [d \in {"dates", "schedule"} |-> None]
    /\ scan' = Idle
    /\ UNCHANGED <<clock, date, saved, unsaved, failures, past>>

-----------------------------------------------------------------------------

Next ==
    \/ Tick
    \/ \E r \in Record : EditRecord(r) \/ SkipDate(r) \/ MarkDate(r)
    \/ BeginDates \/ ListRecords \/ DeliverDate
    \/ BeginSchedule \/ SkipMinute \/ MarkMinute \/ DeliverMinute
    \/ Crash

Spec == Init /\ [][Next]_vars

-----------------------------------------------------------------------------
(* Properties.                                                             *)

\* The keys are "fire-once dedup keys" (store.rs:2): while they can be written, a workflow runs
\* for a record on a day once.
DateFiresOnce == unsaved \/ \A k \in Record \X Day : fired[k] <= 1

\* It does where no local day begins before the UTC day of its number: west of UTC and there.
DateFiresOnceInTheWest == zone # "east" => DateFiresOnce

\* And where none begins after it, the schedule fires in a minute once, also when two scans
\* fall into one.
MinuteFiresOnceInTheEast == zone # "west" => unsaved \/ \A m \in Minute : scheduled[m] <= 1

=============================================================================
