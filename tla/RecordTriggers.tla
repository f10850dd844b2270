--------------------------- MODULE RecordTriggers ---------------------------
(***************************************************************************)
(* How the edits of a table file start workflows: the watcher that asks    *)
(* the table kit what changed since the version it last saw and publishes  *)
(* record events (triggers.rs, with the requests of lib.rs), the event bus *)
(* (events.rs), and the engine that runs a `record_created` workflow with  *)
(* a required field once per record (engine.rs, store.rs).                 *)
(*                                                                         *)
(* One file with one table. A version is the set of edits it covers, and a *)
(* replica of the file is such a set too: that of the open editor, or that *)
(* of the headless kit, which opens the file as it was saved. A record is  *)
(* created empty, and a second edit fills the required field.              *)
(*                                                                         *)
(* The file's requests run one at a time, and each at once; what is done   *)
(* with an answer is a step of its own, and reports run side by side. What *)
(* an agent leaves unsaved on the headless kit is not modelled.            *)
(***************************************************************************)
EXTENDS Naturals, Sequences

CONSTANTS
    Record,
    Report,         \* bound: the reports under way at once
    BusSize,        \* the capacity of the event bus
    None,
    MaxFailures,    \* bound: the requests and file writes that fail
    MaxCrashes      \* bound: the restarts of Kition

Edit == Record \X {"create", "fill"}
Version == SUBSET Edit

ASSUME RecordTriggersAssumption ==
    /\ BusSize \in Nat \ {0} /\ MaxFailures \in Nat /\ MaxCrashes \in Nat
    /\ \A version \in Version : version # None

Event == [record : Record, holds : Version]
EditsOf(r) == {e \in Edit : e[1] = r}

VARIABLES
    made,           \* the edits made so far
    byHost,         \* those the host made itself (`system:` origins)
    live,           \* the replica of the open editor, or None
    file,           \* that of the file as it was last saved
    headless,       \* that of the headless kit's document when the kit last saved it
    cursor,         \* the version reported up to, or None
    savedCursor,    \* as changes.json has it
    timer,          \* whether edits of the open editor settle
    saves,          \* how many headless saves are to be reported
    report,         \* the reports under way
    hosting,        \* the edit the host is making
    bus,            \* the events the engine has not taken
    marked,         \* the keys of the record dedup
    savedMarks,     \* as workflow_record_dedup.json has them
    starting,       \* the records whose run is about to start
    runs,           \* how often the workflow ran for each record
    told,           \* how often each edit was reported
    lost,           \* the edits that are not reported, or whose event was lost
    overlapped,     \* whether a report began beside another, or a headless save was reported
                    \* beside an open editor or once the file was another's save
    unsaved,        \* which of the cursor and the keys was once not written to its file
    failures, crashes

documents == <<made, byHost, live, file, headless>>
cursors == <<cursor, savedCursor>>
watch == <<timer, saves>>
engine == <<marked, savedMarks, starting, runs>>
past == <<told, lost, overlapped, unsaved>>
counts == <<failures, crashes>>
vars == <<documents, cursors, watch, report, hosting, bus, engine, past, counts>>

NoReport == [step |-> "idle", of |-> "live", since |-> None, answer |-> {}, todo |-> {}]
Reports == [step : {"idle", "ask", "again", "first", "set", "list", "publish"},
            of : {"live", "saved"}, since : Version \cup {None}, answer : Version, todo : Version]
NoHosting == [step |-> "idle", edit |-> None, answer |-> {}]
Hostings == [step : {"idle", "prime", "write", "publish"}, edit : Edit \cup {None},
             answer : Version]

TypeOK ==
    /\ made \in Version /\ byHost \in Version
    /\ live \in Version \cup {None} /\ file \in Version /\ headless \in Version
    /\ cursor \in Version \cup {None} /\ savedCursor \in Version \cup {None}
    /\ timer \in BOOLEAN /\ saves \in Nat
    /\ report \in [Report -> Reports]
    /\ hosting \in Hostings
    /\ bus \in Seq(Event)
    /\ marked \subseteq Record /\ savedMarks \subseteq Record /\ starting \subseteq Record
    /\ runs \in [Record -> Nat]
    /\ told \in [Edit -> Nat] /\ lost \in Version
    /\ overlapped \in BOOLEAN /\ unsaved \subseteq {"cursor", "marks"}
    /\ failures \in Nat /\ crashes \in Nat

Init ==
    /\ made = {} /\ byHost = {} /\ live = None /\ file = {} /\ headless = {}
    /\ cursor = None /\ savedCursor = None
    /\ timer = FALSE /\ saves = 0
    /\ report = [r \in Report |-> NoReport]
    /\ hosting = NoHosting
    /\ bus = <<>>
    /\ marked = {} /\ savedMarks = {} /\ starting = {}
    /\ runs = [r \in Record |-> 0]
    /\ told = [e \in Edit |-> 0] /\ lost = {}
    /\ overlapped = FALSE /\ unsaved = {}
    /\ failures = 0 /\ crashes = 0

-----------------------------------------------------------------------------
(* The file and its replicas.                                              *)

\* The replica a request of the host reaches (`run_steps`).
Replica == IF live = None THEN file ELSE live

MayEdit(e) == e \notin made /\ (e[2] = "fill" => <<e[1], "create">> \in Replica)

OpenEditor ==
    /\ live = None
    /\ live' = file
    /\ UNCHANGED <<made, byHost, file, headless, cursors, watch, report, hosting, bus, engine, past,
                   counts>>

\* A person's edit, which the editor tells the bridge: it is reported once no other has followed
\* for a while.
EditLive(e) ==
    /\ live # None /\ MayEdit(e)
    /\ made' = made \cup {e}
    /\ live' = live \cup {e}
    /\ timer' = TRUE
    /\ UNCHANGED <<byHost, file, headless, cursors, saves, report, hosting, bus, engine, past, counts>>

SaveEditor ==
    /\ live # None
    /\ file' = live
    /\ UNCHANGED <<made, byHost, live, headless, cursors, watch, report, hosting, bus, engine, past,
                   counts>>

\* What was not saved is discarded.
CloseEditor ==
    /\ live # None
    /\ live' = None
    /\ UNCHANGED <<made, byHost, file, headless, cursors, watch, report, hosting, bus, engine, past,
                   counts>>

\* An agent's edit on the headless kit, which saves it to the file.
EditHeadless(e) ==
    /\ live = None /\ MayEdit(e)
    /\ made' = made \cup {e}
    /\ file' = file \cup {e} /\ headless' = file'
    /\ saves' = saves + 1
    /\ UNCHANGED <<byHost, live, cursors, timer, report, hosting, bus, engine, past, counts>>

-----------------------------------------------------------------------------
(* The cursor and the bus. The operators set `cursors` and `unsaved`, and  *)
(* `bus`.                                                                  *)

Covered == IF cursor = None THEN {} ELSE cursor

\* `set_version`, which writes a version that is new. The file may fail to be written.
SetVersion(version) ==
    /\ cursor' = version
    /\ \/ version = cursor /\ UNCHANGED <<savedCursor, unsaved, failures>>
       \/ version # cursor /\ savedCursor' = version /\ UNCHANGED <<unsaved, failures>>
       \/ /\ version # cursor /\ failures < MaxFailures
          /\ failures' = failures + 1
          /\ unsaved' = unsaved \cup {"cursor"}
          /\ UNCHANGED savedCursor

Told(r, replica) == [record |-> r, holds |-> replica \cap EditsOf(r)]

\* A bus that is full loses its oldest event.
Dropped == IF Len(bus) < BusSize THEN {} ELSE Head(bus).holds
Send(event) == bus' = Append(IF Len(bus) < BusSize THEN bus ELSE Tail(bus), event)

-----------------------------------------------------------------------------
(* Edits of the host: `create_record` and `update_record`.                 *)

Making == hosting.step # "idle"
Reporting == \E r \in Report : report[r].step # "idle"

\* The tables are read first, here also for any other request of the host that writes nothing.
\* The first request to a file asks for its version as well.
HostBegin(e) ==
    /\ ~Making
    /\ IF e = None THEN cursor = None ELSE MayEdit(e)
    /\ hosting' = [step |-> IF cursor = None THEN "prime" ELSE "write", edit |-> e,
                   answer |-> Replica]
    /\ overlapped' = (overlapped \/ (cursor = None /\ Reporting))
    /\ UNCHANGED <<documents, cursors, watch, report, bus, engine, told, lost, unsaved, counts>>

HostPrime ==
    /\ hosting.step = "prime"
    /\ SetVersion(hosting.answer)
    /\ lost' = lost \cup (hosting.answer \ Covered)
    /\ hosting' = IF hosting.edit = None THEN NoHosting ELSE [hosting EXCEPT !.step = "write"]
    /\ UNCHANGED <<documents, watch, report, bus, engine, told, overlapped, crashes>>

\* In an open editor the edit is saved if nothing else there waits to be; on the headless kit it
\* always is.
HostMakes(e) ==
    /\ MayEdit(e)
    /\ made' = made \cup {e}
    /\ byHost' = byHost \cup {e}
    /\ \/ /\ live # None
          /\ live' = live \cup {e}
          /\ file' = IF file = live THEN live' ELSE file
          /\ timer' = TRUE /\ UNCHANGED headless
       \/ /\ live = None
          /\ file' = file \cup {e} /\ headless' = file'
          /\ UNCHANGED <<live, timer>>

HostWrite ==
    /\ hosting.step = "write" /\ HostMakes(hosting.edit)
    /\ saves' = IF live = None THEN saves + 1 ELSE saves
    /\ hosting' = [hosting EXCEPT !.step = "publish", !.answer = Replica \cup {hosting.edit}]
    /\ UNCHANGED <<cursors, report, bus, engine, past, counts>>

\* The edit is made and its answer lost, or that of what the save goes on to ask: it is published
\* by no one.
HostUnheard ==
    /\ hosting.step = "write" /\ HostMakes(hosting.edit)
    /\ failures < MaxFailures
    /\ failures' = failures + 1
    /\ hosting' = NoHosting
    /\ UNCHANGED <<cursors, saves, report, bus, engine, past, crashes>>

HostFails ==
    /\ hosting.step = "write"
    /\ ~MayEdit(hosting.edit) \/ failures < MaxFailures
    /\ failures' = IF MayEdit(hosting.edit) THEN failures + 1 ELSE failures
    /\ hosting' = NoHosting
    /\ UNCHANGED <<documents, cursors, watch, report, bus, engine, past, crashes>>

\* Not so: the cursor goes past the host's own edit.
HostPassesItsOwn ==
    /\ hosting.step = "publish"
    /\ SetVersion(hosting.answer)
    /\ Send(Told(hosting.edit[1], hosting.answer))
    /\ lost' = lost \cup Dropped
    /\ hosting' = NoHosting
    /\ UNCHANGED <<documents, watch, report, engine, told, overlapped, crashes>>

HostPublish ==
    /\ hosting.step = "publish"
    /\ Send(Told(hosting.edit[1], hosting.answer))
    /\ lost' = lost \cup Dropped
    /\ hosting' = NoHosting
    /\ UNCHANGED <<documents, cursors, watch, report, engine, told, overlapped, unsaved, counts>>

-----------------------------------------------------------------------------
(* The reports.                                                            *)

Ended(r) == report' = [report EXCEPT ![r] = NoReport]

\* The edits of an editor have settled, or the headless kit has saved.
Begin(r, of) ==
    /\ report[r].step = "idle"
    /\ \/ of = "live" /\ timer /\ timer' = FALSE /\ UNCHANGED saves
       \/ of = "saved" /\ saves > 0 /\ saves' = saves - 1 /\ UNCHANGED timer
    /\ report' = [report EXCEPT ![r] = [NoReport EXCEPT !.step = "ask", !.of = of, !.since = cursor]]
    /\ overlapped' = (overlapped \/ Reporting \/ hosting.step = "prime"
                      \/ (of = "saved" /\ (live # None \/ headless # file)))
    /\ UNCHANGED <<documents, cursors, hosting, bus, engine, told, lost, unsaved, counts>>

\* Not so: an open editor's edits are asked of the file.
AskedOfFile(r) == IF report[r].of = "saved" THEN headless ELSE file

\* A headless save is reported on the document it saved.
Asked(r) == IF report[r].of = "saved" THEN headless ELSE Replica

\* `changes.since`, which a replica that never reached the version refuses.
Ask(r) ==
    /\ report[r].step = "ask"
    /\ report' = [report EXCEPT ![r].answer = Asked(r),
                     ![r].step = IF report[r].since = None THEN "first"
                                 ELSE IF report[r].since \subseteq Asked(r) THEN "set" ELSE "again"]
    /\ UNCHANGED <<documents, cursors, watch, hosting, bus, engine, past, counts>>

\* From nowhere: only where the replica is by now.
AskAgain(r) ==
    /\ report[r].step = "again"
    /\ report' = [report EXCEPT ![r].answer = Asked(r), ![r].step = "first"]
    /\ UNCHANGED <<documents, cursors, watch, hosting, bus, engine, past, counts>>

AskFails(r) ==
    /\ report[r].step \in {"ask", "again"} /\ failures < MaxFailures
    /\ failures' = failures + 1
    /\ IF report[r].step = "ask" THEN report' = [report EXCEPT ![r].step = "again"] ELSE Ended(r)
    /\ UNCHANGED <<documents, cursors, watch, hosting, bus, engine, past, crashes>>

\* The agent has closed the document by now.
DocumentClosed(r) ==
    /\ report[r].step \in {"ask", "again"} /\ report[r].of = "saved"
    /\ Ended(r)
    /\ UNCHANGED <<documents, cursors, watch, hosting, bus, engine, past, counts>>

\* Everything up to the answer is older than the report.
StartFromNow(r) ==
    /\ report[r].step = "first"
    /\ SetVersion(report[r].answer)
    /\ lost' = lost \cup (report[r].answer \ Covered)
    /\ Ended(r)
    /\ UNCHANGED <<documents, watch, hosting, bus, engine, told, overlapped, crashes>>

\* Not so: everything the replica holds.
ChangesOfAll(r) == report[r].answer \ byHost

\* `reported_changes`: what others did since.
Changes(r) == (report[r].answer \ report[r].since) \ byHost

\* `publish_changes`: the cursor first.
SetCursor(r) ==
    /\ report[r].step = "set"
    /\ SetVersion(report[r].answer)
    /\ told' = [e \in Edit |-> IF e \in Changes(r) THEN told[e] + 1 ELSE told[e]]
    /\ IF Changes(r) = {} THEN Ended(r)
       ELSE report' = [report EXCEPT ![r].step = "list", ![r].todo = Changes(r)]
    /\ UNCHANGED <<documents, watch, hosting, bus, engine, lost, overlapped, crashes>>

\* Then the records as they are by now.
ListRecords(r) ==
    /\ report[r].step = "list"
    /\ report' = [report EXCEPT ![r].step = "publish", ![r].answer = Replica]
    /\ UNCHANGED <<documents, cursors, watch, hosting, bus, engine, past, counts>>

ListFails(r) ==
    /\ report[r].step = "list" /\ failures < MaxFailures
    /\ failures' = failures + 1
    /\ lost' = lost \cup report[r].todo
    /\ Ended(r)
    /\ UNCHANGED <<documents, cursors, watch, hosting, bus, engine, told, overlapped, unsaved,
                   crashes>>

\* And an event for each record, those that were created first; none for one that is not listed.
Publish(r, record) ==
    LET todo == report[r].todo
        rest == todo \ EditsOf(record)
    IN  /\ report[r].step = "publish"
        /\ todo \cap EditsOf(record) # {}
        /\ (\E q \in Record : <<q, "create">> \in todo) => <<record, "create">> \in todo
        /\ \/ /\ <<record, "create">> \in report[r].answer
              /\ Send(Told(record, report[r].answer))
              /\ lost' = lost \cup Dropped
           \/ /\ <<record, "create">> \notin report[r].answer
              /\ lost' = lost \cup (todo \cap EditsOf(record))
              /\ UNCHANGED bus
        /\ IF rest = {} THEN Ended(r) ELSE report' = [report EXCEPT ![r].todo = rest]
        /\ UNCHANGED <<documents, cursors, watch, hosting, engine, told, overlapped, unsaved, counts>>

-----------------------------------------------------------------------------
(* The engine.                                                             *)

\* Not so: a key that is not written is not kept either.
MarkIfWritten(r) ==
    \/ /\ marked' = marked \cup {r} /\ savedMarks' = marked'
       /\ UNCHANGED <<unsaved, failures>>
    \/ /\ failures < MaxFailures
       /\ failures' = failures + 1
       /\ unsaved' = unsaved \cup {"marks"}
       /\ UNCHANGED <<marked, savedMarks>>

\* `mark`, whose file may fail to be written.
Mark(r) ==
    /\ marked' = marked \cup {r}
    /\ \/ savedMarks' = marked' /\ UNCHANGED <<unsaved, failures>>
       \/ /\ failures < MaxFailures
          /\ failures' = failures + 1
          /\ unsaved' = unsaved \cup {"marks"}
          /\ UNCHANGED savedMarks

\* `handle_event`: the required field is filled, and the workflow has not run for the record.
HandleEvent ==
    /\ bus # <<>>
    /\ bus' = Tail(bus)
    /\ LET r == Head(bus).record
           filled == <<r, "fill">> \in Head(bus).holds
       IN  \/ /\ filled /\ r \notin marked
              /\ Mark(r)
              /\ starting' = starting \cup {r}
           \/ /\ ~filled \/ r \in marked
              /\ UNCHANGED <<marked, savedMarks, starting, unsaved, failures>>
    /\ UNCHANGED <<documents, cursors, watch, report, hosting, runs, told, lost, overlapped, crashes>>

StartRun(r) ==
    /\ r \in starting
    /\ starting' = starting \ {r}
    /\ runs' = [runs EXCEPT ![r] = @ + 1]
    /\ UNCHANGED <<documents, cursors, watch, report, hosting, bus, marked, savedMarks, past, counts>>

\* Kition stops, and starts again from its files.
Crash ==
    /\ crashes < MaxCrashes
    /\ crashes' = crashes + 1
    /\ live' = None
    /\ cursor' = savedCursor
    /\ timer' = FALSE /\ saves' = 0
    /\ report' = [r \in Report |-> NoReport]
    /\ hosting' = NoHosting
    /\ bus' = <<>>
    /\ marked' = savedMarks /\ starting' = {}
    /\ lost' = lost \cup (UNION {report[r].todo : r \in Report})
                    \cup (UNION {EditsOf(r) : r \in starting})
                    \cup (UNION {bus[i].holds : i \in DOMAIN bus})
    /\ UNCHANGED <<made, byHost, file, headless, savedCursor, savedMarks, runs, told, overlapped,
                   unsaved, failures>>

-----------------------------------------------------------------------------

Next ==
    \/ OpenEditor \/ SaveEditor \/ CloseEditor
    \/ \E e \in Edit : EditLive(e) \/ EditHeadless(e) \/ HostBegin(e)
    \/ HostBegin(None) \/ HostPrime \/ HostWrite \/ HostUnheard \/ HostFails \/ HostPublish
    \/ \E r \in Report :
        \/ \E of \in {"live", "saved"} : Begin(r, of)
        \/ Ask(r) \/ AskAgain(r) \/ AskFails(r) \/ DocumentClosed(r)
        \/ StartFromNow(r) \/ SetCursor(r) \/ ListRecords(r) \/ ListFails(r)
        \/ \E record \in Record : Publish(r, record)
    \/ HandleEvent
    \/ \E r \in Record : StartRun(r)
    \/ Crash

Spec == Init /\ [][Next]_vars

(* Timers fire, requests are answered, reports and runs go on. No one has to edit, to open, *)
(* to save or to close.                                                                     *)
Goes(r) ==
    \/ Ask(r) \/ AskAgain(r) \/ StartFromNow(r) \/ SetCursor(r) \/ ListRecords(r)
    \/ \E record \in Record : Publish(r, record)
Fairness ==
    /\ WF_vars(\E r \in Report : Begin(r, "live"))
    /\ WF_vars(\E r \in Report : Begin(r, "saved"))
    /\ \A r \in Report : WF_vars(Goes(r))
    /\ WF_vars(HostPrime \/ HostPublish)
    /\ WF_vars(HandleEvent)
    /\ \A r \in Record : WF_vars(StartRun(r))

FairSpec == Spec /\ Fairness

-----------------------------------------------------------------------------
(* Properties.                                                             *)

\* A `record_created` workflow with a required field runs once per record, however often the
\* record is reported: as created and as filled, by overlapping reports, by the host itself,
\* before and after a restart; unless Kition was restarted after the key could not be written.
FiresOnce ==
    \/ "marks" \in unsaved /\ crashes > 0
    \/ \A r \in Record : runs[r] <= 1 /\ (r \in starting => runs[r] = 0)

\* What others edited and the cursor passes is reported or known to be lost, and a report of a
\* filled record is on its way to the engine: nothing falls between two reports, a report and
\* the host's own requests, or the cursor and a crash.
OnItsWay(r) ==
    \/ r \in marked \/ runs[r] > 0
    \/ \E i \in DOMAIN bus : <<r, "fill">> \in bus[i].holds
    \/ \E p \in Report : report[p].todo \cap EditsOf(r) # {}
NothingSlips ==
    \A e \in Covered \ byHost :
        \/ e \in lost
        \/ told[e] > 0 /\ (e[2] = "fill" /\ e \in file => OnItsWay(e[1]))

\* "Edits made in between are reported, and none is reported twice" (triggers.rs:12-14): so it is
\* while one report is made at a time, none for a headless save beside an open editor or once the
\* file was another's save, and the cursor can be written; whatever is lost in a crash between the
\* cursor and the events, and whenever the editor is closed on what was not saved. A report for a
\* headless save beside an open editor may move the cursor back, and the next one tells an edit
\* again.
InTurnToldOnce ==
    overlapped \/ "cursor" \in unsaved \/ \A e \in Edit : told[e] <= 1

\* What a person fills in an editor that stays open starts the workflow or is a known loss, once
\* requests are answered and files written: the edit settles and is reported, whatever reports are
\* under way, and no report leaves the file unable to report. The losses are those of `lost`: the
\* first report of the file or a cursor the editor never reached (triggers.rs:164-180), and an
\* event the full bus dropped.
FillsAreServed ==
    \A r \in Record :
        failures = MaxFailures /\ timer /\ live # None /\ <<r, "fill">> \in live \ byHost
        ~> runs[r] > 0 \/ <<r, "fill">> \in lost \/ live = None

=============================================================================
