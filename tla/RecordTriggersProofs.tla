------------------------ MODULE RecordTriggersProofs ------------------------
(***************************************************************************)
(* What RecordTriggers keeps for any number of records and reports, any    *)
(* capacity of the bus and any number of failures and restarts; and the    *)
(* same for the workflows that time starts (WorkflowDispatch).             *)
(***************************************************************************)
EXTENDS RecordTriggers, TLAPS

SavedCovered == IF savedCursor = None THEN {} ELSE savedCursor

\* What a report starts from.
Since(r) == IF report[r].since = None THEN {} ELSE report[r].since

Passed == Covered \cup SavedCovered \cup UNION {Since(r) : r \in Report}

\* Replicas and answers hold edits that were made, what is in the file is in the open editor,
\* and an edit is never made twice: what a replica has lost stays lost to it.
ReplicasGrow ==
    /\ file \subseteq made /\ headless \subseteq file
    /\ live # None => file \subseteq live /\ live \subseteq made
    /\ Passed \subseteq made
    /\ hosting.answer \subseteq made
    /\ \A r \in Report : report[r].answer \subseteq made

\* No replica holds a filled record without its creation.
Whole(v) == \A r \in Record : <<r, "fill">> \in v => <<r, "create">> \in v
ReplicasAreWhole ==
    /\ Whole(file) /\ Whole(headless) /\ (live # None => Whole(live))
    /\ \A r \in Report : Whole(report[r].answer)

\* A report in turn starts from a version, and the host edits something.
StepsInOrder ==
    /\ \A r \in Report : report[r].step = "set" => report[r].since # None
    /\ hosting.step \in {"write", "publish"} => hosting.edit \in Edit

\* An event is about one record.
EventsAreApart == \A i \in DOMAIN bus : bus[i].holds \subseteq EditsOf(bus[i].record)

\* A key is in the file, or its run is about to start or has been started.
MarksAreOfRuns == \A r \in marked : r \in savedMarks \/ r \in starting \/ runs[r] > 0

\* Where a reported fill is: in a report that has yet to list the records or has it in its
\* list, on the bus, or taken by the engine.
InReport(e, p) ==
    /\ e \in report[p].todo
    /\ report[p].step = "list" \/ (report[p].step = "publish" /\ e \in report[p].answer)
Carried(e) ==
    \/ e[1] \in marked \/ runs[e[1]] > 0
    \/ \E i \in DOMAIN bus : e \in bus[i].holds
    \/ \E p \in Report : InReport(e, p)
Accounted(e) ==
    \/ e \in lost
    \/ told[e] > 0 /\ (e[2] = "fill" /\ e \in Replica => Carried(e))

PassedIsAccounted == \A e \in Passed \ byHost : Accounted(e)

\* A record whose run starts is marked; and the file has the keys, unless it could once not be
\* written.
MarksKept ==
    \/ "marks" \in unsaved /\ crashes > 0
    \/ /\ \A r \in Record : r \in starting \/ runs[r] > 0 => r \in marked
       /\ "marks" \notin unsaved => savedMarks = marked

Inductive ==
    /\ TypeOK
    /\ ReplicasGrow /\ ReplicasAreWhole
    /\ StepsInOrder
    /\ EventsAreApart
    /\ MarksAreOfRuns
    /\ PassedIsAccounted
    /\ MarksKept
    /\ FiresOnce

-----------------------------------------------------------------------------
(* What the parts of an action keep.                                       *)

LEMMA InductiveInit == Init => Inductive
<1> SUFFICES ASSUME Init PROVE Inductive
  OBVIOUS
<1>1. NoReport \in Reports /\ NoHosting \in Hostings
  BY DEF NoReport, NoHosting, Reports, Hostings, Version
<1>2. TypeOK
  <2>1. {} \in Version /\ bus \in Seq(Event)
    BY DEF Init, Version
  <2>2. report \in [Report -> Reports] /\ hosting \in Hostings
    BY <1>1 DEF Init
  <2>3. runs \in [Record -> Nat] /\ told \in [Edit -> Nat]
    BY DEF Init
  <2> QED BY <2>1, <2>2, <2>3 DEF Init, TypeOK
<1>3. \A r \in Report : report[r].answer = {} /\ report[r].since = None /\ report[r].step = "idle"
  BY DEF Init, NoReport
<1>4. Passed = {}
  BY <1>3 DEF Init, Passed, Covered, SavedCovered, Since
<1>5. hosting.answer = {} /\ hosting.step = "idle"
  BY DEF Init, NoHosting
<1>6. ReplicasGrow /\ ReplicasAreWhole /\ StepsInOrder
  BY <1>3, <1>4, <1>5 DEF Init, ReplicasGrow, ReplicasAreWhole, Whole, StepsInOrder
<1>7. EventsAreApart /\ MarksAreOfRuns /\ PassedIsAccounted /\ MarksKept /\ FiresOnce
  BY <1>4 DEF Init, EventsAreApart, MarksAreOfRuns, PassedIsAccounted, MarksKept, FiresOnce
<1> QED BY <1>2, <1>6, <1>7 DEF Inductive

LEMMA TypesOfReports ==
    ASSUME TypeOK, NEW r \in Report
    PROVE  /\ report[r].step \in {"idle", "ask", "again", "first", "set", "list", "publish"}
           /\ report[r].of \in {"live", "saved"}
           /\ report[r].since \in Version \cup {None}
           /\ report[r].answer \in Version /\ report[r].todo \in Version
BY DEF TypeOK, Reports

LEMMA ReplicaType ==
    ASSUME Inductive
    PROVE  /\ Replica \in Version /\ Replica \subseteq made /\ Whole(Replica)
           /\ file \subseteq Replica
BY DEF Inductive, TypeOK, ReplicasGrow, ReplicasAreWhole, Replica

LEMMA EngineStays ==
    ASSUME Inductive, UNCHANGED <<engine, crashes>>, "marks" \in unsaved' <=> "marks" \in unsaved
    PROVE  MarksAreOfRuns' /\ MarksKept' /\ FiresOnce'
BY DEF Inductive, MarksAreOfRuns, MarksKept, FiresOnce, engine

LEMMA Accounts ==
    ASSUME Inductive, lost \subseteq lost', byHost \subseteq byHost',
           \A e \in Edit : told'[e] >= told[e] /\ told'[e] \in Nat,
           \A e \in made : e \in Replica' => e \in Replica,
           \A e \in made : Carried(e) => Carried(e)' \/ e \in lost',
           \A e \in Passed' \ byHost' : e \in Passed \/ Accounted(e)'
    PROVE  PassedIsAccounted'
<1> SUFFICES ASSUME NEW e \in Passed' \ byHost', e \in Passed
             PROVE  Accounted(e)'
  BY DEF PassedIsAccounted
<1>1. Accounted(e) /\ e \in made /\ e \in Edit
  BY DEF Inductive, PassedIsAccounted, ReplicasGrow, TypeOK, Version
<1>2. CASE e \in lost
  BY <1>2 DEF Accounted
<1>3. CASE told[e] > 0 /\ (e[2] = "fill" /\ e \in Replica => Carried(e))
  <2>1. told'[e] > 0
    BY <1>1, <1>3 DEF Inductive, TypeOK
  <2>2. e[2] = "fill" /\ e \in Replica' => Carried(e)' \/ e \in lost'
    BY <1>1, <1>3
  <2> QED BY <2>1, <2>2 DEF Accounted
<1> QED BY <1>1, <1>2, <1>3 DEF Accounted

LEMMA CarriedStays ==
    ASSUME UNCHANGED <<marked, runs, bus>>, NEW e,
           \A p \in Report : InReport(e, p) => InReport(e, p)' \/ e \in lost',
           Carried(e)
    PROVE  Carried(e)' \/ e \in lost'
BY DEF Carried

LEMMA Sending ==
    ASSUME TypeOK, NEW event \in Event, Send(event)
    PROVE  /\ bus' \in Seq(Event)
           /\ \A i \in DOMAIN bus : \/ \E j \in DOMAIN bus' : bus'[j] = bus[i]
                                    \/ bus[i].holds \subseteq Dropped
           /\ \E j \in DOMAIN bus' : bus'[j] = event
           /\ \A j \in DOMAIN bus' : bus'[j] = event \/ \E i \in DOMAIN bus : bus'[j] = bus[i]
<1> USE RecordTriggersAssumption
<1>1. bus \in Seq(Event) /\ Len(bus) \in Nat
  BY DEF TypeOK
<1>2. CASE Len(bus) < BusSize
  <2>1. bus' = Append(bus, event)
    BY <1>2 DEF Send
  <2>2. /\ bus' \in Seq(Event) /\ Len(bus') = Len(bus) + 1
        /\ \A i \in 1 .. Len(bus) : bus'[i] = bus[i]
        /\ bus'[Len(bus) + 1] = event
    BY <1>1, <2>1
  <2> QED BY <1>1, <2>2
<1>3. CASE ~(Len(bus) < BusSize)
  <2>1. bus' = Append(Tail(bus), event) /\ Len(bus) > 0
    BY <1>1, <1>3 DEF Send
  <2>2. /\ Tail(bus) \in Seq(Event) /\ Len(Tail(bus)) = Len(bus) - 1
        /\ \A i \in 1 .. Len(bus) - 1 : Tail(bus)[i] = bus[i + 1]
    BY <1>1, <2>1
  <2>3. /\ bus' \in Seq(Event) /\ Len(bus') = Len(bus)
        /\ \A i \in 1 .. Len(bus) - 1 : bus'[i] = bus[i + 1]
        /\ bus'[Len(bus)] = event
    BY <1>1, <2>1, <2>2
  <2>4. ASSUME NEW i \in DOMAIN bus
        PROVE  (\E j \in DOMAIN bus' : bus'[j] = bus[i]) \/ bus[i].holds \subseteq Dropped
    <3>1. CASE i = 1
      BY <1>1, <1>3, <2>1, <3>1 DEF Dropped
    <3>2. CASE i # 1
      <4>1. i - 1 \in 1 .. Len(bus) - 1
        BY <1>1, <3>2
      <4> QED BY <1>1, <2>3, <4>1
    <3> QED BY <3>1, <3>2
  <2>5. ASSUME NEW j \in DOMAIN bus'
        PROVE  bus'[j] = event \/ \E i \in DOMAIN bus : bus'[j] = bus[i]
    <3>1. CASE j = Len(bus)
      BY <2>3, <3>1
    <3>2. CASE j # Len(bus)
      <4>1. j + 1 \in 1 .. Len(bus) /\ j \in 1 .. Len(bus) - 1
        BY <1>1, <2>3, <3>2
      <4> QED BY <1>1, <2>3, <4>1
    <3> QED BY <3>1, <3>2
  <2>6. \E j \in DOMAIN bus' : bus'[j] = event
    BY <1>1, <2>1, <2>3
  <2> QED BY <2>3, <2>4, <2>5, <2>6
<1> QED BY <1>2, <1>3

LEMMA DroppedType == ASSUME TypeOK PROVE Dropped \in Version
<1>1. CASE Len(bus) < BusSize
  BY <1>1 DEF Dropped, Version
<1>2. CASE ~(Len(bus) < BusSize)
  <2>1. Len(bus) > 0 /\ bus \in Seq(Event)
    BY <1>2, RecordTriggersAssumption DEF TypeOK
  <2>2. Head(bus) \in Event
    BY <2>1
  <2> QED BY <1>2, <2>2 DEF Dropped, Event
<1> QED BY <1>1, <1>2

LEMMA EventType ==
    ASSUME NEW r \in Record, NEW replica \in Version
    PROVE  /\ Told(r, replica) \in Event
           /\ Told(r, replica).record = r
           /\ Told(r, replica).holds = replica \cap EditsOf(r)
BY DEF Told, Event, Version

\* Sending an event drops none that is not counted as lost.
LEMMA SendingKeeps ==
    ASSUME Inductive, NEW r \in Record, NEW replica \in Version, Send(Told(r, replica)),
           Dropped \subseteq lost'
    PROVE  /\ bus' \in Seq(Event)
           /\ EventsAreApart'
           /\ \A e : (\E i \in DOMAIN bus : e \in bus[i].holds) =>
                  (\E j \in DOMAIN bus' : e \in bus'[j].holds) \/ e \in lost'
           /\ \A e \in replica \cap EditsOf(r) : \E j \in DOMAIN bus' : e \in bus'[j].holds
<1>1. /\ Told(r, replica) \in Event
      /\ Told(r, replica).record = r
      /\ Told(r, replica).holds = replica \cap EditsOf(r)
  BY EventType
<1>2. /\ bus' \in Seq(Event)
      /\ \A i \in DOMAIN bus : \/ \E j \in DOMAIN bus' : bus'[j] = bus[i]
                               \/ bus[i].holds \subseteq Dropped
      /\ \E j \in DOMAIN bus' : bus'[j] = Told(r, replica)
      /\ \A j \in DOMAIN bus' : \/ bus'[j] = Told(r, replica)
                                \/ \E i \in DOMAIN bus : bus'[j] = bus[i]
  BY <1>1, Sending DEF Inductive
<1>3. EventsAreApart'
  <2> SUFFICES ASSUME NEW j \in DOMAIN bus' PROVE bus'[j].holds \subseteq EditsOf(bus'[j].record)
    BY DEF EventsAreApart, EditsOf
  <2> QED BY <1>1, <1>2 DEF Inductive, EventsAreApart
<1> QED BY <1>1, <1>2, <1>3

-----------------------------------------------------------------------------
(* The replicas.                                                           *)

LEMMA ReplicasMove ==
    ASSUME Inductive, UNCHANGED <<cursors, report, bus, engine, past, crashes>>,
           byHost \subseteq byHost', \A e \in made : e \in Replica' => e \in Replica
    PROVE  /\ EventsAreApart' /\ MarksAreOfRuns' /\ PassedIsAccounted' /\ MarksKept' /\ FiresOnce'
           /\ Passed' = Passed
<1>1. Passed' = Passed
  BY DEF Passed, Covered, SavedCovered, Since, cursors
<1>2. EventsAreApart'
  BY DEF Inductive, EventsAreApart, EditsOf
<1>3. MarksAreOfRuns' /\ MarksKept' /\ FiresOnce'
  BY EngineStays DEF past
<1>4. \A e : Carried(e)' <=> Carried(e)
  BY DEF Carried, InReport, engine
<1>5. told' = told /\ lost' = lost
  BY DEF past
<1>6. \A e \in Edit : told[e] \in Nat /\ told[e] >= told[e]
  BY DEF Inductive, TypeOK
<1>7. PassedIsAccounted'
  BY <1>1, <1>4, <1>5, <1>6, Accounts
<1> QED BY <1>1, <1>2, <1>3, <1>7

LEMMA InductiveOpenEditor == ASSUME Inductive, OpenEditor PROVE Inductive'
<1> USE DEF Inductive
<1>1. /\ live' = file /\ live = None
      /\ UNCHANGED <<made, byHost, file, headless, cursors, watch, report, hosting, bus, engine,
                     past, counts>>
  BY DEF OpenEditor
<1>2. TypeOK'
  BY <1>1 DEF TypeOK, cursors, watch, engine, past, counts
<1>3. Replica' = Replica
  BY <1>1 DEF Replica
<1>4. /\ EventsAreApart' /\ MarksAreOfRuns' /\ PassedIsAccounted' /\ MarksKept' /\ FiresOnce'
      /\ Passed' = Passed
  BY <1>1, <1>3, ReplicasMove DEF counts
<1>5. ReplicasGrow'
  BY <1>1, <1>4 DEF ReplicasGrow
<1>6. ReplicasAreWhole' /\ StepsInOrder'
  BY <1>1 DEF ReplicasAreWhole, Whole, StepsInOrder
<1> QED BY <1>2, <1>4, <1>5, <1>6

\* A replica with an edit more holds no more of what was made before, and is whole.
LEMMA Editing ==
    ASSUME Inductive, NEW e \in Edit, MayEdit(e)
    PROVE  /\ Replica \cup {e} \in Version /\ made \cup {e} \in Version
           /\ Whole(Replica \cup {e})
           /\ \A d \in made : d \in Replica \cup {e} => d \in Replica
<1>1. Whole(Replica) /\ Replica \in Version /\ made \in Version
  BY ReplicaType DEF Inductive, TypeOK
<1>2. ASSUME NEW r \in Record, <<r, "fill">> \in Replica \cup {e}
      PROVE  <<r, "create">> \in Replica \cup {e}
  <2>1. CASE <<r, "fill">> = e
    <3>1. e[1] = r /\ e[2] = "fill"
      BY <2>1
    <3> QED BY <3>1 DEF MayEdit
  <2>2. CASE <<r, "fill">> \in Replica
    BY <1>1, <2>2 DEF Whole
  <2> QED BY <1>2, <2>1, <2>2
<1>3. \A d \in made : d \in Replica \cup {e} => d \in Replica
  BY DEF MayEdit
<1> QED BY <1>1, <1>2, <1>3 DEF Whole, Version

LEMMA InductiveEditLive ==
    ASSUME Inductive, NEW e \in Edit, EditLive(e)
    PROVE  Inductive'
<1> USE DEF Inductive
<1>1. /\ live # None /\ MayEdit(e) /\ Replica = live
      /\ made' = made \cup {e} /\ live' = live \cup {e} /\ timer' = TRUE
      /\ UNCHANGED <<byHost, file, headless, cursors, saves, report, hosting, bus, engine, past,
                     counts>>
  BY DEF EditLive, Replica
<1>2. /\ live \cup {e} \in Version /\ made \cup {e} \in Version
      /\ Whole(live \cup {e})
      /\ \A d \in made : d \in live \cup {e} => d \in live
  BY <1>1, Editing
<1>3. TypeOK'
  BY <1>1, <1>2 DEF TypeOK, cursors, engine, past, counts
<1>4. \A d \in made : d \in Replica' => d \in Replica
  BY <1>1, <1>2, ReplicaType DEF Replica
<1>5. /\ EventsAreApart' /\ MarksAreOfRuns' /\ PassedIsAccounted' /\ MarksKept' /\ FiresOnce'
      /\ Passed' = Passed
  BY <1>1, <1>4, ReplicasMove DEF counts
<1>6. ReplicasGrow'
  BY <1>1, <1>5 DEF ReplicasGrow
<1>7. ReplicasAreWhole' /\ StepsInOrder'
  BY <1>1, <1>2 DEF ReplicasAreWhole, Whole, StepsInOrder
<1> QED BY <1>3, <1>5, <1>6, <1>7

LEMMA InductiveSaveEditor == ASSUME Inductive, SaveEditor PROVE Inductive'
<1> USE DEF Inductive
<1>1. /\ live # None /\ file' = live
      /\ UNCHANGED <<made, byHost, live, headless, cursors, watch, report, hosting, bus, engine,
                     past, counts>>
  BY DEF SaveEditor
<1>2. TypeOK'
  BY <1>1 DEF TypeOK, cursors, watch, engine, past, counts
<1>3. Replica' = Replica
  BY <1>1 DEF Replica
<1>4. /\ EventsAreApart' /\ MarksAreOfRuns' /\ PassedIsAccounted' /\ MarksKept' /\ FiresOnce'
      /\ Passed' = Passed
  BY <1>1, <1>3, ReplicasMove DEF counts
<1>5. ReplicasGrow'
  BY <1>1, <1>4 DEF ReplicasGrow
<1>6. ReplicasAreWhole' /\ StepsInOrder'
  BY <1>1 DEF ReplicasAreWhole, Whole, StepsInOrder
<1> QED BY <1>2, <1>4, <1>5, <1>6

LEMMA InductiveCloseEditor == ASSUME Inductive, CloseEditor PROVE Inductive'
<1> USE DEF Inductive
<1>1. /\ live' = None
      /\ UNCHANGED <<made, byHost, file, headless, cursors, watch, report, hosting, bus, engine,
                     past, counts>>
  BY DEF CloseEditor
<1>2. TypeOK'
  BY <1>1 DEF TypeOK, cursors, watch, engine, past, counts
<1>3. Replica' \subseteq Replica
  BY <1>1, ReplicaType DEF Replica
<1>4. /\ EventsAreApart' /\ MarksAreOfRuns' /\ PassedIsAccounted' /\ MarksKept' /\ FiresOnce'
      /\ Passed' = Passed
  BY <1>1, <1>3, ReplicasMove DEF counts
<1>5. ReplicasGrow'
  BY <1>1, <1>4 DEF ReplicasGrow
<1>6. ReplicasAreWhole' /\ StepsInOrder'
  BY <1>1 DEF ReplicasAreWhole, Whole, StepsInOrder
<1> QED BY <1>2, <1>4, <1>5, <1>6

LEMMA InductiveEditHeadless ==
    ASSUME Inductive, NEW e \in Edit, EditHeadless(e)
    PROVE  Inductive'
<1> USE DEF Inductive
<1>1. /\ live = None /\ MayEdit(e) /\ Replica = file
      /\ made' = made \cup {e} /\ file' = file \cup {e} /\ headless' = file' /\ saves' = saves + 1
      /\ UNCHANGED <<byHost, live, cursors, timer, report, hosting, bus, engine, past, counts>>
  BY DEF EditHeadless, Replica
<1>2. /\ file \cup {e} \in Version /\ made \cup {e} \in Version
      /\ Whole(file \cup {e})
      /\ \A d \in made : d \in file \cup {e} => d \in file
  BY <1>1, Editing
<1>3. TypeOK'
  BY <1>1, <1>2 DEF TypeOK, cursors, engine, past, counts
<1>4. \A d \in made : d \in Replica' => d \in Replica
  BY <1>1, <1>2 DEF Replica
<1>5. /\ EventsAreApart' /\ MarksAreOfRuns' /\ PassedIsAccounted' /\ MarksKept' /\ FiresOnce'
      /\ Passed' = Passed
  BY <1>1, <1>4, ReplicasMove DEF counts
<1>6. ReplicasGrow'
  BY <1>1, <1>5 DEF ReplicasGrow
<1>7. ReplicasAreWhole' /\ StepsInOrder'
  BY <1>1, <1>2 DEF ReplicasAreWhole, Whole, StepsInOrder
<1> QED BY <1>3, <1>5, <1>6, <1>7

-----------------------------------------------------------------------------
(* The host.                                                               *)

\* What an action does that leaves the replicas, the cursors, the bus and the engine alone.
LEMMA StepsGoOn ==
    ASSUME Inductive, UNCHANGED <<documents, cursors, bus, engine, crashes>>,
           told' = told, lost \subseteq lost',
           "marks" \in unsaved' <=> "marks" \in unsaved,
           Passed' \subseteq Passed,
           \A e \in Edit : \A p \in Report : InReport(e, p) => InReport(e, p)' \/ e \in lost'
    PROVE  EventsAreApart' /\ MarksAreOfRuns' /\ PassedIsAccounted' /\ MarksKept' /\ FiresOnce'
<1>1. EventsAreApart'
  BY DEF Inductive, EventsAreApart, EditsOf
<1>2. MarksAreOfRuns' /\ MarksKept' /\ FiresOnce'
  BY EngineStays
<1>3. Replica' = Replica /\ byHost' = byHost
  BY DEF Replica, documents
<1>4. made \subseteq Edit
  BY DEF Inductive, TypeOK, Version
<1>5. \A e \in made : Carried(e) => Carried(e)' \/ e \in lost'
  BY <1>4, CarriedStays DEF engine
<1>6. \A e \in Edit : told[e] \in Nat /\ told[e] >= told[e]
  BY DEF Inductive, TypeOK
<1>7. PassedIsAccounted'
  BY <1>3, <1>5, <1>6, Accounts
<1> QED BY <1>1, <1>2, <1>7

LEMMA InductiveHostBegin ==
    ASSUME Inductive, NEW e \in Edit \cup {None}, HostBegin(e)
    PROVE  Inductive'
<1> USE DEF Inductive
<1>1. /\ hosting' = [step |-> IF cursor = None THEN "prime" ELSE "write", edit |-> e,
                     answer |-> Replica]
      /\ cursor # None => e \in Edit
      /\ overlapped' = (overlapped \/ (cursor = None /\ Reporting))
      /\ UNCHANGED <<documents, cursors, watch, report, bus, engine, told, lost, unsaved, counts>>
  BY DEF HostBegin
<1>2. Replica \in Version /\ Replica \subseteq made
  BY ReplicaType
<1>3. hosting' \in Hostings
  BY <1>1, <1>2 DEF Hostings
<1>4. TypeOK'
  <2>1. overlapped' \in BOOLEAN
    BY <1>1 DEF TypeOK, Reporting
  <2> QED BY <1>1, <1>3, <2>1 DEF TypeOK, documents, cursors, watch, engine, counts
<1>5. Passed' = Passed
  BY <1>1 DEF Passed, Covered, SavedCovered, Since, cursors
<1>6. EventsAreApart' /\ MarksAreOfRuns' /\ PassedIsAccounted' /\ MarksKept' /\ FiresOnce'
  <2>1. \A d, p : InReport(d, p) => InReport(d, p)'
    BY <1>1 DEF InReport
  <2> QED BY <1>1, <1>5, <2>1, StepsGoOn DEF counts
<1>7. ReplicasGrow'
  BY <1>1, <1>2, <1>5 DEF ReplicasGrow, documents
<1>8. ReplicasAreWhole' /\ StepsInOrder'
  BY <1>1 DEF ReplicasAreWhole, Whole, StepsInOrder, documents
<1> QED BY <1>4, <1>6, <1>7, <1>8

\* Going past a version keeps what the cursors pass within it and what they passed.
LEMMA Setting ==
    ASSUME Inductive, NEW version \in Version, SetVersion(version)
    PROVE  /\ Covered' \subseteq version /\ SavedCovered' \subseteq version \cup SavedCovered
           /\ cursor' \in Version \cup {None} /\ savedCursor' \in Version \cup {None}
           /\ unsaved' \subseteq {"cursor", "marks"} /\ failures' \in Nat
           /\ "marks" \in unsaved' <=> "marks" \in unsaved
<1>1. cursor' = version
  BY DEF SetVersion
<1>2. \/ savedCursor' \in {version, savedCursor} /\ unsaved' = unsaved /\ failures' = failures
      \/ savedCursor' = savedCursor /\ unsaved' = unsaved \cup {"cursor"} /\ failures' = failures + 1
  BY DEF SetVersion
<1>3. Covered' \subseteq version /\ SavedCovered' \subseteq version \cup SavedCovered
  BY <1>1, <1>2 DEF Covered, SavedCovered
<1>4. /\ cursor' \in Version \cup {None} /\ savedCursor' \in Version \cup {None}
      /\ unsaved' \subseteq {"cursor", "marks"} /\ failures' \in Nat
  <2>1. /\ cursor \in Version \cup {None} /\ savedCursor \in Version \cup {None}
        /\ unsaved \subseteq {"cursor", "marks"} /\ failures \in Nat
    BY DEF Inductive, TypeOK
  <2>2. failures' \in Nat
    BY <1>2, <2>1
  <2> QED BY <1>1, <1>2, <2>1, <2>2
<1>5. "marks" \in unsaved' <=> "marks" \in unsaved
  BY <1>2
<1> QED BY <1>3, <1>4, <1>5

LEMMA InductiveHostPrime == ASSUME Inductive, HostPrime PROVE Inductive'
<1> USE DEF Inductive
<1>1. /\ SetVersion(hosting.answer)
      /\ lost' = lost \cup (hosting.answer \ Covered)
      /\ hosting' = IF hosting.edit = None THEN NoHosting ELSE [hosting EXCEPT !.step = "write"]
      /\ UNCHANGED <<documents, watch, report, bus, engine, told, overlapped, crashes>>
  BY DEF HostPrime
<1>2. hosting \in Hostings /\ hosting.answer \in Version /\ hosting.edit \in Edit \cup {None}
  BY DEF TypeOK, Hostings
<1>3. /\ hosting' \in Hostings /\ hosting'.answer \subseteq hosting.answer
      /\ hosting'.step \in {"write", "publish"} => hosting'.edit \in Edit
  BY <1>1, <1>2 DEF Hostings, NoHosting, Version
<1>4. /\ Covered' \subseteq hosting.answer /\ SavedCovered' \subseteq hosting.answer \cup SavedCovered
      /\ cursor' \in Version \cup {None} /\ savedCursor' \in Version \cup {None}
      /\ unsaved' \subseteq {"cursor", "marks"} /\ failures' \in Nat
      /\ "marks" \in unsaved' <=> "marks" \in unsaved
  BY <1>1, <1>2, Setting
<1>5. TypeOK'
  <2>1. lost' \in Version
    BY <1>1, <1>2 DEF TypeOK, Version
  <2> QED BY <1>1, <1>3, <1>4, <2>1 DEF TypeOK, documents, watch, engine
<1>6. Passed' \subseteq Passed \cup hosting.answer
  BY <1>1, <1>4 DEF Passed, Since
<1>7. \A e \in Passed' \ byHost' : e \in Passed \/ Accounted(e)'
  BY <1>1, <1>6 DEF Passed, Accounted
<1>8. PassedIsAccounted'
  <2>1. Replica' = Replica /\ byHost' = byHost
    BY <1>1 DEF Replica, documents
  <2>2. \A e : Carried(e) => Carried(e)'
    BY <1>1 DEF Carried, InReport, engine
  <2>3. \A e \in Edit : told[e] \in Nat /\ told[e] >= told[e]
    BY DEF TypeOK
  <2> QED BY <1>1, <1>7, <2>1, <2>2, <2>3, Accounts
<1>9. ReplicasGrow'
  BY <1>1, <1>3, <1>6 DEF ReplicasGrow, documents
<1>10. ReplicasAreWhole' /\ StepsInOrder' /\ EventsAreApart'
  BY <1>1, <1>3 DEF ReplicasAreWhole, Whole, StepsInOrder, documents, EventsAreApart, EditsOf
<1>11. MarksAreOfRuns' /\ MarksKept' /\ FiresOnce'
  BY <1>1, <1>4, EngineStays
<1> QED BY <1>5, <1>8, <1>9, <1>10, <1>11

\* The host's edit, whether or not it is heard of.
LEMMA InductiveHostWrite == ASSUME Inductive, HostWrite \/ HostUnheard PROVE Inductive'
<1> USE DEF Inductive
<1> DEFINE e == hosting.edit
<1>1. /\ hosting.step = "write" /\ MayEdit(e) /\ e \in Edit
      /\ made' = made \cup {e} /\ byHost' = byHost \cup {e}
      /\ \/ hosting' = [hosting EXCEPT !.step = "publish", !.answer = Replica \cup {e}]
         \/ hosting' = NoHosting
      /\ failures' \in {failures, failures + 1} /\ saves' \in {saves, saves + 1}
      /\ UNCHANGED <<cursors, report, bus, engine, past, crashes>>
  BY DEF HostWrite, HostUnheard, HostMakes, StepsInOrder, counts
<1>2. \/ /\ live # None
         /\ live' = live \cup {e}
         /\ file' = IF file = live THEN live' ELSE file
         /\ timer' = TRUE /\ UNCHANGED headless
      \/ /\ live = None
         /\ file' = file \cup {e} /\ headless' = file'
         /\ UNCHANGED <<live, timer>>
  BY DEF HostWrite, HostUnheard, HostMakes
<1>3. /\ Replica \cup {e} \in Version /\ made \cup {e} \in Version
      /\ Whole(Replica \cup {e})
      /\ \A d \in made : d \in Replica \cup {e} => d \in Replica
  BY <1>1, Editing
<1>4. Replica \in Version /\ Replica \subseteq made
  BY ReplicaType
<1> HIDE DEF e
<1>5. /\ live' \in Version \cup {None} /\ file' \in Version /\ headless' \in Version
      /\ timer' \in BOOLEAN
      /\ file' \subseteq Replica \cup {e} /\ headless' \subseteq file'
      /\ live' # None => file' \subseteq live' /\ live' \subseteq Replica \cup {e}
      /\ Whole(file') /\ Whole(headless') /\ (live' # None => Whole(live'))
  <2>1. CASE live # None
    <3>1. /\ Replica = live /\ live' = live \cup {e} /\ timer' = TRUE
          /\ file' = IF file = live THEN live' ELSE file
          /\ UNCHANGED headless
      BY <1>2, <2>1 DEF Replica
    <3>2. file' \in {live \cup {e}, file} /\ file \subseteq live
      BY <2>1, <3>1 DEF ReplicasGrow
    <3>3. Whole(file') /\ Whole(headless') /\ Whole(live')
      BY <1>3, <3>1, <3>2 DEF ReplicasAreWhole
    <3> QED BY <1>3, <3>1, <3>2, <3>3 DEF TypeOK, ReplicasGrow
  <2>2. CASE live = None
    <3>1. /\ Replica = file /\ live' = None
          /\ file' = file \cup {e} /\ headless' = file'
          /\ timer' = timer
      BY <1>2, <2>2 DEF Replica
    <3> QED BY <1>3, <3>1 DEF TypeOK
  <2> QED BY <2>1, <2>2
<1>6. /\ hosting' \in Hostings /\ hosting'.answer \subseteq Replica \cup {e}
      /\ hosting'.step # "idle" => hosting'.edit = hosting.edit
  <2>0. hosting \in Hostings
    BY DEF TypeOK
  <2>1. CASE hosting' = [hosting EXCEPT !.step = "publish", !.answer = Replica \cup {e}]
    BY <1>3, <2>0, <2>1 DEF Hostings
  <2>2. CASE hosting' = NoHosting
    BY <2>2 DEF Hostings, NoHosting, Version
  <2> QED BY <1>1, <2>1, <2>2
<1>7. TypeOK'
  <2>1. byHost' \in Version
    BY <1>1 DEF TypeOK, Version
  <2>2. failures' \in Nat /\ saves' \in Nat
    BY <1>1 DEF TypeOK
  <2> QED BY <1>1, <1>3, <1>5, <1>6, <2>1, <2>2 DEF TypeOK, cursors, engine, past
<1>8. \A d \in made : d \in Replica' => d \in Replica
  <2>1. Replica' \subseteq Replica \cup {e}
    BY <1>5 DEF Replica
  <2> QED BY <1>3, <2>1
<1>9. /\ EventsAreApart' /\ MarksAreOfRuns' /\ PassedIsAccounted' /\ MarksKept' /\ FiresOnce'
      /\ Passed' = Passed
  BY <1>1, <1>8, ReplicasMove
<1>10. ReplicasGrow'
  BY <1>1, <1>4, <1>5, <1>6, <1>9 DEF ReplicasGrow
<1>11. ReplicasAreWhole'
  BY <1>1, <1>5 DEF ReplicasAreWhole, Whole
<1>12. StepsInOrder'
  BY <1>1, <1>6 DEF StepsInOrder, e
<1> QED BY <1>7, <1>9, <1>10, <1>11, <1>12

LEMMA InductiveHostFails == ASSUME Inductive, HostFails PROVE Inductive'
<1> USE DEF Inductive
<1>1. /\ hosting' = NoHosting /\ failures' \in Nat
      /\ UNCHANGED <<documents, cursors, watch, report, bus, engine, past, crashes>>
  BY RecordTriggersAssumption DEF HostFails, TypeOK
<1>2. hosting' \in Hostings /\ hosting'.answer = {} /\ hosting'.step = "idle"
  BY <1>1 DEF Hostings, NoHosting, Version
<1>3. TypeOK'
  BY <1>1, <1>2 DEF TypeOK, documents, cursors, watch, engine, past
<1>4. Passed' = Passed
  BY <1>1 DEF Passed, Covered, SavedCovered, Since, cursors
<1>5. EventsAreApart' /\ MarksAreOfRuns' /\ PassedIsAccounted' /\ MarksKept' /\ FiresOnce'
  <2>1. \A d, p : InReport(d, p) => InReport(d, p)'
    BY <1>1 DEF InReport
  <2> QED BY <1>1, <1>4, <2>1, StepsGoOn DEF past
<1>6. ReplicasGrow'
  BY <1>1, <1>2, <1>4 DEF ReplicasGrow, documents
<1>7. ReplicasAreWhole' /\ StepsInOrder'
  BY <1>1, <1>2 DEF ReplicasAreWhole, Whole, StepsInOrder, documents
<1> QED BY <1>3, <1>5, <1>6, <1>7

LEMMA InductiveHostPublish == ASSUME Inductive, HostPublish PROVE Inductive'
<1> USE DEF Inductive
<1> DEFINE r == hosting.edit[1]
<1>1. /\ hosting.edit \in Edit
      /\ Send(Told(r, hosting.answer))
      /\ lost' = lost \cup Dropped
      /\ hosting' = NoHosting
      /\ UNCHANGED <<documents, cursors, watch, report, engine, told, overlapped, unsaved, counts>>
  BY DEF HostPublish, StepsInOrder
<1>2. r \in Record /\ hosting.answer \in Version
  BY <1>1 DEF Edit, TypeOK, Hostings
<1>3. /\ bus' \in Seq(Event)
      /\ EventsAreApart'
      /\ \A e : (\E i \in DOMAIN bus : e \in bus[i].holds) =>
             (\E j \in DOMAIN bus' : e \in bus'[j].holds) \/ e \in lost'
  BY <1>1, <1>2, SendingKeeps
<1>4. hosting' \in Hostings /\ hosting'.answer = {} /\ hosting'.step = "idle"
  BY <1>1 DEF Hostings, NoHosting, Version
<1>5. Dropped \in Version
  BY DroppedType
<1>6. TypeOK'
  <2>1. lost' \in Version
    BY <1>1, <1>5 DEF TypeOK, Version
  <2> QED BY <1>1, <1>3, <1>4, <2>1 DEF TypeOK, documents, cursors, watch, engine, counts
<1>7. Passed' = Passed
  BY <1>1 DEF Passed, Covered, SavedCovered, Since, cursors
<1>8. PassedIsAccounted'
  <2>1. Replica' = Replica /\ byHost' = byHost
    BY <1>1 DEF Replica, documents
  <2>2. \A e : Carried(e) => Carried(e)' \/ e \in lost'
    BY <1>1, <1>3 DEF Carried, InReport, engine
  <2>3. \A e \in Edit : told[e] \in Nat /\ told[e] >= told[e]
    BY DEF TypeOK
  <2> QED BY <1>1, <1>7, <2>1, <2>2, <2>3, Accounts
<1>9. ReplicasGrow'
  BY <1>1, <1>4, <1>7 DEF ReplicasGrow, documents
<1>10. ReplicasAreWhole' /\ StepsInOrder'
  BY <1>1, <1>4 DEF ReplicasAreWhole, Whole, StepsInOrder, documents
<1>11. MarksAreOfRuns' /\ MarksKept' /\ FiresOnce'
  BY <1>1, EngineStays DEF counts
<1> QED BY <1>3, <1>6, <1>8, <1>9, <1>10, <1>11

-----------------------------------------------------------------------------
(* The reports.                                                            *)

\* What a report may become.
Follows(r, x) ==
    /\ x \in Reports
    /\ x.answer \subseteq made /\ Whole(x.answer)
    /\ x.since = None \/ x.since = report[r].since \/ x.since = cursor
    /\ x.step = "set" => x.since # None

LEMMA ReportChanges ==
    ASSUME Inductive, NEW r \in Report, NEW x, Follows(r, x), report' = [report EXCEPT ![r] = x]
    PROVE  /\ report' \in [Report -> Reports] /\ report'[r] = x
           /\ \A q \in Report : q # r => report'[q] = report[q]
           /\ \A q \in Report : Since(q)' \subseteq Passed
           /\ \A q \in Report : /\ report'[q].answer \subseteq made /\ Whole(report'[q].answer)
                                /\ report'[q].step = "set" => report'[q].since # None
<1>1. report \in [Report -> Reports] /\ x \in Reports
  BY DEF Inductive, TypeOK, Follows
<1>2. /\ report' \in [Report -> Reports] /\ report'[r] = x
      /\ \A q \in Report : q # r => report'[q] = report[q]
  BY <1>1
<1>3. ASSUME NEW q \in Report PROVE Since(q)' \subseteq Passed
  <2>1. CASE q = r
    BY <1>2, <2>1 DEF Since, Passed, Covered, Follows
  <2>2. CASE q # r
    BY <1>2, <2>2 DEF Since, Passed
  <2> QED BY <2>1, <2>2
<1>4. ASSUME NEW q \in Report
      PROVE  /\ report'[q].answer \subseteq made /\ Whole(report'[q].answer)
             /\ report'[q].step = "set" => report'[q].since # None
  <2>1. CASE q = r
    BY <1>2, <2>1 DEF Follows
  <2>2. CASE q # r
    BY <1>2, <2>2 DEF Inductive, ReplicasGrow, ReplicasAreWhole, StepsInOrder
  <2> QED BY <2>1, <2>2
<1> QED BY <1>2, <1>3, <1>4

\* The parts of the invariant that a report's steps keep, whatever becomes of the cursors.
LEMMA ReportKeeps ==
    ASSUME Inductive, NEW r \in Report, NEW x, Follows(r, x), report' = [report EXCEPT ![r] = x],
           UNCHANGED <<documents, hosting>>, Covered' \cup SavedCovered' \subseteq made
    PROVE  ReplicasGrow' /\ ReplicasAreWhole' /\ StepsInOrder'
<1>1. /\ \A q \in Report : Since(q)' \subseteq Passed
      /\ \A q \in Report : /\ report'[q].answer \subseteq made /\ Whole(report'[q].answer)
                           /\ report'[q].step = "set" => report'[q].since # None
  BY ReportChanges
<1>2. Passed' \subseteq made
  BY <1>1 DEF Passed, Inductive, ReplicasGrow
<1>3. ReplicasGrow'
  BY <1>1, <1>2 DEF Inductive, ReplicasGrow, documents
<1>4. ReplicasAreWhole'
  BY <1>1 DEF Inductive, ReplicasAreWhole, Whole, documents
<1>5. StepsInOrder'
  BY <1>1 DEF Inductive, StepsInOrder
<1> QED BY <1>3, <1>4, <1>5

\* And all of it, when the cursors, the bus and the engine are left alone.
LEMMA ReportGoesOn ==
    ASSUME Inductive, NEW r \in Report, NEW x, Follows(r, x), report' = [report EXCEPT ![r] = x],
           UNCHANGED <<documents, hosting, cursors, bus, engine, unsaved, crashes>>,
           told' = told, lost \subseteq lost',
           \A e \in Edit : InReport(e, r) => InReport(e, r)' \/ e \in lost'
    PROVE  /\ ReplicasGrow' /\ ReplicasAreWhole' /\ StepsInOrder'
           /\ EventsAreApart' /\ MarksAreOfRuns' /\ PassedIsAccounted' /\ MarksKept' /\ FiresOnce'
           /\ report' \in [Report -> Reports]
<1>1. /\ report' \in [Report -> Reports]
      /\ \A q \in Report : q # r => report'[q] = report[q]
      /\ \A q \in Report : Since(q)' \subseteq Passed
  BY ReportChanges
<1>2. Covered' = Covered /\ SavedCovered' = SavedCovered
  BY DEF Covered, SavedCovered, cursors
<1>3. ReplicasGrow' /\ ReplicasAreWhole' /\ StepsInOrder'
  BY <1>2, ReportKeeps DEF Inductive, ReplicasGrow, Passed
<1>4. Passed' \subseteq Passed
  BY <1>1, <1>2 DEF Passed
<1>5. \A e \in Edit : \A p \in Report : InReport(e, p) => InReport(e, p)' \/ e \in lost'
  BY <1>1 DEF InReport
<1>6. EventsAreApart' /\ MarksAreOfRuns' /\ PassedIsAccounted' /\ MarksKept' /\ FiresOnce'
  BY <1>4, <1>5, StepsGoOn
<1> QED BY <1>1, <1>3, <1>6

LEMMA NoReportFollows == ASSUME NEW r \in Report PROVE Follows(r, NoReport)
BY DEF Follows, NoReport, Reports, Version, Whole

LEMMA AskedType ==
    ASSUME Inductive, NEW r \in Report
    PROVE  Asked(r) \in Version /\ Asked(r) \subseteq made /\ Whole(Asked(r))
<1>1. Replica \in Version /\ Replica \subseteq made /\ Whole(Replica)
  BY ReplicaType
<1>2. headless \in Version /\ headless \subseteq made /\ Whole(headless)
  BY DEF Inductive, TypeOK, ReplicasGrow, ReplicasAreWhole
<1> QED BY <1>1, <1>2 DEF Asked

LEMMA InductiveBegin ==
    ASSUME Inductive, NEW r \in Report, NEW of \in {"live", "saved"}, Begin(r, of)
    PROVE  Inductive'
<1> DEFINE x == [NoReport EXCEPT !.step = "ask", !.of = of, !.since = cursor]
<1>1. /\ report[r].step = "idle"
      /\ report' = [report EXCEPT ![r] = x]
      /\ overlapped' \in BOOLEAN /\ timer' \in BOOLEAN /\ saves' \in Nat
      /\ UNCHANGED <<documents, cursors, hosting, bus, engine, told, lost, unsaved, counts>>
  <2>0. timer \in BOOLEAN /\ saves \in Nat
    BY DEF Inductive, TypeOK
  <2>1. timer' \in BOOLEAN /\ saves' \in Nat
    <3>1. CASE timer' = FALSE /\ saves' = saves
      BY <2>0, <3>1
    <3>2. CASE saves > 0 /\ saves' = saves - 1 /\ timer' = timer
      BY <2>0, <3>2
    <3> QED BY <3>1, <3>2 DEF Begin
  <2>2. overlapped' \in BOOLEAN
    BY DEF Begin
  <2> QED BY <2>1, <2>2 DEF Begin
<1>2. /\ NoReport \in Reports /\ cursor \in Version \cup {None}
      /\ NoReport.answer = {}
  BY DEF NoReport, Reports, Version, Inductive, TypeOK
<1>0. /\ x \in Reports /\ x.step = "ask" /\ x.since = cursor
      /\ x.answer = {}
  BY <1>2 DEF Reports
<1>3. Follows(r, x)
  BY <1>0 DEF Follows, Whole
<1> HIDE DEF x
<1>4. \A e \in Edit : ~InReport(e, r)
  BY <1>1 DEF InReport
<1>5. /\ ReplicasGrow' /\ ReplicasAreWhole' /\ StepsInOrder'
      /\ EventsAreApart' /\ MarksAreOfRuns' /\ PassedIsAccounted' /\ MarksKept' /\ FiresOnce'
      /\ report' \in [Report -> Reports]
  BY <1>1, <1>3, <1>4, ReportGoesOn DEF counts
<1>6. TypeOK'
  BY <1>1, <1>5 DEF Inductive, TypeOK, documents, cursors, engine, counts
<1> QED BY <1>5, <1>6 DEF Inductive

\* The steps of a report that leave everything else as it is.
LEMMA InductiveStep ==
    ASSUME Inductive, NEW r \in Report, NEW x, Follows(r, x), report' = [report EXCEPT ![r] = x],
           UNCHANGED <<documents, cursors, watch, hosting, bus, engine, told, overlapped, unsaved,
                       crashes>>,
           lost \subseteq lost', lost' \in Version, failures' \in Nat,
           \A e \in Edit : InReport(e, r) => InReport(e, r)' \/ e \in lost'
    PROVE  Inductive'
<1>1. /\ ReplicasGrow' /\ ReplicasAreWhole' /\ StepsInOrder'
      /\ EventsAreApart' /\ MarksAreOfRuns' /\ PassedIsAccounted' /\ MarksKept' /\ FiresOnce'
      /\ report' \in [Report -> Reports]
  BY ReportGoesOn
<1>2. TypeOK'
  BY <1>1 DEF Inductive, TypeOK, documents, cursors, watch, engine
<1> QED BY <1>1, <1>2 DEF Inductive

LEMMA Failing == ASSUME Inductive PROVE failures \in Nat /\ failures + 1 \in Nat /\ lost \in Version
BY DEF Inductive, TypeOK

LEMMA InductiveAsk ==
    ASSUME Inductive, NEW r \in Report, Ask(r) \/ AskAgain(r)
    PROVE  Inductive'
<1>1. PICK s \in {"first", "set", "again"} :
          /\ report' = [report EXCEPT ![r].answer = Asked(r), ![r].step = s]
          /\ s = "set" => report[r].since # None
  BY DEF Ask, AskAgain
<1> DEFINE x == [report[r] EXCEPT !.answer = Asked(r), !.step = s]
<1>2. /\ report[r].step \in {"ask", "again"}
      /\ UNCHANGED <<documents, cursors, watch, hosting, bus, engine, past, counts>>
  BY DEF Ask, AskAgain
<1>3. report \in [Report -> Reports] /\ report[r] \in Reports
  BY DEF Inductive, TypeOK
<1>4. report' = [report EXCEPT ![r] = x]
  BY <1>1, <1>3
<1>5. x \in Reports /\ x.answer = Asked(r) /\ x.since = report[r].since /\ x.step = s
  BY <1>3, AskedType DEF Reports
<1>6. Follows(r, x)
  BY <1>1, <1>5, AskedType DEF Follows
<1> HIDE DEF x
<1>7. \A e \in Edit : ~InReport(e, r)
  BY <1>2 DEF InReport
<1> QED BY <1>2, <1>4, <1>6, <1>7, InductiveStep, Failing DEF past, counts

\* A report that ends before it has anything to tell, or counts it as lost.
LEMMA InductiveEnds ==
    ASSUME Inductive, NEW r \in Report, Ended(r),
           UNCHANGED <<documents, cursors, watch, hosting, bus, engine, told, overlapped, unsaved,
                       crashes>>,
           failures' \in Nat,
           \/ report[r].step \notin {"list", "publish"} /\ lost' = lost
           \/ lost' = lost \cup report[r].todo
    PROVE  Inductive'
<1>1. Follows(r, NoReport)
  BY NoReportFollows
<1>2. \A e \in Edit : InReport(e, r) => e \in lost'
  BY DEF InReport
<1>3. lost \subseteq lost' /\ lost' \in Version
  BY TypesOfReports DEF Inductive, TypeOK, Version
<1>4. report' = [report EXCEPT ![r] = NoReport]
  BY DEF Ended
<1> QED BY <1>1, <1>2, <1>3, <1>4, InductiveStep

LEMMA InductiveAskFails ==
    ASSUME Inductive, NEW r \in Report, AskFails(r)
    PROVE  Inductive'
<1>1. /\ report[r].step \in {"ask", "again"}
      /\ failures' = failures + 1
      /\ UNCHANGED <<documents, cursors, watch, hosting, bus, engine, past, crashes>>
  BY DEF AskFails
<1>2. CASE report[r].step = "ask"
  <2> DEFINE x == [report[r] EXCEPT !.step = "again"]
  <2>1. report \in [Report -> Reports] /\ report[r] \in Reports
    BY DEF Inductive, TypeOK
  <2>2. report' = [report EXCEPT ![r] = x]
    BY <1>2, <2>1 DEF AskFails
  <2>3. x \in Reports /\ x.answer = report[r].answer /\ x.since = report[r].since /\ x.step = "again"
    BY <2>1 DEF Reports
  <2>4. Follows(r, x)
    BY <2>3 DEF Follows, Inductive, ReplicasGrow, ReplicasAreWhole
  <2> HIDE DEF x
  <2>5. \A e \in Edit : ~InReport(e, r)
    BY <1>1 DEF InReport
  <2> QED BY <1>1, <2>2, <2>4, <2>5, InductiveStep, Failing DEF past
<1>3. CASE report[r].step # "ask"
  BY <1>1, <1>3, InductiveEnds, Failing DEF AskFails, past
<1> QED BY <1>2, <1>3

LEMMA InductiveDocumentClosed ==
    ASSUME Inductive, NEW r \in Report, DocumentClosed(r)
    PROVE  Inductive'
BY InductiveEnds, Failing DEF DocumentClosed, past, counts

\* A report sets the cursor to its answer.
LEMMA ReportSets ==
    ASSUME Inductive, NEW r \in Report, NEW x, Follows(r, x), report' = [report EXCEPT ![r] = x],
           SetVersion(report[r].answer), report[r].step \notin {"list", "publish"},
           UNCHANGED <<documents, watch, hosting, bus, engine, overlapped, crashes>>,
           lost \subseteq lost', lost' \in Version, told' \in [Edit -> Nat],
           \A e \in Edit : told'[e] >= told[e],
           \A e \in report[r].answer \ byHost : e \in Passed \/ Accounted(e)'
    PROVE  Inductive'
<1>1. report[r].answer \in Version /\ report[r].answer \subseteq made
  BY TypesOfReports DEF Inductive, ReplicasGrow
<1>2. /\ Covered' \subseteq report[r].answer /\ SavedCovered' \subseteq report[r].answer \cup SavedCovered
      /\ cursor' \in Version \cup {None} /\ savedCursor' \in Version \cup {None}
      /\ unsaved' \subseteq {"cursor", "marks"} /\ failures' \in Nat
      /\ "marks" \in unsaved' <=> "marks" \in unsaved
  BY <1>1, Setting
<1>3. /\ report' \in [Report -> Reports]
      /\ \A q \in Report : q # r => report'[q] = report[q]
      /\ \A q \in Report : Since(q)' \subseteq Passed
  BY ReportChanges
<1>4. TypeOK'
  BY <1>2, <1>3 DEF Inductive, TypeOK, documents, watch, engine
<1>5. ReplicasGrow' /\ ReplicasAreWhole' /\ StepsInOrder'
  <2>1. SavedCovered \subseteq made
    BY DEF Inductive, ReplicasGrow, Passed
  <2> QED BY <1>1, <1>2, <2>1, ReportKeeps
<1>6. EventsAreApart'
  BY DEF Inductive, EventsAreApart, EditsOf
<1>7. MarksAreOfRuns' /\ MarksKept' /\ FiresOnce'
  BY <1>2, EngineStays
<1>8. PassedIsAccounted'
  <2>1. Passed' \subseteq Passed \cup report[r].answer
    BY <1>2, <1>3 DEF Passed
  <2>2. Replica' = Replica /\ byHost' = byHost
    BY DEF Replica, documents
  <2>3. \A e, p : p \in Report /\ InReport(e, p) => InReport(e, p)'
    BY <1>3 DEF InReport
  <2>4. \A e : Carried(e) => Carried(e)'
    BY <2>3 DEF Carried, engine
  <2>5. \A e \in Edit : told'[e] \in Nat
    OBVIOUS
  <2> QED BY <2>1, <2>2, <2>4, <2>5, Accounts
<1> QED BY <1>4, <1>5, <1>6, <1>7, <1>8 DEF Inductive

LEMMA InductiveStartFromNow ==
    ASSUME Inductive, NEW r \in Report, StartFromNow(r)
    PROVE  Inductive'
<1>1. /\ report[r].step = "first"
      /\ SetVersion(report[r].answer)
      /\ lost' = lost \cup (report[r].answer \ Covered)
      /\ report' = [report EXCEPT ![r] = NoReport]
      /\ UNCHANGED <<documents, watch, hosting, bus, engine, told, overlapped, crashes>>
  BY DEF StartFromNow, Ended
<1>2. lost \subseteq lost' /\ lost' \in Version
  BY <1>1, TypesOfReports DEF Inductive, TypeOK, Version
<1>3. told' \in [Edit -> Nat] /\ \A e \in Edit : told'[e] >= told[e]
  BY <1>1 DEF Inductive, TypeOK
<1>4. \A e \in report[r].answer \ byHost : e \in Passed \/ Accounted(e)'
  BY <1>1 DEF Passed, Accounted
<1> QED BY <1>1, <1>2, <1>3, <1>4, NoReportFollows, ReportSets

LEMMA InductiveSetCursor ==
    ASSUME Inductive, NEW r \in Report, SetCursor(r)
    PROVE  Inductive'
<1> DEFINE x == IF Changes(r) = {} THEN NoReport
                ELSE [report[r] EXCEPT !.step = "list", !.todo = Changes(r)]
<1>0. report \in [Report -> Reports] /\ report[r] \in Reports
  BY DEF Inductive, TypeOK
<1>1. /\ report[r].step = "set"
      /\ SetVersion(report[r].answer)
      /\ told' = [e \in Edit |-> IF e \in Changes(r) THEN told[e] + 1 ELSE told[e]]
      /\ UNCHANGED <<documents, watch, hosting, bus, engine, lost, overlapped, crashes>>
  BY DEF SetCursor
<1>2. report' = [report EXCEPT ![r] = x]
  BY <1>0 DEF SetCursor, Ended
<1>3. report[r].answer \in Version /\ Changes(r) \in Version
  BY TypesOfReports DEF Inductive, Changes, Version
<1>4. /\ Changes(r) # {} => x \in Reports /\ x.step = "list" /\ x.todo = Changes(r)
      /\ Changes(r) # {} => x.answer = report[r].answer /\ x.since = report[r].since
      /\ Changes(r) = {} => x = NoReport
  BY <1>0, <1>3 DEF Reports
<1>5. Follows(r, x)
  <2>1. CASE Changes(r) = {}
    BY <1>4, <2>1, NoReportFollows
  <2>2. CASE Changes(r) # {}
    BY <1>4, <2>2 DEF Follows, Inductive, ReplicasGrow, ReplicasAreWhole
  <2> QED BY <2>1, <2>2
<1> HIDE DEF x
<1>6. told' \in [Edit -> Nat] /\ \A e \in Edit : told'[e] >= told[e]
  BY <1>1 DEF Inductive, TypeOK
<1>7. ASSUME NEW e \in report[r].answer \ byHost
      PROVE  e \in Passed \/ Accounted(e)'
  <2>1. CASE e \in Changes(r)
    <3>1. e \in Edit /\ told'[e] > 0
      BY <1>1, <1>3, <2>1 DEF Inductive, TypeOK, Version
    <3>2. report'[r] = x /\ x.step = "list" /\ x.todo = Changes(r)
      BY <1>0, <1>2, <1>4, <2>1
    <3> QED BY <2>1, <3>1, <3>2 DEF Accounted, Carried, InReport
  <2>2. CASE e \notin Changes(r)
    <3>1. report[r].since # None
      BY <1>1 DEF Inductive, StepsInOrder
    <3> QED BY <2>2, <3>1 DEF Changes, Passed, Since
  <2> QED BY <2>1, <2>2
<1> QED BY <1>1, <1>2, <1>5, <1>6, <1>7, ReportSets, Failing

\* What is on its way is listed if the replica has it; if it has not, it never will again.
LEMMA InductiveListRecords ==
    ASSUME Inductive, NEW r \in Report, ListRecords(r)
    PROVE  Inductive'
<1> DEFINE x == [report[r] EXCEPT !.step = "publish", !.answer = Replica]
<1>0. report \in [Report -> Reports] /\ report[r] \in Reports
  BY DEF Inductive, TypeOK
<1>1. /\ report[r].step = "list"
      /\ report' = [report EXCEPT ![r] = x]
      /\ UNCHANGED <<documents, cursors, watch, hosting, bus, engine, past, counts>>
  BY <1>0 DEF ListRecords
<1>2. Replica \in Version /\ Replica \subseteq made /\ Whole(Replica)
  BY ReplicaType
<1>3. /\ x \in Reports /\ x.answer = Replica /\ x.since = report[r].since /\ x.step = "publish"
      /\ x.todo = report[r].todo
  BY <1>0, <1>2 DEF Reports
<1>4. Follows(r, x)
  BY <1>2, <1>3 DEF Follows
<1> HIDE DEF x
<1>5. /\ report' \in [Report -> Reports] /\ report'[r] = x
      /\ \A q \in Report : q # r => report'[q] = report[q]
      /\ \A q \in Report : Since(q)' \subseteq Passed
  BY <1>1, <1>4, ReportChanges
<1>6. Covered' = Covered /\ SavedCovered' = SavedCovered
  BY <1>1 DEF Covered, SavedCovered, cursors
<1>7. ReplicasGrow' /\ ReplicasAreWhole' /\ StepsInOrder'
  BY <1>1, <1>4, <1>6, ReportKeeps DEF Inductive, ReplicasGrow, Passed
<1>8. TypeOK'
  BY <1>1, <1>5 DEF Inductive, TypeOK, documents, cursors, watch, engine, past, counts
<1>9. EventsAreApart'
  BY <1>1 DEF Inductive, EventsAreApart, EditsOf
<1>10. MarksAreOfRuns' /\ MarksKept' /\ FiresOnce'
  BY <1>1, EngineStays DEF past, counts
<1>11. PassedIsAccounted'
  <2>1. Passed' \subseteq Passed /\ byHost' = byHost /\ Replica' = Replica
    BY <1>1, <1>5, <1>6 DEF Passed, Replica, documents
  <2>2. ASSUME NEW e \in Replica, NEW p \in Report, InReport(e, p) PROVE InReport(e, p)'
    <3>1. CASE p = r
      BY <1>3, <1>5, <2>2, <3>1 DEF InReport
    <3>2. CASE p # r
      BY <1>5, <2>2, <3>2 DEF InReport
    <3> QED BY <3>1, <3>2
  <2>3. \A e \in Replica : Carried(e) => Carried(e)'
    BY <1>1, <2>2 DEF Carried, engine
  <2>4. told' = told /\ lost' = lost
    BY <1>1 DEF past
  <2>5. ASSUME NEW e \in Passed' \ byHost' PROVE Accounted(e)'
    <3>1. Accounted(e)
      BY <2>1, <2>5 DEF Inductive, PassedIsAccounted
    <3> QED BY <2>1, <2>3, <2>4, <3>1 DEF Accounted
  <2> QED BY <2>5 DEF PassedIsAccounted
<1> QED BY <1>7, <1>8, <1>9, <1>10, <1>11 DEF Inductive

LEMMA InductiveListFails ==
    ASSUME Inductive, NEW r \in Report, ListFails(r)
    PROVE  Inductive'
BY InductiveEnds, Failing DEF ListFails

\* The event of a record that is listed holds what the list has of it; what is not listed, with
\* a record's creation, is no fill that was to be told.
LEMMA InductivePublish ==
    ASSUME Inductive, NEW r \in Report, NEW record \in Record, Publish(r, record)
    PROVE  Inductive'
<1> DEFINE rest == report[r].todo \ EditsOf(record)
           x == IF rest = {} THEN NoReport ELSE [report[r] EXCEPT !.todo = rest]
<1>0. /\ report \in [Report -> Reports] /\ report[r] \in Reports
      /\ report[r].answer \in Version /\ report[r].todo \in Version
  BY TypesOfReports DEF Inductive, TypeOK
<1>1. /\ report[r].step = "publish"
      /\ \/ /\ Send(Told(record, report[r].answer))
            /\ lost' = lost \cup Dropped
         \/ /\ <<record, "create">> \notin report[r].answer
            /\ lost' = lost \cup (report[r].todo \cap EditsOf(record))
            /\ bus' = bus
      /\ UNCHANGED <<documents, cursors, watch, hosting, engine, told, overlapped, unsaved, counts>>
  BY DEF Publish
<1>2. report' = [report EXCEPT ![r] = x]
  BY <1>0 DEF Publish, Ended
<1>3. /\ rest # {} => x \in Reports /\ x.answer = report[r].answer /\ x.since = report[r].since
      /\ rest # {} => x.step = "publish" /\ x.todo = rest
      /\ rest = {} => x = NoReport
  BY <1>0, <1>1 DEF Reports, Version
<1>4. Follows(r, x)
  <2>1. CASE rest = {}
    BY <1>3, <2>1, NoReportFollows
  <2>2. CASE rest # {}
    BY <1>3, <2>2 DEF Follows, Inductive, ReplicasGrow, ReplicasAreWhole
  <2> QED BY <2>1, <2>2
<1> HIDE DEF x
<1>5. /\ report' \in [Report -> Reports] /\ report'[r] = x
      /\ \A q \in Report : q # r => report'[q] = report[q]
      /\ \A q \in Report : Since(q)' \subseteq Passed
  BY <1>2, <1>4, ReportChanges
<1>6. Covered' = Covered /\ SavedCovered' = SavedCovered
  BY <1>1 DEF Covered, SavedCovered, cursors
<1>7. ReplicasGrow' /\ ReplicasAreWhole' /\ StepsInOrder'
  BY <1>1, <1>2, <1>4, <1>6, ReportKeeps DEF Inductive, ReplicasGrow, Passed
<1>8. /\ bus' \in Seq(Event) /\ lost' \in Version /\ lost \subseteq lost'
      /\ EventsAreApart'
      /\ \A e : (\E i \in DOMAIN bus : e \in bus[i].holds) =>
             (\E j \in DOMAIN bus' : e \in bus'[j].holds) \/ e \in lost'
      /\ \A e \in report[r].todo \cap EditsOf(record) :
             e \in report[r].answer /\ e[2] = "fill" =>
                 (\E j \in DOMAIN bus' : e \in bus'[j].holds) \/ e \in lost'
  <2>1. CASE Send(Told(record, report[r].answer)) /\ lost' = lost \cup Dropped
    <3>1. lost' \in Version
      BY <2>1, DroppedType DEF Inductive, TypeOK, Version
    <3> QED BY <1>0, <2>1, <3>1, SendingKeeps
  <2>2. CASE /\ lost' = lost \cup (report[r].todo \cap EditsOf(record))
             /\ bus' = bus
    <3>1. lost' \in Version /\ bus' \in Seq(Event)
      BY <1>0, <2>2 DEF Inductive, TypeOK, Version
    <3>2. EventsAreApart'
      BY <2>2 DEF Inductive, EventsAreApart, EditsOf
    <3> QED BY <2>2, <3>1, <3>2
  <2> QED BY <1>1, <2>1, <2>2
<1>9. TypeOK'
  BY <1>1, <1>5, <1>8 DEF Inductive, TypeOK, documents, cursors, watch, engine, counts
<1>10. MarksAreOfRuns' /\ MarksKept' /\ FiresOnce'
  BY <1>1, EngineStays DEF counts
<1>11. ASSUME NEW e \in Edit, e[2] = "fill", Carried(e)
       PROVE  Carried(e)' \/ e \in lost'
  <2>1. CASE e[1] \in marked \/ runs[e[1]] > 0
    BY <1>1, <2>1 DEF Carried, engine
  <2>2. CASE \E i \in DOMAIN bus : e \in bus[i].holds
    BY <1>8, <2>2 DEF Carried
  <2>3. ASSUME NEW p \in Report, InReport(e, p)
        PROVE  Carried(e)' \/ e \in lost'
    <3>1. CASE p # r
      BY <1>5, <2>3, <3>1 DEF Carried, InReport
    <3>2. CASE p = r /\ e \in EditsOf(record)
      BY <1>1, <1>8, <1>11, <2>3, <3>2 DEF Carried, InReport
    <3>3. CASE p = r /\ e \notin EditsOf(record)
      <4>1. e \in rest /\ e \in report[r].answer
        BY <1>1, <2>3, <3>3 DEF InReport
      <4>2. InReport(e, r)'
        BY <1>3, <1>5, <4>1 DEF InReport
      <4> QED BY <4>2 DEF Carried
    <3> QED BY <3>1, <3>2, <3>3
  <2> QED BY <1>11, <2>1, <2>2, <2>3 DEF Carried
<1>12. PassedIsAccounted'
  <2>1. Passed' \subseteq Passed /\ byHost' = byHost /\ Replica' = Replica /\ told' = told
    BY <1>1, <1>5, <1>6 DEF Passed, Replica, documents
  <2>2. ASSUME NEW e \in Passed' \ byHost' PROVE Accounted(e)'
    <3>1. Accounted(e) /\ e \in Edit
      BY <2>1, <2>2 DEF Inductive, PassedIsAccounted, ReplicasGrow, TypeOK, Version
    <3> QED BY <1>8, <1>11, <2>1, <3>1 DEF Accounted
  <2> QED BY <2>2 DEF PassedIsAccounted
<1> QED BY <1>7, <1>8, <1>9, <1>10, <1>12 DEF Inductive

-----------------------------------------------------------------------------
(* The engine.                                                             *)

LEMMA InductiveHandleEvent == ASSUME Inductive, HandleEvent PROVE Inductive'
<1> DEFINE q == Head(bus).record
           filled == <<q, "fill">> \in Head(bus).holds
<1>0. /\ bus \in Seq(Event) /\ bus # <<>> /\ bus' = Tail(bus)
      /\ UNCHANGED <<documents, cursors, watch, report, hosting, runs, told, lost, overlapped,
                     crashes>>
  BY DEF HandleEvent, Inductive, TypeOK
<1>1. \/ /\ filled /\ q \notin marked
         /\ marked' = marked \cup {q} /\ starting' = starting \cup {q}
         /\ \/ savedMarks' = marked' /\ UNCHANGED <<unsaved, failures>>
            \/ /\ failures' = failures + 1 /\ unsaved' = unsaved \cup {"marks"}
               /\ UNCHANGED savedMarks
      \/ /\ ~filled \/ q \in marked
         /\ UNCHANGED <<marked, savedMarks, starting, unsaved, failures>>
  BY DEF HandleEvent, Mark
<1>2. /\ Head(bus) \in Event /\ Head(bus) = bus[1] /\ Tail(bus) \in Seq(Event)
      /\ \A i \in DOMAIN bus : i = 1 \/ \E j \in DOMAIN bus' : bus'[j] = bus[i]
      /\ \A j \in DOMAIN bus' : \E i \in DOMAIN bus : bus'[j] = bus[i]
  <2>1. /\ Len(bus) \in Nat \ {0} /\ Len(bus') = Len(bus) - 1
        /\ \A i \in 1 .. Len(bus) - 1 : bus'[i] = bus[i + 1]
    BY <1>0
  <2>2. ASSUME NEW i \in DOMAIN bus, i # 1 PROVE \E j \in DOMAIN bus' : bus'[j] = bus[i]
    <3>1. i - 1 \in 1 .. Len(bus) - 1 /\ bus'[i - 1] = bus[i]
      BY <1>0, <2>1, <2>2
    <3> QED BY <1>0, <2>1, <3>1
  <2>3. ASSUME NEW j \in DOMAIN bus' PROVE \E i \in DOMAIN bus : bus'[j] = bus[i]
    <3>1. j \in 1 .. Len(bus) - 1 /\ j + 1 \in DOMAIN bus
      BY <1>0, <2>1, <2>3
    <3> QED BY <2>1, <3>1
  <2> QED BY <1>0, <2>2, <2>3
<1>3. q \in Record /\ Head(bus).holds \subseteq EditsOf(q)
  BY <1>0, <1>2 DEF Event, Inductive, EventsAreApart
<1>4. filled => q \in marked'
  BY <1>1
<1> HIDE DEF q, filled
<1>5. TypeOK'
  <2>1. unsaved' \subseteq {"cursor", "marks"} /\ failures' \in Nat
    <3>1. unsaved \subseteq {"cursor", "marks"} /\ failures \in Nat
      BY DEF Inductive, TypeOK
    <3>2. CASE unsaved' = unsaved /\ failures' = failures
      BY <3>1, <3>2
    <3>3. CASE unsaved' = unsaved \cup {"marks"} /\ failures' = failures + 1
      <4>1. failures' \in Nat
        BY <3>1, <3>3
      <4>2. unsaved' \subseteq {"cursor", "marks"}
        BY <3>1, <3>3
      <4> QED BY <4>1, <4>2
    <3> QED BY <1>1, <3>2, <3>3
  <2>2. marked' \subseteq Record /\ savedMarks' \subseteq Record /\ starting' \subseteq Record
    BY <1>1, <1>3 DEF Inductive, TypeOK
  <2> QED BY <1>0, <1>2, <2>1, <2>2 DEF Inductive, TypeOK, documents, cursors, watch
<1>6. Passed' = Passed
  BY <1>0 DEF Passed, Covered, SavedCovered, Since, cursors
<1>7. ReplicasGrow' /\ ReplicasAreWhole' /\ StepsInOrder'
  BY <1>0, <1>6 DEF Inductive, ReplicasGrow, ReplicasAreWhole, Whole, StepsInOrder, documents
<1>8. EventsAreApart'
  BY <1>2 DEF Inductive, EventsAreApart, EditsOf
<1>9. MarksAreOfRuns'
  BY <1>0, <1>1 DEF Inductive, MarksAreOfRuns
<1>10. MarksKept' /\ FiresOnce'
  <2>1. CASE "marks" \in unsaved /\ crashes > 0
    BY <1>0, <1>1, <2>1 DEF MarksKept, FiresOnce
  <2>2. CASE ~("marks" \in unsaved /\ crashes > 0) /\ marked' # marked
    <3>1. /\ q \notin marked /\ marked' = marked \cup {q} /\ starting' = starting \cup {q}
          /\ runs' = runs /\ runs[q] \in Nat
      BY <1>0, <1>1, <1>3, <2>2 DEF Inductive, TypeOK
    <3>2. runs[q] = 0
      BY <1>3, <2>2, <3>1 DEF Inductive, MarksKept
    <3>3. "marks" \notin unsaved' => savedMarks' = marked'
      BY <1>1, <2>2
    <3>4. MarksKept'
      BY <2>2, <3>1, <3>3 DEF Inductive, MarksKept
    <3>5. FiresOnce'
      BY <2>2, <3>1, <3>2 DEF Inductive, FiresOnce
    <3> QED BY <3>4, <3>5
  <2>3. CASE ~("marks" \in unsaved /\ crashes > 0) /\ marked' = marked
    <3>1. UNCHANGED <<marked, savedMarks, starting, unsaved, runs, crashes>>
      BY <1>0, <1>1, <2>3
    <3> QED BY <3>1 DEF Inductive, MarksKept, FiresOnce
  <2> QED BY <2>1, <2>2, <2>3
<1>11. PassedIsAccounted'
  <2>1. ASSUME NEW e \in Edit, e[2] = "fill", Carried(e) PROVE Carried(e)'
    <3>1. marked \subseteq marked'
      BY <1>1
    <3>2. CASE e[1] \in marked \/ runs[e[1]] > 0
      BY <1>0, <3>1, <3>2 DEF Carried
    <3>3. CASE \E p \in Report : InReport(e, p)
      BY <1>0, <3>3 DEF Carried, InReport
    <3>4. ASSUME NEW i \in DOMAIN bus, e \in bus[i].holds PROVE Carried(e)'
      <4>1. CASE i = 1
        <5>1. e \in Head(bus).holds
          BY <1>2, <3>4, <4>1
        <5>2. e[1] = q
          BY <1>3, <5>1 DEF EditsOf
        <5>3. e = <<q, "fill">>
          BY <2>1, <5>2 DEF Edit
        <5> QED BY <1>4, <5>1, <5>2, <5>3 DEF Carried, filled
      <4>2. CASE i # 1
        BY <1>2, <3>4, <4>2 DEF Carried
      <4> QED BY <4>1, <4>2
    <3> QED BY <2>1, <3>2, <3>3, <3>4 DEF Carried
  <2>2. byHost' = byHost /\ Replica' = Replica /\ told' = told /\ lost' = lost
    BY <1>0 DEF Replica, documents
  <2>3. ASSUME NEW e \in Passed' \ byHost' PROVE Accounted(e)'
    <3>1. Accounted(e) /\ e \in Edit
      BY <1>6, <2>2, <2>3 DEF Inductive, PassedIsAccounted, ReplicasGrow, TypeOK, Version
    <3> QED BY <2>1, <2>2, <3>1 DEF Accounted
  <2> QED BY <2>3 DEF PassedIsAccounted
<1> QED BY <1>5, <1>7, <1>8, <1>9, <1>10, <1>11 DEF Inductive

LEMMA InductiveStartRun ==
    ASSUME Inductive, NEW r \in Record, StartRun(r)
    PROVE  Inductive'
<1>1. /\ r \in starting /\ starting' = starting \ {r}
      /\ runs' = [runs EXCEPT ![r] = @ + 1]
      /\ UNCHANGED <<documents, cursors, watch, report, hosting, bus, marked, savedMarks, past,
                     counts>>
  BY DEF StartRun
<1>2. /\ runs \in [Record -> Nat] /\ runs' \in [Record -> Nat]
      /\ runs'[r] = runs[r] + 1 /\ runs'[r] > 0
      /\ \A q \in Record : q # r => runs'[q] = runs[q]
  BY <1>1 DEF Inductive, TypeOK
<1>3. TypeOK'
  BY <1>1, <1>2 DEF Inductive, TypeOK, documents, cursors, watch, past, counts
<1>4. Passed' = Passed
  BY <1>1 DEF Passed, Covered, SavedCovered, Since, cursors
<1>5. ReplicasGrow' /\ ReplicasAreWhole' /\ StepsInOrder'
  BY <1>1, <1>4 DEF Inductive, ReplicasGrow, ReplicasAreWhole, Whole, StepsInOrder, documents
<1>6. EventsAreApart'
  BY <1>1 DEF Inductive, EventsAreApart, EditsOf
<1>7. MarksAreOfRuns'
  <2> SUFFICES ASSUME NEW q \in marked PROVE q \in savedMarks \/ q \in starting' \/ runs'[q] > 0
    BY <1>1 DEF MarksAreOfRuns
  <2>1. q \in Record
    BY DEF Inductive, TypeOK
  <2>2. CASE q = r
    BY <1>2, <2>2
  <2>3. CASE q # r
    BY <1>1, <1>2, <2>1, <2>3 DEF Inductive, MarksAreOfRuns
  <2> QED BY <2>2, <2>3
<1>8. MarksKept' /\ FiresOnce'
  <2>1. CASE "marks" \in unsaved /\ crashes > 0
    BY <1>1, <2>1 DEF MarksKept, FiresOnce, past, counts
  <2>2. CASE ~("marks" \in unsaved /\ crashes > 0)
    <3>1. /\ \A q \in Record : q \in starting \/ runs[q] > 0 => q \in marked
          /\ "marks" \notin unsaved => savedMarks = marked
          /\ \A q \in Record : runs[q] <= 1 /\ (q \in starting => runs[q] = 0)
      BY <2>2 DEF Inductive, MarksKept, FiresOnce
    <3>2. \A q \in Record : q \in starting' \/ runs'[q] > 0 => q \in marked'
      BY <1>1, <1>2, <3>1
    <3>3. \A q \in Record : runs'[q] <= 1 /\ (q \in starting' => runs'[q] = 0)
      BY <1>1, <1>2, <3>1
    <3>4. unsaved' = unsaved /\ savedMarks' = savedMarks /\ marked' = marked
      BY <1>1 DEF past
    <3> QED BY <3>1, <3>2, <3>3, <3>4 DEF MarksKept, FiresOnce
  <2> QED BY <2>1, <2>2
<1>9. PassedIsAccounted'
  <2>1. ASSUME NEW e \in Edit, Carried(e) PROVE Carried(e)'
    <3>1. e[1] \in Record
      BY DEF Edit
    <3>2. runs[e[1]] > 0 => runs'[e[1]] > 0
      BY <1>2, <3>1
    <3> QED BY <1>1, <2>1, <3>2 DEF Carried, InReport
  <2>2. byHost' = byHost /\ Replica' = Replica /\ told' = told /\ lost' = lost
    BY <1>1 DEF Replica, documents, past
  <2>3. ASSUME NEW e \in Passed' \ byHost' PROVE Accounted(e)'
    <3>1. Accounted(e) /\ e \in Edit
      BY <1>4, <2>2, <2>3 DEF Inductive, PassedIsAccounted, ReplicasGrow, TypeOK, Version
    <3> QED BY <2>1, <2>2, <3>1 DEF Accounted
  <2> QED BY <2>3 DEF PassedIsAccounted
<1> QED BY <1>3, <1>5, <1>6, <1>7, <1>8, <1>9 DEF Inductive

\* A restart takes the cursor and the keys of the files, which were passed and run as well.
LEMMA InductiveCrash == ASSUME Inductive, Crash PROVE Inductive'
<1> DEFINE reported == UNION {report[r].todo : r \in Report}
           started == UNION {EditsOf(r) : r \in starting}
           sent == UNION {bus[i].holds : i \in DOMAIN bus}
           gone == reported \cup started \cup sent
<1>1. /\ crashes' = crashes + 1
      /\ live' = None /\ cursor' = savedCursor
      /\ timer' = FALSE /\ saves' = 0
      /\ report' = [r \in Report |-> NoReport] /\ hosting' = NoHosting /\ bus' = <<>>
      /\ marked' = savedMarks /\ starting' = {}
      /\ lost' = lost \cup gone
      /\ UNCHANGED <<made, byHost, file, headless, savedCursor, savedMarks, runs, told, overlapped,
                     unsaved, failures>>
  <2>1. lost' = lost \cup reported \cup started \cup sent
    BY DEF Crash
  <2> HIDE DEF reported, started, sent
  <2>2. lost' = lost \cup gone
    BY <2>1
  <2> QED BY <2>2 DEF Crash
<1>2. NoReport \in Reports /\ NoHosting \in Hostings
  BY DEF NoReport, NoHosting, Reports, Hostings, Version
<1>3. gone \subseteq Edit
  <2>1. reported \subseteq Edit
    <3>1. \A r \in Report : report[r].todo \subseteq Edit
      BY TypesOfReports DEF Inductive, Version
    <3> QED BY <3>1
  <2>2. sent \subseteq Edit
    <3>1. \A i \in DOMAIN bus : bus[i] \in Event
      BY DEF Inductive, TypeOK
    <3>2. \A i \in DOMAIN bus : bus[i].holds \subseteq Edit
      BY <3>1 DEF Event, Version
    <3> QED BY <3>2
  <2>3. started \subseteq Edit
    BY DEF EditsOf
  <2> QED BY <2>1, <2>2, <2>3
<1>4. /\ \A r \in Report : report[r].todo \subseteq gone
      /\ \A i \in DOMAIN bus : bus[i].holds \subseteq gone
      /\ \A r \in starting : EditsOf(r) \subseteq gone
  <2>1. \A r \in Report : report[r].todo \subseteq reported
    OBVIOUS
  <2>2. \A i \in DOMAIN bus : bus[i].holds \subseteq sent
    OBVIOUS
  <2>3. \A r \in starting : EditsOf(r) \subseteq started
    OBVIOUS
  <2> QED BY <2>1, <2>2, <2>3
<1> HIDE DEF gone
<1>5. TypeOK'
  <2>1. lost' \in Version /\ crashes' \in Nat /\ bus' \in Seq(Event)
    BY <1>1, <1>3 DEF Inductive, TypeOK, Version
  <2>2. report' \in [Report -> Reports] /\ hosting' \in Hostings
    BY <1>1, <1>2
  <2> QED BY <1>1, <2>1, <2>2 DEF Inductive, TypeOK
<1>6. \A r \in Report : report'[r].answer = {} /\ report'[r].since = None /\ report'[r].step = "idle"
  BY <1>1 DEF NoReport
<1>7. hosting'.answer = {} /\ hosting'.step = "idle"
  BY <1>1 DEF NoHosting
<1>8. Passed' \subseteq Passed
  BY <1>1, <1>6 DEF Passed, Covered, SavedCovered, Since
<1>9. ReplicasGrow'
  BY <1>1, <1>6, <1>7, <1>8 DEF Inductive, ReplicasGrow
<1>10. ReplicasAreWhole' /\ StepsInOrder'
  BY <1>1, <1>6, <1>7 DEF Inductive, ReplicasAreWhole, Whole, StepsInOrder
<1>11. EventsAreApart' /\ MarksAreOfRuns'
  BY <1>1 DEF EventsAreApart, MarksAreOfRuns
<1>12. MarksKept' /\ FiresOnce'
  <2>1. crashes' > 0
    BY <1>1 DEF Inductive, TypeOK
  <2>2. CASE "marks" \in unsaved
    BY <1>1, <2>1, <2>2 DEF MarksKept, FiresOnce
  <2>3. CASE "marks" \notin unsaved
    BY <1>1, <2>3 DEF Inductive, MarksKept, FiresOnce
  <2> QED BY <2>2, <2>3
<1>13. PassedIsAccounted'
  <2>1. Replica' = file /\ byHost' = byHost /\ told' = told /\ lost \subseteq lost'
    BY <1>1 DEF Replica
  <2>2. ASSUME NEW e \in Edit, Carried(e) PROVE Carried(e)' \/ e \in lost'
    <3>1. CASE e[1] \in marked
      <4>1. e[1] \in savedMarks \/ e[1] \in starting \/ runs[e[1]] > 0
        BY <3>1 DEF Inductive, MarksAreOfRuns
      <4>2. e[1] \in starting => e \in lost'
        BY <1>1, <1>4 DEF EditsOf
      <4> QED BY <1>1, <4>1, <4>2 DEF Carried
    <3>2. CASE runs[e[1]] > 0
      BY <1>1, <3>2 DEF Carried
    <3>3. CASE \E i \in DOMAIN bus : e \in bus[i].holds
      BY <1>1, <1>4, <3>3
    <3>4. CASE \E p \in Report : InReport(e, p)
      BY <1>1, <1>4, <3>4 DEF InReport
    <3> QED BY <2>2, <3>1, <3>2, <3>3, <3>4 DEF Carried
  <2>3. ASSUME NEW e \in Passed' \ byHost' PROVE Accounted(e)'
    <3>1. Accounted(e) /\ e \in Edit /\ file \subseteq Replica
      BY <1>8, <2>1, <2>3, ReplicaType
         DEF Inductive, PassedIsAccounted, ReplicasGrow, TypeOK, Version
    <3> QED BY <2>1, <2>2, <3>1 DEF Accounted
  <2> QED BY <2>3 DEF PassedIsAccounted
<1> QED BY <1>5, <1>9, <1>10, <1>11, <1>12, <1>13 DEF Inductive

-----------------------------------------------------------------------------
(* The theorems.                                                           *)

LEMMA InductiveNext == ASSUME Inductive, Next PROVE Inductive'
<1>1. CASE OpenEditor \/ SaveEditor \/ CloseEditor
  BY <1>1, InductiveOpenEditor, InductiveSaveEditor, InductiveCloseEditor
<1>2. CASE \E e \in Edit : EditLive(e) \/ EditHeadless(e) \/ HostBegin(e)
  BY <1>2, InductiveEditLive, InductiveEditHeadless, InductiveHostBegin
<1>3. CASE HostBegin(None) \/ HostPrime \/ HostWrite \/ HostUnheard \/ HostFails \/ HostPublish
  BY <1>3, InductiveHostBegin, InductiveHostPrime, InductiveHostWrite, InductiveHostFails,
     InductiveHostPublish
<1>4. ASSUME NEW r \in Report,
             \/ \E of \in {"live", "saved"} : Begin(r, of)
             \/ Ask(r) \/ AskAgain(r) \/ AskFails(r) \/ DocumentClosed(r)
      PROVE  Inductive'
  BY <1>4, InductiveBegin, InductiveAsk, InductiveAskFails, InductiveDocumentClosed
<1>5. ASSUME NEW r \in Report,
             \/ StartFromNow(r) \/ SetCursor(r) \/ ListRecords(r) \/ ListFails(r)
             \/ \E record \in Record : Publish(r, record)
      PROVE  Inductive'
  BY <1>5, InductiveStartFromNow, InductiveSetCursor, InductiveListRecords, InductiveListFails,
     InductivePublish
<1>6. CASE HandleEvent \/ (\E r \in Record : StartRun(r)) \/ Crash
  BY <1>6, InductiveHandleEvent, InductiveStartRun, InductiveCrash
<1> QED BY <1>1, <1>2, <1>3, <1>4, <1>5, <1>6 DEF Next

LEMMA InductiveStutter == ASSUME Inductive, UNCHANGED vars PROVE Inductive'
<1> USE DEF vars, documents, cursors, watch, engine, past, counts
<1>1. TypeOK' /\ ReplicasGrow' /\ ReplicasAreWhole' /\ StepsInOrder' /\ EventsAreApart'
  BY DEF Inductive, TypeOK, ReplicasGrow, Passed, Covered, SavedCovered, Since, ReplicasAreWhole,
         Whole, StepsInOrder, EventsAreApart, EditsOf
<1>2. MarksAreOfRuns' /\ MarksKept' /\ FiresOnce'
  BY EngineStays
<1>3. PassedIsAccounted'
  BY DEF Inductive, PassedIsAccounted, Accounted, Carried, InReport, Passed, Covered, SavedCovered,
         Since, Replica
<1> QED BY <1>1, <1>2, <1>3 DEF Inductive

THEOREM Invariance == Spec => []Inductive
<1>1. Inductive /\ [Next]_vars => Inductive'
  BY InductiveNext, InductiveStutter
<1> QED BY InductiveInit, <1>1, PTL DEF Spec

\* The state keeps its type.
THEOREM TypeCorrect == Spec => []TypeOK
<1>1. Inductive => TypeOK
  BY DEF Inductive
<1> QED BY Invariance, <1>1, PTL

\* However often a record is reported, its workflow runs once, unless Kition was restarted
\* after the key could not be written (engine.rs, `mark` before the run is spawned).
THEOREM RunsOnce == Spec => []FiresOnce
<1>1. Inductive => FiresOnce
  BY DEF Inductive
<1> QED BY Invariance, <1>1, PTL

\* What the cursor passes is reported or counted as lost, and a filled record is on its way
\* (triggers.rs, `publish_changes`), whatever fails and however often Kition restarts.
THEOREM NothingIsSkipped == Spec => []NothingSlips
<1>1. ASSUME Inductive PROVE NothingSlips
  <2> SUFFICES ASSUME NEW e \in Covered \ byHost
               PROVE  \/ e \in lost
                      \/ told[e] > 0 /\ (e[2] = "fill" /\ e \in file => OnItsWay(e[1]))
    BY DEF NothingSlips
  <2>1. Accounted(e) /\ e \in Edit
    BY <1>1 DEF Inductive, PassedIsAccounted, Passed, ReplicasGrow, TypeOK, Version
  <2>2. e \in file => e \in Replica
    BY <1>1, ReplicaType
  <2>3. ASSUME e[2] = "fill", Carried(e) PROVE OnItsWay(e[1])
    <3>1. e = <<e[1], "fill">> /\ e \in EditsOf(e[1])
      BY <2>1, <2>3 DEF Edit, EditsOf
    <3>2. CASE \E p \in Report : InReport(e, p)
      BY <3>1, <3>2 DEF InReport, OnItsWay
    <3>3. CASE ~\E p \in Report : InReport(e, p)
      BY <2>3, <3>1, <3>3 DEF Carried, OnItsWay
    <3> QED BY <3>2, <3>3
  <2> QED BY <2>1, <2>2, <2>3 DEF Accounted
<1> QED BY Invariance, <1>1, PTL

-----------------------------------------------------------------------------
(* While reports are made in turn. What tells an edit once is that a       *)
(* report starts from the cursor, that only one is under way, and that the *)
(* edits told before are covered by the cursor or are lost to the replicas *)
(* for good: the open editor was closed without saving them.               *)

Idle(p) == report[p].step = "idle"

\* One report at a time, and none beside the host's first request, which finds no cursor.
Alone ==
    /\ \A p, q \in Report : ~Idle(p) /\ ~Idle(q) => p = q
    /\ hosting.step = "prime" => cursor = None /\ \A p \in Report : Idle(p)

\* Until it has set the cursor, a report starts from it; its answer has, of what was told, no
\* more than it starts from, or, starting from nowhere, all that a replica still holds.
StartsAtCursor(p) ==
    report[p].step \in {"ask", "again", "first", "set"} => report[p].since = cursor
GoesOnFromCursor(p) ==
    report[p].step = "set" =>
        /\ report[p].since \subseteq report[p].answer
        /\ \A e \in Edit : told[e] > 0 /\ e \in report[p].answer => e \in report[p].since
LosesNothingTold(p) ==
    /\ report[p].step = "first"
       => \A e \in Edit : told[e] > 0 /\ e \in Replica => e \in report[p].answer
    /\ report[p].step \in {"ask", "again"} /\ report[p].of = "saved"
       => \A e \in Edit : told[e] > 0 /\ e \in Replica => e \in headless
TellsNew(p) == StartsAtCursor(p) /\ GoesOnFromCursor(p) /\ LosesNothingTold(p)

ToldIsPassed ==
    \A e \in Edit : told[e] > 0 =>
        /\ e \in made /\ cursor # None
        /\ e \in Replica => e \in cursor

ToldOnce == \A e \in Edit : told[e] <= 1

Turn ==
    /\ savedCursor = cursor
    /\ Alone
    /\ \A p \in Report : TellsNew(p)
    /\ ToldIsPassed
    /\ ToldOnce

InTurn == overlapped \/ "cursor" \in unsaved \/ Turn

LEMMA InTurnInit == Init => InTurn
<1> SUFFICES ASSUME Init PROVE Turn
  BY DEF InTurn
<1>1. \A p \in Report : report[p].step = "idle"
  BY DEF Init, NoReport
<1>2. \A e \in Edit : told[e] = 0
  BY DEF Init
<1>3. savedCursor = cursor /\ hosting.step = "idle"
  BY DEF Init, NoHosting
<1> QED BY <1>1, <1>2, <1>3
        DEF Turn, Alone, Idle, TellsNew, StartsAtCursor, GoesOnFromCursor, LosesNothingTold,
            ToldIsPassed, ToldOnce

\* Nothing but the replicas moves, and they hold no more of what was made.
LEMMA TurnStays ==
    ASSUME Inductive, Turn, UNCHANGED <<cursors, report, told>>,
           hosting'.step = "prime" => hosting.step = "prime",
           headless \subseteq headless', made \subseteq made',
           \A e \in made : e \in Replica' => e \in Replica
    PROVE  Turn'
<1>1. /\ savedCursor' = savedCursor /\ cursor' = cursor /\ report' = report /\ told' = told
      /\ savedCursor = cursor
  BY DEF cursors, Turn
<1>2. \A e \in Edit : told[e] > 0 => e \in made
  BY DEF Turn, ToldIsPassed
<1>4. \A e \in Edit : told[e] > 0 /\ e \in Replica' => e \in Replica
  BY <1>2
<1>5. Alone'
  BY <1>1 DEF Turn, Alone, Idle
<1>6. ASSUME NEW p \in Report PROVE TellsNew(p)'
  <2>1. StartsAtCursor(p)' /\ GoesOnFromCursor(p)'
    BY <1>1 DEF Turn, TellsNew, StartsAtCursor, GoesOnFromCursor
  <2>2. LosesNothingTold(p)'
    BY <1>1, <1>4 DEF Turn, TellsNew, LosesNothingTold
  <2> QED BY <2>1, <2>2 DEF TellsNew
<1>7. ToldIsPassed'
  BY <1>1, <1>4 DEF Turn, ToldIsPassed
<1>8. ToldOnce'
  BY <1>1 DEF Turn, ToldOnce
<1> QED BY <1>1, <1>5, <1>6, <1>7, <1>8 DEF Turn

LEMMA TurnOpenEditor == ASSUME Inductive, Turn, OpenEditor PROVE Turn'
<1>1. Replica' = Replica
  BY DEF OpenEditor, Replica
<1> QED BY <1>1, TurnStays DEF OpenEditor, past

LEMMA TurnEditLive == ASSUME Inductive, Turn, NEW e \in Edit, EditLive(e) PROVE Turn'
<1>1. live # None /\ MayEdit(e) /\ live' = live \cup {e} /\ file' = file
  BY DEF EditLive
<1>2. \A d \in made : d \in Replica' => d \in Replica
  <2>1. file \subseteq live /\ Replica = live
    BY <1>1 DEF Replica, Inductive, ReplicasGrow
  <2>2. Replica' \subseteq Replica \cup {e}
    BY <1>1, <2>1 DEF Replica
  <2> QED BY <1>1, <2>2 DEF MayEdit
<1>3. made \subseteq made'
  BY DEF EditLive
<1> QED BY <1>2, <1>3, TurnStays DEF EditLive, past

LEMMA TurnSaveEditor == ASSUME Inductive, Turn, SaveEditor PROVE Turn'
<1>1. Replica' = Replica
  BY DEF SaveEditor, Replica
<1> QED BY <1>1, TurnStays DEF SaveEditor, past

LEMMA TurnCloseEditor == ASSUME Inductive, Turn, CloseEditor PROVE Turn'
<1>1. live # None /\ live' = None /\ file' = file
  BY DEF CloseEditor
<1>2. Replica' \subseteq Replica
  BY <1>1 DEF Replica, Inductive, ReplicasGrow
<1> QED BY <1>2, TurnStays DEF CloseEditor, past

LEMMA TurnEditHeadless == ASSUME Inductive, Turn, NEW e \in Edit, EditHeadless(e) PROVE Turn'
<1>1. /\ live = None /\ live' = None /\ MayEdit(e)
      /\ file' = file \cup {e} /\ headless' = file' /\ made' = made \cup {e}
  BY DEF EditHeadless
<1>2. \A d \in made : d \in Replica' => d \in Replica
  BY <1>1 DEF Replica, MayEdit
<1>3. headless \subseteq headless' /\ made \subseteq made'
  BY <1>1 DEF Inductive, ReplicasGrow
<1> QED BY <1>2, <1>3, TurnStays DEF EditHeadless, past

LEMMA TurnHostWrite == ASSUME Inductive, Turn, HostWrite \/ HostUnheard PROVE Turn'
<1> DEFINE e == hosting.edit
<1>1. /\ MayEdit(e) /\ made' = made \cup {e}
      /\ \/ hosting' = [hosting EXCEPT !.step = "publish", !.answer = Replica \cup {e}]
         \/ hosting' = NoHosting
      /\ UNCHANGED <<cursors, report, past>>
  BY DEF HostWrite, HostUnheard, HostMakes
<1>2. \/ live # None /\ live' = live \cup {e} /\ file' \in {file, live'} /\ headless' = headless
      \/ live = None /\ live' = live /\ file' = file \cup {e} /\ headless' = file'
  BY DEF HostWrite, HostUnheard, HostMakes
<1> HIDE DEF e
<1>3. \A d \in made : d \in Replica' => d \in Replica
  <2>1. e \notin made
    BY <1>1 DEF MayEdit
  <2>2. live # None => file \subseteq live
    BY DEF Inductive, ReplicasGrow
  <2>3. Replica' \subseteq Replica \cup {e}
    BY <1>2, <2>2 DEF Replica
  <2> QED BY <2>1, <2>3
<1>4. headless \subseteq headless' /\ made \subseteq made'
  BY <1>1, <1>2 DEF Inductive, ReplicasGrow
<1>5. hosting'.step # "prime"
  <2>0. hosting \in Hostings
    BY DEF Inductive, TypeOK
  <2>1. CASE hosting' = [hosting EXCEPT !.step = "publish", !.answer = Replica \cup {e}]
    BY <2>0, <2>1 DEF Hostings
  <2>2. CASE hosting' = NoHosting
    BY <2>2 DEF NoHosting
  <2> QED BY <1>1, <2>1, <2>2
<1> QED BY <1>1, <1>3, <1>4, <1>5, TurnStays DEF past

\* The host's steps that leave the replicas, and the engine's.
LEMMA TurnElsewhere ==
    ASSUME Inductive, Turn, HostFails \/ HostPublish \/ HandleEvent \/ \E r \in Record : StartRun(r)
    PROVE  Turn'
<1>1. UNCHANGED <<documents, cursors, report, told>> /\ hosting' \in {hosting, NoHosting}
  BY DEF HostFails, HostPublish, HandleEvent, StartRun, past
<1>2. Replica' = Replica /\ headless' = headless /\ made' = made
  BY <1>1 DEF Replica, documents
<1>3. hosting'.step = "prime" => hosting.step = "prime"
  BY <1>1 DEF NoHosting
<1> QED BY <1>1, <1>2, <1>3, TurnStays

\* Its first request begins while no report is under way.
LEMMA TurnHostBegin ==
    ASSUME Inductive, Turn, NEW e \in Edit \cup {None}, HostBegin(e), ~overlapped'
    PROVE  Turn'
<1>1. /\ hosting'.step = IF cursor = None THEN "prime" ELSE "write"
      /\ overlapped' = (overlapped \/ (cursor = None /\ Reporting))
      /\ UNCHANGED <<documents, cursors, report, told>>
  BY DEF HostBegin
<1>2. hosting'.step = "prime" => cursor = None /\ \A p \in Report : Idle(p)
  BY <1>1 DEF Reporting, Idle
<1>3. /\ savedCursor' = savedCursor /\ cursor' = cursor /\ Replica' = Replica
      /\ headless' = headless /\ made' = made /\ report' = report /\ told' = told
  BY <1>1 DEF documents, cursors, Replica
<1>4. Alone'
  BY <1>2, <1>3 DEF Turn, Alone, Idle
<1>5. \A p \in Report : TellsNew(p)'
  BY <1>3 DEF Turn, TellsNew, StartsAtCursor, GoesOnFromCursor, LosesNothingTold
<1>6. ToldIsPassed' /\ ToldOnce' /\ savedCursor' = cursor'
  BY <1>3 DEF Turn, ToldIsPassed, ToldOnce
<1> QED BY <1>4, <1>5, <1>6 DEF Turn

\* The cursor and its file agree, unless the file could once not be written.
LEMMA CursorKept ==
    ASSUME NEW version, SetVersion(version), "cursor" \notin unsaved', savedCursor = cursor
    PROVE  cursor' = version /\ savedCursor' = version
BY DEF SetVersion

\* And no report is under way when the cursor is set for it, so nothing was told.
LEMMA TurnHostPrime ==
    ASSUME Inductive, Turn, HostPrime, "cursor" \notin unsaved'
    PROVE  Turn'
<1>1. /\ SetVersion(hosting.answer) /\ hosting.step = "prime"
      /\ hosting' = IF hosting.edit = None THEN NoHosting ELSE [hosting EXCEPT !.step = "write"]
      /\ UNCHANGED <<documents, report, told>>
  BY DEF HostPrime
<1>2. cursor' = hosting.answer /\ savedCursor' = hosting.answer
  BY <1>1, CursorKept DEF Turn
<1>3. hosting'.step # "prime"
  BY <1>1 DEF Inductive, TypeOK, Hostings, NoHosting
<1>4. cursor = None /\ \A p \in Report : report[p].step = "idle"
  BY <1>1 DEF Turn, Alone, Idle
<1>5. \A e \in Edit : told[e] = 0
  BY <1>4 DEF Turn, ToldIsPassed, Inductive, TypeOK
<1>6. Alone'
  BY <1>1, <1>3, <1>4 DEF Alone, Idle
<1>7. \A p \in Report : TellsNew(p)'
  BY <1>1, <1>4 DEF TellsNew, StartsAtCursor, GoesOnFromCursor, LosesNothingTold
<1>8. ToldIsPassed' /\ ToldOnce'
  BY <1>1, <1>5 DEF ToldIsPassed, ToldOnce
<1> QED BY <1>2, <1>6, <1>7, <1>8 DEF Turn

\* A report goes on, and no cursor is set.
LEMMA TurnReport ==
    ASSUME Inductive, Turn, NEW r \in Report, NEW x, report' = [report EXCEPT ![r] = x],
           ~Idle(r), UNCHANGED <<documents, cursors, hosting, told>>,
           TellsNew(r)'
    PROVE  Turn'
<1>1. /\ savedCursor' = savedCursor /\ cursor' = cursor /\ Replica' = Replica
      /\ headless' = headless /\ made' = made
  BY DEF documents, cursors, Replica
<1>2. \A q \in Report : q # r => report'[q] = report[q]
  BY DEF Inductive, TypeOK
<1>3. \A q \in Report : q # r => Idle(q) /\ Idle(q)'
  BY <1>2 DEF Turn, Alone, Idle
<1>4. hosting'.step # "prime"
  BY DEF Turn, Alone
<1>5. Alone'
  BY <1>3, <1>4 DEF Alone
<1>6. ASSUME NEW q \in Report PROVE TellsNew(q)'
  <2>1. CASE q = r
    BY <2>1
  <2>2. CASE q # r
    BY <1>3, <2>2 DEF Idle, TellsNew, StartsAtCursor, GoesOnFromCursor, LosesNothingTold
  <2> QED BY <2>1, <2>2
<1>7. ToldIsPassed' /\ ToldOnce' /\ savedCursor' = cursor'
  BY <1>1 DEF Turn, ToldIsPassed, ToldOnce
<1> QED BY <1>5, <1>6, <1>7 DEF Turn

\* A report begins alone, and that of a headless save finds in the document all that a replica
\* holds.
LEMMA TurnBegin ==
    ASSUME Inductive, Turn, NEW r \in Report, NEW of \in {"live", "saved"}, Begin(r, of),
           ~overlapped'
    PROVE  Turn'
<1> DEFINE x == [NoReport EXCEPT !.step = "ask", !.of = of, !.since = cursor]
<1>1. /\ report' = [report EXCEPT ![r] = x]
      /\ UNCHANGED <<documents, cursors, hosting, told>>
      /\ ~Reporting /\ hosting.step # "prime"
      /\ of = "saved" => live = None /\ headless = file
  BY DEF Begin
<1>2. x.step = "ask" /\ x.of = of /\ x.since = cursor
  BY DEF NoReport
<1> HIDE DEF x
<1>3. report'[r] = x /\ \A q \in Report : q # r => report'[q] = report[q]
  BY <1>1 DEF Inductive, TypeOK
<1>4. \A q \in Report : Idle(q)
  BY <1>1 DEF Reporting, Idle
<1>5. \A q \in Report : q # r => Idle(q)'
  BY <1>3, <1>4 DEF Idle
<1>6. Alone'
  BY <1>1, <1>5 DEF Alone
<1>7. /\ savedCursor' = savedCursor /\ cursor' = cursor /\ Replica' = Replica
      /\ headless' = headless /\ made' = made
  BY <1>1 DEF documents, cursors, Replica
<1>8. TellsNew(r)'
  <2>1. of = "saved" => Replica = headless
    BY <1>1 DEF Replica
  <2> QED BY <1>2, <1>3, <1>7, <2>1 DEF TellsNew, StartsAtCursor, GoesOnFromCursor, LosesNothingTold
<1>9. \A q \in Report : q # r => TellsNew(q)'
  BY <1>5 DEF Idle, TellsNew, StartsAtCursor, GoesOnFromCursor, LosesNothingTold
<1>10. ToldIsPassed' /\ ToldOnce' /\ savedCursor' = cursor'
  BY <1>1, <1>7 DEF Turn, ToldIsPassed, ToldOnce
<1> QED BY <1>6, <1>8, <1>9, <1>10 DEF Turn

\* An answer has what a replica holds of the edits that were told.
LEMMA TurnAsk ==
    ASSUME Inductive, Turn, NEW r \in Report, Ask(r) \/ AskAgain(r)
    PROVE  Turn'
<1> PICK step \in {"first", "set"} :
        /\ report' = [report EXCEPT ![r].answer = Asked(r), ![r].step = step]
        /\ step = "set" => report[r].since # None /\ report[r].since \subseteq Asked(r)
        /\ report[r].step = "again" => step = "first"
        /\ report[r].step \in {"ask", "again"}
        /\ UNCHANGED <<documents, cursors, hosting, told>>
  BY DEF Ask, AskAgain, past
<1> DEFINE x == [report[r] EXCEPT !.answer = Asked(r), !.step = step]
<1>1. report' = [report EXCEPT ![r] = x]
  BY DEF Inductive, TypeOK
<1>2. /\ x.answer = Asked(r) /\ x.step = step /\ x.since = report[r].since
      /\ report[r].since = cursor
  BY DEF Inductive, TypeOK, Reports, Turn, TellsNew, StartsAtCursor
<1> HIDE DEF x
<1>3. report'[r] = x
  BY <1>1 DEF Inductive, TypeOK
<1>4. Replica' = Replica /\ cursor' = cursor
  BY DEF documents, cursors, Replica
<1>5. \A e \in Edit : told[e] > 0 /\ e \in Replica => e \in Asked(r)
  BY DEF Asked, Turn, TellsNew, LosesNothingTold
<1>6. Asked(r) \subseteq Replica
  <2>1. headless \subseteq file /\ file \subseteq Replica
    BY ReplicaType DEF Inductive, ReplicasGrow
  <2> QED BY <2>1 DEF Asked
<1>7. \A e \in Edit : told[e] > 0 /\ e \in Asked(r) => e \in cursor
  BY <1>6 DEF Turn, ToldIsPassed
<1>8. TellsNew(r)'
  BY <1>2, <1>3, <1>4, <1>5, <1>7 DEF TellsNew, StartsAtCursor, GoesOnFromCursor, LosesNothingTold
<1>9. ~Idle(r)
  BY DEF Idle
<1> QED BY <1>1, <1>8, <1>9, TurnReport

\* A report ends, or goes on with the records.
LEMMA TurnPassesOn ==
    ASSUME Inductive, Turn, NEW r \in Report, ~Idle(r), NEW x, report' = [report EXCEPT ![r] = x],
           x.step \in {"idle", "list", "publish"}, UNCHANGED <<documents, cursors, hosting, told>>
    PROVE  Turn'
<1>1. report'[r] = x
  BY DEF Inductive, TypeOK
<1>2. TellsNew(r)'
  BY <1>1 DEF TellsNew, StartsAtCursor, GoesOnFromCursor, LosesNothingTold
<1> QED BY <1>2, TurnReport

LEMMA TurnAskFails == ASSUME Inductive, Turn, NEW r \in Report, AskFails(r) PROVE Turn'
<1>1. /\ report[r].step \in {"ask", "again"} /\ ~Idle(r)
      /\ UNCHANGED <<documents, cursors, hosting, told>>
  BY DEF AskFails, Idle, past
<1>2. CASE report[r].step = "ask"
  <2> DEFINE x == [report[r] EXCEPT !.step = "again"]
  <2>1. report' = [report EXCEPT ![r] = x]
    BY <1>2 DEF AskFails, Inductive, TypeOK
  <2>2. /\ x.step = "again" /\ x.of = report[r].of /\ x.since = report[r].since
        /\ x.answer = report[r].answer
    BY DEF Inductive, TypeOK, Reports
  <2> HIDE DEF x
  <2>3. report'[r] = x
    BY <2>1 DEF Inductive, TypeOK
  <2>4. Replica' = Replica /\ cursor' = cursor /\ headless' = headless
    BY <1>1 DEF documents, cursors, Replica
  <2>5. TellsNew(r)'
    BY <1>1, <1>2, <2>2, <2>3, <2>4
       DEF Turn, TellsNew, StartsAtCursor, GoesOnFromCursor, LosesNothingTold
  <2> QED BY <1>1, <2>1, <2>5, TurnReport
<1>3. CASE report[r].step # "ask"
  <2>1. report' = [report EXCEPT ![r] = NoReport] /\ NoReport.step = "idle"
    BY <1>3 DEF AskFails, Ended, NoReport
  <2> QED BY <1>1, <2>1, TurnPassesOn
<1> QED BY <1>2, <1>3

LEMMA TurnDocumentClosed == ASSUME Inductive, Turn, NEW r \in Report, DocumentClosed(r) PROVE Turn'
<1>1. /\ report' = [report EXCEPT ![r] = NoReport] /\ NoReport.step = "idle" /\ ~Idle(r)
      /\ UNCHANGED <<documents, cursors, hosting, told>>
  BY DEF DocumentClosed, Ended, NoReport, Idle, past
<1> QED BY <1>1, TurnPassesOn

LEMMA TurnLists ==
    ASSUME Inductive, Turn, NEW r \in Report, ListRecords(r) \/ ListFails(r)
    PROVE  Turn'
<1>1. ~Idle(r) /\ UNCHANGED <<documents, cursors, hosting, told>>
  BY DEF ListRecords, ListFails, Idle, past
<1>2. CASE ListRecords(r)
  <2> DEFINE x == [report[r] EXCEPT !.step = "publish", !.answer = Replica]
  <2>1. report' = [report EXCEPT ![r] = x] /\ x.step = "publish"
    BY <1>2 DEF ListRecords, Inductive, TypeOK, Reports
  <2> HIDE DEF x
  <2> QED BY <1>1, <2>1, TurnPassesOn
<1>3. CASE ListFails(r)
  <2>1. report' = [report EXCEPT ![r] = NoReport] /\ NoReport.step = "idle"
    BY <1>3 DEF ListFails, Ended, NoReport
  <2> QED BY <1>1, <2>1, TurnPassesOn
<1> QED BY <1>2, <1>3

LEMMA TurnPublish ==
    ASSUME Inductive, Turn, NEW r \in Report, NEW record \in Record, Publish(r, record)
    PROVE  Turn'
<1> DEFINE rest == report[r].todo \ EditsOf(record)
<1>1. /\ report[r].step = "publish" /\ ~Idle(r)
      /\ UNCHANGED <<documents, cursors, hosting, told>>
      /\ \/ report' = [report EXCEPT ![r] = NoReport]
         \/ report' = [report EXCEPT ![r].todo = rest]
  BY DEF Publish, Ended, Idle
<1> HIDE DEF rest
<1>2. CASE report' = [report EXCEPT ![r] = NoReport]
  BY <1>1, <1>2, TurnPassesOn DEF NoReport
<1>3. CASE report' = [report EXCEPT ![r].todo = rest]
  <2> DEFINE x == [report[r] EXCEPT !.todo = rest]
  <2>1. report' = [report EXCEPT ![r] = x] /\ x.step = "publish"
    BY <1>1, <1>3 DEF Inductive, TypeOK, Reports
  <2> HIDE DEF x
  <2> QED BY <1>1, <2>1, TurnPassesOn
<1> QED BY <1>1, <1>2, <1>3

\* The cursor is set, and the report goes on without it: the only one under way.
LEMMA TurnSets ==
    ASSUME Inductive, Turn, NEW r \in Report, ~Idle(r),
           NEW x, report' = [report EXCEPT ![r] = x], x.step \in {"idle", "list"},
           NEW version \in Version, SetVersion(version), "cursor" \notin unsaved',
           UNCHANGED <<documents, hosting>>
    PROVE  /\ cursor' = version /\ savedCursor' = cursor' /\ Alone'
           /\ \A p \in Report : TellsNew(p)'
<1>1. report'[r] = x /\ \A q \in Report : q # r => report'[q] = report[q]
  BY DEF Inductive, TypeOK
<1>2. cursor' = version /\ savedCursor' = cursor'
  BY CursorKept DEF Turn
<1>3. \A q \in Report : q # r => Idle(q)'
  BY <1>1 DEF Turn, Alone, Idle
<1>4. hosting'.step # "prime"
  BY DEF Turn, Alone
<1>5. Alone'
  BY <1>3, <1>4 DEF Alone
<1>6. \A p \in Report : report'[p].step \in {"idle", "list"}
  BY <1>1, <1>3 DEF Idle
<1>7. \A p \in Report : TellsNew(p)'
  BY <1>6 DEF TellsNew, StartsAtCursor, GoesOnFromCursor, LosesNothingTold
<1> QED BY <1>2, <1>5, <1>7

LEMMA TurnStartFromNow ==
    ASSUME Inductive, Turn, NEW r \in Report, StartFromNow(r), "cursor" \notin unsaved'
    PROVE  Turn'
<1>1. /\ report[r].step = "first" /\ ~Idle(r)
      /\ SetVersion(report[r].answer)
      /\ report' = [report EXCEPT ![r] = NoReport] /\ NoReport.step = "idle"
      /\ UNCHANGED <<documents, hosting, told>>
  BY DEF StartFromNow, Ended, NoReport, Idle
<1>2. report[r].answer \in Version /\ report[r].answer # None
  BY TypesOfReports, RecordTriggersAssumption DEF Inductive
<1>3. /\ cursor' = report[r].answer /\ savedCursor' = cursor' /\ Alone'
      /\ \A p \in Report : TellsNew(p)'
  BY <1>1, <1>2, TurnSets
<1>4. Replica' = Replica /\ made' = made
  BY <1>1 DEF Replica, documents
<1>5. ToldIsPassed'
  BY <1>1, <1>2, <1>3, <1>4 DEF Turn, ToldIsPassed, TellsNew, LosesNothingTold
<1>6. ToldOnce'
  BY <1>1 DEF Turn, ToldOnce
<1> QED BY <1>3, <1>5, <1>6 DEF Turn

\* What a report tells was not told: it is not in the cursor, and no replica held it since.
LEMMA TurnSetCursor ==
    ASSUME Inductive, Turn, NEW r \in Report, SetCursor(r), "cursor" \notin unsaved'
    PROVE  Turn'
<1>1. /\ report[r].step = "set" /\ ~Idle(r)
      /\ SetVersion(report[r].answer)
      /\ told' = [e \in Edit |-> IF e \in Changes(r) THEN told[e] + 1 ELSE told[e]]
      /\ \/ report' = [report EXCEPT ![r] = NoReport]
         \/ report' = [report EXCEPT ![r].step = "list", ![r].todo = Changes(r)]
      /\ UNCHANGED <<documents, hosting>>
  BY DEF SetCursor, Ended, Idle
<1>2. /\ report[r].answer \in Version /\ report[r].answer \subseteq made
  BY TypesOfReports DEF Inductive, ReplicasGrow
<1>3. /\ cursor' = report[r].answer /\ savedCursor' = cursor' /\ Alone'
      /\ \A p \in Report : TellsNew(p)'
  <2>1. CASE report' = [report EXCEPT ![r] = NoReport]
    BY <1>1, <1>2, <2>1, TurnSets DEF NoReport
  <2>2. CASE report' = [report EXCEPT ![r].step = "list", ![r].todo = Changes(r)]
    <3> DEFINE x == [report[r] EXCEPT !.step = "list", !.todo = Changes(r)]
    <3>1. report' = [report EXCEPT ![r] = x] /\ x.step = "list"
      BY <2>2 DEF Inductive, TypeOK, Reports
    <3> HIDE DEF x
    <3> QED BY <1>1, <1>2, <3>1, TurnSets
  <2> QED BY <1>1, <2>1, <2>2
<1>4. /\ report[r].since = cursor /\ cursor \subseteq report[r].answer
      /\ \A e \in Edit : told[e] > 0 /\ e \in report[r].answer => e \in cursor
  BY <1>1 DEF Turn, TellsNew, StartsAtCursor, GoesOnFromCursor
<1>5. \A e \in Changes(r) : e \in report[r].answer /\ e \notin cursor
  BY <1>4 DEF Changes
<1>6. \A e \in Edit : told[e] \in Nat /\ told[e] <= 1
  BY DEF Inductive, TypeOK, Turn, ToldOnce
<1>7. \A e \in Edit : e \in Changes(r) => told[e] = 0
  BY <1>4, <1>5, <1>6
<1>8. ToldOnce'
  BY <1>1, <1>6, <1>7 DEF ToldOnce
<1>9. Replica' = Replica /\ made' = made
  BY <1>1 DEF Replica, documents
<1>10. ASSUME NEW e \in Edit, told'[e] > 0
       PROVE  e \in made' /\ cursor' # None /\ (e \in Replica' => e \in cursor')
  <2>1. cursor' # None
    BY <1>2, <1>3, RecordTriggersAssumption
  <2>2. CASE e \in Changes(r)
    BY <1>2, <1>3, <1>5, <1>9, <2>1, <2>2
  <2>3. CASE e \notin Changes(r)
    <3>1. told[e] > 0
      BY <1>1, <1>10, <2>3
    <3> QED BY <1>3, <1>4, <1>9, <2>1, <3>1 DEF Turn, ToldIsPassed
  <2> QED BY <2>2, <2>3
<1>11. ToldIsPassed'
  BY <1>10 DEF ToldIsPassed
<1> QED BY <1>3, <1>8, <1>11 DEF Turn

\* A restart has the cursor, no report, and the file for a replica.
LEMMA TurnCrash == ASSUME Inductive, Turn, Crash PROVE Turn'
<1>1. /\ cursor' = savedCursor /\ savedCursor' = savedCursor
      /\ report' = [r \in Report |-> NoReport] /\ hosting' = NoHosting
      /\ live' = None /\ file' = file /\ made' = made /\ told' = told
  BY DEF Crash
<1>2. \A p \in Report : report'[p].step = "idle"
  BY <1>1 DEF NoReport
<1>3. hosting'.step = "idle"
  BY <1>1 DEF NoHosting
<1>4. Replica' \subseteq Replica
  BY <1>1, ReplicaType DEF Replica
<1>5. cursor' = cursor
  BY <1>1 DEF Turn
<1>6. Alone' /\ \A p \in Report : TellsNew(p)'
  BY <1>2, <1>3 DEF Alone, Idle, TellsNew, StartsAtCursor, GoesOnFromCursor, LosesNothingTold
<1>7. ToldIsPassed' /\ ToldOnce'
  BY <1>1, <1>4, <1>5 DEF Turn, ToldIsPassed, ToldOnce
<1> QED BY <1>1, <1>5, <1>6, <1>7 DEF Turn

LEMMA TurnNext ==
    ASSUME Inductive, Turn, Next, ~overlapped', "cursor" \notin unsaved'
    PROVE  Turn'
<1>1. CASE OpenEditor \/ SaveEditor \/ CloseEditor
  BY <1>1, TurnOpenEditor, TurnSaveEditor, TurnCloseEditor
<1>2. CASE \E e \in Edit : EditLive(e) \/ EditHeadless(e) \/ HostBegin(e)
  BY <1>2, TurnEditLive, TurnEditHeadless, TurnHostBegin
<1>3. CASE HostBegin(None) \/ HostPrime \/ HostWrite \/ HostUnheard \/ HostFails \/ HostPublish
  BY <1>3, TurnHostBegin, TurnHostPrime, TurnHostWrite, TurnElsewhere
<1>4. ASSUME NEW r \in Report,
             \/ \E of \in {"live", "saved"} : Begin(r, of)
             \/ Ask(r) \/ AskAgain(r) \/ AskFails(r) \/ DocumentClosed(r)
      PROVE  Turn'
  BY <1>4, TurnBegin, TurnAsk, TurnAskFails, TurnDocumentClosed
<1>5. ASSUME NEW r \in Report,
             \/ StartFromNow(r) \/ SetCursor(r) \/ ListRecords(r) \/ ListFails(r)
             \/ \E record \in Record : Publish(r, record)
      PROVE  Turn'
  BY <1>5, TurnStartFromNow, TurnSetCursor, TurnLists, TurnPublish
<1>6. CASE HandleEvent \/ (\E r \in Record : StartRun(r)) \/ Crash
  BY <1>6, TurnElsewhere, TurnCrash
<1> QED BY <1>1, <1>2, <1>3, <1>4, <1>5, <1>6 DEF Next

\* What once overlapped, or was once not written, stays so.
LEMMA OutOfTurnStays ==
    ASSUME Next
    PROVE  (overlapped => overlapped') /\ ("cursor" \in unsaved => "cursor" \in unsaved')
<1> DEFINE Stays == (overlapped => overlapped') /\ ("cursor" \in unsaved => "cursor" \in unsaved')
<1>0. /\ UNCHANGED past => Stays
      /\ UNCHANGED <<overlapped, unsaved>> => Stays
  BY DEF past
<1> SUFFICES Stays
  OBVIOUS
<1>1. CASE OpenEditor \/ SaveEditor \/ CloseEditor
  BY <1>0, <1>1 DEF OpenEditor, SaveEditor, CloseEditor
<1>2. ASSUME NEW e \in Edit \cup {None}, HostBegin(e) PROVE Stays
  BY <1>2 DEF HostBegin
<1>3. ASSUME NEW e \in Edit, EditLive(e) \/ EditHeadless(e) PROVE Stays
  BY <1>0, <1>3 DEF EditLive, EditHeadless
<1>4. ASSUME NEW version, SetVersion(version), overlapped' = overlapped PROVE Stays
  BY <1>4 DEF SetVersion
<1>5. CASE HostPrime
  BY <1>4, <1>5 DEF HostPrime
<1>6. CASE HostWrite \/ HostUnheard \/ HostFails
  BY <1>0, <1>6 DEF HostWrite, HostUnheard, HostFails
<1>7. CASE HostPublish
  BY <1>0, <1>7 DEF HostPublish
<1>8. ASSUME NEW r \in Report, NEW of \in {"live", "saved"}, Begin(r, of) PROVE Stays
  BY <1>8 DEF Begin
<1>9. ASSUME NEW r \in Report, Ask(r) \/ AskAgain(r) \/ AskFails(r) \/ DocumentClosed(r)
      PROVE  Stays
  BY <1>0, <1>9 DEF Ask, AskAgain, AskFails, DocumentClosed
<1>10. ASSUME NEW r \in Report, StartFromNow(r) \/ SetCursor(r) PROVE Stays
  BY <1>4, <1>10 DEF StartFromNow, SetCursor
<1>11. ASSUME NEW r \in Report, ListRecords(r) \/ ListFails(r) PROVE Stays
  BY <1>0, <1>11 DEF ListRecords, ListFails
<1>12. ASSUME NEW r \in Report, NEW record \in Record, Publish(r, record) PROVE Stays
  BY <1>0, <1>12 DEF Publish
<1>13. CASE HandleEvent
  <2>1. overlapped' = overlapped /\ unsaved \subseteq unsaved'
    BY <1>13 DEF HandleEvent, Mark
  <2> QED BY <2>1
<1>14. CASE (\E r \in Record : StartRun(r)) \/ Crash
  BY <1>0, <1>14 DEF StartRun, Crash
<1> HIDE DEF Stays
<1>15. ASSUME NEW r \in Report,
              \/ \E of \in {"live", "saved"} : Begin(r, of)
              \/ Ask(r) \/ AskAgain(r) \/ AskFails(r) \/ DocumentClosed(r)
              \/ StartFromNow(r) \/ SetCursor(r) \/ ListRecords(r) \/ ListFails(r)
              \/ \E record \in Record : Publish(r, record)
       PROVE  Stays
  BY <1>8, <1>9, <1>10, <1>11, <1>12, <1>15
<1>16. CASE \E e \in Edit : EditLive(e) \/ EditHeadless(e) \/ HostBegin(e)
  BY <1>2, <1>3, <1>16
<1>17. CASE HostBegin(None) \/ HostPrime \/ HostWrite \/ HostUnheard \/ HostFails \/ HostPublish
  BY <1>2, <1>5, <1>6, <1>7, <1>17
<1> QED
  BY <1>1, <1>13, <1>14, <1>15, <1>16, <1>17 DEF Next

LEMMA InTurnStutter == ASSUME Inductive, InTurn, UNCHANGED vars PROVE InTurn'
<1>1. UNCHANGED <<documents, cursors, report, hosting, told, overlapped, unsaved>>
  BY DEF vars, past
<1>2. Replica' = Replica /\ headless' = headless /\ made' = made
  BY <1>1 DEF documents, Replica
<1>3. Turn => Turn'
  BY <1>1, <1>2, TurnStays
<1> QED BY <1>1, <1>3 DEF InTurn

\* "Edits made in between are reported, and none is reported twice" (triggers.rs:12-14): while one
\* report is made at a time, none for a headless save beside an open editor or once the file was
\* another's save, and the cursor's file can be written; whatever else fails, however often Kition
\* restarts or the open editor is closed on what was not saved.
THEOREM EachIsToldOnce == Spec => []InTurnToldOnce
<1>1. Inductive /\ InTurn /\ [Next]_vars => InTurn'
  BY TurnNext, OutOfTurnStays, InTurnStutter DEF InTurn
<1>2. InTurn => InTurnToldOnce
  BY DEF InTurn, InTurnToldOnce, Turn, ToldOnce
<1> QED BY InTurnInit, <1>1, <1>2, Invariance, PTL DEF Spec

-----------------------------------------------------------------------------
(* The workflows that time starts: what WorkflowDispatch keeps for any     *)
(* number of records, days, minutes, failures and restarts: where          *)
(* DateFiresOnce holds although it does not everywhere, and what the       *)
(* schedule promises.                                                      *)

CONSTANTS MaxMinute, MaxDay

VARIABLES
    zone, minute, utcDay, localDay, date, dates, minutes, saved, cleaned, scan, fired,
    scheduled, unkept, misses, restarts

Time == INSTANCE WorkflowDispatch WITH
    unsaved <- unkept, failures <- misses, crashes <- restarts

\* The bounds of the clock are numbers.
Bounded == MaxMinute \in Nat /\ MaxDay \in Nat

Dating == scan.step \in {"dates", "list", "date"}
Scheduling == scan.step \in {"schedule", "minute"}

\* A scan is of a day that has come, and of the day of its minute.
ScansFollowTheClock ==
    /\ Time!InZone(utcDay, localDay)
    /\ Dating => scan.day \in Time!Day /\ scan.day <= utcDay
    /\ scan.step = "date" => scan.record \in Record
    /\ Scheduling => /\ scan.day \in Time!Day /\ scan.minute \in Time!Minute
                     /\ scan.minute <= minute
                     /\ scan.minute = minute => scan.day = localDay

SavedAsKept == saved = [dates |-> dates, minutes |-> minutes]

\* A date that was fired, or is about to be, has its key, or no scan will be of its day again.
Bygone(d) == d < utcDay /\ (Dating => d < scan.day)
DatesAreMarked ==
    /\ \A r \in Record, d \in Time!Day :
           \/ fired[<<r, d>>] > 0
           \/ scan.step = "date" /\ scan.record = r /\ scan.day = d
           => <<r, d>> \in dates \/ Bygone(d)
    /\ scan.step = "date" => fired[<<scan.record, scan.day>>] = 0
    /\ \A k \in Record \X Time!Day : fired[k] <= 1

\* A minute that was fired, or is about to be, has its key with the day it is, or is over; and a
\* scan that began in it finds the key.
MinutesAreMarked ==
    /\ \A m \in Time!Minute :
           \/ scheduled[m] > 0
           \/ scan.step = "minute" /\ scan.minute = m
           => \/ m = minute /\ <<m, localDay>> \in minutes
              \/ /\ m < minute
                 /\ scan.step = "schedule" /\ scan.minute = m => <<m, scan.day>> \in minutes
    /\ scan.step = "minute" => scheduled[scan.minute] = 0
    /\ \A m \in Time!Minute : scheduled[m] <= 1

TimeInv ==
    /\ Time!TypeOK
    /\ ScansFollowTheClock
    /\ \/ unkept
       \/ /\ SavedAsKept
          /\ zone # "east" => DatesAreMarked
          /\ zone # "west" => MinutesAreMarked

-----------------------------------------------------------------------------

LEMMA TimeInit == ASSUME Bounded, Time!Init PROVE TimeInv
<1>1. Time!Idle \in Time!Scans /\ Time!Idle.step = "idle"
  BY DEF Time!Idle, Time!Scans
<1>2. Time!TypeOK
  <2>1. fired \in [Record \X Time!Day -> Nat] /\ scheduled \in [Time!Minute -> Nat]
    BY DEF Time!Init
  <2>2. minute \in Time!Minute /\ cleaned \in [{"dates", "schedule"} -> Time!Day \cup {None}]
    BY DEF Time!Init, Time!Minute, Bounded
  <2>3. /\ dates \subseteq Record \X Time!Day /\ minutes \subseteq Time!Minute \X Time!Day
        /\ saved \in [dates : SUBSET (Record \X Time!Day),
                      minutes : SUBSET (Time!Minute \X Time!Day)]
    BY DEF Time!Init
  <2> QED BY <1>1, <2>1, <2>2, <2>3 DEF Time!Init, Time!TypeOK
<1>3. ScansFollowTheClock
  BY <1>1 DEF Time!Init, ScansFollowTheClock, Dating, Scheduling
<1>4. SavedAsKept /\ DatesAreMarked /\ MinutesAreMarked
  BY <1>1 DEF Time!Init, SavedAsKept, DatesAreMarked, MinutesAreMarked
<1> QED BY <1>2, <1>3, <1>4 DEF TimeInv

\* Days are compared as numbers.
LEMMA Clocks ==
    ASSUME Bounded, Time!TypeOK, ScansFollowTheClock
    PROVE  /\ utcDay \in Nat /\ localDay \in Nat /\ minute \in Nat
           /\ Time!Day \subseteq Nat /\ Time!Minute \subseteq Nat
           /\ zone # "east" => localDay <= utcDay
           /\ zone # "west" => utcDay <= localDay
<1>1. /\ utcDay \in Nat /\ localDay \in Nat /\ minute \in Nat
      /\ Time!Day \subseteq Nat /\ Time!Minute \subseteq Nat
  BY DEF Bounded, Time!TypeOK, Time!Day, Time!Minute
<1>2. CASE zone = "east"
  BY <1>1, <1>2 DEF ScansFollowTheClock, Time!InZone
<1>3. CASE zone = "west"
  BY <1>1, <1>3 DEF ScansFollowTheClock, Time!InZone
<1>4. CASE zone = "utc"
  BY <1>1, <1>4 DEF ScansFollowTheClock, Time!InZone
<1> QED BY <1>1, <1>2, <1>3, <1>4 DEF Time!TypeOK

LEMMA Keeping ==
    ASSUME TimeInv, NEW newDates \in SUBSET (Record \X Time!Day),
           NEW newMinutes \in SUBSET (Time!Minute \X Time!Day),
           Time!Keep(newDates, newMinutes)
    PROVE  /\ dates' = newDates /\ minutes' = newMinutes
           /\ saved' \in [dates : SUBSET (Record \X Time!Day),
                          minutes : SUBSET (Time!Minute \X Time!Day)]
           /\ unkept' \in BOOLEAN /\ misses' \in Nat
           /\ unkept' \/ (~unkept /\ SavedAsKept')
<1>1. /\ saved \in [dates : SUBSET (Record \X Time!Day),
                    minutes : SUBSET (Time!Minute \X Time!Day)]
      /\ unkept \in BOOLEAN /\ misses \in Nat
  BY DEF TimeInv, Time!TypeOK
<1>2. dates' = newDates /\ minutes' = newMinutes
  BY DEF Time!Keep
<1>3. CASE saved' = [dates |-> newDates, minutes |-> newMinutes] /\ UNCHANGED <<unkept, misses>>
  BY <1>1, <1>2, <1>3 DEF SavedAsKept
<1>4. CASE misses' = misses + 1 /\ unkept' = TRUE /\ UNCHANGED saved
  BY <1>1, <1>2, <1>4
<1> QED BY <1>2, <1>3, <1>4 DEF Time!Keep

\* Cleaning removes keys of earlier days only.
LEMMA Cleaning ==
    ASSUME TimeInv, NEW dispatcher \in {"dates", "schedule"}, NEW day \in Time!Day,
           Time!Clean(dispatcher, day)
    PROVE  /\ dates' \subseteq dates /\ \A k \in dates : k \in dates' \/ ~(k[2] >= day)
           /\ minutes' \subseteq minutes /\ \A k \in minutes : k \in minutes' \/ ~(k[2] >= day)
           /\ cleaned' \in [{"dates", "schedule"} -> Time!Day \cup {None}]
           /\ saved' \in [dates : SUBSET (Record \X Time!Day),
                          minutes : SUBSET (Time!Minute \X Time!Day)]
           /\ unkept' \in BOOLEAN /\ misses' \in Nat
           /\ unkept' \/ (~unkept /\ SavedAsKept')
<1> DEFINE keptDates == {k \in dates : k[2] >= day}
           keptMinutes == {k \in minutes : k[2] >= day}
<1>1. cleaned' \in [{"dates", "schedule"} -> Time!Day \cup {None}]
  BY DEF Time!Clean, TimeInv, Time!TypeOK
<1>2. CASE UNCHANGED Time!keys
  BY <1>1, <1>2 DEF Time!keys, TimeInv, Time!TypeOK, SavedAsKept
<1>3. CASE Time!Keep(keptDates, keptMinutes)
  <2>1. keptDates \in SUBSET (Record \X Time!Day) /\ keptMinutes \in SUBSET (Time!Minute \X Time!Day)
    BY DEF TimeInv, Time!TypeOK
  <2>2. /\ dates' = keptDates /\ minutes' = keptMinutes
        /\ saved' \in [dates : SUBSET (Record \X Time!Day),
                       minutes : SUBSET (Time!Minute \X Time!Day)]
        /\ unkept' \in BOOLEAN /\ misses' \in Nat
        /\ unkept' \/ (~unkept /\ SavedAsKept')
    BY <1>3, <2>1, Keeping
  <2> QED BY <1>1, <2>2
<1> QED BY <1>2, <1>3 DEF Time!Clean

-----------------------------------------------------------------------------
(* One lemma for each action.                                              *)

LEMMA TimeTick == ASSUME Bounded, TimeInv, Time!Tick PROVE TimeInv'
<1>1. /\ minute' = minute + 1 /\ minute' \in Time!Minute /\ minute < minute'
      /\ utcDay' \in Time!Day /\ utcDay' >= utcDay /\ localDay' \in Time!Day /\ localDay' >= localDay
      /\ Time!InZone(utcDay', localDay')
      /\ UNCHANGED <<zone, date, Time!keys, cleaned, scan, Time!past, restarts>>
  BY DEF Time!Tick, TimeInv, Time!TypeOK, Bounded, Time!Minute
<1>2. Time!TypeOK'
  BY <1>1 DEF TimeInv, Time!TypeOK, Time!keys, Time!past, Time!Scans
<1>3. /\ utcDay \in Nat /\ localDay \in Nat /\ minute \in Nat /\ utcDay' \in Nat
      /\ Time!Day \subseteq Nat /\ Time!Minute \subseteq Nat
  BY <1>1, Clocks DEF TimeInv
<1>4. ScansFollowTheClock'
  <2>1. Time!InZone(utcDay, localDay)'
    BY <1>1 DEF Time!InZone
  <2>2. (Dating => scan.day \in Time!Day /\ scan.day <= utcDay)'
    <3>1. Dating => scan.day \in Time!Day /\ scan.day <= utcDay
      BY DEF TimeInv, ScansFollowTheClock
    <3>2. scan' = scan /\ utcDay' \in Nat /\ utcDay' >= utcDay
      BY <1>1, <1>3
    <3>3. Dating' => Dating
      BY <3>2 DEF Dating
    <3>4. \A d \in Time!Day : d <= utcDay => d <= utcDay'
      BY <1>3, <3>2
    <3> QED BY <3>1, <3>2, <3>3, <3>4
  <2>3. (Scheduling => /\ scan.day \in Time!Day /\ scan.minute \in Time!Minute
                       /\ scan.minute <= minute
                       /\ scan.minute = minute => scan.day = localDay)'
    <3>1. Scheduling => /\ scan.day \in Time!Day /\ scan.minute \in Time!Minute
                        /\ scan.minute <= minute
      BY DEF TimeInv, ScansFollowTheClock
    <3>2. scan' = scan /\ minute' = minute + 1
      BY <1>1
    <3>3. Scheduling' => Scheduling
      BY <3>2 DEF Scheduling
    <3>4. \A m \in Time!Minute : m <= minute => m <= minute' /\ m # minute'
      BY <1>3, <3>2
    <3> QED BY <3>1, <3>2, <3>3, <3>4
  <2>4. (scan.step = "date" => scan.record \in Record)'
    BY <1>1 DEF TimeInv, ScansFollowTheClock
  <2> QED BY <2>1, <2>2, <2>3, <2>4 DEF ScansFollowTheClock
<1>5. SavedAsKept => SavedAsKept'
  BY <1>1 DEF SavedAsKept, Time!keys
<1>6. DatesAreMarked => DatesAreMarked'
  <2>1. \A d \in Time!Day : Bygone(d) => Bygone(d)'
    BY <1>1, <1>3 DEF Bygone, Dating
  <2> QED BY <1>1, <2>1 DEF DatesAreMarked, Time!keys, Time!past
<1>7. MinutesAreMarked => MinutesAreMarked'
  <2> SUFFICES ASSUME MinutesAreMarked PROVE MinutesAreMarked'
    OBVIOUS
  <2>1. ASSUME NEW m \in Time!Minute, scheduled[m] > 0 \/ (scan.step = "minute" /\ scan.minute = m)
        PROVE  m < minute' /\ (scan.step = "schedule" /\ scan.minute = m => <<m, scan.day>> \in minutes)
    <3>1. CASE m = minute /\ <<m, localDay>> \in minutes
      BY <1>1, <1>3, <3>1 DEF TimeInv, ScansFollowTheClock, Scheduling
    <3>2. CASE m < minute /\ (scan.step = "schedule" /\ scan.minute = m => <<m, scan.day>> \in minutes)
      BY <1>1, <1>3, <3>2
    <3> QED BY <2>1, <3>1, <3>2 DEF MinutesAreMarked
  <2>2. scan' = scan /\ scheduled' = scheduled /\ minutes' = minutes
    BY <1>1 DEF Time!keys, Time!past
  <2> QED BY <2>1, <2>2 DEF MinutesAreMarked
<1>8. zone' = zone /\ unkept' = unkept
  BY <1>1 DEF Time!keys
<1> QED BY <1>2, <1>4, <1>5, <1>6, <1>7, <1>8 DEF TimeInv

\* Steps that leave the clock, the keys and the counts alone, and make no run due.
LEMMA ScanMoves ==
    ASSUME Bounded, TimeInv, UNCHANGED <<Time!clock, Time!keys, Time!past>>,
           Time!TypeOK', ScansFollowTheClock',
           scan'.step # "date" \/ scan' = scan, scan'.step # "minute" \/ scan' = scan,
           Dating' => Dating /\ scan'.day = scan.day,
           scan'.step = "schedule" => scan.step = "schedule" /\ scan' = scan
    PROVE  TimeInv'
<1>1. SavedAsKept => SavedAsKept'
  BY DEF SavedAsKept, Time!keys
<1>2. DatesAreMarked => DatesAreMarked'
  <2>1. \A d \in Time!Day : Bygone(d) => Bygone(d)'
    BY DEF Bygone, Time!clock
  <2> QED BY <2>1 DEF DatesAreMarked, Time!keys, Time!past
<1>3. MinutesAreMarked => MinutesAreMarked'
  BY DEF MinutesAreMarked, Time!keys, Time!past, Time!clock
<1> QED BY <1>1, <1>2, <1>3 DEF TimeInv, Time!clock, Time!keys

LEMMA TimeEditRecord ==
    ASSUME Bounded, TimeInv, NEW r \in Record, Time!EditRecord(r)
    PROVE  TimeInv'
<1>1. /\ date' \in [Record -> Time!Day \cup {None}]
      /\ UNCHANGED <<Time!clock, Time!keys, cleaned, scan, Time!past, restarts>>
  BY DEF Time!EditRecord, TimeInv, Time!TypeOK
<1>2. Time!TypeOK'
  BY <1>1 DEF TimeInv, Time!TypeOK, Time!clock, Time!keys, Time!past
<1>3. ScansFollowTheClock'
  BY <1>1 DEF TimeInv, ScansFollowTheClock, Time!InZone, Dating, Scheduling, Time!clock
<1> QED BY <1>1, <1>2, <1>3, ScanMoves DEF Dating

LEMMA TimeListRecords == ASSUME Bounded, TimeInv, Time!ListRecords PROVE TimeInv'
<1>0. scan \in Time!Scans
  BY DEF TimeInv, Time!TypeOK
<1>e. \E t \in SUBSET Record : scan' = [scan EXCEPT !.step = "list", !.todo = t]
  <2>1. [scan EXCEPT !.step = "list"] = [scan EXCEPT !.step = "list", !.todo = scan.todo]
    BY <1>0 DEF Time!Scans
  <2>2. scan.todo \in SUBSET Record
    BY <1>0 DEF Time!Scans
  <2>3. \/ scan' = [scan EXCEPT !.step = "list", !.todo = {r \in Record : date[r] = scan.day}]
        \/ scan' = [scan EXCEPT !.step = "list", !.todo = scan.todo]
    BY <2>1, Zenon DEF Time!ListRecords
  <2>4. CASE scan' = [scan EXCEPT !.step = "list", !.todo = {r \in Record : date[r] = scan.day}]
    <3>1. {r \in Record : date[r] = scan.day} \in SUBSET Record
      OBVIOUS
    <3> QED BY <2>4, <3>1, Zenon
  <2>5. CASE scan' = [scan EXCEPT !.step = "list", !.todo = scan.todo]
    BY <2>2, <2>5, Zenon
  <2> QED BY <2>3, <2>4, <2>5, Zenon
<1>1. PICK t \in SUBSET Record : scan' = [scan EXCEPT !.step = "list", !.todo = t]
  BY <1>e, Zenon
<1>2. /\ scan.step = "dates"
      /\ UNCHANGED <<Time!clock, date, Time!keys, cleaned, Time!past, restarts>>
  BY DEF Time!ListRecords
<1>3. /\ scan' \in Time!Scans /\ scan'.step = "list" /\ scan'.day = scan.day
  BY <1>1 DEF TimeInv, Time!TypeOK, Time!Scans
<1>4. Time!TypeOK'
  BY <1>2, <1>3 DEF TimeInv, Time!TypeOK, Time!clock, Time!keys, Time!past
<1>5. ScansFollowTheClock'
  BY <1>2, <1>3 DEF TimeInv, ScansFollowTheClock, Time!InZone, Dating, Scheduling, Time!clock
<1> QED BY <1>2, <1>3, <1>4, <1>5, ScanMoves DEF Dating

LEMMA TimeSkipDate ==
    ASSUME Bounded, TimeInv, NEW r \in Record, Time!SkipDate(r)
    PROVE  TimeInv'
<1>1. /\ scan.step = "list" /\ scan' = [scan EXCEPT !.todo = @ \ {r}]
      /\ UNCHANGED <<Time!clock, date, Time!keys, cleaned, Time!past, restarts>>
  BY DEF Time!SkipDate
<1>2. /\ scan' \in Time!Scans /\ scan'.step = "list" /\ scan'.day = scan.day
  BY <1>1 DEF TimeInv, Time!TypeOK, Time!Scans
<1>3. Time!TypeOK'
  BY <1>1, <1>2 DEF TimeInv, Time!TypeOK, Time!clock, Time!keys, Time!past
<1>4. ScansFollowTheClock'
  BY <1>1, <1>2 DEF TimeInv, ScansFollowTheClock, Time!InZone, Dating, Scheduling, Time!clock
<1> QED BY <1>1, <1>2, <1>3, <1>4, ScanMoves DEF Dating

LEMMA TimeSkipMinute == ASSUME Bounded, TimeInv, Time!SkipMinute PROVE TimeInv'
<1>1. /\ scan' = Time!Idle
      /\ UNCHANGED <<Time!clock, date, Time!keys, cleaned, Time!past, restarts>>
  BY DEF Time!SkipMinute
<1>2. scan' \in Time!Scans /\ scan'.step = "idle"
  BY <1>1 DEF Time!Idle, Time!Scans
<1>3. Time!TypeOK'
  BY <1>1, <1>2 DEF TimeInv, Time!TypeOK, Time!clock, Time!keys, Time!past
<1>4. ScansFollowTheClock'
  BY <1>1, <1>2 DEF TimeInv, ScansFollowTheClock, Time!InZone, Dating, Scheduling, Time!clock
<1> QED BY <1>1, <1>2, <1>3, <1>4, ScanMoves DEF Dating

LEMMA TimeMarkDate ==
    ASSUME Bounded, TimeInv, NEW r \in Record, Time!MarkDate(r)
    PROVE  TimeInv'
<1> DEFINE key == <<r, scan.day>>
<1>1. /\ scan.step = "list" /\ key \notin dates
      /\ Time!Keep(dates \cup {key}, minutes)
      /\ scan' = [scan EXCEPT !.step = "date", !.todo = @ \ {r}, !.record = r]
      /\ UNCHANGED <<Time!clock, date, cleaned, Time!past, restarts>>
  BY DEF Time!MarkDate
<1>2. scan.day \in Time!Day /\ key \in Record \X Time!Day
  BY <1>1 DEF TimeInv, ScansFollowTheClock, Dating
<1>3. /\ scan' \in Time!Scans /\ scan'.step = "date" /\ scan'.day = scan.day /\ scan'.record = r
      /\ scan'.minute = scan.minute
  BY <1>1 DEF TimeInv, Time!TypeOK, Time!Scans
<1>4. /\ dates' = dates \cup {key} /\ minutes' = minutes
      /\ saved' \in [dates : SUBSET (Record \X Time!Day),
                     minutes : SUBSET (Time!Minute \X Time!Day)]
      /\ unkept' \in BOOLEAN /\ misses' \in Nat
      /\ unkept' \/ (~unkept /\ SavedAsKept')
  BY <1>1, <1>2, Keeping DEF TimeInv, Time!TypeOK
<1>5. Time!TypeOK'
  BY <1>1, <1>2, <1>3, <1>4 DEF TimeInv, Time!TypeOK, Time!clock, Time!past
<1>6. ScansFollowTheClock'
  BY <1>1, <1>3 DEF TimeInv, ScansFollowTheClock, Time!InZone, Dating, Scheduling, Time!clock
<1>7. DatesAreMarked => DatesAreMarked'
  <2> SUFFICES ASSUME DatesAreMarked PROVE DatesAreMarked'
    OBVIOUS
  <2>1. fired' = fired /\ utcDay' = utcDay
    BY <1>1 DEF Time!past, Time!clock
  <2>2. \A d \in Time!Day : Bygone(d) => Bygone(d)'
    BY <1>1, <1>3, <2>1 DEF Bygone, Dating
  <2>3. ~Bygone(scan.day)
    BY <1>1, <1>2, Clocks DEF Bygone, Dating, TimeInv
  <2>4. fired[key] = 0
    BY <1>1, <1>2, <2>3 DEF DatesAreMarked, TimeInv, Time!TypeOK
  <2>5. \A q \in Record, d \in Time!Day : fired'[<<q, d>>] > 0 => <<q, d>> \in dates' \/ Bygone(d)'
    BY <1>4, <2>1, <2>2 DEF DatesAreMarked
  <2> QED BY <1>3, <1>4, <2>1, <2>4, <2>5 DEF DatesAreMarked
<1>8. MinutesAreMarked => MinutesAreMarked'
  BY <1>1, <1>3, <1>4 DEF MinutesAreMarked, Time!past, Time!clock
<1>9. zone' = zone
  BY <1>1 DEF Time!clock
<1> QED BY <1>4, <1>5, <1>6, <1>7, <1>8, <1>9 DEF TimeInv

LEMMA TimeDeliverDate == ASSUME Bounded, TimeInv, Time!DeliverDate PROVE TimeInv'
<1> DEFINE key == <<scan.record, scan.day>>
<1>1. /\ scan.step = "date"
      /\ fired' = [fired EXCEPT ![key] = @ + 1]
      /\ scan' = [scan EXCEPT !.step = "list", !.record = None]
      /\ UNCHANGED <<Time!clock, date, Time!keys, cleaned, scheduled, restarts>>
  BY DEF Time!DeliverDate
<1>2. scan.record \in Record /\ scan.day \in Time!Day /\ key \in Record \X Time!Day
  BY <1>1 DEF TimeInv, ScansFollowTheClock, Dating
<1>3. /\ scan' \in Time!Scans /\ scan'.step = "list" /\ scan'.day = scan.day
  BY <1>1 DEF TimeInv, Time!TypeOK, Time!Scans
<1>4. /\ fired \in [Record \X Time!Day -> Nat] /\ fired' \in [Record \X Time!Day -> Nat]
      /\ fired'[key] = fired[key] + 1
      /\ \A k \in Record \X Time!Day : k # key => fired'[k] = fired[k]
  BY <1>1, <1>2 DEF TimeInv, Time!TypeOK
<1>5. Time!TypeOK'
  BY <1>1, <1>3, <1>4 DEF TimeInv, Time!TypeOK, Time!clock, Time!keys
<1>6. ScansFollowTheClock'
  BY <1>1, <1>3 DEF TimeInv, ScansFollowTheClock, Time!InZone, Dating, Scheduling, Time!clock
<1>7. DatesAreMarked => DatesAreMarked'
  <2> SUFFICES ASSUME DatesAreMarked PROVE DatesAreMarked'
    OBVIOUS
  <2>1. dates' = dates /\ utcDay' = utcDay
    BY <1>1 DEF Time!keys, Time!clock
  <2>2. \A d \in Time!Day : Bygone(d) => Bygone(d)'
    BY <1>1, <1>3, <2>1 DEF Bygone, Dating
  <2>3. fired[key] = 0 /\ fired'[key] = 1
    BY <1>1, <1>4 DEF DatesAreMarked
  <2>4. ASSUME NEW q \in Record, NEW d \in Time!Day, fired'[<<q, d>>] > 0
        PROVE  <<q, d>> \in dates' \/ Bygone(d)'
    <3>1. CASE <<q, d>> = key
      BY <1>1, <1>2, <2>1, <2>2, <3>1 DEF DatesAreMarked
    <3>2. CASE <<q, d>> # key
      BY <1>4, <2>1, <2>2, <2>4, <3>2 DEF DatesAreMarked
    <3> QED BY <3>1, <3>2
  <2>5. \A k \in Record \X Time!Day : fired'[k] <= 1
    BY <1>4, <2>3 DEF DatesAreMarked
  <2> QED BY <1>3, <2>4, <2>5 DEF DatesAreMarked
<1>8. MinutesAreMarked => MinutesAreMarked'
  BY <1>1, <1>3 DEF MinutesAreMarked, Time!keys, Time!clock
<1>9. SavedAsKept => SavedAsKept'
  BY <1>1 DEF SavedAsKept, Time!keys
<1>10. zone' = zone /\ unkept' = unkept
  BY <1>1 DEF Time!clock, Time!keys
<1> QED BY <1>5, <1>6, <1>7, <1>8, <1>9, <1>10 DEF TimeInv

\* What the dates' dispatcher cleans is bygone, and none of it is a minute of today east of UTC.
LEMMA TimeBeginDates == ASSUME Bounded, TimeInv, Time!BeginDates PROVE TimeInv'
<1>1. /\ scan.step = "idle" /\ Time!Clean("dates", utcDay)
      /\ scan' = [Time!Idle EXCEPT !.step = "dates", !.day = utcDay]
      /\ UNCHANGED <<Time!clock, date, Time!past, restarts>>
  BY DEF Time!BeginDates
<1>2. /\ utcDay \in Nat /\ localDay \in Nat /\ minute \in Nat
      /\ Time!Day \subseteq Nat /\ Time!Minute \subseteq Nat
      /\ zone # "east" => localDay <= utcDay
      /\ zone # "west" => utcDay <= localDay
  BY Clocks DEF TimeInv
<1>3. utcDay \in Time!Day /\ localDay \in Time!Day
  BY DEF TimeInv, Time!TypeOK
<1>4. /\ dates' \subseteq dates /\ \A k \in dates : k \in dates' \/ ~(k[2] >= utcDay)
      /\ minutes' \subseteq minutes /\ \A k \in minutes : k \in minutes' \/ ~(k[2] >= utcDay)
      /\ cleaned' \in [{"dates", "schedule"} -> Time!Day \cup {None}]
      /\ saved' \in [dates : SUBSET (Record \X Time!Day),
                     minutes : SUBSET (Time!Minute \X Time!Day)]
      /\ unkept' \in BOOLEAN /\ misses' \in Nat
      /\ unkept' \/ (~unkept /\ SavedAsKept')
  BY <1>1, <1>3, Cleaning
<1>5. scan' \in Time!Scans /\ scan'.step = "dates" /\ scan'.day = utcDay
  <2>1. Time!Idle \in Time!Scans
    BY DEF Time!Idle, Time!Scans
  <2> QED BY <1>1, <1>3, <2>1 DEF Time!Scans
<1>6. Time!TypeOK'
  BY <1>1, <1>4, <1>5 DEF TimeInv, Time!TypeOK, Time!clock, Time!past
<1>7. ScansFollowTheClock'
  <2>1. Time!InZone(utcDay, localDay)'
    BY <1>1 DEF TimeInv, ScansFollowTheClock, Time!InZone, Time!clock
  <2>2. utcDay' = utcDay /\ localDay' = localDay /\ minute' = minute
    BY <1>1 DEF Time!clock
  <2> QED BY <1>2, <1>3, <1>5, <2>1, <2>2 DEF ScansFollowTheClock, Dating, Scheduling
<1>8. DatesAreMarked => DatesAreMarked'
  <2>1. \A d \in Time!Day : d < utcDay => Bygone(d)'
    BY <1>1, <1>5 DEF Bygone, Time!clock
  <2>2. \A d \in Time!Day : Bygone(d) => Bygone(d)'
    BY <2>1 DEF Bygone
  <2>3. \A r \in Record, d \in Time!Day : <<r, d>> \in dates => <<r, d>> \in dates' \/ d < utcDay
    BY <1>2, <1>4
  <2> QED BY <1>1, <1>5, <2>1, <2>2, <2>3 DEF DatesAreMarked, Time!past
<1>9. zone # "west" /\ MinutesAreMarked => MinutesAreMarked'
  <2> SUFFICES ASSUME zone # "west", MinutesAreMarked PROVE MinutesAreMarked'
    OBVIOUS
  <2>1. <<minute, localDay>> \in minutes => <<minute, localDay>> \in minutes'
    BY <1>2, <1>4
  <2>2. scheduled' = scheduled /\ minute' = minute /\ localDay' = localDay
    BY <1>1 DEF Time!past, Time!clock
  <2> QED BY <1>1, <1>5, <2>1, <2>2 DEF MinutesAreMarked
<1>10. zone' = zone
  BY <1>1 DEF Time!clock
<1> QED BY <1>4, <1>6, <1>7, <1>8, <1>9, <1>10 DEF TimeInv

\* What the schedule's dispatcher cleans is bygone where no local day is ahead of the UTC day.
LEMMA TimeBeginSchedule == ASSUME Bounded, TimeInv, Time!BeginSchedule PROVE TimeInv'
<1>1. /\ scan.step = "list" /\ Time!Clean("schedule", localDay)
      /\ scan' = [Time!Idle EXCEPT !.step = "schedule", !.day = localDay, !.minute = minute]
      /\ UNCHANGED <<Time!clock, date, Time!past, restarts>>
  BY DEF Time!BeginSchedule
<1>2. /\ utcDay \in Nat /\ localDay \in Nat /\ minute \in Nat
      /\ Time!Day \subseteq Nat /\ Time!Minute \subseteq Nat
      /\ zone # "east" => localDay <= utcDay
  BY Clocks DEF TimeInv
<1>3. localDay \in Time!Day /\ minute \in Time!Minute
  BY DEF TimeInv, Time!TypeOK
<1>4. /\ dates' \subseteq dates /\ \A k \in dates : k \in dates' \/ ~(k[2] >= localDay)
      /\ minutes' \subseteq minutes /\ \A k \in minutes : k \in minutes' \/ ~(k[2] >= localDay)
      /\ cleaned' \in [{"dates", "schedule"} -> Time!Day \cup {None}]
      /\ saved' \in [dates : SUBSET (Record \X Time!Day),
                     minutes : SUBSET (Time!Minute \X Time!Day)]
      /\ unkept' \in BOOLEAN /\ misses' \in Nat
      /\ unkept' \/ (~unkept /\ SavedAsKept')
  BY <1>1, <1>3, Cleaning
<1>5. /\ scan' \in Time!Scans /\ scan'.step = "schedule" /\ scan'.day = localDay
      /\ scan'.minute = minute
  <2>1. Time!Idle \in Time!Scans
    BY DEF Time!Idle, Time!Scans
  <2> QED BY <1>1, <1>3, <2>1 DEF Time!Scans
<1>6. Time!TypeOK'
  BY <1>1, <1>4, <1>5 DEF TimeInv, Time!TypeOK, Time!clock, Time!past
<1>7. ScansFollowTheClock'
  <2>1. Time!InZone(utcDay, localDay)'
    BY <1>1 DEF TimeInv, ScansFollowTheClock, Time!InZone, Time!clock
  <2>2. utcDay' = utcDay /\ localDay' = localDay /\ minute' = minute
    BY <1>1 DEF Time!clock
  <2> QED BY <1>2, <1>3, <1>5, <2>1, <2>2 DEF ScansFollowTheClock, Dating, Scheduling
<1>8. zone # "east" /\ DatesAreMarked => DatesAreMarked'
  <2> SUFFICES ASSUME zone # "east", DatesAreMarked PROVE DatesAreMarked'
    OBVIOUS
  <2>1. \A d \in Time!Day : d < utcDay => Bygone(d)'
    BY <1>1, <1>5 DEF Bygone, Dating, Time!clock
  <2>2. \A d \in Time!Day : Bygone(d) => Bygone(d)'
    BY <2>1 DEF Bygone
  <2>3. \A r \in Record, d \in Time!Day : <<r, d>> \in dates => <<r, d>> \in dates' \/ d < utcDay
    BY <1>2, <1>4
  <2> QED BY <1>1, <1>5, <2>1, <2>2, <2>3 DEF DatesAreMarked, Time!past
<1>9. MinutesAreMarked => MinutesAreMarked'
  <2> SUFFICES ASSUME MinutesAreMarked PROVE MinutesAreMarked'
    OBVIOUS
  <2>1. <<minute, localDay>> \in minutes => <<minute, localDay>> \in minutes'
    BY <1>2, <1>4
  <2>2. scheduled' = scheduled /\ minute' = minute /\ localDay' = localDay
    BY <1>1 DEF Time!past, Time!clock
  <2>3. ASSUME NEW m \in Time!Minute, scheduled[m] > 0
        PROVE  \/ m = minute /\ <<m, localDay>> \in minutes'
               \/ m < minute /\ scan'.minute # m
    BY <1>1, <1>2, <1>5, <2>1, <2>3 DEF MinutesAreMarked
  <2> QED BY <1>5, <2>2, <2>3 DEF MinutesAreMarked
<1>10. zone' = zone
  BY <1>1 DEF Time!clock
<1> QED BY <1>4, <1>6, <1>7, <1>8, <1>9, <1>10 DEF TimeInv

LEMMA TimeMarkMinute == ASSUME Bounded, TimeInv, Time!MarkMinute PROVE TimeInv'
<1> DEFINE key == <<scan.minute, scan.day>>
<1>1. /\ scan.step = "schedule" /\ key \notin minutes
      /\ Time!Keep(dates, minutes \cup {key})
      /\ scan' = [scan EXCEPT !.step = "minute"]
      /\ UNCHANGED <<Time!clock, date, cleaned, Time!past, restarts>>
  BY DEF Time!MarkMinute
<1>2. /\ scan.day \in Time!Day /\ scan.minute \in Time!Minute /\ key \in Time!Minute \X Time!Day
      /\ scan.minute <= minute
      /\ scan.minute = minute => scan.day = localDay
  BY <1>1 DEF TimeInv, ScansFollowTheClock, Scheduling
<1>3. /\ scan' \in Time!Scans /\ scan'.step = "minute" /\ scan'.day = scan.day
      /\ scan'.minute = scan.minute
  BY <1>1 DEF TimeInv, Time!TypeOK, Time!Scans
<1>4. /\ dates' = dates /\ minutes' = minutes \cup {key}
      /\ saved' \in [dates : SUBSET (Record \X Time!Day),
                     minutes : SUBSET (Time!Minute \X Time!Day)]
      /\ unkept' \in BOOLEAN /\ misses' \in Nat
      /\ unkept' \/ (~unkept /\ SavedAsKept')
  BY <1>1, <1>2, Keeping DEF TimeInv, Time!TypeOK
<1>5. Time!TypeOK'
  BY <1>1, <1>2, <1>3, <1>4 DEF TimeInv, Time!TypeOK, Time!clock, Time!past
<1>6. ScansFollowTheClock'
  BY <1>1, <1>3 DEF TimeInv, ScansFollowTheClock, Time!InZone, Dating, Scheduling, Time!clock
<1>7. DatesAreMarked => DatesAreMarked'
  <2>1. \A d \in Time!Day : Bygone(d) => Bygone(d)'
    BY <1>1, <1>3 DEF Bygone, Dating, Time!clock
  <2> QED BY <1>1, <1>3, <1>4, <2>1 DEF DatesAreMarked, Time!past
<1>8. MinutesAreMarked => MinutesAreMarked'
  <2> SUFFICES ASSUME MinutesAreMarked PROVE MinutesAreMarked'
    OBVIOUS
  <2>1. scheduled' = scheduled /\ minute' = minute /\ localDay' = localDay
    BY <1>1 DEF Time!past, Time!clock
  <2>2. minute \in Nat /\ Time!Minute \subseteq Nat
    BY Clocks DEF TimeInv
  <2>3. scheduled[scan.minute] = 0
    <3>1. scheduled[scan.minute] \in Nat
      BY <1>2 DEF TimeInv, Time!TypeOK
    <3>2. ~(scheduled[scan.minute] > 0)
      BY <1>1, <1>2, <2>2 DEF MinutesAreMarked
    <3> QED BY <3>1, <3>2
  <2>4. ASSUME NEW m \in Time!Minute, scheduled[m] > 0 \/ scan.minute = m
        PROVE  (m = minute /\ <<m, localDay>> \in minutes') \/ m < minute
    <3>1. CASE scan.minute = m
      BY <1>2, <1>4, <2>2, <3>1
    <3>2. CASE scheduled[m] > 0
      BY <1>4, <3>2 DEF MinutesAreMarked
    <3> QED BY <2>4, <3>1, <3>2
  <2> QED BY <1>3, <2>1, <2>3, <2>4 DEF MinutesAreMarked
<1>9. zone' = zone
  BY <1>1 DEF Time!clock
<1> QED BY <1>4, <1>5, <1>6, <1>7, <1>8, <1>9 DEF TimeInv

LEMMA TimeDeliverMinute == ASSUME Bounded, TimeInv, Time!DeliverMinute PROVE TimeInv'
<1>1. /\ scan.step = "minute"
      /\ scheduled' = [scheduled EXCEPT ![scan.minute] = @ + 1]
      /\ scan' = Time!Idle
      /\ UNCHANGED <<Time!clock, date, Time!keys, cleaned, fired, restarts>>
  BY DEF Time!DeliverMinute
<1>2. scan.minute \in Time!Minute
  BY <1>1 DEF TimeInv, ScansFollowTheClock, Scheduling
<1>3. scan' \in Time!Scans /\ scan'.step = "idle"
  BY <1>1 DEF Time!Idle, Time!Scans
<1>4. /\ scheduled \in [Time!Minute -> Nat] /\ scheduled' \in [Time!Minute -> Nat]
      /\ scheduled'[scan.minute] = scheduled[scan.minute] + 1
      /\ \A m \in Time!Minute : m # scan.minute => scheduled'[m] = scheduled[m]
  BY <1>1, <1>2 DEF TimeInv, Time!TypeOK
<1>5. Time!TypeOK'
  BY <1>1, <1>3, <1>4 DEF TimeInv, Time!TypeOK, Time!clock, Time!keys
<1>6. ScansFollowTheClock'
  BY <1>1, <1>3 DEF TimeInv, ScansFollowTheClock, Time!InZone, Dating, Scheduling, Time!clock
<1>7. DatesAreMarked => DatesAreMarked'
  <2>1. \A d \in Time!Day : Bygone(d) => Bygone(d)'
    BY <1>1, <1>3 DEF Bygone, Dating, Time!clock
  <2> QED BY <1>1, <1>3, <2>1 DEF DatesAreMarked, Time!keys
<1>8. MinutesAreMarked => MinutesAreMarked'
  <2> SUFFICES ASSUME MinutesAreMarked PROVE MinutesAreMarked'
    OBVIOUS
  <2>1. minutes' = minutes /\ minute' = minute /\ localDay' = localDay
    BY <1>1 DEF Time!keys, Time!clock
  <2>2. ASSUME NEW m \in Time!Minute, scheduled'[m] > 0
        PROVE  (m = minute /\ <<m, localDay>> \in minutes) \/ m < minute
    BY <1>1, <1>4, <2>2 DEF MinutesAreMarked
  <2>3. \A m \in Time!Minute : scheduled'[m] <= 1
    BY <1>1, <1>2, <1>4 DEF MinutesAreMarked
  <2> QED BY <1>3, <2>1, <2>2, <2>3 DEF MinutesAreMarked
<1>9. SavedAsKept => SavedAsKept'
  BY <1>1 DEF SavedAsKept, Time!keys
<1>10. zone' = zone /\ unkept' = unkept
  BY <1>1 DEF Time!clock, Time!keys
<1> QED BY <1>5, <1>6, <1>7, <1>8, <1>9, <1>10 DEF TimeInv

LEMMA TimeCrash == ASSUME Bounded, TimeInv, Time!Crash PROVE TimeInv'
<1>1. /\ restarts' = restarts + 1
      /\ dates' = saved.dates /\ minutes' = saved.minutes
      /\ cleaned' = [d \in {"dates", "schedule"} |-> None]
      /\ scan' = Time!Idle
      /\ UNCHANGED <<Time!clock, date, saved, unkept, misses, Time!past>>
  BY DEF Time!Crash
<1>2. scan' \in Time!Scans /\ scan'.step = "idle"
  BY <1>1 DEF Time!Idle, Time!Scans
<1>3. Time!TypeOK'
  BY <1>1, <1>2 DEF TimeInv, Time!TypeOK, Time!clock, Time!past
<1>4. ScansFollowTheClock'
  BY <1>1, <1>2 DEF TimeInv, ScansFollowTheClock, Time!InZone, Dating, Scheduling, Time!clock
<1>5. SavedAsKept => dates' = dates /\ minutes' = minutes /\ SavedAsKept'
  BY <1>1 DEF SavedAsKept
<1>6. SavedAsKept /\ DatesAreMarked => DatesAreMarked'
  <2>1. \A d \in Time!Day : Bygone(d) => Bygone(d)'
    BY <1>1, <1>2 DEF Bygone, Dating, Time!clock
  <2> QED BY <1>1, <1>2, <1>5, <2>1 DEF DatesAreMarked, Time!past
<1>7. SavedAsKept /\ MinutesAreMarked => MinutesAreMarked'
  BY <1>1, <1>2, <1>5 DEF MinutesAreMarked, Time!past, Time!clock
<1>8. zone' = zone /\ unkept' = unkept
  BY <1>1 DEF Time!clock
<1> QED BY <1>3, <1>4, <1>5, <1>6, <1>7, <1>8 DEF TimeInv

LEMMA TimeStutter == ASSUME TimeInv, UNCHANGED Time!vars PROVE TimeInv'
<1> USE DEF Time!vars, Time!clock, Time!keys, Time!past
<1>1. Time!TypeOK' /\ ScansFollowTheClock' /\ (SavedAsKept => SavedAsKept')
  BY DEF TimeInv, Time!TypeOK, ScansFollowTheClock, Time!InZone, Dating, Scheduling, SavedAsKept
<1>2. (DatesAreMarked => DatesAreMarked') /\ (MinutesAreMarked => MinutesAreMarked')
  BY DEF DatesAreMarked, Bygone, Dating, MinutesAreMarked
<1> QED BY <1>1, <1>2 DEF TimeInv

-----------------------------------------------------------------------------
(* The theorems.                                                           *)

THEOREM TimeInvariance == ASSUME Bounded PROVE Time!Spec => []TimeInv
<1>1. Time!Init => TimeInv
  BY TimeInit
<1>2. ASSUME TimeInv, [Time!Next]_(Time!vars) PROVE TimeInv'
  BY <1>2, TimeTick, TimeEditRecord, TimeListRecords, TimeSkipDate,
     TimeSkipMinute, TimeMarkDate, TimeDeliverDate, TimeBeginDates,
     TimeBeginSchedule, TimeMarkMinute, TimeDeliverMinute, TimeCrash,
     TimeStutter DEF Time!Next
<1> QED BY <1>1, <1>2, PTL DEF Time!Spec

\* The state keeps its type.
THEOREM TimeTypeCorrect == ASSUME Bounded PROVE Time!Spec => []Time!TypeOK
<1>1. TimeInv => Time!TypeOK
  BY DEF TimeInv
<1> QED BY TimeInvariance, <1>1, PTL

\* Where no local day begins before the UTC day of its number, a workflow runs for a record on a
\* day once while the keys can be written (dispatch.rs, `mark` before `deliver`).
THEOREM DatesFireOnce == ASSUME Bounded PROVE Time!Spec => []Time!DateFiresOnceInTheWest
<1>1. TimeInv => Time!DateFiresOnceInTheWest
  BY DEF TimeInv, DatesAreMarked, Time!DateFiresOnceInTheWest, Time!DateFiresOnce
<1> QED BY TimeInvariance, <1>1, PTL

\* Where none begins after it, the schedule fires in a minute once, although both dispatchers
\* remove each other's keys (store.rs, `gc_before`).
THEOREM MinutesFireOnce == ASSUME Bounded PROVE Time!Spec => []Time!MinuteFiresOnceInTheEast
<1>1. TimeInv => Time!MinuteFiresOnceInTheEast
  BY DEF TimeInv, MinutesAreMarked, Time!MinuteFiresOnceInTheEast
<1> QED BY TimeInvariance, <1>1, PTL

=============================================================================
