----------------------------- MODULE SyncRelay ------------------------------
(***************************************************************************)
(* The relay between an open document's replica and its room (`startRelay` *)
(* of relay.ts), on the sync client's connection (SyncClient), with the    *)
(* position that is kept for the next session (`follow` of                 *)
(* collabRelays.ts): what the room is known to hold from here, and the seq *)
(* up to which the replica has everything.                                 *)
(*                                                                         *)
(* The relay runs one step at a time, in order; a step waits for the       *)
(* replica and for the server in the middle, and the person edits          *)
(* meanwhile. The window may be gone at any moment: the next one starts    *)
(* from the replica as it was last saved and from what was kept.           *)
(*                                                                         *)
(* A version is the set of the changes it holds. Of the blobs of changes   *)
(* there is this: to upload or to fetch some may fail at any time.         *)
(***************************************************************************)
EXTENDS SyncClient

CONSTANTS
    MaxEdits,       \* bound: the changes the person makes
    MaxCrashes,     \* bound: the windows that go away
    MaxBlocked      \* bound: the imports that fail, and the transfers that do while online

ASSUME SyncRelayAssumption == MaxEdits \in Nat /\ MaxCrashes \in Nat /\ MaxBlocked \in Nat

VARIABLES
    replica,        \* the changes the open replica holds
    saved,          \* and those its file did when it was last saved
    edits,
    lastSent,       \* the version the room is known to hold, as far as the relay says
    todo,           \* the relay's `queue`: the rest of the step that runs, and the steps after it
    waiting,        \* the seqs pulled whose blobs could not be fetched yet
    content,        \* the changes each push carries
    sentBy,         \* `lastSent` when it was handed to the client
    kept,           \* the room's record: `lastSent` and `seen`
    since,          \* the seq this window's relay joins from
    blocked,        \* whether the kit refused a change
    crashes, blocks,
    overtaken,      \* the pushes a later one was settled before
    heldBack,       \* the changes the last step that was to send some left unsent
    dropped         \* the seqs whose import failed, and those after them in the step

relayState == <<replica, edits, lastSent, todo, waiting>>
session == <<kept, since, blocked, blocks>>
failed == <<heldBack, dropped>>
relayVars == <<relayState, saved, content, sentBy, session, crashes, overtaken, failed>>

Change == {<<"own", n>> : n \in 1 .. MaxEdits}
          \cup {<<"other", n>> : n \in 1 .. (MaxOthers + MaxPushes * (MaxDrops + 1))}

Seqs == Seq(Nat)
Step == [op : {"online", "joining", "waiting", "send"}]
        \cup [op : {"export"}, version : SUBSET Change]
        \cup [op : {"import"}, seqs : Seqs, seen : Nat \cup {None},
              rest : Seq([op : {"waiting"}])]

RelayTypeOK ==
    /\ TypeOK
    /\ replica \subseteq Change /\ saved \subseteq Change /\ lastSent \subseteq Change
    /\ edits \in Nat /\ since \in Nat /\ crashes \in Nat /\ blocks \in Nat
    /\ todo \in Seq(Step)
    /\ waiting \subseteq Nat
    /\ content \in [Push -> SUBSET Change] /\ sentBy \in [Push -> SUBSET Change]
    /\ kept.sent \subseteq Change
    /\ kept.seen = None \/ kept.seen \in [seq : Nat, version : SUBSET Change]
    /\ blocked \in BOOLEAN
    /\ overtaken \subseteq Push
    /\ heldBack \subseteq Change /\ dropped \subseteq Nat

RelayInit ==
    /\ Init
    /\ replica = {} /\ saved = {} /\ edits = 0
    /\ lastSent = {} /\ todo = <<>> /\ waiting = {}
    /\ content = [p \in Push |-> {}] /\ sentBy = [p \in Push |-> {}]
    /\ kept = [sent |-> {}, seen |-> None]
    /\ since = 0 /\ blocked = FALSE
    /\ crashes = 0 /\ blocks = 0 /\ overtaken = {}
    /\ heldBack = {} /\ dropped = {}

\* What the room's change of a seq carries, and what all of them do.
Entry(seq) == IF room[seq] = None THEN {<<"other", seq>>} ELSE content[room[seq]]
InRoom == UNION {Entry(seq) : seq \in DOMAIN room}

Online == [op |-> "online"]
WaitingStep == [op |-> "waiting"]   \* and the sending after it
SendStep == [op |-> "send"]
ImportStep(seqs, seen, rest) == [op |-> "import", seqs |-> seqs, seen |-> seen, rest |-> rest]

\* The replica tells of its change. Two sendings in a row do no more than one.
Sending(steps) ==
    IF steps # <<>> /\ steps[Len(steps)] = SendStep THEN steps ELSE Append(steps, SendStep)

Running(op) == todo # <<>> /\ Head(todo).op = op

-----------------------------------------------------------------------------
(* The person and the file.                                                *)

Edit ==
    /\ edits < MaxEdits /\ ~blocked
    /\ edits' = edits + 1
    /\ replica' = replica \cup {<<"own", edits'>>}
    /\ todo' = Sending(todo)
    /\ UNCHANGED <<vars, lastSent, waiting, saved, content, sentBy, session, crashes, overtaken,
                   failed>>

SaveReplica ==
    /\ crashes < MaxCrashes
    /\ saved' = replica
    /\ UNCHANGED <<vars, relayState, content, sentBy, session, crashes, overtaken, failed>>

-----------------------------------------------------------------------------
(* `sendLocal`. The version is taken first, the export after it.           *)

TakeVersion ==
    /\ Running("send")
    /\ todo' = IF relaying THEN <<[op |-> "export", version |-> replica]>> \o Tail(todo)
               ELSE Tail(todo)
    /\ UNCHANGED <<vars, replica, edits, lastSent, waiting, saved, content, sentBy, session,
                   crashes, overtaken, failed>>

\* A transfer of blobs fails: offline any does, and online some may.
TransferFails ==
    /\ state = "online" => blocks < MaxBlocked
    /\ blocks' = IF state = "online" THEN blocks + 1 ELSE blocks

\* The export is pushed once its blobs are uploaded; it is left for the next time if they
\* cannot be, or if it is empty.
Exported == replica \ lastSent

PushLocal(p) ==
    /\ Running("export") /\ Exported # {}
    /\ MakePush(p)
    /\ lastSent' = lastSent \cup Head(todo).version
    /\ content' = [content EXCEPT ![p] = Exported]
    /\ sentBy' = [sentBy EXCEPT ![p] = lastSent']
    /\ heldBack' = {}
    /\ todo' = Tail(todo)
    /\ UNCHANGED <<replica, edits, waiting, saved, session, crashes, overtaken, dropped>>

\* Not so: the version counts as sent all the same.
PushNothingSent ==
    /\ Running("export")
    /\ IF Exported = {} THEN UNCHANGED blocks ELSE TransferFails
    /\ lastSent' = lastSent \cup Head(todo).version
    /\ heldBack' = Exported
    /\ todo' = Tail(todo)
    /\ UNCHANGED <<vars, replica, edits, waiting, saved, content, sentBy, kept, since, blocked,
                   crashes, overtaken, dropped>>

PushNothing ==
    /\ Running("export")
    /\ IF Exported = {} THEN UNCHANGED blocks ELSE TransferFails
    /\ heldBack' = Exported
    /\ todo' = Tail(todo)
    /\ UNCHANGED <<vars, replica, edits, lastSent, waiting, saved, content, sentBy, kept, since,
                   blocked, crashes, overtaken, dropped>>

-----------------------------------------------------------------------------
(* The rest of the relay's steps.                                          *)

\* The rest of the running step, once an import is over: the next change, or what follows the
\* last one.
Imported(step) ==
    (IF Len(step.seqs) > 1 THEN <<[step EXCEPT !.seqs = Tail(@)]>> ELSE step.rest) \o Tail(todo)

\* Not so: though one waits for its blobs.
SeenAnyway(step, version, still) ==
    IF Len(step.seqs) <= 1 /\ step.seen # None /\ ~blocked
    THEN [kept EXCEPT !.seen = [seq |-> step.seen, version |-> version]]
    ELSE kept

\* `seen`, after the last change of the step, unless one waits for its blobs; and `onSeen`,
\* unless the kit refused one.
Seen(step, version, still) ==
    IF Len(step.seqs) <= 1 /\ step.seen # None /\ still = {} /\ ~blocked
    THEN [kept EXCEPT !.seen = [seq |-> step.seen, version |-> version]]
    ELSE kept

\* `importRemote` of the step's next change; a join may bring none. The replica tells of it.
ImportRemote ==
    /\ Running("import")
    /\ LET step == Head(todo)
           change == IF step.seqs = <<>> THEN {} ELSE Entry(Head(step.seqs))
       IN  /\ replica' = replica \cup change
           /\ lastSent' = lastSent \cup change
           /\ todo' = IF change \subseteq replica THEN Imported(step) ELSE Sending(Imported(step))
           /\ kept' = Seen(step, replica', waiting)
    /\ UNCHANGED <<vars, edits, waiting, saved, content, sentBy, since, blocked, blocks, crashes,
                   overtaken, failed>>

\* Not so: it is skipped.
ImportNever ==
    /\ Running("import") /\ Head(todo).seqs # <<>>
    /\ TransferFails
    /\ todo' = Imported(Head(todo))
    /\ UNCHANGED <<vars, replica, edits, lastSent, waiting, saved, content, sentBy, kept, since,
                   blocked, crashes, overtaken, failed>>

\* Its blobs cannot be fetched: it waits, and so does what a pull's step goes on to do.
ImportLater ==
    /\ Running("import") /\ Head(todo).seqs # <<>>
    /\ TransferFails
    /\ waiting' = waiting \cup {Head(Head(todo).seqs)}
    /\ todo' = Imported(Head(todo))
    /\ UNCHANGED <<vars, replica, edits, lastSent, saved, content, sentBy, kept, since, blocked,
                   crashes, overtaken, failed>>

\* The kit refuses a change of another's newer kit: the step fails with what it had left, and
\* the position goes.
ImportRefused ==
    /\ blocks < MaxBlocked
    /\ \E seq \in DOMAIN room :
          /\ room[seq] = None /\ Entry(seq) \cap replica = {}
          /\ \/ /\ Running("import") /\ Head(todo).seqs # <<>> /\ Head(Head(todo).seqs) = seq
                /\ UNCHANGED waiting
             \/ /\ Running("waiting") /\ seq \in waiting
                /\ waiting' = waiting \ {seq}
    /\ blocks' = blocks + 1 /\ blocked' = TRUE
    /\ kept' = [kept EXCEPT !.seen = None]
    /\ todo' = Tail(todo)
    /\ UNCHANGED <<vars, replica, edits, lastSent, saved, content, sentBy, since, crashes,
                   overtaken, failed>>

\* The import fails otherwise: the change is in neither the replica nor `waiting`, the step fails
\* with the changes and the sending it had left, and the position stays.
ImportFails ==
    /\ blocks < MaxBlocked
    /\ \/ /\ Running("import") /\ Head(todo).seqs # <<>>
          /\ dropped' = dropped \cup Range(Head(todo).seqs)
          /\ heldBack' = IF Head(todo).rest = <<>> THEN heldBack ELSE Exported
          /\ UNCHANGED waiting
       \/ /\ Running("waiting")
          /\ \E seq \in waiting : waiting' = waiting \ {seq} /\ dropped' = dropped \cup {seq}
          /\ heldBack' = Exported
    /\ blocks' = blocks + 1
    /\ todo' = Tail(todo)
    /\ UNCHANGED <<vars, replica, edits, lastSent, saved, content, sentBy, kept, since, blocked,
                   crashes, overtaken>>

\* `importWaiting`, until the blobs of one cannot be fetched.
ImportWaiting ==
    /\ Running("waiting")
    /\ \/ /\ IF waiting = {} THEN UNCHANGED blocks ELSE TransferFails
          /\ todo' = <<SendStep>> \o Tail(todo)
          /\ UNCHANGED <<replica, lastSent, waiting>>
       \/ /\ \E seq \in waiting :
                /\ waiting' = waiting \ {seq}
                /\ replica' = replica \cup Entry(seq)
                /\ lastSent' = lastSent \cup Entry(seq)
                /\ todo' = IF Entry(seq) \subseteq replica THEN todo ELSE Sending(todo)
          /\ UNCHANGED blocks
    /\ UNCHANGED <<vars, edits, saved, content, sentBy, kept, since, blocked, crashes, overtaken,
                   failed>>

\* The connection is back: the relay joins if it has not, and goes on with what waited.
BackOnline ==
    /\ Running("online")
    /\ \/ /\ relaying
          /\ todo' = <<WaitingStep>> \o Tail(todo)
          /\ UNCHANGED vars
       \/ /\ ~relaying /\ state = "online"
          /\ Join(since)
          /\ todo' = <<[op |-> "joining"]>> \o Tail(todo)
       \/ /\ ~relaying /\ state # "online"
          /\ todo' = Tail(todo)
          /\ UNCHANGED vars
    /\ UNCHANGED <<replica, edits, lastSent, waiting, saved, content, sentBy, session, crashes,
                   overtaken, failed>>

-----------------------------------------------------------------------------
(* The client's steps, with what they tell the relay.                      *)

Unheard == UNCHANGED <<relayVars>>
Told(steps) ==
    /\ todo' = steps
    /\ UNCHANGED <<replica, edits, lastSent, waiting, saved, content, sentBy, session, crashes,
                   overtaken, failed>>

Connecting == OpenConnection /\ Unheard

\* `onState`.
Greeted == SendHello /\ Told(Append(todo, Online))

\* A join that is on its way fails, and its step with it.
Dropped == HandleDisconnect /\ Told(IF Running("joining") THEN Tail(todo) ELSE todo)

\* The result of the relay's own join, every change of it, is the rest of its step; `rejoinAll`
\* hands each change to `onChanges`, without a seq.
JoinedRoom ==
    /\ HandleJoined
    /\ LET answer == Head(down)
           seqs == [n \in 1 .. (answer.seq - answer.since) |-> answer.since + n]
       IN  Told(IF answer.op = "join"
                THEN <<ImportStep(seqs, answer.seq, <<WaitingStep>>)>> \o Tail(todo)
                ELSE todo \o [n \in DOMAIN seqs |-> ImportStep(<<seqs[n]>>, None, <<>>)])

Pulled == HandlePull /\ Told(Append(todo, ImportStep(<<Head(down).seq>>, Head(down).seq, <<>>)))

\* Not so: the version sent last, by whichever push.
SentLately(p) == lastSent

\* What `onSent` tells once a push is settled: the version it was sent with.
SentWith(p) == sentBy[p]

\* `onSent`: the room's record takes the version that was sent. A refusal is an error shown.
PushSettled ==
    /\ HandlePushed
    /\ LET p == Head(down).push
       IN  IF Head(down).op = "pushed"
           THEN /\ kept' = [kept EXCEPT !.sent = SentWith(p)]
                /\ overtaken' = overtaken \cup {q \in Push : q < p /\ fate[q] \in {"open", "refused"}}
           ELSE UNCHANGED <<kept, overtaken>>
    /\ UNCHANGED <<relayState, saved, content, sentBy, since, blocked, blocks, crashes, failed>>

Serving == (ServerTakes \/ ServerRefuses \/ ServerJoins) /\ Unheard
OthersChange == OtherChanges /\ Unheard

-----------------------------------------------------------------------------
(* The next window.                                                        *)

\* Not so: whatever the replica holds.
ResumeAnyway == IF kept.seen # None THEN kept.seen.seq ELSE 0

\* `resumeSeq`: from the seq that was kept, if the replica still holds what it did then.
ResumeSeq == IF kept.seen # None /\ kept.seen.version \subseteq saved THEN kept.seen.seq ELSE 0

Crash ==
    /\ crashes < MaxCrashes
    /\ crashes' = crashes + 1
    /\ state' = "offline" /\ transport' = "none" /\ greeting' = "none"
    /\ joined' = FALSE /\ joining' = FALSE /\ relaying' = FALSE /\ member' = FALSE
    /\ ready' = FALSE
    /\ lastSeq' = 0 /\ heard' = {}
    /\ fate' = [p \in Push |-> IF fate[p] = "open" THEN "closed" ELSE fate[p]]
    /\ queue' = <<>> /\ pending' = <<>> /\ flushing' = None
    /\ up' = <<>> /\ down' = <<>>
    /\ replica' = saved /\ lastSent' = kept.sent
    /\ todo' = <<>> /\ waiting' = {}
    /\ since' = ResumeSeq /\ blocked' = FALSE /\ heldBack' = {}
    /\ UNCHANGED <<closed, drops, waited, stray, room, refusals, edits, saved, content, sentBy,
                   kept, blocks, overtaken, dropped>>

-----------------------------------------------------------------------------

RelayStep ==
    \/ TakeVersion \/ (\E p \in Push : PushLocal(p)) \/ PushNothing
    \/ ImportRemote \/ ImportLater \/ ImportWaiting \/ BackOnline

RelayNext ==
    \/ Edit \/ SaveReplica \/ RelayStep \/ ImportRefused \/ ImportFails
    \/ Connecting \/ Greeted \/ Dropped \/ JoinedRoom \/ Pulled \/ PushSettled
    \/ Serving \/ OthersChange \/ Crash

RelaySpec == RelayInit /\ [][RelayNext]_<<vars, relayVars>>

-----------------------------------------------------------------------------
(* Properties.                                                             *)

\* The position kept is true: the version it names holds every change of the room up to its
\* seq, whatever waited, was refused by the kit, was handed on twice or came while the connection
\* dropped. A change whose import failed for another reason, and those its step had left, are
\* lost to it: the next change that is imported moves the position past them
\* (relay.ts:146, 160-163, 177, against relay.ts:18-21).
SeenIsHeld ==
    kept.seen # None
    => \A seq \in (1 .. kept.seen.seq) \ dropped : Entry(seq) \subseteq kept.seen.version

\* So the next window misses nothing else: what it does not join for, its replica holds.
JoinsForWhatItLacks == \A seq \in (1 .. since) \ dropped : Entry(seq) \subseteq replica

\* The version that is kept as sent is in the room, but for the pushes a later one was settled
\* before: those the server refused, and those that still wait while a newer push is sent.
SentIsInRoom == kept.sent \subseteq InRoom \cup UNION {content[p] : p \in overtaken}

\* Nothing is counted as sent that no push carries.
SentIsCarried ==
    lastSent \subseteq InRoom
        \cup UNION {content[p] : p \in overtaken \cup {q \in Push : fate[q] \in {"open", "refused"}}}

\* When nothing is left to do, the replica and the room hold the same, until the kit reads what
\* it refused: but for the pushes that were lost as above or went where no one answers, what the
\* last step to send could not, the changes that wait for their blobs until the connection is
\* made again, and those whose import failed.
AtRest ==
    /\ state = "online" /\ greeting = "none" /\ ~blocked
    /\ todo = <<>> /\ queue = <<>> /\ up = <<>> /\ down = <<>>
Lost == UNION {content[p] : p \in overtaken \cup stray \cup {q \in Push : fate[q] = "refused"}}
Missed == UNION {Entry(seq) : seq \in waiting \cup dropped}
AtRestTheyAgree ==
    AtRest => replica \subseteq InRoom \cup Lost \cup heldBack /\ InRoom \subseteq replica \cup Missed

=============================================================================
