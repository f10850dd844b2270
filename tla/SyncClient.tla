----------------------------- MODULE SyncClient -----------------------------
(***************************************************************************)
(* The connection of `SyncClient` (client.ts) to one room: connections     *)
(* that drop at any moment and are made again, the handshake, the re-join  *)
(* of a room that was joined from the last `seq` seen, the changes pulled, *)
(* and the queue of the pushes made meanwhile with its flush.              *)
(*                                                                         *)
(* The server is external: it answers what comes on a connection in order, *)
(* takes a push as the room's next change, again if it is sent again, or   *)
(* refuses it, and tells a session that joined the changes of others.      *)
(*                                                                         *)
(* The client runs on one thread: a step is a callback together with the   *)
(* continuations of the promises it settles, up to the next one that       *)
(* waits.                                                                  *)
(***************************************************************************)
EXTENDS Naturals, Sequences, FiniteSets, SequencesExt

CONSTANTS
    None,
    MaxPushes,      \* bound: the pushes made
    MaxOthers,      \* bound: the changes others make
    MaxDrops,       \* bound: the connections that drop
    MaxRefusals,    \* bound: the pushes the server refuses
    MaxFaults       \* bound: drops and refusals together

Push == 1 .. MaxPushes          \* numbered as they are made

ASSUME SyncClientAssumption ==
    /\ MaxPushes \in Nat /\ MaxOthers \in Nat /\ MaxDrops \in Nat /\ MaxRefusals \in Nat
    /\ MaxFaults \in Nat
    /\ None \notin Nat

VARIABLES
    state,          \* `connectionState`
    transport,      \* the one the client sends into: none, up, or dead
    greeting,       \* what `sendHello` waits for on it
    joined,         \* whether there is a room to re-join
    lastSeq,        \* the highest `seq` seen of it
    ready,          \* `readyForPushes`
    queue,          \* `pushQueue`
    pending,        \* the pushes sent and not answered, in the order they were
    flushing,       \* the push `flushQueue` waits for, or None
    joining,        \* whether the caller waits for its join
    relaying,       \* whether it has joined, and not left since
    closed,
    fate,           \* the promise of each push
    up, down,       \* the messages to the server, and back
    member,         \* whether the server tells this session the room's changes
    room,           \* the room's changes by seq: a push, or None for a change of others
    heard,          \* the seqs handed to the caller: in a join's result, or to its listener
    drops, refusals,
    waited,         \* the pushes that had to wait in the queue when they were made
    stray           \* the pushes sent where no one answers: a dead or not yet greeted connection

connection == <<state, transport, greeting, closed, drops>>
following == <<joined, lastSeq, joining, relaying, heard>>
pushing == <<queue, pending, flushing, stray>>
server == <<member, room, refusals>>
vars == <<connection, following, ready, pushing, fate, waited, up, down, server>>

Fates == {"unmade", "open", "taken", "refused", "closed"}
Requests == [op : {"push"}, push : Push] \cup [op : {"join", "rejoin"}, since : Nat]
Answers == [op : {"pushed"}, push : Push, seq : Nat] \cup [op : {"refused"}, push : Push]
           \cup [op : {"join", "rejoin"}, since : Nat, seq : Nat] \cup [op : {"pull"}, seq : Nat]

TypeOK ==
    /\ state \in {"offline", "connecting", "online"}
    /\ transport \in {"none", "up", "dead"}
    /\ greeting \in {"none", "hello", "rejoin"}
    /\ joined \in BOOLEAN /\ ready \in BOOLEAN /\ joining \in BOOLEAN /\ relaying \in BOOLEAN
    /\ closed \in BOOLEAN /\ member \in BOOLEAN
    /\ lastSeq \in Nat
    /\ queue \in Seq(Push) /\ pending \in Seq(Push)
    /\ flushing \in Push \cup {None}
    /\ fate \in [Push -> Fates]
    /\ up \in Seq(Requests) /\ down \in Seq(Answers)
    /\ room \in Seq(Push \cup {None})
    /\ heard \subseteq Nat
    /\ drops \in Nat /\ refusals \in Nat
    /\ waited \subseteq Push /\ stray \subseteq Push

Init ==
    /\ state = "offline" /\ transport = "none" /\ greeting = "none"
    /\ joined = FALSE /\ joining = FALSE /\ relaying = FALSE /\ member = FALSE
    /\ ready = FALSE /\ closed = FALSE
    /\ lastSeq = 0 /\ heard = {}
    /\ queue = <<>> /\ pending = <<>> /\ flushing = None
    /\ fate = [p \in Push |-> "unmade"]
    /\ up = <<>> /\ down = <<>> /\ room = <<>>
    /\ drops = 0 /\ refusals = 0
    /\ waited = {} /\ stray = {}

-----------------------------------------------------------------------------
(* Sending pushes. The operators set `pushing` and `up`.                   *)

\* `sendPush` with a transport, `greeted` if the server hears it: what any other is given is
\* never answered.
Send(p, sent, line, greeted) ==
    /\ pending' = Append(sent, p)
    /\ up' = IF greeted THEN Append(line, [op |-> "push", push |-> p]) ELSE line
    /\ stray' = IF greeted THEN stray ELSE stray \cup {p}

\* Not so: the first that waits and no more.
FlushOne(waiting, sent, line, greeted) ==
    IF waiting = <<>>
    THEN queue' = <<>> /\ flushing' = None /\ pending' = sent /\ up' = line /\ UNCHANGED stray
    ELSE /\ queue' = Tail(waiting) /\ flushing' = None
         /\ Send(Head(waiting), sent, line, greeted)

\* `flushQueue` goes on with what waits, and waits for the push it sends.
Flush(waiting, sent, line, greeted) ==
    IF waiting = <<>>
    THEN /\ queue' = <<>> /\ flushing' = None
         /\ pending' = sent /\ up' = line /\ UNCHANGED stray
    ELSE /\ queue' = Tail(waiting) /\ flushing' = Head(waiting)
         /\ Send(Head(waiting), sent, line, greeted)

\* The caller's next push: sent at once if it may, and otherwise queued. A closed client has no
\* transport left, and what it may send goes to the front of the queue.
MakePush(p) ==
    /\ fate[p] = "unmade" /\ \A q \in Push : q < p => fate[q] # "unmade"
    /\ fate' = [fate EXCEPT ![p] = "open"]
    /\ waited' = IF ready THEN waited ELSE waited \cup {p}
    /\ \/ /\ ready /\ transport # "none"
          /\ Send(p, pending, up, state = "online")
          /\ UNCHANGED queue
       \/ /\ ~(ready /\ transport # "none")
          /\ queue' = IF ready THEN <<p>> \o queue ELSE Append(queue, p)
          /\ UNCHANGED <<pending, up, stray>>
    /\ UNCHANGED <<connection, following, ready, flushing, down, server>>

-----------------------------------------------------------------------------
(* The connection.                                                         *)

\* `connect`, and the timer of `scheduleReconnect`.
OpenConnection ==
    /\ state = "offline" /\ ~closed
    /\ state' = "connecting" /\ transport' = "up" /\ greeting' = "hello"
    /\ UNCHANGED <<closed, drops, following, ready, pushing, fate, waited, up, down, server>>

\* The server answers the hello. Without a room to re-join, the queue is flushed at once.
SendHello ==
    /\ greeting = "hello"
    /\ state' = "online"
    /\ \/ /\ joined
          /\ greeting' = "rejoin"
          /\ up' = Append(up, [op |-> "rejoin", since |-> lastSeq])
          /\ UNCHANGED <<ready, pushing>>
       \/ /\ ~joined
          /\ greeting' = "none" /\ ready' = TRUE
          /\ Flush(queue, pending, up, TRUE)
    /\ UNCHANGED <<transport, closed, drops, following, fate, waited, down, server>>

\* Not so: behind what waits; or only the last that was sent.
RequeuedLast == queue \o pending
RequeuedOne == (IF pending = <<>> THEN <<>> ELSE <<pending[Len(pending)]>>) \o queue

\* The pushes in flight go back to the front of the queue.
Requeued == pending \o queue

\* `handleDisconnect`. A flush that waits for its push ends, a join fails; but a `sendHello` that
\* waited for the room goes on once its join has failed, and flushes into the dead transport.
HandleDisconnect ==
    /\ transport = "up" /\ drops < MaxDrops /\ drops + refusals < MaxFaults
    /\ drops' = drops + 1
    /\ state' = "offline" /\ transport' = "dead" /\ greeting' = "none"
    /\ ready' = (greeting = "rejoin")
    /\ joining' = FALSE
    /\ \/ greeting = "rejoin" /\ Flush(Requeued, <<>>, <<>>, FALSE)
       \/ /\ greeting # "rejoin"
          /\ queue' = Requeued
          /\ pending' = <<>> /\ up' = <<>> /\ flushing' = None
          /\ UNCHANGED stray
    /\ down' = <<>> /\ member' = FALSE
    /\ UNCHANGED <<closed, joined, lastSeq, relaying, heard, fate, waited, room, refusals>>

\* Whatever was asked fails, and a `sendHello` that waited for the room goes on as above.
Close ==
    /\ ~closed
    /\ closed' = TRUE
    /\ state' = "offline" /\ transport' = "none" /\ greeting' = "none"
    /\ ready' = (ready \/ greeting = "rejoin")
    /\ joining' = FALSE
    /\ fate' = [p \in Push |-> IF fate[p] = "open" THEN "closed" ELSE fate[p]]
    /\ queue' = <<>> /\ pending' = <<>> /\ flushing' = None
    /\ up' = <<>> /\ down' = <<>> /\ member' = FALSE
    /\ UNCHANGED <<joined, lastSeq, relaying, heard, drops, waited, stray, room, refusals>>

-----------------------------------------------------------------------------
(* The room.                                                               *)

\* The caller joins the room, from a seq it holds.
Join(since) ==
    /\ ~joining /\ ~relaying
    /\ state = "online"
    /\ joining' = TRUE
    /\ up' = Append(up, [op |-> "join", since |-> since])
    /\ UNCHANGED <<connection, joined, lastSeq, relaying, heard, ready, pushing, fate, waited, down,
                   server>>

\* And leaves it; offline, the server is not told.
Leave ==
    /\ relaying
    /\ relaying' = FALSE /\ joined' = FALSE
    /\ member' = (member /\ state # "online")
    /\ UNCHANGED <<connection, lastSeq, joining, heard, ready, pushing, fate, waited, up, down,
                   room, refusals>>

\* Not so: the next seq.
HigherNext(seq) == IF seq + 1 > lastSeq THEN seq + 1 ELSE lastSeq

Higher(seq) == IF seq > lastSeq THEN seq ELSE lastSeq

\* The answer to the caller's join, or to `rejoinAll`, which hands the changes to the listener
\* and lets the pushes go on.
HandleJoined ==
    /\ down # <<>> /\ Head(down).op \in {"join", "rejoin"}
    /\ down' = Tail(down)
    /\ joined' = TRUE
    /\ lastSeq' = Higher(Head(down).seq)
    /\ heard' = heard \cup (Head(down).since + 1 .. Head(down).seq)
    /\ \/ /\ Head(down).op = "join"
          /\ joining' = FALSE /\ relaying' = TRUE
          /\ UNCHANGED <<greeting, ready, pushing, up>>
       \/ /\ Head(down).op = "rejoin"
          /\ greeting' = "none" /\ ready' = TRUE
          /\ Flush(queue, pending, up, TRUE)
          /\ UNCHANGED <<joining, relaying>>
    /\ UNCHANGED <<state, transport, closed, drops, fate, waited, server>>

\* `changes/pull`.
HandlePull ==
    /\ down # <<>> /\ Head(down).op = "pull"
    /\ down' = Tail(down)
    /\ lastSeq' = Higher(Head(down).seq)
    /\ heard' = heard \cup {Head(down).seq}
    /\ UNCHANGED <<connection, joined, joining, relaying, ready, pushing, fate, waited, up, server>>

\* Not so: the push that has waited longest.
AnsweredOldest == Head(pending)

\* The push an answer is for: that of its id.
Answered == Head(down).push

\* The answer to a push: it is settled, and a flush that waited for it goes on.
HandlePushed ==
    /\ down # <<>> /\ Head(down).op \in {"pushed", "refused"}
    /\ down' = Tail(down)
    /\ LET p == Answered
           rest == RemoveFirst(pending, p)
       IN  /\ fate' = [fate EXCEPT ![p] = IF Head(down).op = "pushed" THEN "taken" ELSE "refused"]
           /\ IF Head(down).op = "pushed"
              THEN lastSeq' = Higher(Head(down).seq) /\ heard' = heard \cup {Head(down).seq}
              ELSE UNCHANGED <<lastSeq, heard>>
           /\ \/ p = flushing /\ Flush(queue, rest, up, TRUE)
              \/ p # flushing /\ pending' = rest /\ UNCHANGED <<queue, flushing, up, stray>>
    /\ UNCHANGED <<connection, joined, joining, relaying, ready, waited, server>>

-----------------------------------------------------------------------------
(* The server.                                                             *)

ServerTakes ==
    /\ up # <<>> /\ Head(up).op = "push"
    /\ up' = Tail(up)
    /\ room' = Append(room, Head(up).push)
    /\ down' = Append(down, [op |-> "pushed", push |-> Head(up).push, seq |-> Len(room')])
    /\ UNCHANGED <<connection, following, ready, pushing, fate, waited, member, refusals>>

ServerRefuses ==
    /\ up # <<>> /\ Head(up).op = "push"
    /\ refusals < MaxRefusals /\ drops + refusals < MaxFaults
    /\ refusals' = refusals + 1
    /\ up' = Tail(up)
    /\ down' = Append(down, [op |-> "refused", push |-> Head(up).push])
    /\ UNCHANGED <<connection, following, ready, pushing, fate, waited, member, room>>

ServerJoins ==
    /\ up # <<>> /\ Head(up).op \in {"join", "rejoin"}
    /\ up' = Tail(up)
    /\ member' = TRUE
    /\ down' = Append(down, [op |-> Head(up).op, since |-> Head(up).since, seq |-> Len(room)])
    /\ UNCHANGED <<connection, following, ready, pushing, fate, waited, room, refusals>>

OtherChanges ==
    /\ Cardinality({s \in DOMAIN room : room[s] = None}) < MaxOthers
    /\ room' = Append(room, None)
    /\ down' = IF member THEN Append(down, [op |-> "pull", seq |-> Len(room')]) ELSE down
    /\ UNCHANGED <<connection, following, ready, pushing, fate, waited, up, member, refusals>>

-----------------------------------------------------------------------------

Next ==
    \/ \E p \in Push : MakePush(p)
    \/ OpenConnection \/ SendHello \/ HandleDisconnect \/ Close
    \/ Join(0) \/ Leave
    \/ HandleJoined \/ HandlePull \/ HandlePushed
    \/ ServerTakes \/ ServerRefuses \/ ServerJoins \/ OtherChanges

Spec == Init /\ [][Next]_vars

(* The timer fires, the server answers, and what arrives is handled. No connection has to *)
(* drop and no one has to push, join or leave.                                             *)
Fairness ==
    /\ WF_vars(OpenConnection) /\ WF_vars(SendHello)
    /\ WF_vars(HandleJoined \/ HandlePull \/ HandlePushed)
    /\ WF_vars(ServerTakes \/ ServerRefuses \/ ServerJoins)

FairSpec == Spec /\ Fairness

-----------------------------------------------------------------------------
(* Properties.                                                             *)

\* A push whose promise is open is in the queue or in flight, once, and no other is: no drop,
\* refusal, flush or close loses a push, repeats it, or answers one twice.
EveryPushIsKept ==
    LET kept == queue \o pending
    IN  /\ Range(kept) = {p \in Push : fate[p] = "open"}
        /\ \A i, j \in DOMAIN kept : kept[i] = kept[j] => i = j

\* Pushes that had to wait reach the room in the order they were made, however many connections
\* that takes, if they are not refused or sent where no one answers.
WaitedInOrder ==
    \A p, q \in waited \ stray :
        p < q /\ q \in Range(room) => p \in Range(room) \/ fate[p] = "refused"

\* The room is re-joined from a seq up to which its caller was handed every change, or made it
\* itself: a drop between a push and its answer, or between changes, leaves no gap.
NothingIsSkipped == relaying => 1 .. lastSeq \subseteq heard

\* What the client keeps of its pushes is what it promised of them.
Link == INSTANCE PushLink WITH held <- Range(room) \ {None}
KeepsItsPromises == Link!LinkSpec

\* Every push is settled in the end, unless it went where no one answers or the client is closed.
EveryPushSettles ==
    \A p \in Push : fate[p] = "open" ~> fate[p] # "open" \/ p \in stray \/ closed

=============================================================================
