----------------------------- MODULE SyncLeases -----------------------------
(***************************************************************************)
(* The leases of one scope of a co-edited document (leases.ts): `hold`,    *)
(* which takes the lease and renews it, on each person's connection        *)
(* (`SyncLeases`), and the holds of the open document (`DocumentLeases`),  *)
(* which its kit acquires and releases.                                    *)
(*                                                                         *)
(* The server is external: it handles what comes on a connection in order, *)
(* grants the scope to one session at a time, tells the room of a change   *)
(* before it answers, and ends the leases of a session that leaves the     *)
(* room or goes away, which it and the client may notice one before the    *)
(* other.  A lease runs out only if its client does not renew it.          *)
(***************************************************************************)
EXTENDS Naturals, Sequences, FiniteSets

CONSTANTS
    Person,
    None,
    MaxCalls,       \* bound: the kits' acquires
    MaxOpens,       \* bound: the times a document is opened
    MaxSessions     \* bound: the connections

Session == 1 .. MaxSessions     \* numbered as they are made
Call == 1 .. MaxCalls
Hold == [call : Call, renewing : BOOLEAN]

ASSUME SyncLeasesAssumption ==
    /\ MaxCalls \in Nat /\ MaxOpens \in Nat /\ MaxSessions \in Nat
    /\ None \notin Nat /\ None \notin Hold

VARIABLES
    sessions,       \* the connections made
    link,           \* the connection of each person, as its client sees it, or None
    live,           \* the sessions the server still has
    members,        \* and those in the room
    lease,          \* the session the server granted the scope to, or None
    up, down,       \* the messages of each person's connection, to the server and back
    session,        \* `SyncLeases.session`
    list,           \* the lease of the room's list, as last heard
    shown,          \* what the listeners were last told of it: the lease, and whether it is mine
    hold,           \* the hold that is kept renewed, or None
    calls, opens,
    opened,         \* whether the document is open, and in its room
    asking,         \* the kit's acquires that are not answered
    held,           \* the hold of the open document, or None
    crossed         \* whether a release went out while an acquire was on its way

client == <<session, list, shown, hold>>
document == <<opened, asking, held, crossed>>
vars == <<sessions, link, live, members, lease, up, down, client, calls, opens, document>>

Requests == [op : {"acquire"}, call : Call, renews : BOOLEAN] \cup [op : {"release", "leave", "join"}]
Answers == [op : {"granted"}, call : Call, renews : BOOLEAN, session : Session]
           \cup [op : {"refused"}, call : Call, renews : BOOLEAN]
           \cup [op : {"changed"}, lease : Session \cup {None}]

Lease == Session \cup {None}

TypeOK ==
    /\ sessions \in 0 .. MaxSessions
    /\ link \in [Person -> Lease] /\ session \in [Person -> Lease] /\ list \in [Person -> Lease]
    /\ live \subseteq Session /\ members \subseteq live
    /\ lease \in members \cup {None}
    /\ up \in [Person -> Seq(Requests)] /\ down \in [Person -> Seq(Answers)]
    /\ shown \in [Person -> [lease : Lease, mine : BOOLEAN]]
    /\ hold \in [Person -> Hold \cup {None}]
    /\ calls \in 0 .. MaxCalls /\ opens \in 0 .. MaxOpens
    /\ opened \in [Person -> BOOLEAN] /\ crossed \in [Person -> BOOLEAN]
    /\ asking \in [Person -> SUBSET Call]
    /\ held \in [Person -> Call \cup {None}]

Init ==
    /\ sessions = 0 /\ calls = 0 /\ opens = 0
    /\ link = [p \in Person |-> None] /\ live = {} /\ members = {} /\ lease = None
    /\ up = [p \in Person |-> <<>>] /\ down = [p \in Person |-> <<>>]
    /\ session = [p \in Person |-> None] /\ list = [p \in Person |-> None]
    /\ shown = [p \in Person |-> [lease |-> None, mine |-> FALSE]]
    /\ hold = [p \in Person |-> None]
    /\ opened = [p \in Person |-> FALSE] /\ asking = [p \in Person |-> {}]
    /\ held = [p \in Person |-> None] /\ crossed = [p \in Person |-> FALSE]

Online(p) == link[p] # None

\* What a connection the server has given up is given goes nowhere.
Sent(p, messages) ==
    up' = IF link[p] \in live THEN [up EXCEPT ![p] = @ \o messages] ELSE up

\* What the listeners are told of a lease, by a client that knows itself as `self`.
Shown(heard, self) == [lease |-> heard, mine |-> self # None /\ heard = self]

\* `set`: the listeners hear a list unless it was empty and is.
Heard(p, heard, self) ==
    /\ list' = [list EXCEPT ![p] = heard]
    /\ shown' = IF heard = None /\ list[p] = None THEN shown
                ELSE [shown EXCEPT ![p] = Shown(heard, self)]

Active(p, call) == hold[p] # None /\ hold[p].call = call

\* Not so: the document does not hear it.
LoseQuietly(p) == hold' = [hold EXCEPT ![p] = None] /\ UNCHANGED held

\* Not so: a refused renewal is tried again.
LoseNothing(p) == (hold' = IF hold[p] = None THEN hold ELSE [hold EXCEPT ![p].renewing = FALSE])
                  /\ UNCHANGED held

\* `lose`: the hold ends, and the document that has it hears that.
Lose(p) ==
    /\ hold' = [hold EXCEPT ![p] = None]
    /\ held' = IF hold[p] # None /\ held[p] = hold[p].call THEN [held EXCEPT ![p] = None] ELSE held

-----------------------------------------------------------------------------
(* Connections and the document.                                           *)

\* A document that is open is joined again.
Connect(p) ==
    /\ ~Online(p) /\ sessions < MaxSessions
    /\ sessions' = sessions + 1
    /\ link' = [link EXCEPT ![p] = sessions']
    /\ live' = live \cup {sessions'}
    /\ up' = [up EXCEPT ![p] = IF opened[p] THEN <<[op |-> "join"]>> ELSE <<>>]
    /\ down' = [down EXCEPT ![p] = <<>>]
    /\ UNCHANGED <<members, lease, client, calls, opens, document>>

\* `disconnected`: the client learns that its connection is gone. Its requests fail.
Disconnected(p) ==
    /\ Online(p)
    /\ link' = [link EXCEPT ![p] = None]
    /\ up' = [up EXCEPT ![p] = <<>>] /\ down' = [down EXCEPT ![p] = <<>>]
    /\ session' = [session EXCEPT ![p] = None]
    /\ Lose(p)
    /\ asking' = [asking EXCEPT ![p] = {}]
    /\ crossed' = [crossed EXCEPT ![p] = FALSE]
    /\ Heard(p, None, None)
    /\ UNCHANGED <<sessions, live, members, lease, calls, opens, opened>>

Open(p) ==
    /\ ~opened[p] /\ opens < MaxOpens
    /\ opens' = opens + 1
    /\ opened' = [opened EXCEPT ![p] = TRUE]
    /\ Sent(p, <<[op |-> "join"]>>)
    /\ UNCHANGED <<sessions, link, live, members, lease, down, client, calls, asking, held, crossed>>

\* `dispose`, then `left` as the relay stops: what is held is released, and the room is left.
CloseDocument(p) ==
    /\ opened[p]
    /\ opened' = [opened EXCEPT ![p] = FALSE]
    /\ Sent(p, (IF held[p] # None THEN <<[op |-> "release"]>> ELSE <<>>) \o <<[op |-> "leave"]>>)
    /\ held' = [held EXCEPT ![p] = None]
    /\ hold' = [hold EXCEPT ![p] = None]
    /\ asking' = [asking EXCEPT ![p] = {}]
    /\ crossed' = [crossed EXCEPT ![p] = FALSE]
    /\ Heard(p, None, session[p])
    /\ UNCHANGED <<sessions, link, live, members, lease, down, session, calls, opens>>

-----------------------------------------------------------------------------
(* The kit's calls.                                                        *)

\* `DocumentLeases.acquire`. Offline, the edit goes ahead without.
Acquire(p) ==
    /\ opened[p] /\ Online(p) /\ calls < MaxCalls
    /\ calls' = calls + 1
    /\ asking' = [asking EXCEPT ![p] = @ \cup {calls'}]
    /\ Sent(p, <<[op |-> "acquire", call |-> calls', renews |-> FALSE]>>)
    /\ UNCHANGED <<sessions, link, live, members, lease, down, client, opens, opened, held, crossed>>

\* `DocumentLeases.release`, and the hold's own: the server is told even if another hold has
\* taken its place.
Release(p) ==
    /\ held[p] # None
    /\ held' = [held EXCEPT ![p] = None]
    /\ hold' = IF Active(p, held[p]) THEN [hold EXCEPT ![p] = None] ELSE hold
    /\ crossed' = [crossed EXCEPT ![p] = asking[p] # {}]
    /\ Sent(p, <<[op |-> "release"]>>)
    /\ UNCHANGED <<sessions, link, live, members, lease, down, session, list, shown, calls, opens,
                   opened, asking>>

\* The timer of a hold.
Renew(p) ==
    /\ hold[p] # None /\ ~hold[p].renewing
    /\ hold' = [hold EXCEPT ![p].renewing = TRUE]
    /\ Sent(p, <<[op |-> "acquire", call |-> hold[p].call, renews |-> TRUE]>>)
    /\ UNCHANGED <<sessions, link, live, members, lease, down, session, list, shown, calls, opens, document>>

-----------------------------------------------------------------------------
(* What the client hears.                                                  *)

Message(p) == Head(down[p])
Receive(p, ops) ==
    /\ down[p] # <<>> /\ Message(p).op \in ops
    /\ down' = [down EXCEPT ![p] = Tail(@)]

\* `receive`.
Changed(p) ==
    /\ Receive(p, {"changed"})
    /\ Heard(p, Message(p).lease, session[p])
    /\ UNCHANGED <<sessions, link, live, members, lease, up, session, hold, calls, opens, document>>

\* Not so: what was heard before stays as it was told.
LearnQuietly(p) == session' = [session EXCEPT ![p] = Message(p).session] /\ UNCHANGED <<list, shown>>

\* `acquire` learns the session from the first lease, and tells the listeners again what they
\* could not know before.
Learn(p) ==
    /\ session' = [session EXCEPT ![p] = Message(p).session]
    /\ shown' = IF session[p] # Message(p).session /\ list[p] # None
                THEN [shown EXCEPT ![p] = Shown(list[p], Message(p).session)] ELSE shown
    /\ UNCHANGED list

\* The rest of `hold`, which replaces the hold there was, and of `DocumentLeases.acquire`; a
\* document that was closed meanwhile keeps no account of it.
Granted(p) ==
    /\ Receive(p, {"granted"}) /\ ~Message(p).renews
    /\ Learn(p)
    /\ hold' = [hold EXCEPT ![p] = [call |-> Message(p).call, renewing |-> FALSE]]
    /\ held' = IF Message(p).call \in asking[p] THEN [held EXCEPT ![p] = Message(p).call] ELSE held
    /\ asking' = [asking EXCEPT ![p] = @ \ {Message(p).call}]
    /\ UNCHANGED <<sessions, link, live, members, lease, up, calls, opens, opened, crossed>>

Refused(p) ==
    /\ Receive(p, {"refused"}) /\ ~Message(p).renews
    /\ asking' = [asking EXCEPT ![p] = @ \ {Message(p).call}]
    /\ UNCHANGED <<sessions, link, live, members, lease, up, client, calls, opens, opened, held, crossed>>

Renewed(p) ==
    /\ Receive(p, {"granted"}) /\ Message(p).renews
    /\ Learn(p)
    /\ hold' = IF Active(p, Message(p).call) THEN [hold EXCEPT ![p].renewing = FALSE] ELSE hold
    /\ crossed' = [crossed EXCEPT ![p] = @ /\ ~Active(p, Message(p).call)]
    /\ UNCHANGED <<sessions, link, live, members, lease, up, calls, opens, opened, asking, held>>

Lost(p) ==
    /\ Receive(p, {"refused"}) /\ Message(p).renews
    /\ IF Active(p, Message(p).call) THEN Lose(p) ELSE UNCHANGED <<hold, held>>
    /\ UNCHANGED <<sessions, link, live, members, lease, up, session, list, shown, calls, opens, opened,
                   asking, crossed>>

-----------------------------------------------------------------------------
(* The server.                                                             *)

\* The scope is granted, or freed: the room hears of a change, and `p` the answer after it.
Grant(to, room, p, answer) ==
    /\ lease' = to
    /\ members' = room
    /\ down' = [q \in Person |->
                   down[q]
                   \o (IF to # lease /\ link[q] \in room
                       THEN <<[op |-> "changed", lease |-> to]>> ELSE <<>>)
                   \o (IF q = p THEN answer ELSE <<>>)]

Freed(s) == IF lease = s THEN None ELSE lease

Serve(p) ==
    /\ up[p] # <<>>
    /\ up' = [up EXCEPT ![p] = Tail(@)]
    /\ LET m == Head(up[p])
           s == link[p]
       IN  \/ /\ m.op = "acquire" /\ s \in members /\ lease \in {s, None}
              /\ Grant(s, members, p, <<[op |-> "granted", call |-> m.call, renews |-> m.renews,
                                         session |-> s]>>)
           \/ /\ m.op = "acquire" /\ ~(s \in members /\ lease \in {s, None})
              /\ Grant(lease, members, p,
                       <<[op |-> "refused", call |-> m.call, renews |-> m.renews]>>)
           \/ m.op = "release" /\ Grant(Freed(s), members, p, <<>>)
           \/ m.op = "leave" /\ Grant(Freed(s), members \ {s}, p, <<>>)
           \/ /\ m.op = "join"
              /\ Grant(lease, members \cup {s}, p, <<[op |-> "changed", lease |-> lease]>>)
    /\ UNCHANGED <<sessions, link, live, client, calls, opens, document>>

\* The server gives a session up. What was on its connection goes nowhere.
EndSession(s) ==
    /\ s \in live
    /\ live' = live \ {s}
    /\ Grant(Freed(s), members \ {s}, None, <<>>)
    /\ up' = [p \in Person |-> IF link[p] = s THEN <<>> ELSE up[p]]
    /\ UNCHANGED <<sessions, link, client, calls, opens, document>>

\* A lease that no one renews, or is about to, runs out.
Expire ==
    /\ lease # None
    /\ \A p \in Person : link[p] = lease =>
          /\ hold[p] = None
          /\ ~\E i \in DOMAIN up[p] : up[p][i].op = "acquire"
          /\ ~\E i \in DOMAIN down[p] : down[p][i].op = "granted"
    /\ Grant(None, members, None, <<>>)
    /\ UNCHANGED <<sessions, link, live, up, client, calls, opens, document>>

-----------------------------------------------------------------------------

Next ==
    \/ \E p \in Person :
        \/ Connect(p) \/ Disconnected(p) \/ Open(p) \/ CloseDocument(p)
        \/ Acquire(p) \/ Release(p) \/ Renew(p)
        \/ Changed(p) \/ Granted(p) \/ Refused(p) \/ Renewed(p) \/ Lost(p)
        \/ Serve(p)
    \/ \E s \in Session : EndSession(s)
    \/ Expire

Spec == Init /\ [][Next]_vars

(* What is on its way arrives and is handled, timers fire, leases run out, and a client    *)
(* learns in the end that the server gave its connection up. No one has to open, close,    *)
(* acquire or release.                                                                     *)
Fairness ==
    /\ \A p \in Person :
        /\ WF_vars(Serve(p))
        /\ WF_vars(Changed(p) \/ Granted(p) \/ Refused(p) \/ Renewed(p) \/ Lost(p))
        /\ WF_vars(Renew(p))
        /\ WF_vars(link[p] \notin live /\ Disconnected(p))
    /\ WF_vars(Expire)

FairSpec == Spec /\ Fairness

-----------------------------------------------------------------------------
(* Properties.                                                             *)

\* What a document holds is granted to its session, on every connection the server still has: so
\* no two documents hold the scope, but across a connection that one side has given up, and
\* until the next renewal after a release that went out while another acquire was on its way.
HeldIsGranted ==
    \A p \in Person : held[p] # None /\ link[p] \in live /\ ~crossed[p] => lease = link[p]

\* The listeners were told what they would be told now, and a document that holds the scope is
\* not told its lease is someone else's: whichever comes first, the list or the answer, and
\* whatever the session was before.
OwnLeaseIsMine ==
    \A p \in Person :
        /\ shown[p] = Shown(list[p], session[p])
        /\ held[p] # None /\ list[p] = link[p] => shown[p].mine

\* A document that stays closed keeps no hold, even one that was granted after it was closed,
\* and the scope is free of its session.
ClosedHoldsNothing ==
    \A p \in Person : <>[]~opened[p] => <>[](hold[p] = None /\ (link[p] # None => lease # link[p]))

=============================================================================
