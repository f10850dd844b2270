-------------------------- MODULE SyncLeasesProofs --------------------------
(***************************************************************************)
(* That what a document holds is granted to its session, and that its      *)
(* listeners are told so, for every value of the constants of SyncLeases.  *)
(*                                                                         *)
(* A grant counts for the document that still asks for it, or for the hold *)
(* that is kept renewed. Nothing that frees the scope is on a connection   *)
(* behind a request or an answer that counts, but for a release that       *)
(* crossed another acquire.                                                *)
(***************************************************************************)
EXTENDS SyncLeases, SequenceTheorems, TLAPS

USE DEF Hold

-----------------------------------------------------------------------------
(* Messages.                                                               *)

LEMMA RequestLemma ==
    /\ \A m \in Requests : /\ m.op \in {"acquire", "release", "leave", "join"}
                           /\ m.op = "acquire" => m.call \in Call /\ m.renews \in BOOLEAN
    /\ \A c \in Call, r \in BOOLEAN : [op |-> "acquire", call |-> c, renews |-> r] \in Requests
    /\ \A o \in {"release", "leave", "join"} : [op |-> o] \in Requests
BY DEF Requests

LEMMA AnswerLemma ==
    /\ \A m \in Answers : /\ m.op \in {"granted", "refused", "changed"}
                          /\ m.op \in {"granted", "refused"} => m.call \in Call /\ m.renews \in BOOLEAN
                          /\ m.op = "granted" => m.session \in Session
                          /\ m.op = "changed" => m.lease \in Lease
    /\ \A c \in Call, r \in BOOLEAN, s \in Session :
          [op |-> "granted", call |-> c, renews |-> r, session |-> s] \in Answers
    /\ \A c \in Call, r \in BOOLEAN : [op |-> "refused", call |-> c, renews |-> r] \in Answers
    /\ \A s \in Lease : [op |-> "changed", lease |-> s] \in Answers
BY DEF Answers, Lease

In(s) == {s[i] : i \in DOMAIN s}

LEMMA InSeq ==
    ASSUME NEW S, NEW s \in Seq(S)
    PROVE  In(s) \subseteq S
BY LenProperties DEF In

LEMMA InNone == In(<<>>) = {}
BY LenProperties, EmptySeq DEF In

LEMMA InOne == \A m : In(<<m>>) = {m}
BY DEF In

LEMMA InConcat ==
    ASSUME NEW S, NEW s \in Seq(S), NEW t \in Seq(S)
    PROVE  s \o t \in Seq(S) /\ In(s \o t) = In(s) \cup In(t)
<1>1. /\ s \o t \in Seq(S)
      /\ DOMAIN (s \o t) = 1 .. Len(s) + Len(t)
      /\ DOMAIN s = 1 .. Len(s) /\ Len(s) \in Nat
      /\ DOMAIN t = 1 .. Len(t) /\ Len(t) \in Nat
      /\ \A i \in 1 .. Len(s) : (s \o t)[i] = s[i]
      /\ \A i \in Len(s) + 1 .. Len(s) + Len(t) : (s \o t)[i] = t[i - Len(s)]
  BY ConcatProperties, LenProperties
<1>2. In(s \o t) \subseteq In(s) \cup In(t)
  BY <1>1 DEF In
<1>3. In(s) \subseteq In(s \o t)
  BY <1>1 DEF In
<1>4. In(t) \subseteq In(s \o t)
  <2>1. ASSUME NEW i \in 1 .. Len(t)
        PROVE  t[i] \in In(s \o t)
    <3>1. i + Len(s) \in Len(s) + 1 .. Len(s) + Len(t) /\ (i + Len(s)) - Len(s) = i
      BY <1>1
    <3>2. (s \o t)[i + Len(s)] = t[i] /\ i + Len(s) \in DOMAIN (s \o t)
      BY <1>1, <3>1
    <3>3. QED
      BY <3>2 DEF In
  <2>2. QED
    BY <1>1, <2>1 DEF In
<1>5. QED
  BY <1>1, <1>2, <1>3, <1>4

LEMMA InTail ==
    ASSUME NEW S, NEW s \in Seq(S), s # <<>>
    PROVE  /\ Tail(s) \in Seq(S) /\ Head(s) \in S
           /\ In(s) = {Head(s)} \cup In(Tail(s))
<1>1. /\ Tail(s) \in Seq(S)
      /\ DOMAIN s = 1 .. Len(s) /\ Len(s) \in Nat \ {0}
      /\ DOMAIN Tail(s) = 1 .. Len(s) - 1
      /\ \A i \in 1 .. Len(s) - 1 : Tail(s)[i] = s[i + 1]
      /\ Head(s) = s[1] /\ s[1] \in S
  BY HeadTailProperties, LenProperties, EmptySeq
<1>2. In(Tail(s)) \subseteq In(s) /\ Head(s) \in In(s)
  BY <1>1 DEF In
<1>3. ASSUME NEW i \in 1 .. Len(s)
      PROVE  s[i] \in {Head(s)} \cup In(Tail(s))
  <2>1. CASE i = 1
    BY <1>1, <2>1
  <2>2. CASE i # 1
    <3>1. i - 1 \in 1 .. Len(s) - 1 /\ (i - 1) + 1 = i
      BY <1>1, <2>2
    <3>2. Tail(s)[i - 1] = s[i]
      BY <1>1, <3>1
    <3>3. QED
      BY <1>1, <3>1, <3>2 DEF In
  <2>3. QED
    BY <2>1, <2>2
<1>4. QED
  BY <1>1, <1>2, <1>3 DEF In

-----------------------------------------------------------------------------
(* What counts for a document, and the order of a connection.              *)

Asks(m) == m.op \in {"acquire", "granted", "refused"}
New(m) == Asks(m) /\ ~m.renews
Again(m) == Asks(m) /\ m.renews
Frees(m) == m.op \in {"release", "leave"}

\* An acquire that is still asked for, or a renewal of the hold that is kept.
Counts(m, asked, kept) ==
    \/ New(m) /\ m.call \in asked
    \/ Again(m) /\ m.call = kept

\* Calls go out in their order; and nothing that counts has a release behind it.
Pair(m, n, asked, kept) ==
    /\ New(m) /\ New(n) => m.call < n.call
    /\ Counts(m, asked, kept) => ~Frees(n)

Ordered(s, asked, kept) == \A i, j \in DOMAIN s : i < j => Pair(s[i], s[j], asked, kept)
Follows(s, t, asked, kept) == \A m \in In(s), n \in In(t) : Pair(m, n, asked, kept)

LEMMA OrderedConcat ==
    ASSUME NEW S, NEW s \in Seq(S), NEW t \in Seq(S), NEW asked, NEW kept,
           Ordered(s, asked, kept), Ordered(t, asked, kept), Follows(s, t, asked, kept)
    PROVE  Ordered(s \o t, asked, kept)
<1>1. /\ DOMAIN (s \o t) = 1 .. Len(s) + Len(t)
      /\ DOMAIN s = 1 .. Len(s) /\ Len(s) \in Nat
      /\ DOMAIN t = 1 .. Len(t) /\ Len(t) \in Nat
      /\ \A i \in 1 .. Len(s) : (s \o t)[i] = s[i]
      /\ \A i \in Len(s) + 1 .. Len(s) + Len(t) : (s \o t)[i] = t[i - Len(s)]
  BY ConcatProperties, LenProperties
<1>2. SUFFICES ASSUME NEW i \in 1 .. Len(s) + Len(t), NEW j \in 1 .. Len(s) + Len(t), i < j
               PROVE  Pair((s \o t)[i], (s \o t)[j], asked, kept)
  BY <1>1 DEF Ordered
<1>3. CASE j <= Len(s)
  BY <1>1, <1>2, <1>3 DEF Ordered
<1>4. CASE i <= Len(s) /\ j > Len(s)
  <2>1. i \in DOMAIN s /\ j - Len(s) \in DOMAIN t /\ j \in Len(s) + 1 .. Len(s) + Len(t)
    BY <1>1, <1>4
  <2>2. (s \o t)[i] \in In(s) /\ (s \o t)[j] \in In(t)
    BY <1>1, <2>1 DEF In
  <2>3. QED
    BY <2>2 DEF Follows
<1>5. CASE i > Len(s)
  <2>1. /\ i - Len(s) \in DOMAIN t /\ j - Len(s) \in DOMAIN t /\ i - Len(s) < j - Len(s)
        /\ i \in Len(s) + 1 .. Len(s) + Len(t) /\ j \in Len(s) + 1 .. Len(s) + Len(t)
    BY <1>1, <1>2, <1>5
  <2>2. Pair(t[i - Len(s)], t[j - Len(s)], asked, kept)
    BY <2>1 DEF Ordered
  <2>3. QED
    BY <1>1, <2>1, <2>2
<1>6. QED
  BY <1>1, <1>3, <1>4, <1>5

LEMMA OrderedTail ==
    ASSUME NEW S, NEW s \in Seq(S), s # <<>>, NEW asked, NEW kept, Ordered(s, asked, kept)
    PROVE  /\ Ordered(Tail(s), asked, kept)
           /\ \A n \in In(Tail(s)) : Pair(Head(s), n, asked, kept)
<1>1. /\ DOMAIN s = 1 .. Len(s) /\ Len(s) \in Nat \ {0}
      /\ DOMAIN Tail(s) = 1 .. Len(s) - 1
      /\ \A i \in 1 .. Len(s) - 1 : Tail(s)[i] = s[i + 1]
      /\ Head(s) = s[1]
  BY HeadTailProperties, LenProperties, EmptySeq
<1>2. ASSUME NEW i \in 1 .. Len(s) - 1
      PROVE  i + 1 \in DOMAIN s /\ 1 \in DOMAIN s /\ 1 < i + 1
  BY <1>1
<1>3. ASSUME NEW i \in 1 .. Len(s) - 1, NEW j \in 1 .. Len(s) - 1, i < j
      PROVE  Pair(Tail(s)[i], Tail(s)[j], asked, kept)
  <2>1. i + 1 < j + 1
    BY <1>1, <1>3
  <2>2. Pair(s[i + 1], s[j + 1], asked, kept)
    BY <1>2, <2>1 DEF Ordered
  <2>3. QED
    BY <1>1, <2>2
<1>4. ASSUME NEW i \in 1 .. Len(s) - 1
      PROVE  Pair(Head(s), Tail(s)[i], asked, kept)
  <2>1. Pair(s[1], s[i + 1], asked, kept)
    BY <1>2 DEF Ordered
  <2>2. QED
    BY <1>1, <2>1
<1>5. QED
  BY <1>1, <1>3, <1>4 DEF Ordered, In

LEMMA OrderedShort ==
    ASSUME NEW asked, NEW kept
    PROVE  /\ Ordered(<<>>, asked, kept)
           /\ \A m : Ordered(<<m>>, asked, kept)
           /\ \A s : Follows(<<>>, s, asked, kept) /\ Follows(s, <<>>, asked, kept)
BY InNone, EmptySeq, LenProperties DEF Ordered, Follows

-----------------------------------------------------------------------------
(* The inductive invariant.                                                *)

Asked(p) == IF crossed[p] THEN {} ELSE asking[p]
Kept(p) == IF hold[p] = None THEN None ELSE hold[p].call
OnLine(p) == In(up[p]) \cup In(down[p])

\* Each connection is one person's, and one that the server gave up carries nothing to it.
LinksOK ==
    /\ \A p, q \in Person : link[p] # None /\ link[p] = link[q] => p = q
    /\ \A p \in Person : link[p] # None => link[p] <= sessions
    /\ \A s \in live : s <= sessions
    /\ \A p \in Person : link[p] \notin live => up[p] = <<>>
    /\ \A p \in Person : link[p] = None =>
          down[p] = <<>> /\ hold[p] = None /\ held[p] = None /\ asking[p] = {}

LineOK(p) ==
    /\ Ordered(up[p], Asked(p), Kept(p))
    /\ Ordered(down[p], Asked(p), Kept(p))
    /\ Follows(down[p], up[p], Asked(p), Kept(p))

\* The calls of a document are told apart, and the ones it forgot are older than the ones it asks.
NumbersOK(p) ==
    /\ \A m \in OnLine(p) : Asks(m) => m.call <= calls
    /\ \A c \in asking[p] : c <= calls
    /\ hold[p] # None => hold[p].call <= calls
    /\ \A m \in OnLine(p) : New(m) => m.call # Kept(p)
    /\ \A m, n \in OnLine(p) : New(m) /\ Again(n) => m.call # n.call
    /\ \A m \in OnLine(p), c \in asking[p] : New(m) /\ m.call \notin asking[p] => m.call < c
    /\ \A m \in OnLine(p) : held[p] # None /\ New(m) => m.call \in asking[p]
    /\ held[p] # None => hold[p] # None /\ hold[p].call = held[p]

\* What is held, and a grant that counts, is the server's; and no release is behind what is held.
GrantOK(p) ==
    link[p] \in live =>
        /\ held[p] # None /\ ~crossed[p] => lease = link[p] /\ \A n \in In(up[p]) : ~Frees(n)
        /\ \A m \in In(down[p]) : m.op = "granted" /\ Counts(m, Asked(p), Kept(p)) => lease = link[p]

HearOK(p) ==
    /\ shown[p] = Shown(list[p], session[p])
    /\ \A m \in In(down[p]) : m.op = "granted" => m.session = link[p]
    /\ held[p] # None => session[p] = link[p]

PersonOK(p) == LineOK(p) /\ NumbersOK(p) /\ GrantOK(p) /\ HearOK(p)

IInv == TypeOK /\ LinksOK /\ \A p \in Person : PersonOK(p)

-----------------------------------------------------------------------------
(* Types.                                                                  *)

LEMMA NoneLemma == None \notin Session /\ None \notin Call
BY SyncLeasesAssumption DEF Session, Call

LEMMA ShownLemma ==
    \A heard \in Lease, self \in Lease : Shown(heard, self) \in [lease : Lease, mine : BOOLEAN]
<1>1. ASSUME NEW heard \in Lease, NEW self \in Lease
      PROVE  Shown(heard, self) \in [lease : Lease, mine : BOOLEAN]
  <2>1. CASE self # None /\ heard = self
    <3>1. (self # None /\ heard = self) = TRUE
      BY <2>1, Zenon
    <3>2. Shown(heard, self) = [lease |-> heard, mine |-> TRUE]
      BY <3>1 DEF Shown
    <3>3. QED
      BY <3>2
  <2>2. CASE ~(self # None /\ heard = self)
    <3>1. (self # None /\ heard = self) = FALSE
      BY <2>2, Zenon
    <3>2. Shown(heard, self) = [lease |-> heard, mine |-> FALSE]
      BY <3>1 DEF Shown
    <3>3. QED
      BY <3>2
  <2>3. QED
    BY <2>1, <2>2
<1>2. QED
  BY <1>1

LEMMA ShownNone == \A s : Shown(None, s) = Shown(None, None)
<1>1. ASSUME NEW s
      PROVE  (s # None /\ None = s) = (None # None /\ None = None)
  BY Zenon
<1>2. QED
  BY <1>1 DEF Shown

LEMMA HeardLemma ==
    ASSUME TypeOK, NEW p \in Person, NEW heard \in Lease, NEW self \in Lease, Heard(p, heard, self)
    PROVE  /\ list' \in [Person -> Lease]
           /\ shown' \in [Person -> [lease : Lease, mine : BOOLEAN]]
           /\ list'[p] = heard
           /\ \A q \in Person \ {p} : list'[q] = list[q] /\ shown'[q] = shown[q]
           /\ \/ shown'[p] = Shown(heard, self)
              \/ heard = None /\ list[p] = None /\ shown'[p] = shown[p]
<1>1. Shown(heard, self) \in [lease : Lease, mine : BOOLEAN]
  BY ShownLemma
<1>2. QED
  BY <1>1 DEF Heard, TypeOK

LEMMA SentLemma ==
    ASSUME TypeOK, NEW p \in Person, NEW messages \in Seq(Requests), Sent(p, messages)
    PROVE  /\ up' \in [Person -> Seq(Requests)]
           /\ \A q \in Person \ {p} : up'[q] = up[q]
           /\ link[p] \in live => up'[p] = up[p] \o messages
           /\ link[p] \notin live => up'[p] = up[p]
<1>1. up[p] \in Seq(Requests) /\ up[p] \o messages \in Seq(Requests)
  BY ConcatProperties DEF TypeOK
<1>2. QED
  BY <1>1 DEF Sent, TypeOK

Quiet(s) == \A m \in In(s) : m.op = "changed"

\* What the room is told of a change.
Told(q, to, room) ==
    IF to # lease /\ link[q] \in room THEN <<[op |-> "changed", lease |-> to]>> ELSE <<>>

LEMMA ToldLemma ==
    ASSUME NEW q, NEW to \in Lease, NEW room
    PROVE  Told(q, to, room) \in Seq(Answers) /\ Quiet(Told(q, to, room))
<1>1. [op |-> "changed", lease |-> to] \in Answers
  BY AnswerLemma
<1>2. In(<<[op |-> "changed", lease |-> to]>>) = {[op |-> "changed", lease |-> to]}
  BY InOne
<1>3. QED
  BY <1>1, <1>2, InNone, EmptySeq DEF Quiet, Told

LEMMA ConcatNothing ==
    ASSUME NEW s \in Seq(Answers), NEW t \in Seq(Answers)
    PROVE  (s \o t) \o <<>> = s \o t
BY ConcatProperties, ConcatEmptySeq

LEMMA GrantLemma ==
    ASSUME TypeOK, NEW p, NEW to \in Lease, NEW room, NEW answer \in Seq(Answers),
           Grant(to, room, p, answer)
    PROVE  lease' = to /\ members' = room /\ down' \in [Person -> Seq(Answers)]
<1>1. ASSUME NEW q \in Person
      PROVE  down'[q] \in Seq(Answers)
  <2> DEFINE t == Told(q, to, room)
             b == IF q = p THEN answer ELSE <<>>
  <2>1. down'[q] = (down[q] \o t) \o b
    BY <1>1 DEF Grant, Told
  <2>2. t \in Seq(Answers)
    BY ToldLemma
  <2> HIDE DEF t
  <2>3. b \in Seq(Answers) /\ down[q] \in Seq(Answers)
    BY EmptySeq DEF TypeOK
  <2>4. (down[q] \o t) \o b \in Seq(Answers)
    BY <2>2, <2>3, ConcatProperties
  <2>5. QED
    BY <2>1, <2>4
<1>2. down' \in [Person -> Seq(Answers)]
  BY <1>1 DEF Grant
<1>3. QED
  BY <1>2 DEF Grant

LEMMA TypeStep ==
    ASSUME TypeOK, LinksOK, [Next]_vars
    PROVE  TypeOK'
<1> USE NoneLemma
<1>1. ASSUME NEW p \in Person, Connect(p)
      PROVE  TypeOK'
  <2>1. sessions' \in Session /\ sessions' \in 0 .. MaxSessions
    BY <1>1, SyncLeasesAssumption DEF TypeOK, Session, Connect
  <2>2. <<[op |-> "join"]>> \in Seq(Requests)
    BY RequestLemma
  <2>3. link' \in [Person -> Lease] /\ live' \subseteq Session /\ members' \subseteq live'
    BY <1>1, <2>1 DEF TypeOK, Connect, Lease
  <2>4. up' \in [Person -> Seq(Requests)] /\ down' \in [Person -> Seq(Answers)]
    BY <1>1, <2>2, EmptySeq DEF TypeOK, Connect
  <2>5. QED
    BY <1>1, <2>1, <2>3, <2>4 DEF TypeOK, Connect, client, document
<1>2. ASSUME NEW p \in Person, Disconnected(p)
      PROVE  TypeOK'
  <2>1. None \in Lease
    BY DEF Lease
  <2>2. Heard(p, None, None)
    BY <1>2 DEF Disconnected
  <2>3. list' \in [Person -> Lease] /\ shown' \in [Person -> [lease : Lease, mine : BOOLEAN]]
    BY <2>1, <2>2, HeardLemma
  <2>4. /\ hold' \in [Person -> Hold \cup {None}]
        /\ held' \in [Person -> Call \cup {None}]
    BY <1>2 DEF Disconnected, Lose, TypeOK
  <2>5. /\ up' \in [Person -> Seq(Requests)] /\ down' \in [Person -> Seq(Answers)]
        /\ link' \in [Person -> Lease] /\ session' \in [Person -> Lease]
        /\ asking' \in [Person -> SUBSET Call] /\ crossed' \in [Person -> BOOLEAN]
    BY <1>2, <2>1, EmptySeq DEF Disconnected, TypeOK
  <2>6. QED
    BY <1>2, <2>3, <2>4, <2>5 DEF Disconnected, TypeOK
<1>3. ASSUME NEW p \in Person, Open(p)
      PROVE  TypeOK'
  <2>1. <<[op |-> "join"]>> \in Seq(Requests) /\ Sent(p, <<[op |-> "join"]>>)
    BY <1>3, RequestLemma DEF Open
  <2>2. up' \in [Person -> Seq(Requests)]
    BY <2>1, SentLemma
  <2>3. opens' \in 0 .. MaxOpens
    BY <1>3, SyncLeasesAssumption DEF TypeOK, Open
  <2>4. QED
    BY <1>3, <2>2, <2>3 DEF TypeOK, Open, client
<1>4. ASSUME NEW p \in Person, CloseDocument(p)
      PROVE  TypeOK'
  <2>1. /\ <<[op |-> "release"]>> \in Seq(Requests) /\ <<[op |-> "leave"]>> \in Seq(Requests)
        /\ <<>> \in Seq(Requests)
    BY RequestLemma
  <2> DEFINE ms == (IF held[p] # None THEN <<[op |-> "release"]>> ELSE <<>>) \o <<[op |-> "leave"]>>
  <2>2. ms \in Seq(Requests)
    BY <2>1, ConcatProperties
  <2>3. Sent(p, ms)
    BY <1>4 DEF CloseDocument
  <2>4. up' \in [Person -> Seq(Requests)]
    <3> HIDE DEF ms
    <3>1. QED
      BY <2>2, <2>3, SentLemma
  <2>5. None \in Lease /\ session[p] \in Lease /\ Heard(p, None, session[p])
    BY <1>4 DEF Lease, TypeOK, CloseDocument
  <2>6. list' \in [Person -> Lease] /\ shown' \in [Person -> [lease : Lease, mine : BOOLEAN]]
    BY <2>5, HeardLemma
  <2>7. QED
    BY <1>4, <2>4, <2>6 DEF TypeOK, CloseDocument
<1>5. ASSUME NEW p \in Person, Acquire(p)
      PROVE  TypeOK'
  <2>1. calls' \in Call /\ calls' \in 0 .. MaxCalls
    BY <1>5, SyncLeasesAssumption DEF TypeOK, Acquire, Call
  <2>2. PICK m \in Requests : m = [op |-> "acquire", call |-> calls', renews |-> FALSE]
    BY <2>1, RequestLemma
  <2>3. Sent(p, <<m>>) /\ <<m>> \in Seq(Requests)
    BY <1>5, <2>2 DEF Acquire
  <2>4. up' \in [Person -> Seq(Requests)]
    BY <2>3, SentLemma
  <2>5. asking' \in [Person -> SUBSET Call]
    BY <1>5, <2>1 DEF TypeOK, Acquire
  <2>6. QED
    BY <1>5, <2>1, <2>4, <2>5 DEF TypeOK, Acquire, client
<1>6. ASSUME NEW p \in Person, Release(p)
      PROVE  TypeOK'
  <2>1. <<[op |-> "release"]>> \in Seq(Requests) /\ Sent(p, <<[op |-> "release"]>>)
    BY <1>6, RequestLemma DEF Release
  <2>2. up' \in [Person -> Seq(Requests)]
    BY <2>1, SentLemma
  <2>3. crossed' \in [Person -> BOOLEAN]
    BY <1>6, Zenon DEF TypeOK, Release
  <2>4. /\ hold' \in [Person -> Hold \cup {None}]
        /\ held' \in [Person -> Call \cup {None}]
    BY <1>6 DEF TypeOK, Release
  <2>5. QED
    BY <1>6, <2>2, <2>3, <2>4 DEF TypeOK, Release
<1>7. ASSUME NEW p \in Person, Renew(p)
      PROVE  TypeOK'
  <2>1. hold[p].call \in Call /\ hold[p] \in Hold
    BY <1>7 DEF TypeOK, Renew
  <2>2. PICK m \in Requests : m = [op |-> "acquire", call |-> hold[p].call, renews |-> TRUE]
    BY <2>1, RequestLemma
  <2>3. Sent(p, <<m>>) /\ <<m>> \in Seq(Requests)
    BY <1>7, <2>2 DEF Renew
  <2>4. up' \in [Person -> Seq(Requests)]
    BY <2>3, SentLemma
  <2>5. hold' \in [Person -> Hold \cup {None}]
    BY <1>7, <2>1 DEF TypeOK, Renew
  <2>6. QED
    BY <1>7, <2>4, <2>5 DEF TypeOK, Renew, document
<1>8. ASSUME NEW p \in Person, NEW ops, Receive(p, ops)
      PROVE  /\ Message(p) \in Answers /\ Message(p).op \in ops
             /\ down' \in [Person -> Seq(Answers)]
  BY <1>8, HeadTailProperties DEF TypeOK, Receive, Message
<1>9. ASSUME NEW p \in Person, Changed(p)
      PROVE  TypeOK'
  <2>1. Message(p) \in Answers /\ Message(p).op = "changed" /\ down' \in [Person -> Seq(Answers)]
    BY <1>8, <1>9 DEF Changed
  <2>2. Message(p).lease \in Lease /\ session[p] \in Lease /\ Heard(p, Message(p).lease, session[p])
    BY <1>9, <2>1, AnswerLemma DEF Changed, TypeOK
  <2>3. list' \in [Person -> Lease] /\ shown' \in [Person -> [lease : Lease, mine : BOOLEAN]]
    BY <2>2, HeardLemma
  <2>4. QED
    BY <1>9, <2>1, <2>3 DEF TypeOK, Changed, document
<1>10. ASSUME NEW p \in Person, Learn(p), Message(p) \in Answers, Message(p).op = "granted"
       PROVE  /\ session' \in [Person -> Lease] /\ list' \in [Person -> Lease]
              /\ shown' \in [Person -> [lease : Lease, mine : BOOLEAN]]
  <2>1. Message(p).session \in Lease /\ list[p] \in Lease
    BY <1>10, AnswerLemma DEF Lease, TypeOK
  <2>2. Shown(list[p], Message(p).session) \in [lease : Lease, mine : BOOLEAN]
    BY <2>1, ShownLemma
  <2>3. QED
    BY <1>10, <2>1, <2>2 DEF Learn, TypeOK
<1>11. ASSUME NEW p \in Person, Granted(p)
       PROVE  TypeOK'
  <2>1. Message(p) \in Answers /\ Message(p).op = "granted" /\ down' \in [Person -> Seq(Answers)]
    BY <1>8, <1>11 DEF Granted
  <2>2. /\ session' \in [Person -> Lease] /\ list' \in [Person -> Lease]
        /\ shown' \in [Person -> [lease : Lease, mine : BOOLEAN]]
    BY <1>10, <1>11, <2>1 DEF Granted
  <2>3. Message(p).call \in Call
    BY <2>1, AnswerLemma
  <2>4. /\ hold' \in [Person -> Hold \cup {None}]
        /\ held' \in [Person -> Call \cup {None}] /\ asking' \in [Person -> SUBSET Call]
    BY <1>11, <2>3 DEF Granted, TypeOK
  <2>5. QED
    BY <1>11, <2>1, <2>2, <2>4 DEF Granted, TypeOK
<1>12. ASSUME NEW p \in Person, Refused(p)
       PROVE  TypeOK'
  <2>1. down' \in [Person -> Seq(Answers)]
    BY <1>8, <1>12 DEF Refused
  <2>2. asking' \in [Person -> SUBSET Call]
    BY <1>12 DEF Refused, TypeOK
  <2>3. QED
    BY <1>12, <2>1, <2>2 DEF Refused, TypeOK, client
<1>13. ASSUME NEW p \in Person, Renewed(p)
       PROVE  TypeOK'
  <2>1. Message(p) \in Answers /\ Message(p).op = "granted" /\ down' \in [Person -> Seq(Answers)]
    BY <1>8, <1>13 DEF Renewed
  <2>2. /\ session' \in [Person -> Lease] /\ list' \in [Person -> Lease]
        /\ shown' \in [Person -> [lease : Lease, mine : BOOLEAN]]
    BY <1>10, <1>13, <2>1 DEF Renewed
  <2>3. hold' \in [Person -> Hold \cup {None}]
    <3>1. CASE Active(p, Message(p).call)
      <4>1. hold[p] \in Hold
        BY <3>1 DEF Active, TypeOK
      <4>2. hold' = [hold EXCEPT ![p].renewing = FALSE]
        BY <1>13, <3>1 DEF Renewed
      <4>3. QED
        BY <4>1, <4>2 DEF TypeOK
    <3>2. CASE ~Active(p, Message(p).call)
      BY <1>13, <3>2 DEF Renewed, TypeOK
    <3>3. QED
      BY <3>1, <3>2
  <2>4. crossed' \in [Person -> BOOLEAN]
    BY <1>13, Zenon DEF Renewed, TypeOK
  <2>5. QED
    BY <1>13, <2>1, <2>2, <2>3, <2>4 DEF Renewed, TypeOK
<1>14. ASSUME NEW p \in Person, Lost(p)
       PROVE  TypeOK'
  <2>1. down' \in [Person -> Seq(Answers)]
    BY <1>8, <1>14 DEF Lost
  <2>2. /\ hold' \in [Person -> Hold \cup {None}]
        /\ held' \in [Person -> Call \cup {None}]
    BY <1>14 DEF Lost, Lose, TypeOK
  <2>3. QED
    BY <1>14, <2>1, <2>2 DEF Lost, TypeOK
<1>15. ASSUME NEW p \in Person, Serve(p)
       PROVE  TypeOK'
  <2>1. up' \in [Person -> Seq(Requests)] /\ Head(up[p]) \in Requests
    BY <1>15, HeadTailProperties DEF Serve, TypeOK
  <2>2. link[p] \in live /\ link[p] \in Session
    BY <1>15 DEF Serve, LinksOK, TypeOK
  <2>3. /\ lease \in Lease /\ None \in Lease /\ link[p] \in Lease /\ Freed(link[p]) \in Lease
        /\ Freed(link[p]) \in (members \ {link[p]}) \cup {None} /\ <<>> \in Seq(Answers)
    BY <2>2 DEF TypeOK, Lease, Freed
  <2>4. ASSUME NEW to \in Lease, NEW room, NEW answer \in Seq(Answers), Grant(to, room, p, answer),
               room \subseteq live, to \in room \cup {None}
        PROVE  TypeOK'
    <3>1. lease' = to /\ members' = room /\ down' \in [Person -> Seq(Answers)]
      BY <2>4, GrantLemma
    <3>2. QED
      BY <1>15, <2>1, <2>4, <3>1 DEF TypeOK, Serve, client, document
  <2>5. CASE /\ Head(up[p]).op = "acquire" /\ link[p] \in members
             /\ Grant(link[p], members, p, <<[op |-> "granted", call |-> Head(up[p]).call,
                                       renews |-> Head(up[p]).renews, session |-> link[p]]>>)
    <3>1. PICK m \in Answers : m = [op |-> "granted", call |-> Head(up[p]).call,
                                    renews |-> Head(up[p]).renews, session |-> link[p]]
      BY <2>1, <2>2, <2>5, RequestLemma, AnswerLemma
    <3>2. <<m>> \in Seq(Answers) /\ Grant(link[p], members, p, <<m>>)
      BY <2>5, <3>1
    <3>3. QED
      BY <2>3, <2>4, <2>5, <3>2 DEF TypeOK
  <2>6. CASE /\ Head(up[p]).op = "acquire"
             /\ Grant(lease, members, p, <<[op |-> "refused", call |-> Head(up[p]).call,
                                     renews |-> Head(up[p]).renews]>>)
    <3>1. PICK m \in Answers : m = [op |-> "refused", call |-> Head(up[p]).call,
                                    renews |-> Head(up[p]).renews]
      BY <2>1, <2>6, RequestLemma, AnswerLemma
    <3>2. <<m>> \in Seq(Answers) /\ Grant(lease, members, p, <<m>>)
      BY <2>6, <3>1
    <3>3. QED
      BY <2>3, <2>4, <3>2 DEF TypeOK
  <2>7. CASE Grant(Freed(link[p]), members, p, <<>>)
    BY <2>3, <2>4, <2>7 DEF TypeOK
  <2>8. CASE Grant(Freed(link[p]), members \ {link[p]}, p, <<>>)
    <3>1. members \ {link[p]} \subseteq live
      BY DEF TypeOK
    <3>2. QED
      BY <2>3, <2>4, <2>8, <3>1
  <2>9. CASE Grant(lease, members \cup {link[p]}, p, <<[op |-> "changed", lease |-> lease]>>)
    <3>1. PICK m \in Answers : m = [op |-> "changed", lease |-> lease]
      BY <2>3, AnswerLemma
    <3>2. /\ <<m>> \in Seq(Answers) /\ Grant(lease, members \cup {link[p]}, p, <<m>>)
          /\ members \cup {link[p]} \subseteq live /\ lease \in (members \cup {link[p]}) \cup {None}
      BY <2>2, <2>9, <3>1 DEF TypeOK
    <3>3. QED
      BY <2>3, <2>4, <3>2
  <2>10. QED
    BY <1>15, <2>5, <2>6, <2>7, <2>8, <2>9 DEF Serve
<1>16. ASSUME NEW s \in Session, EndSession(s)
       PROVE  TypeOK'
  <2>1. /\ Freed(s) \in Lease /\ Freed(s) \in (members \ {s}) \cup {None} /\ <<>> \in Seq(Answers)
        /\ Grant(Freed(s), members \ {s}, None, <<>>)
    BY <1>16 DEF TypeOK, Lease, Freed, EndSession
  <2>2. lease' = Freed(s) /\ members' = members \ {s} /\ down' \in [Person -> Seq(Answers)]
    BY <2>1, GrantLemma
  <2>3. up' \in [Person -> Seq(Requests)]
    BY <1>16, EmptySeq DEF TypeOK, EndSession
  <2>4. QED
    BY <1>16, <2>1, <2>2, <2>3 DEF TypeOK, EndSession, client, document
<1>17. ASSUME Expire
       PROVE  TypeOK'
  <2>1. None \in Lease /\ <<>> \in Seq(Answers) /\ Grant(None, members, None, <<>>)
    BY <1>17 DEF Lease, Expire
  <2>2. lease' = None /\ members' = members /\ down' \in [Person -> Seq(Answers)]
    BY <2>1, GrantLemma
  <2>3. QED
    BY <1>17, <2>2 DEF TypeOK, Expire, client, document
<1>18. CASE UNCHANGED vars
  BY <1>18 DEF TypeOK, vars, client, document
<1>19. QED
  BY <1>1, <1>2, <1>3, <1>4, <1>5, <1>6, <1>7, <1>9, <1>11, <1>12, <1>13, <1>14, <1>15, <1>16, <1>17,
     <1>18 DEF Next

-----------------------------------------------------------------------------
(* What a step leaves alone.                                               *)

Idle(m) == ~Asks(m) /\ ~Frees(m)

LEMMA IdlePair ==
    ASSUME NEW m, NEW asked, NEW kept, Idle(m)
    PROVE  \A n : Pair(m, n, asked, kept) /\ Pair(n, m, asked, kept)
BY DEF Idle, Pair, Counts, New, Again

LEMMA QuietIdle ==
    ASSUME NEW t \in Seq(Answers), Quiet(t)
    PROVE  \A m \in In(t) : Idle(m) /\ m.op # "granted"
BY DEF Quiet, Idle, Asks, Frees

LEMMA OrderedIdle ==
    ASSUME NEW t, NEW asked, NEW kept, \A m \in In(t) : Idle(m)
    PROVE  Ordered(t, asked, kept)
<1>1. \A i \in DOMAIN t : t[i] \in In(t)
  BY DEF In
<1>2. QED
  BY <1>1, IdlePair DEF Ordered

LEMMA OrderedWeaker ==
    ASSUME NEW s, NEW asked, NEW kept, NEW asked2, NEW kept2, Ordered(s, asked, kept),
           \A m \in In(s) : Counts(m, asked2, kept2) => Counts(m, asked, kept)
    PROVE  Ordered(s, asked2, kept2)
<1>1. \A i \in DOMAIN s : s[i] \in In(s)
  BY DEF In
<1>2. QED
  BY <1>1 DEF Ordered, Pair

LEMMA FollowsWeaker ==
    ASSUME NEW s, NEW t, NEW asked, NEW kept, NEW asked2, NEW kept2, Follows(s, t, asked, kept),
           \A m \in In(s) : Counts(m, asked2, kept2) => Counts(m, asked, kept)
    PROVE  Follows(s, t, asked2, kept2)
BY DEF Follows, Pair

\* Answers free nothing, and nor do the requests that ask.
LEMMA AnswersFreeNothing ==
    ASSUME NEW s \in Seq(Answers)
    PROVE  \A m \in In(s) : m \in Answers /\ ~Frees(m)
BY InSeq, AnswerLemma DEF Frees

Untouched(q) ==
    /\ link'[q] = link[q] /\ session'[q] = session[q] /\ list'[q] = list[q] /\ shown'[q] = shown[q]
    /\ hold'[q] = hold[q] /\ asking'[q] = asking[q] /\ held'[q] = held[q] /\ crossed'[q] = crossed[q]

LEMMA Stays ==
    ASSUME TypeOK, NEW q \in Person, PersonOK(q), Untouched(q), calls <= calls', calls' \in Nat,
           NEW t \in Seq(Answers), Quiet(t), down'[q] = down[q] \o t,
           Ordered(up'[q], Asked(q), Kept(q)),
           \A m \in In(up'[q]) : m \in In(up[q]) \/ Idle(m)
    PROVE  /\ LineOK(q)' /\ NumbersOK(q)' /\ HearOK(q)'
           /\ (/\ link[q] \in live' => link[q] \in live
               /\ link[q] \in live' => (lease' = lease \/ lease # link[q])) => GrantOK(q)'
<1>1. Asked(q)' = Asked(q) /\ Kept(q)' = Kept(q)
  BY DEF Untouched, Asked, Kept
<1>2. down[q] \in Seq(Answers) /\ up[q] \in Seq(Requests)
  BY DEF TypeOK
<1>3. In(down'[q]) = In(down[q]) \cup In(t)
  BY <1>2, InConcat
<1>4. \A m \in In(t) : Idle(m) /\ m.op # "granted"
  BY QuietIdle
<1>5. LineOK(q)'
  <2>1. Ordered(up'[q], Asked(q)', Kept(q)')
    BY <1>1
  <2>2. Follows(down[q], t, Asked(q), Kept(q))
    BY <1>4, IdlePair DEF Follows
  <2>3. Ordered(t, Asked(q), Kept(q))
    BY <1>4, OrderedIdle
  <2>4. Ordered(down[q] \o t, Asked(q), Kept(q))
    BY <1>2, <2>2, <2>3, OrderedConcat DEF PersonOK, LineOK
  <2>5. Follows(down'[q], up'[q], Asked(q), Kept(q))
    <3>1. SUFFICES ASSUME NEW m \in In(down'[q]), NEW n \in In(up'[q])
                   PROVE  Pair(m, n, Asked(q), Kept(q))
      BY DEF Follows
    <3>2. CASE Idle(m) \/ Idle(n)
      BY <3>2, IdlePair
    <3>3. CASE m \in In(down[q]) /\ n \in In(up[q])
      BY <3>3 DEF PersonOK, LineOK, Follows
    <3>4. QED
      BY <1>3, <1>4, <3>2, <3>3
  <2>6. QED
    BY <1>1, <2>1, <2>4, <2>5 DEF LineOK
<1>6. \A m \in OnLine(q)' : m \in OnLine(q) \/ Idle(m)
  BY <1>3, <1>4 DEF OnLine
<1>7. NumbersOK(q)'
  <2>1. /\ \A m \in OnLine(q)' : Asks(m) => m \in OnLine(q)
        /\ \A m \in OnLine(q)' : New(m) \/ Again(m) => Asks(m)
    BY <1>6 DEF Idle, New, Again
  <2>2. \A m \in OnLine(q) : Asks(m) => m.call \in Nat
    <3>1. \A m \in OnLine(q) : m \in Requests \/ m \in Answers
      BY <1>2, InSeq DEF OnLine
    <3>2. QED
      BY <3>1, RequestLemma, AnswerLemma DEF Asks, Call
  <2>3. calls \in Nat /\ asking[q] \subseteq Nat /\ (hold[q] # None => hold[q].call \in Nat)
    BY DEF TypeOK, Call
  <2>4. \A m \in OnLine(q)' : Asks(m) => m.call <= calls'
    BY <2>1, <2>2, <2>3 DEF PersonOK, NumbersOK
  <2>5. /\ \A c \in asking'[q] : c <= calls'
        /\ hold'[q] # None => hold'[q].call <= calls'
    BY <2>3 DEF PersonOK, NumbersOK, Untouched
  <2>6. \A m \in OnLine(q)' : New(m) => m.call # Kept(q)'
    BY <1>1, <2>1 DEF PersonOK, NumbersOK
  <2>7. \A m, n \in OnLine(q)' : New(m) /\ Again(n) => m.call # n.call
    BY <2>1 DEF PersonOK, NumbersOK
  <2>8. /\ \A m \in OnLine(q)', c \in asking'[q] : New(m) /\ m.call \notin asking'[q] => m.call < c
        /\ \A m \in OnLine(q)' : held'[q] # None /\ New(m) => m.call \in asking'[q]
    BY <2>1 DEF PersonOK, NumbersOK, Untouched
  <2>9. held'[q] # None => hold'[q] # None /\ hold'[q].call = held'[q]
    BY DEF PersonOK, NumbersOK, Untouched
  <2>10. QED
    BY <2>4, <2>5, <2>6, <2>7, <2>8, <2>9 DEF NumbersOK
<1>8. HearOK(q)'
  BY <1>3, <1>4 DEF PersonOK, HearOK, Untouched
<1>9. ASSUME link[q] \in live' => link[q] \in live,
             link[q] \in live' => (lease' = lease \/ lease # link[q])
      PROVE  GrantOK(q)'
  <2>1. SUFFICES ASSUME link[q] \in live'
                 PROVE  /\ held[q] # None /\ ~crossed[q]
                           => lease' = link[q] /\ \A n \in In(up'[q]) : ~Frees(n)
                        /\ \A m \in In(down'[q]) :
                              m.op = "granted" /\ Counts(m, Asked(q), Kept(q)) => lease' = link[q]
    BY <1>1 DEF GrantOK, Untouched
  <2>2. link[q] \in live /\ (lease' = lease \/ lease # link[q])
    BY <1>9, <2>1
  <2>3. ASSUME held[q] # None, ~crossed[q]
        PROVE  lease' = link[q] /\ \A n \in In(up'[q]) : ~Frees(n)
    BY <2>2, <2>3 DEF PersonOK, GrantOK, Idle
  <2>4. ASSUME NEW m \in In(down'[q]), m.op = "granted", Counts(m, Asked(q), Kept(q))
        PROVE  lease' = link[q]
    BY <1>3, <1>4, <2>2, <2>4 DEF PersonOK, GrantOK
  <2>5. QED
    BY <2>3, <2>4
<1>10. QED
  BY <1>5, <1>7, <1>8, <1>9

LEMMA StaysAlone ==
    ASSUME TypeOK, TypeOK', NEW q \in Person, PersonOK(q), Untouched(q), calls <= calls',
           up'[q] = up[q], down'[q] = down[q], lease' = lease,
           link[q] \in live' => link[q] \in live
    PROVE  PersonOK(q)'
<1>1. /\ <<>> \in Seq(Answers) /\ Quiet(<<>>) /\ calls' \in Nat
      /\ down[q] \in Seq(Answers) /\ down'[q] = down[q] \o <<>>
  BY InNone, ConcatEmptySeq DEF TypeOK, Quiet
<1>2. Ordered(up'[q], Asked(q), Kept(q)) /\ \A m \in In(up'[q]) : m \in In(up[q]) \/ Idle(m)
  BY DEF PersonOK, LineOK
<1>3. LineOK(q)' /\ NumbersOK(q)' /\ HearOK(q)'
  BY <1>1, <1>2, Stays
<1>4. GrantOK(q)'
  BY <1>1, <1>2, Stays
<1>5. QED
  BY <1>3, <1>4 DEF PersonOK

LEMMA LinksStep ==
    ASSUME IInv, TypeOK', [Next]_vars
    PROVE  LinksOK'
<1> USE NoneLemma
<1> TypeOK /\ LinksOK /\ \A p \in Person : PersonOK(p)
  BY DEF IInv
<1>1. ASSUME NEW p \in Person, Connect(p)
      PROVE  LinksOK'
  <2>1. /\ sessions' = sessions + 1 /\ sessions \in Nat /\ sessions' \in Session
        /\ link[p] = None /\ link'[p] = sessions'
        /\ \A q \in Person \ {p} : link'[q] = link[q] /\ up'[q] = up[q] /\ down'[q] = down[q]
        /\ \A q \in Person : hold'[q] = hold[q] /\ held'[q] = held[q] /\ asking'[q] = asking[q]
        /\ live' = live \cup {sessions'}
    BY <1>1, SyncLeasesAssumption DEF TypeOK, Connect, Online, Session, client, document
  <2>2. /\ \A q \in Person : link[q] # None => link[q] \in Nat /\ link[q] < sessions'
        /\ \A s \in live : s <= sessions' /\ s \in Nat
    BY <2>1, SyncLeasesAssumption DEF TypeOK, LinksOK, Lease, Session
  <2>3. /\ \A q, r \in Person : link'[q] # None /\ link'[q] = link'[r] => q = r
        /\ \A q \in Person : link'[q] # None => link'[q] <= sessions'
        /\ \A s \in live' : s <= sessions'
    BY <2>1, <2>2 DEF LinksOK
  <2>4. \A q \in Person : link'[q] \notin live' => up'[q] = <<>>
    BY <2>1, <2>2 DEF LinksOK
  <2>5. \A q \in Person : link'[q] = None =>
          down'[q] = <<>> /\ hold'[q] = None /\ held'[q] = None /\ asking'[q] = {}
    BY <2>1 DEF LinksOK
  <2>6. QED
    BY <2>3, <2>4, <2>5 DEF LinksOK
<1>2. ASSUME NEW p \in Person, Disconnected(p)
      PROVE  LinksOK'
  <2>1. /\ sessions' = sessions /\ live' = live /\ link'[p] = None /\ up'[p] = <<>> /\ down'[p] = <<>>
        /\ \A q \in Person \ {p} : /\ link'[q] = link[q] /\ up'[q] = up[q] /\ down'[q] = down[q]
                                   /\ asking'[q] = asking[q]
        /\ asking'[p] = {}
    BY <1>2 DEF TypeOK, Disconnected
  <2>2. /\ hold'[p] = None
        /\ \A q \in Person \ {p} : hold'[q] = hold[q] /\ held'[q] = held[q]
    BY <1>2 DEF TypeOK, Disconnected, Lose
  <2>3. held'[p] = None \/ (held'[p] = held[p] /\ ~(hold[p] # None /\ held[p] = hold[p].call))
    BY <1>2 DEF TypeOK, Disconnected, Lose
  <2>4. held'[p] = None
    BY <2>3 DEF PersonOK, NumbersOK
  <2>5. \A q, r \in Person : link'[q] # None /\ link'[q] = link'[r] => q = r
    BY <2>1 DEF LinksOK
  <2>6. QED
    BY <2>1, <2>2, <2>4, <2>5 DEF LinksOK
<1>3. ASSUME sessions' = sessions, link' = link, live' = live,
             \A q \in Person : link[q] \notin live => up'[q] = up[q] \/ up'[q] = <<>>,
             \A q \in Person : link[q] = None => /\ down'[q] = down[q]
                                                 /\ hold'[q] = hold[q] \/ hold'[q] = None
                                                 /\ held'[q] = held[q] \/ held'[q] = None
                                                 /\ asking'[q] \subseteq asking[q]
      PROVE  LinksOK'
  <2>1. \A q \in Person : link[q] \notin live => up'[q] = <<>>
    BY <1>3 DEF LinksOK
  <2>2. ASSUME NEW q \in Person, link[q] = None
        PROVE  down'[q] = <<>> /\ hold'[q] = None /\ held'[q] = None /\ asking'[q] = {}
    <3>1. down[q] = <<>> /\ hold[q] = None /\ held[q] = None /\ asking[q] = {}
      BY <2>2 DEF LinksOK
    <3>2. /\ down'[q] = down[q] /\ asking'[q] \subseteq asking[q]
          /\ hold'[q] = hold[q] \/ hold'[q] = None
          /\ held'[q] = held[q] \/ held'[q] = None
      BY <1>3, <2>2, Zenon
    <3>3. QED
      BY <3>1, <3>2
  <2>3. /\ \A q, r \in Person : link[q] # None /\ link[q] = link[r] => q = r
        /\ \A q \in Person : link[q] # None => link[q] <= sessions
        /\ \A c \in live : c <= sessions
    BY DEF LinksOK
  <2>4. QED
    BY <1>3, <2>1, <2>2, <2>3 DEF LinksOK
<1>4. ASSUME NEW p \in Person, NEW messages \in Seq(Requests), Sent(p, messages)
      PROVE  \A q \in Person : link[q] \notin live => up'[q] = up[q] \/ up'[q] = <<>>
  BY <1>4, SentLemma
<1>5. ASSUME NEW p \in Person, NEW ops, Receive(p, ops)
      PROVE  link[p] # None /\ \A q \in Person : link[q] = None => down'[q] = down[q]
  BY <1>5 DEF LinksOK, Receive, TypeOK
<1>6. ASSUME NEW p \in Person, Open(p)
      PROVE  LinksOK'
  <2>1. <<[op |-> "join"]>> \in Seq(Requests) /\ Sent(p, <<[op |-> "join"]>>)
    BY <1>6, RequestLemma DEF Open
  <2>2. \A q \in Person : link[q] \notin live => up'[q] = up[q] \/ up'[q] = <<>>
    BY <1>4, <2>1
  <2>3. QED
    BY <1>3, <1>6, <2>2 DEF Open, client
<1>7. ASSUME NEW p \in Person, CloseDocument(p)
      PROVE  LinksOK'
  <2>1. /\ <<[op |-> "release"]>> \in Seq(Requests) /\ <<[op |-> "leave"]>> \in Seq(Requests)
        /\ <<>> \in Seq(Requests)
    BY RequestLemma
  <2> DEFINE ms == (IF held[p] # None THEN <<[op |-> "release"]>> ELSE <<>>) \o <<[op |-> "leave"]>>
  <2>2. ms \in Seq(Requests)
    BY <2>1, ConcatProperties
  <2>3. Sent(p, ms)
    BY <1>7 DEF CloseDocument
  <2>4. \A q \in Person : link[q] \notin live => up'[q] = up[q] \/ up'[q] = <<>>
    <3> HIDE DEF ms
    <3>1. QED
      BY <1>4, <2>2, <2>3
  <2>5. QED
    BY <1>3, <1>7, <2>4 DEF CloseDocument, TypeOK
<1>8. ASSUME NEW p \in Person, Acquire(p)
      PROVE  LinksOK'
  <2>1. calls' \in Call
    BY <1>8, SyncLeasesAssumption DEF TypeOK, Acquire, Call
  <2>2. PICK m \in Requests : m = [op |-> "acquire", call |-> calls', renews |-> FALSE]
    BY <2>1, RequestLemma
  <2>3. Sent(p, <<m>>) /\ <<m>> \in Seq(Requests)
    BY <1>8, <2>2 DEF Acquire
  <2>4. \A q \in Person : link[q] \notin live => up'[q] = up[q] \/ up'[q] = <<>>
    BY <1>4, <2>3
  <2>5. QED
    BY <1>3, <1>8, <2>4 DEF Acquire, client, TypeOK, Online
<1>9. ASSUME NEW p \in Person, Release(p)
      PROVE  LinksOK'
  <2>1. <<[op |-> "release"]>> \in Seq(Requests) /\ Sent(p, <<[op |-> "release"]>>)
    BY <1>9, RequestLemma DEF Release
  <2>2. \A q \in Person : link[q] \notin live => up'[q] = up[q] \/ up'[q] = <<>>
    BY <1>4, <2>1
  <2>3. QED
    BY <1>3, <1>9, <2>2 DEF Release, TypeOK
<1>10. ASSUME NEW p \in Person, Renew(p)
       PROVE  LinksOK'
  <2>1. hold[p].call \in Call
    BY <1>10 DEF TypeOK, Renew
  <2>2. PICK m \in Requests : m = [op |-> "acquire", call |-> hold[p].call, renews |-> TRUE]
    BY <2>1, RequestLemma
  <2>3. Sent(p, <<m>>) /\ <<m>> \in Seq(Requests)
    BY <1>10, <2>2 DEF Renew
  <2>4. \A q \in Person : link[q] \notin live => up'[q] = up[q] \/ up'[q] = <<>>
    BY <1>4, <2>3
  <2>5. link[p] # None
    BY <1>10 DEF LinksOK, Renew
  <2>6. QED
    BY <1>3, <1>10, <2>4, <2>5 DEF Renew, TypeOK, document
<1>11. ASSUME NEW p \in Person, Changed(p) \/ Granted(p) \/ Refused(p) \/ Renewed(p) \/ Lost(p)
       PROVE  LinksOK'
  <2>1. PICK ops : Receive(p, ops)
    BY <1>11 DEF Changed, Granted, Refused, Renewed, Lost
  <2>2. link[p] # None /\ \A q \in Person : link[q] = None => down'[q] = down[q]
    BY <1>5, <2>1
  <2>3. sessions' = sessions /\ link' = link /\ live' = live /\ up' = up
    BY <1>11 DEF Changed, Granted, Refused, Renewed, Lost
  <2>4. \A q \in Person \ {p} : hold'[q] = hold[q] /\ held'[q] = held[q] /\ asking'[q] = asking[q]
    <3>1. CASE Changed(p) \/ Refused(p)
      BY <3>1 DEF Changed, Refused, TypeOK, client, document
    <3>2. CASE Granted(p)
      BY <3>2 DEF Granted, TypeOK
    <3>3. CASE Renewed(p)
      BY <3>3 DEF Renewed, TypeOK
    <3>4. CASE Lost(p)
      BY <3>4 DEF Lost, Lose, TypeOK
    <3>5. QED
      BY <1>11, <3>1, <3>2, <3>3, <3>4
  <2>5. QED
    BY <1>3, <2>2, <2>3, <2>4
<1>12. ASSUME NEW p \in Person, Serve(p)
       PROVE  LinksOK'
  <2>1. up[p] # <<>> /\ link[p] \in live /\ link[p] # None
    BY <1>12 DEF Serve, LinksOK, TypeOK
  <2>2. PICK to, room, answer : Grant(to, room, p, answer)
    BY <1>12 DEF Serve
  <2>3. ASSUME NEW q \in Person, link[q] = None
        PROVE  down'[q] = down[q]
    <3>1. q # p /\ link[q] \notin members'
      BY <2>1, <2>3 DEF TypeOK
    <3>2. down'[q] = (down[q] \o <<>>) \o <<>>
      BY <2>2, <3>1 DEF Grant
    <3>3. QED
      BY <3>2, ConcatEmptySeq DEF TypeOK
  <2>4. \A q \in Person : link[q] \notin live => up'[q] = up[q]
    BY <1>12, <2>1 DEF Serve, TypeOK
  <2>5. QED
    BY <1>3, <1>12, <2>3, <2>4 DEF Serve, client, document
<1>13. ASSUME NEW s \in Session, EndSession(s)
       PROVE  LinksOK'
  <2>1. /\ Freed(s) \in Lease /\ <<>> \in Seq(Answers) /\ members \ {s} \subseteq live
        /\ Grant(Freed(s), members \ {s}, None, <<>>)
    BY <1>13 DEF TypeOK, Lease, Freed, EndSession
  <2>2. ASSUME NEW q \in Person, link[q] = None
        PROVE  down'[q] = down[q]
    <3>1. link[q] \notin members'
      BY <2>2 DEF TypeOK
    <3>2. down'[q] = (down[q] \o <<>>) \o <<>>
      BY <2>1, <3>1 DEF Grant
    <3>3. QED
      BY <3>2, ConcatEmptySeq DEF TypeOK
  <2>3. \A q \in Person : link[q] \notin live' => up'[q] = <<>>
    BY <1>13 DEF EndSession, LinksOK
  <2>4. \A q \in Person : link[q] = None => hold'[q] = None /\ held'[q] = None /\ asking'[q] = {}
    BY <1>13 DEF EndSession, LinksOK, client, document
  <2>5. \A q \in Person : link[q] = None => down'[q] = <<>>
    BY <2>2 DEF LinksOK
  <2>6. /\ \A q, r \in Person : link'[q] # None /\ link'[q] = link'[r] => q = r
        /\ \A q \in Person : link'[q] # None => link'[q] <= sessions'
        /\ \A c \in live' : c <= sessions'
    BY <1>13 DEF EndSession, LinksOK
  <2>7. link' = link
    BY <1>13 DEF EndSession
  <2>8. QED
    BY <2>3, <2>4, <2>5, <2>6, <2>7 DEF LinksOK
<1>14. ASSUME Expire
       PROVE  LinksOK'
  <2>1. ASSUME NEW q \in Person, link[q] = None
        PROVE  down'[q] = down[q]
    <3>1. link[q] \notin members
      BY <2>1 DEF TypeOK
    <3>2. down'[q] = (down[q] \o <<>>) \o <<>>
      BY <1>14, <3>1 DEF Grant, Expire
    <3>3. QED
      BY <3>2, ConcatEmptySeq DEF TypeOK
  <2>2. QED
    BY <1>3, <1>14, <2>1 DEF Expire, client, document
<1>15. CASE UNCHANGED vars
  BY <1>3, <1>15 DEF vars, client, document
<1>16. QED
  BY <1>1, <1>2, <1>6, <1>7, <1>8, <1>9, <1>10, <1>11, <1>12, <1>13, <1>14, <1>15 DEF Next

-----------------------------------------------------------------------------
(* The connection of the person who takes a step.                          *)

LEMMA OnLineLemma ==
    ASSUME TypeOK, NEW p \in Person
    PROVE  /\ \A m \in OnLine(p) : Asks(m) => m.call \in Call /\ m.call \in Nat
           /\ \A m : New(m) \/ Again(m) => Asks(m)
           /\ \A m : ~(New(m) /\ Again(m))
           /\ calls \in Nat /\ asking[p] \subseteq Nat /\ Asked(p) \subseteq asking[p]
           /\ (hold[p] # None => hold[p].call \in Nat /\ hold[p].call \in Call)
           /\ Call \subseteq Nat
<1>1. \A m \in OnLine(p) : m \in Requests \/ m \in Answers
  BY InSeq DEF OnLine, TypeOK
<1>2. \A m \in OnLine(p) : Asks(m) => m.call \in Call
  BY <1>1, RequestLemma, AnswerLemma DEF Asks
<1>3. Call \subseteq Nat
  BY DEF Call
<1>4. /\ calls \in Nat /\ asking[p] \subseteq Nat
      /\ (hold[p] # None => hold[p].call \in Nat /\ hold[p].call \in Call)
  <2>1. hold[p] # None => hold[p] \in Hold
    BY DEF TypeOK
  <2>2. calls \in Nat /\ asking[p] \in SUBSET Call
    BY SyncLeasesAssumption DEF TypeOK
  <2>3. QED
    BY <1>3, <2>1, <2>2
<1>5. Asked(p) \subseteq asking[p]
  BY DEF Asked
<1>6. (\A m : New(m) \/ Again(m) => Asks(m)) /\ \A m : ~(New(m) /\ Again(m))
  BY Zenon DEF New, Again
<1>7. QED
  BY <1>2, <1>3, <1>4, <1>5, <1>6

LEMMA OrderedFree ==
    ASSUME NEW s, NEW asked, NEW kept, NEW asked2, NEW kept2, Ordered(s, asked, kept),
           \A n \in In(s) : ~Frees(n)
    PROVE  Ordered(s, asked2, kept2)
<1>1. \A i \in DOMAIN s : s[i] \in In(s)
  BY DEF In
<1>2. QED
  BY <1>1 DEF Ordered, Pair

LEMMA UpGrows ==
    ASSUME TypeOK, NEW p \in Person, LineOK(p), NEW t \in Seq(Requests),
           up'[p] = up[p] \o t, down'[p] = down[p],
           \A m \in OnLine(p) : Counts(m, Asked(p)', Kept(p)') => Counts(m, Asked(p), Kept(p)),
           Ordered(t, Asked(p)', Kept(p)'),
           \A m \in OnLine(p), n \in In(t) : Pair(m, n, Asked(p)', Kept(p)')
    PROVE  /\ LineOK(p)'
           /\ In(up'[p]) = In(up[p]) \cup In(t)
           /\ OnLine(p)' = OnLine(p) \cup In(t)
<1>1. up[p] \in Seq(Requests)
  BY DEF TypeOK
<1>2. In(up'[p]) = In(up[p]) \cup In(t)
  BY <1>1, InConcat
<1>3. Ordered(up[p], Asked(p)', Kept(p)') /\ Ordered(down[p], Asked(p)', Kept(p)')
  <2>1. Ordered(up[p], Asked(p)', Kept(p)')
    BY OrderedWeaker DEF LineOK, OnLine
  <2>2. Ordered(down[p], Asked(p)', Kept(p)')
    BY OrderedWeaker DEF LineOK, OnLine
  <2>3. QED
    BY <2>1, <2>2
<1>4. Follows(down[p], up[p], Asked(p)', Kept(p)')
  BY FollowsWeaker DEF LineOK, OnLine
<1>5. Follows(up[p], t, Asked(p)', Kept(p)') /\ Follows(down[p], t, Asked(p)', Kept(p)')
  BY DEF Follows, OnLine
<1>6. Ordered(up[p] \o t, Asked(p)', Kept(p)')
  BY <1>1, <1>3, <1>5, OrderedConcat
<1>7. Follows(down[p], up'[p], Asked(p)', Kept(p)')
  BY <1>2, <1>4, <1>5 DEF Follows
<1>8. QED
  BY <1>2, <1>3, <1>6, <1>7 DEF LineOK, OnLine

LEMMA DownShrinks ==
    ASSUME TypeOK, NEW p \in Person, LineOK(p), down[p] # <<>>,
           down'[p] = Tail(down[p]), up'[p] = up[p]
    PROVE  /\ Message(p) \in Answers /\ Message(p) \in In(down[p]) /\ Message(p) \in OnLine(p)
           /\ In(down'[p]) \subseteq In(down[p]) /\ OnLine(p)' \subseteq OnLine(p)
           /\ \A n \in OnLine(p)' : Pair(Message(p), n, Asked(p), Kept(p))
           /\ (\A m \in OnLine(p)' : Counts(m, Asked(p)', Kept(p)') => Counts(m, Asked(p), Kept(p)))
                 => LineOK(p)'
           /\ (\A n \in OnLine(p)' : ~Frees(n)) => LineOK(p)'
<1>1. down[p] \in Seq(Answers)
  BY DEF TypeOK
<1>2. /\ Message(p) \in Answers
      /\ In(down[p]) = {Message(p)} \cup In(down'[p])
  BY <1>1, InTail DEF Message
<1>3. /\ Ordered(down'[p], Asked(p), Kept(p))
      /\ \A n \in In(down'[p]) : Pair(Message(p), n, Asked(p), Kept(p))
  BY <1>1, OrderedTail DEF LineOK, Message
<1>4. \A n \in In(up'[p]) : Pair(Message(p), n, Asked(p), Kept(p))
  BY <1>2 DEF LineOK, Follows
<1>5. Ordered(up'[p], Asked(p), Kept(p)) /\ Follows(down'[p], up'[p], Asked(p), Kept(p))
  BY <1>2 DEF LineOK, Follows
<1>6. ASSUME \A m \in OnLine(p)' : Counts(m, Asked(p)', Kept(p)') => Counts(m, Asked(p), Kept(p))
      PROVE  LineOK(p)'
  <2>1. /\ \A m \in In(up'[p]) : Counts(m, Asked(p)', Kept(p)') => Counts(m, Asked(p), Kept(p))
        /\ \A m \in In(down'[p]) : Counts(m, Asked(p)', Kept(p)') => Counts(m, Asked(p), Kept(p))
    BY <1>6 DEF OnLine
  <2>2. Ordered(up'[p], Asked(p)', Kept(p)')
    BY <1>5, <2>1, OrderedWeaker
  <2>3. Ordered(down'[p], Asked(p)', Kept(p)')
    BY <1>3, <2>1, OrderedWeaker
  <2>4. Follows(down'[p], up'[p], Asked(p)', Kept(p)')
    BY <1>5, <2>1, FollowsWeaker
  <2>5. QED
    BY <2>2, <2>3, <2>4 DEF LineOK
<1>7. ASSUME \A n \in OnLine(p)' : ~Frees(n)
      PROVE  LineOK(p)'
  <2>1. (\A n \in In(up'[p]) : ~Frees(n)) /\ (\A n \in In(down'[p]) : ~Frees(n))
    BY <1>7 DEF OnLine
  <2>2. Ordered(up'[p], Asked(p)', Kept(p)')
    BY <1>5, <2>1, OrderedFree
  <2>3. Ordered(down'[p], Asked(p)', Kept(p)')
    BY <1>3, <2>1, OrderedFree
  <2>4. Follows(down'[p], up'[p], Asked(p)', Kept(p)')
    BY <1>5, <2>1 DEF Follows, Pair
  <2>5. QED
    BY <2>2, <2>3, <2>4 DEF LineOK
<1>8. QED
  BY <1>2, <1>3, <1>4, <1>6, <1>7 DEF OnLine

-----------------------------------------------------------------------------
(* Connections, and what is sent.                                          *)

LEMMA ConnectStep ==
    ASSUME IInv, TypeOK', NEW p \in Person, Connect(p)
    PROVE  \A q \in Person : PersonOK(q)'
<1> TypeOK /\ LinksOK /\ \A q \in Person : PersonOK(q)
  BY DEF IInv
<1>1. /\ link[p] = None /\ sessions' \notin live /\ lease' = lease /\ calls' = calls
      /\ live' = live \cup {sessions'}
      /\ \A q \in Person : q # p => /\ link'[q] = link[q] /\ up'[q] = up[q] /\ down'[q] = down[q]
                                   /\ link[q] # sessions'
      /\ up'[p] \in {<<>>, <<[op |-> "join"]>>} /\ down'[p] = <<>>
  <2>1. sessions' = sessions + 1 /\ sessions \in Nat
    BY DEF Connect, TypeOK
  <2>2. \A q \in Person : link[q] # None => link[q] \in Nat
    BY DEF TypeOK, Lease, Session
  <2>3. None \notin Nat /\ live \subseteq Nat
    BY SyncLeasesAssumption DEF TypeOK, Session
  <2>4. sessions' \notin live /\ \A q \in Person : link[q] # sessions'
    BY <2>1, <2>2, <2>3 DEF LinksOK
  <2>5. QED
    BY <2>4 DEF Connect, TypeOK, Online
<1>2. \A q \in Person : /\ session'[q] = session[q] /\ list'[q] = list[q] /\ shown'[q] = shown[q]
                        /\ hold'[q] = hold[q] /\ asking'[q] = asking[q] /\ held'[q] = held[q]
                        /\ crossed'[q] = crossed[q]
  BY DEF Connect, client, document
<1>3. ASSUME NEW q \in Person, q # p
      PROVE  PersonOK(q)'
  <2>1. Untouched(q)
    BY <1>1, <1>2, <1>3 DEF Untouched
  <2>2. calls <= calls' /\ (link[q] \in live' => link[q] \in live)
    BY <1>1, <1>3 DEF TypeOK
  <2>3. QED
    BY <1>1, <1>3, <2>1, <2>2, StaysAlone
<1>4. PersonOK(p)'
  <2>1. hold'[p] = None /\ held'[p] = None /\ asking'[p] = {}
    BY <1>1, <1>2 DEF LinksOK
  <2>2. \A m \in In(up'[p]) : Idle(m)
    <3>1. In(<<[op |-> "join"]>>) = {[op |-> "join"]}
      BY InOne
    <3>2. QED
      BY <1>1, <3>1, InNone DEF Idle, Asks, Frees
  <2>3. In(down'[p]) = {}
    BY <1>1, InNone
  <2>4. LineOK(p)'
    <3>1. Ordered(up'[p], Asked(p)', Kept(p)')
      BY <2>2, OrderedIdle
    <3>2. Ordered(down'[p], Asked(p)', Kept(p)') /\ Follows(down'[p], up'[p], Asked(p)', Kept(p)')
      BY <1>1, OrderedShort
    <3>3. QED
      BY <3>1, <3>2 DEF LineOK
  <2>5. NumbersOK(p)'
    BY <2>1, <2>2, <2>3 DEF NumbersOK, OnLine, Idle, New, Again
  <2>6. GrantOK(p)'
    BY <2>1, <2>3 DEF GrantOK
  <2>7. HearOK(p)'
    BY <1>2, <2>1, <2>3 DEF HearOK, PersonOK
  <2>8. QED
    BY <2>4, <2>5, <2>6, <2>7 DEF PersonOK
<1>5. QED
  BY <1>3, <1>4

LEMMA DisconnectedStep ==
    ASSUME IInv, TypeOK', NEW p \in Person, Disconnected(p)
    PROVE  \A q \in Person : PersonOK(q)'
<1> TypeOK /\ LinksOK /\ \A q \in Person : PersonOK(q)
  BY DEF IInv
<1>1. /\ link'[p] = None /\ live' = live /\ lease' = lease /\ calls' = calls
      /\ up'[p] = <<>> /\ down'[p] = <<>> /\ session'[p] = None /\ asking'[p] = {}
      /\ \A q \in Person : q # p => /\ link'[q] = link[q] /\ up'[q] = up[q] /\ down'[q] = down[q]
                                   /\ session'[q] = session[q] /\ asking'[q] = asking[q]
                                   /\ crossed'[q] = crossed[q]
  BY DEF Disconnected, TypeOK
<1>2. /\ hold'[p] = None
      /\ held'[p] = IF hold[p] # None /\ held[p] = hold[p].call THEN None ELSE held[p]
      /\ \A q \in Person : q # p => hold'[q] = hold[q] /\ held'[q] = held[q]
  BY DEF Disconnected, Lose, TypeOK
<1>3. held'[p] = None
  BY <1>2 DEF PersonOK, NumbersOK
<1>4. None \in Lease /\ Heard(p, None, None)
  BY DEF Disconnected, Lease
<1>5. /\ list'[p] = None
      /\ \A q \in Person \ {p} : list'[q] = list[q] /\ shown'[q] = shown[q]
      /\ \/ shown'[p] = Shown(None, None)
         \/ list[p] = None /\ shown'[p] = shown[p]
  BY <1>4, HeardLemma
<1>6. ASSUME NEW q \in Person, q # p
      PROVE  PersonOK(q)'
  <2>1. Untouched(q)
    BY <1>1, <1>2, <1>5, <1>6 DEF Untouched
  <2>2. calls <= calls' /\ (link[q] \in live' => link[q] \in live)
    BY <1>1 DEF TypeOK
  <2>3. QED
    BY <1>1, <1>6, <2>1, <2>2, StaysAlone
<1>7. PersonOK(p)'
  <2>1. In(up'[p]) = {} /\ In(down'[p]) = {}
    BY <1>1, InNone
  <2>2. LineOK(p)'
    BY <1>1, OrderedShort DEF LineOK
  <2>3. NumbersOK(p)'
    BY <1>1, <1>2, <1>3, <2>1 DEF NumbersOK, OnLine
  <2>4. GrantOK(p)'
    BY <1>3, <2>1 DEF GrantOK
  <2>5. shown'[p] = Shown(None, None)
    BY <1>5, ShownNone DEF PersonOK, HearOK
  <2>6. HearOK(p)'
    BY <1>1, <1>3, <1>5, <2>1, <2>5 DEF HearOK
  <2>7. QED
    BY <2>2, <2>3, <2>4, <2>6 DEF PersonOK
<1>8. QED
  BY <1>6, <1>7

\* What a person sends is at the end of the connection, or goes nowhere.
LEMMA SentTail ==
    ASSUME TypeOK, NEW p \in Person, NEW messages \in Seq(Requests), Sent(p, messages)
    PROVE  \E t \in Seq(Requests) :
              /\ up'[p] = up[p] \o t
              /\ t = messages \/ t = <<>>
<1>1. CASE link[p] \in live
  BY <1>1, SentLemma
<1>2. CASE link[p] \notin live
  <2>1. up[p] \in Seq(Requests) /\ <<>> \in Seq(Requests) /\ up'[p] = up[p]
    BY <1>2, SentLemma DEF TypeOK
  <2>2. up'[p] = up[p] \o <<>>
    BY <2>1, ConcatEmptySeq
  <2>3. QED
    BY <2>1, <2>2
<1>3. QED
  BY <1>1, <1>2

LEMMA OpenStep ==
    ASSUME IInv, TypeOK', NEW p \in Person, Open(p)
    PROVE  \A q \in Person : PersonOK(q)'
<1> TypeOK /\ LinksOK /\ \A q \in Person : PersonOK(q)
  BY DEF IInv
<1> DEFINE join == [op |-> "join"]
<1>1. <<join>> \in Seq(Requests) /\ Sent(p, <<join>>) /\ In(<<join>>) = {join}
  BY RequestLemma, InOne DEF Open
<1>2. /\ live' = live /\ lease' = lease /\ calls' = calls /\ down' = down
      /\ \A q \in Person : Untouched(q)
  BY DEF Open, client, Untouched
<1>3. PICK t \in Seq(Requests) : up'[p] = up[p] \o t /\ (t = <<join>> \/ t = <<>>)
  BY <1>1, SentTail
<1>4. \A q \in Person : q # p => up'[q] = up[q]
  BY <1>1, SentLemma
<1>5. calls <= calls'
  BY <1>2 DEF TypeOK
<1>6. ASSUME NEW q \in Person, q # p
      PROVE  PersonOK(q)'
  BY <1>2, <1>4, <1>5, <1>6, StaysAlone
<1>7. PersonOK(p)'
  <2>1. \A m \in In(t) : Idle(m)
    BY <1>1, <1>3, InNone DEF Idle, Asks, Frees
  <2>2. up[p] \in Seq(Requests) /\ In(up'[p]) = In(up[p]) \cup In(t)
    BY <1>3, InConcat DEF TypeOK
  <2>3. Ordered(up'[p], Asked(p), Kept(p))
    <3>1. Ordered(t, Asked(p), Kept(p))
      BY <2>1, OrderedIdle
    <3>2. Follows(up[p], t, Asked(p), Kept(p))
      BY <2>1, IdlePair DEF Follows
    <3>3. QED
      BY <1>3, <2>2, <3>1, <3>2, OrderedConcat DEF PersonOK, LineOK
  <2>4. /\ <<>> \in Seq(Answers) /\ Quiet(<<>>) /\ calls' \in Nat
        /\ down'[p] = down[p] \o <<>>
    BY <1>2, InNone, ConcatEmptySeq DEF TypeOK, Quiet
  <2>5. \A m \in In(up'[p]) : m \in In(up[p]) \/ Idle(m)
    BY <2>1, <2>2
  <2>6. LineOK(p)' /\ NumbersOK(p)' /\ HearOK(p)'
    BY <1>2, <1>5, <2>3, <2>4, <2>5, Stays
  <2>7. GrantOK(p)'
    BY <1>2, <1>5, <2>3, <2>4, <2>5, Stays
  <2>8. QED
    BY <2>6, <2>7 DEF PersonOK
<1>8. QED
  BY <1>6, <1>7

\* A document that asks for nothing and keeps nothing has nothing that counts.
LEMMA NothingCounts ==
    ASSUME TypeOK, NEW p \in Person, Asked(p)' = {}, Kept(p)' = None
    PROVE  \A m \in OnLine(p) : ~Counts(m, Asked(p)', Kept(p)')
BY OnLineLemma, NoneLemma DEF Counts

LEMMA CloseStep ==
    ASSUME IInv, TypeOK', NEW p \in Person, CloseDocument(p)
    PROVE  \A q \in Person : PersonOK(q)'
<1> TypeOK /\ LinksOK /\ \A q \in Person : PersonOK(q)
  BY DEF IInv
<1> DEFINE freed == [op |-> "release"]
           gone == [op |-> "leave"]
           ms == (IF held[p] # None THEN <<freed>> ELSE <<>>) \o <<gone>>
<1>1. ms \in Seq(Requests) /\ Sent(p, ms) /\ In(ms) \subseteq {freed, gone}
  <2>1. <<freed>> \in Seq(Requests) /\ <<gone>> \in Seq(Requests) /\ <<>> \in Seq(Requests)
    BY RequestLemma
  <2>2. In(<<freed>>) = {freed} /\ In(<<gone>>) = {gone} /\ In(<<>>) = {}
    BY InOne, InNone
  <2>3. CASE held[p] # None
    <3>1. ms = <<freed>> \o <<gone>>
      BY <2>3
    <3>2. In(<<freed>> \o <<gone>>) = In(<<freed>>) \cup In(<<gone>>)
      BY <2>1, InConcat
    <3>3. QED
      BY <2>1, <2>2, <3>1, <3>2, ConcatProperties DEF CloseDocument
  <2>4. CASE held[p] = None
    <3>1. ms = <<gone>>
      BY <2>1, <2>4, ConcatEmptySeq
    <3>2. QED
      BY <2>1, <2>2, <3>1 DEF CloseDocument
  <2>5. QED
    BY <2>3, <2>4
<1>2. /\ live' = live /\ lease' = lease /\ calls' = calls /\ down' = down /\ link' = link
      /\ session' = session /\ held'[p] = None /\ hold'[p] = None /\ asking'[p] = {}
      /\ \A q \in Person : q # p => /\ hold'[q] = hold[q] /\ asking'[q] = asking[q]
                                   /\ held'[q] = held[q] /\ crossed'[q] = crossed[q]
  BY DEF CloseDocument, TypeOK
<1>3. session[p] \in Lease /\ None \in Lease /\ Heard(p, None, session[p])
  BY DEF CloseDocument, TypeOK, Lease
<1>4. /\ list'[p] = None
      /\ \A q \in Person \ {p} : list'[q] = list[q] /\ shown'[q] = shown[q]
      /\ \/ shown'[p] = Shown(None, session[p])
         \/ list[p] = None /\ shown'[p] = shown[p]
  BY <1>3, HeardLemma
<1> HIDE DEF ms
<1>5. PICK t \in Seq(Requests) : up'[p] = up[p] \o t /\ (t = ms \/ t = <<>>)
  BY <1>1, SentTail
<1>6. \A q \in Person : q # p => up'[q] = up[q]
  BY <1>1, SentLemma
<1>7. calls <= calls'
  BY <1>2 DEF TypeOK
<1>8. ASSUME NEW q \in Person, q # p
      PROVE  PersonOK(q)'
  <2>1. Untouched(q)
    BY <1>2, <1>4, <1>8 DEF Untouched
  <2>2. QED
    BY <1>2, <1>6, <1>7, <1>8, <2>1, StaysAlone
<1>9. PersonOK(p)'
  <2>1. Asked(p)' = {} /\ Kept(p)' = None
    BY <1>2 DEF Asked, Kept
  <2>2. \A m \in OnLine(p) : ~Counts(m, Asked(p)', Kept(p)')
    BY <2>1, NothingCounts
  <2>3. \A m \in In(t) : ~Asks(m)
    BY <1>1, <1>5, InNone DEF Asks
  <2>4. Ordered(t, Asked(p)', Kept(p)')
    <3>1. \A i \in DOMAIN t : t[i] \in In(t)
      BY DEF In
    <3>2. QED
      BY <2>3, <3>1 DEF Ordered, Pair, Counts, New, Again
  <2>5. \A m \in OnLine(p), n \in In(t) : Pair(m, n, Asked(p)', Kept(p)')
    BY <2>2, <2>3 DEF Pair, New
  <2>6. LineOK(p)' /\ OnLine(p)' = OnLine(p) \cup In(t)
    BY <1>2, <1>5, <2>2, <2>4, <2>5, UpGrows DEF PersonOK
  <2>7. NumbersOK(p)'
    <3>1. /\ \A m \in OnLine(p)' : Asks(m) => m \in OnLine(p) /\ m.call \in Call
          /\ \A m \in OnLine(p)' : New(m) \/ Again(m) => Asks(m)
      BY <2>3, <2>6, OnLineLemma
    <3>2. QED
      BY <1>2, <2>1, <3>1, NoneLemma DEF PersonOK, NumbersOK
  <2>8. GrantOK(p)'
    BY <1>2, <2>2, <2>6 DEF GrantOK, OnLine
  <2>9. HearOK(p)'
    <3>1. shown'[p] = Shown(None, session[p])
      BY <1>4, ShownNone DEF PersonOK, HearOK
    <3>2. QED
      BY <1>2, <1>4, <3>1 DEF PersonOK, HearOK
  <2>10. QED
    BY <2>6, <2>7, <2>8, <2>9 DEF PersonOK
<1>10. QED
  BY <1>8, <1>9

LEMMA ReleaseStep ==
    ASSUME IInv, TypeOK', NEW p \in Person, Release(p)
    PROVE  \A q \in Person : PersonOK(q)'
<1> TypeOK /\ LinksOK /\ \A q \in Person : PersonOK(q)
  BY DEF IInv
<1> DEFINE freed == [op |-> "release"]
<1>1. <<freed>> \in Seq(Requests) /\ Sent(p, <<freed>>) /\ In(<<freed>>) = {freed}
  BY RequestLemma, InOne DEF Release
<1>2. Active(p, held[p])
  BY DEF Release, Active, PersonOK, NumbersOK
<1>3. /\ live' = live /\ lease' = lease /\ calls' = calls /\ down' = down /\ link' = link
      /\ session' = session /\ list' = list /\ shown' = shown /\ asking' = asking
      /\ held'[p] = None /\ hold'[p] = None
      /\ \A q \in Person : q # p => /\ hold'[q] = hold[q] /\ held'[q] = held[q]
                                   /\ crossed'[q] = crossed[q]
  BY <1>2 DEF Release, TypeOK
<1>4. crossed'[p] \/ asking'[p] = {}
  <2>1. crossed'[p] = (asking[p] # {})
    BY Zenon DEF Release, TypeOK
  <2>2. QED
    BY <1>3, <2>1
<1>5. PICK t \in Seq(Requests) : up'[p] = up[p] \o t /\ (t = <<freed>> \/ t = <<>>)
  BY <1>1, SentTail
<1>6. \A q \in Person : q # p => up'[q] = up[q]
  BY <1>1, SentLemma
<1>7. calls <= calls'
  BY <1>3 DEF TypeOK
<1>8. ASSUME NEW q \in Person, q # p
      PROVE  PersonOK(q)'
  <2>1. Untouched(q)
    BY <1>3, <1>8 DEF Untouched
  <2>2. QED
    BY <1>3, <1>6, <1>7, <1>8, <2>1, StaysAlone
<1>9. PersonOK(p)'
  <2>1. Asked(p)' = {} /\ Kept(p)' = None
    BY <1>3, <1>4 DEF Asked, Kept
  <2>2. \A m \in OnLine(p) : ~Counts(m, Asked(p)', Kept(p)')
    BY <2>1, NothingCounts
  <2>3. \A m \in In(t) : ~Asks(m)
    BY <1>1, <1>5, InNone DEF Asks
  <2>4. Ordered(t, Asked(p)', Kept(p)')
    BY <1>5, OrderedShort
  <2>5. \A m \in OnLine(p), n \in In(t) : Pair(m, n, Asked(p)', Kept(p)')
    BY <2>2, <2>3 DEF Pair, New
  <2>6. LineOK(p)' /\ OnLine(p)' = OnLine(p) \cup In(t)
    BY <1>3, <1>5, <2>2, <2>4, <2>5, UpGrows DEF PersonOK
  <2>7. NumbersOK(p)'
    <3>1. /\ \A m \in OnLine(p)' : Asks(m) => m \in OnLine(p) /\ m.call \in Call
          /\ \A m \in OnLine(p)' : New(m) \/ Again(m) => Asks(m)
      BY <2>3, <2>6, OnLineLemma
    <3>2. QED
      BY <1>3, <2>1, <3>1, NoneLemma DEF PersonOK, NumbersOK
  <2>8. GrantOK(p)'
    BY <1>3, <2>2, <2>6 DEF GrantOK, OnLine
  <2>9. HearOK(p)'
    BY <1>3 DEF PersonOK, HearOK
  <2>10. QED
    BY <2>6, <2>7, <2>8, <2>9 DEF PersonOK
<1>10. QED
  BY <1>8, <1>9

LEMMA RenewStep ==
    ASSUME IInv, TypeOK', NEW p \in Person, Renew(p)
    PROVE  \A q \in Person : PersonOK(q)'
<1> TypeOK /\ LinksOK /\ \A q \in Person : PersonOK(q)
  BY DEF IInv
<1>1. hold[p] # None /\ hold[p] \in Hold
  BY DEF Renew, TypeOK
<1>2. PICK m \in Requests : m = [op |-> "acquire", call |-> hold[p].call, renews |-> TRUE]
  BY <1>1, RequestLemma
<1>3. <<m>> \in Seq(Requests) /\ Sent(p, <<m>>) /\ In(<<m>>) = {m}
  <2>1. <<m>> \in Seq(Requests) /\ Sent(p, <<m>>)
    BY <1>2 DEF Renew
  <2>2. QED
    BY <2>1, InOne
<1>4. Again(m) /\ ~New(m) /\ ~Frees(m) /\ m.call = Kept(p)
  <2>1. m.op = "acquire" /\ m.renews = TRUE /\ m.call = hold[p].call
    BY <1>2
  <2>2. Again(m) /\ ~New(m)
    BY <2>1, Zenon DEF Again, New, Asks
  <2>3. QED
    BY <1>1, <2>1, <2>2 DEF Frees, Kept
<1>5. /\ live' = live /\ lease' = lease /\ calls' = calls /\ down' = down /\ link' = link
      /\ session' = session /\ list' = list /\ shown' = shown /\ asking' = asking
      /\ held' = held /\ crossed' = crossed
      /\ hold'[p] # None /\ hold'[p].call = hold[p].call
      /\ \A q \in Person : q # p => hold'[q] = hold[q]
  <2>1. hold'[p] = [hold[p] EXCEPT !.renewing = TRUE]
    BY DEF Renew, TypeOK
  <2>2. hold'[p] \in Hold /\ hold'[p].call = hold[p].call
    BY <1>1, <2>1
  <2>3. hold'[p] # None
    BY <2>2, SyncLeasesAssumption
  <2>4. QED
    BY <2>2, <2>3 DEF Renew, document, TypeOK
<1>6. PICK t \in Seq(Requests) : up'[p] = up[p] \o t /\ (t = <<m>> \/ t = <<>>)
  BY <1>3, SentTail
<1>7. \A q \in Person : q # p => up'[q] = up[q]
  BY <1>3, SentLemma
<1>8. calls <= calls'
  BY <1>5 DEF TypeOK
<1>9. ASSUME NEW q \in Person, q # p
      PROVE  PersonOK(q)'
  <2>1. Untouched(q)
    BY <1>5, <1>9 DEF Untouched
  <2>2. QED
    BY <1>5, <1>7, <1>8, <1>9, <2>1, StaysAlone
<1>10. PersonOK(p)'
  <2>1. Asked(p)' = Asked(p) /\ Kept(p)' = Kept(p)
    BY <1>1, <1>5 DEF Asked, Kept
  <2>2. \A n \in In(t) : n = m
    BY <1>3, <1>6, InNone
  <2>3. Ordered(t, Asked(p)', Kept(p)')
    BY <1>6, OrderedShort
  <2>4. \A n \in OnLine(p), o \in In(t) : Pair(n, o, Asked(p)', Kept(p)')
    BY <1>4, <2>2 DEF Pair
  <2>5. \A n \in OnLine(p) : Counts(n, Asked(p)', Kept(p)') => Counts(n, Asked(p), Kept(p))
    BY <2>1
  <2>6. /\ LineOK(p)' /\ OnLine(p)' = OnLine(p) \cup In(t)
        /\ In(up'[p]) = In(up[p]) \cup In(t)
    BY <1>5, <1>6, <2>3, <2>4, <2>5, UpGrows DEF PersonOK
  <2>7. NumbersOK(p)'
    <3>1. \A n \in OnLine(p)' : n \in OnLine(p) \/ n = m
      BY <2>2, <2>6
    <3>2. m.call = hold[p].call /\ m.call <= calls
      BY <1>1, <1>2 DEF PersonOK, NumbersOK
    <3>3. \A n \in OnLine(p)' : Asks(n) => n.call <= calls'
      BY <1>5, <3>1, <3>2 DEF PersonOK, NumbersOK
    <3>4. /\ \A c \in asking'[p] : c <= calls'
          /\ hold'[p] # None => hold'[p].call <= calls'
          /\ held'[p] # None => hold'[p] # None /\ hold'[p].call = held'[p]
      BY <1>1, <1>5 DEF PersonOK, NumbersOK
    <3>5. \A n \in OnLine(p)' : New(n) => n \in OnLine(p)
      BY <1>4, <3>1
    <3>6. \A n \in OnLine(p)' : New(n) => n.call # Kept(p)'
      BY <2>1, <3>5 DEF PersonOK, NumbersOK
    <3>7. \A n, o \in OnLine(p)' : New(n) /\ Again(o) => n.call # o.call
      BY <1>4, <3>1, <3>5 DEF PersonOK, NumbersOK
    <3>8. \A n \in OnLine(p)', c \in asking'[p] : New(n) /\ n.call \notin asking'[p] => n.call < c
      BY <1>5, <3>5 DEF PersonOK, NumbersOK
    <3>9. \A n \in OnLine(p)' : held'[p] # None /\ New(n) => n.call \in asking'[p]
      BY <1>5, <3>5 DEF PersonOK, NumbersOK
    <3>10. QED
      BY <3>3, <3>4, <3>6, <3>7, <3>8, <3>9 DEF NumbersOK
  <2>8. GrantOK(p)'
    BY <1>4, <1>5, <2>1, <2>2, <2>6 DEF PersonOK, GrantOK
  <2>9. HearOK(p)'
    BY <1>5 DEF PersonOK, HearOK
  <2>10. QED
    BY <2>6, <2>7, <2>8, <2>9 DEF PersonOK
<1>11. QED
  BY <1>9, <1>10

LEMMA AcquireStep ==
    ASSUME IInv, TypeOK', NEW p \in Person, Acquire(p)
    PROVE  \A q \in Person : PersonOK(q)'
<1> TypeOK /\ LinksOK /\ \A q \in Person : PersonOK(q)
  BY DEF IInv
<1>1. calls' \in Call /\ calls' \in Nat /\ calls' = calls + 1 /\ calls \in Nat
  BY SyncLeasesAssumption DEF Acquire, TypeOK, Call
<1>2. PICK m \in Requests : m = [op |-> "acquire", call |-> calls', renews |-> FALSE]
  BY <1>1, RequestLemma
<1>3. <<m>> \in Seq(Requests) /\ Sent(p, <<m>>) /\ In(<<m>>) = {m}
  <2>1. <<m>> \in Seq(Requests) /\ Sent(p, <<m>>)
    BY <1>2 DEF Acquire
  <2>2. QED
    BY <2>1, InOne
<1>4. New(m) /\ ~Again(m) /\ ~Frees(m) /\ m.call = calls'
  <2>1. m.op = "acquire" /\ m.renews = FALSE /\ m.call = calls'
    BY <1>2
  <2>2. New(m) /\ ~Again(m)
    BY <2>1, Zenon DEF Again, New, Asks
  <2>3. QED
    BY <2>1, <2>2 DEF Frees
<1>5. /\ live' = live /\ lease' = lease /\ down' = down /\ link' = link
      /\ session' = session /\ list' = list /\ shown' = shown /\ hold' = hold
      /\ held' = held /\ crossed' = crossed
      /\ asking'[p] = asking[p] \cup {calls'}
      /\ \A q \in Person : q # p => asking'[q] = asking[q]
  BY DEF Acquire, client, TypeOK
<1>6. PICK t \in Seq(Requests) : up'[p] = up[p] \o t /\ (t = <<m>> \/ t = <<>>)
  BY <1>3, SentTail
<1>7. \A q \in Person : q # p => up'[q] = up[q]
  BY <1>3, SentLemma
<1>8. calls <= calls'
  BY <1>1
<1>9. ASSUME NEW q \in Person, q # p
      PROVE  PersonOK(q)'
  <2>1. Untouched(q)
    BY <1>5, <1>9 DEF Untouched
  <2>2. QED
    BY <1>5, <1>7, <1>8, <1>9, <2>1, StaysAlone
<1>10. PersonOK(p)'
  <2>1. Asked(p)' \subseteq Asked(p) \cup {calls'} /\ Kept(p)' = Kept(p)
    BY <1>5 DEF Asked, Kept
  <2>2. \A n \in In(t) : n = m
    BY <1>3, <1>6, InNone
  <2>3. Ordered(t, Asked(p)', Kept(p)')
    BY <1>6, OrderedShort
  <2>4. \A n \in OnLine(p) : Asks(n) => n.call \in Nat /\ n.call <= calls /\ n.call < calls'
    <3>1. \A n \in OnLine(p) : Asks(n) => n.call \in Nat /\ n.call <= calls
      BY OnLineLemma DEF PersonOK, NumbersOK
    <3>2. QED
      BY <1>1, <3>1
  <2>5. \A n \in OnLine(p), o \in In(t) : Pair(n, o, Asked(p)', Kept(p)')
    BY <1>4, <2>2, <2>4, OnLineLemma DEF Pair
  <2>6. \A n \in OnLine(p) : Counts(n, Asked(p)', Kept(p)') => Counts(n, Asked(p), Kept(p))
    BY <1>1, <2>1, <2>4, OnLineLemma DEF Counts
  <2>7. /\ LineOK(p)' /\ OnLine(p)' = OnLine(p) \cup In(t)
        /\ In(up'[p]) = In(up[p]) \cup In(t)
    BY <1>5, <1>6, <2>3, <2>5, <2>6, UpGrows DEF PersonOK
  <2>8. NumbersOK(p)'
    <3>1. \A n \in OnLine(p)' : n \in OnLine(p) \/ n = m
      BY <2>2, <2>7
    <3>2. /\ hold[p] # None => hold[p].call \in Nat /\ hold[p].call <= calls
          /\ asking[p] \subseteq Nat /\ \A c \in asking[p] : c <= calls
      BY OnLineLemma DEF PersonOK, NumbersOK
    <3>3. \A n \in OnLine(p)' : Asks(n) => n.call <= calls'
      BY <1>1, <1>4, <2>4, <3>1
    <3>4. /\ \A c \in asking'[p] : c <= calls'
          /\ hold'[p] # None => hold'[p].call <= calls'
      BY <1>1, <1>5, <3>2
    <3>5. held'[p] # None => hold'[p] # None /\ hold'[p].call = held'[p]
      BY <1>5 DEF PersonOK, NumbersOK
    <3>6. \A n \in OnLine(p)' : New(n) => n.call # Kept(p)'
      <4>1. calls' # Kept(p)
        BY <1>1, <3>2, SyncLeasesAssumption DEF Kept
      <4>2. QED
        BY <1>4, <2>1, <3>1, <4>1 DEF PersonOK, NumbersOK
    <3>7. \A n, o \in OnLine(p)' : New(n) /\ Again(o) => n.call # o.call
      <4>1. \A o \in OnLine(p)' : Again(o) => o \in OnLine(p) /\ o.call # m.call
        BY <1>1, <1>4, <2>4, <3>1, OnLineLemma
      <4>2. QED
        BY <3>1, <4>1 DEF PersonOK, NumbersOK
    <3>8. ASSUME NEW n \in OnLine(p)', NEW c \in asking'[p], New(n), n.call \notin asking'[p]
          PROVE  n.call < c
      <4>1. n \in OnLine(p) /\ n.call \notin asking[p]
        BY <1>4, <1>5, <3>1, <3>8
      <4>2. CASE c \in asking[p]
        BY <3>8, <4>1, <4>2 DEF PersonOK, NumbersOK
      <4>3. CASE c = calls'
        BY <2>4, <3>8, <4>1, <4>3, OnLineLemma
      <4>4. QED
        BY <1>5, <4>2, <4>3
    <3>9. \A n \in OnLine(p)' : held'[p] # None /\ New(n) => n.call \in asking'[p]
      BY <1>4, <1>5, <3>1 DEF PersonOK, NumbersOK
    <3>10. QED
      BY <3>3, <3>4, <3>5, <3>6, <3>7, <3>8, <3>9 DEF NumbersOK
  <2>9. GrantOK(p)'
    <3>1. SUFFICES ASSUME link[p] \in live
                   PROVE  /\ held[p] # None /\ ~crossed[p]
                             => lease = link[p] /\ \A n \in In(up'[p]) : ~Frees(n)
                          /\ \A n \in In(down[p]) :
                                n.op = "granted" /\ Counts(n, Asked(p)', Kept(p)') => lease = link[p]
      BY <1>5 DEF GrantOK
    <3>2. \A n \in In(down[p]) :
             n.op = "granted" /\ Counts(n, Asked(p)', Kept(p)') => lease = link[p]
      BY <2>6, <3>1 DEF PersonOK, GrantOK, OnLine
    <3>3. held[p] # None /\ ~crossed[p] => lease = link[p] /\ \A n \in In(up'[p]) : ~Frees(n)
      BY <1>4, <2>2, <2>7, <3>1 DEF PersonOK, GrantOK
    <3>4. QED
      BY <3>2, <3>3
  <2>10. HearOK(p)'
    BY <1>5 DEF PersonOK, HearOK
  <2>11. QED
    BY <2>7, <2>8, <2>9, <2>10 DEF PersonOK
<1>11. QED
  BY <1>9, <1>10

-----------------------------------------------------------------------------
(* What is heard.                                                          *)

\* Nothing else changes on a connection that is read, nor at the server.
LEMMA ReceiveLemma ==
    ASSUME IInv, NEW p \in Person, NEW ops, Receive(p, ops), UNCHANGED <<link, live, lease, up, calls>>
    PROVE  /\ down[p] # <<>> /\ Message(p).op \in ops
           /\ down'[p] = Tail(down[p]) /\ up'[p] = up[p]
           /\ calls <= calls'
           /\ \A q \in Person : q # p => /\ down'[q] = down[q] /\ up'[q] = up[q]
                                        /\ link'[q] = link[q]
BY DEF IInv, TypeOK, Receive

LEMMA ChangedStep ==
    ASSUME IInv, TypeOK', NEW p \in Person, Changed(p)
    PROVE  \A q \in Person : PersonOK(q)'
<1> TypeOK /\ LinksOK /\ \A q \in Person : PersonOK(q)
  BY DEF IInv
<1>1. /\ link' = link /\ live' = live /\ lease' = lease /\ calls' = calls /\ up' = up
      /\ session' = session /\ hold' = hold /\ asking' = asking /\ held' = held /\ crossed' = crossed
      /\ Receive(p, {"changed"})
  BY DEF Changed, document
<1>2. /\ down[p] # <<>> /\ Message(p).op = "changed"
      /\ down'[p] = Tail(down[p]) /\ up'[p] = up[p] /\ calls <= calls'
      /\ \A q \in Person : q # p => down'[q] = down[q] /\ up'[q] = up[q]
  BY <1>1, ReceiveLemma
<1>3. /\ Message(p) \in Answers
      /\ In(down'[p]) \subseteq In(down[p]) /\ OnLine(p)' \subseteq OnLine(p)
  BY <1>2, DownShrinks DEF PersonOK
<1>4. Message(p).lease \in Lease /\ session[p] \in Lease /\ Heard(p, Message(p).lease, session[p])
  BY <1>2, <1>3, AnswerLemma DEF Changed, TypeOK
<1>5. /\ list'[p] = Message(p).lease
      /\ \A q \in Person \ {p} : list'[q] = list[q] /\ shown'[q] = shown[q]
      /\ \/ shown'[p] = Shown(Message(p).lease, session[p])
         \/ Message(p).lease = None /\ list[p] = None /\ shown'[p] = shown[p]
  BY <1>4, HeardLemma
<1>6. ASSUME NEW q \in Person, q # p
      PROVE  PersonOK(q)'
  <2>1. Untouched(q)
    BY <1>1, <1>5, <1>6 DEF Untouched
  <2>2. QED
    BY <1>1, <1>2, <1>6, <2>1, StaysAlone
<1>7. PersonOK(p)'
  <2>1. Asked(p)' = Asked(p) /\ Kept(p)' = Kept(p)
    BY <1>1 DEF Asked, Kept
  <2>2. LineOK(p)'
    BY <1>2, <2>1, DownShrinks DEF PersonOK
  <2>3. NumbersOK(p)'
    BY <1>1, <1>3, <2>1 DEF PersonOK, NumbersOK
  <2>4. GrantOK(p)'
    BY <1>1, <1>3, <2>1 DEF PersonOK, GrantOK
  <2>5. HearOK(p)'
    <3>1. shown'[p] = Shown(list'[p], session'[p])
      BY <1>1, <1>5 DEF PersonOK, HearOK
    <3>2. QED
      BY <1>1, <1>3, <3>1 DEF PersonOK, HearOK
  <2>6. QED
    BY <2>2, <2>3, <2>4, <2>5 DEF PersonOK
<1>8. QED
  BY <1>6, <1>7

LEMMA RefusedStep ==
    ASSUME IInv, TypeOK', NEW p \in Person, Refused(p)
    PROVE  \A q \in Person : PersonOK(q)'
<1> TypeOK /\ LinksOK /\ \A q \in Person : PersonOK(q)
  BY DEF IInv
<1> DEFINE m == Message(p)
<1>1. /\ link' = link /\ live' = live /\ lease' = lease /\ calls' = calls /\ up' = up
      /\ session' = session /\ list' = list /\ shown' = shown /\ hold' = hold /\ held' = held
      /\ crossed' = crossed
      /\ asking'[p] = asking[p] \ {m.call}
      /\ \A q \in Person : q # p => asking'[q] = asking[q]
      /\ Receive(p, {"refused"}) /\ ~m.renews
  BY DEF Refused, client, TypeOK
<1>2. /\ down[p] # <<>> /\ m.op = "refused"
      /\ down'[p] = Tail(down[p]) /\ up'[p] = up[p] /\ calls <= calls'
      /\ \A q \in Person : q # p => down'[q] = down[q] /\ up'[q] = up[q]
  BY <1>1, ReceiveLemma
<1>3. /\ m \in Answers /\ m \in OnLine(p)
      /\ In(down'[p]) \subseteq In(down[p]) /\ OnLine(p)' \subseteq OnLine(p)
      /\ \A n \in OnLine(p)' : Pair(m, n, Asked(p), Kept(p))
  BY <1>2, DownShrinks DEF PersonOK
<1>4. New(m)
  BY <1>1, <1>2 DEF New, Asks
<1> HIDE DEF m
<1>5. ASSUME NEW q \in Person, q # p
      PROVE  PersonOK(q)'
  <2>1. Untouched(q)
    BY <1>1, <1>5 DEF Untouched
  <2>2. QED
    BY <1>1, <1>2, <1>5, <2>1, StaysAlone
<1>6. PersonOK(p)'
  <2>1. Asked(p)' \subseteq Asked(p) /\ Kept(p)' = Kept(p)
    BY <1>1 DEF Asked, Kept
  <2>2. LineOK(p)'
    <3>1. \A n \in OnLine(p)' : Counts(n, Asked(p)', Kept(p)') => Counts(n, Asked(p), Kept(p))
      BY <2>1 DEF Counts
    <3>2. QED
      BY <1>2, <3>1, DownShrinks DEF PersonOK
  <2>3. NumbersOK(p)'
    <3>1. \A n \in OnLine(p)' : New(n) => n.call # m.call
      BY <1>3, <1>4, OnLineLemma DEF Pair
    <3>2. QED
      BY <1>1, <1>3, <2>1, <3>1 DEF PersonOK, NumbersOK
  <2>4. GrantOK(p)'
    BY <1>1, <1>3, <2>1 DEF PersonOK, GrantOK, Counts
  <2>5. HearOK(p)'
    BY <1>1, <1>3 DEF PersonOK, HearOK
  <2>6. QED
    BY <2>2, <2>3, <2>4, <2>5 DEF PersonOK
<1>7. QED
  BY <1>5, <1>6

LEMMA LostStep ==
    ASSUME IInv, TypeOK', NEW p \in Person, Lost(p)
    PROVE  \A q \in Person : PersonOK(q)'
<1> TypeOK /\ LinksOK /\ \A q \in Person : PersonOK(q)
  BY DEF IInv
<1> DEFINE m == Message(p)
<1>1. /\ link' = link /\ live' = live /\ lease' = lease /\ calls' = calls /\ up' = up
      /\ session' = session /\ list' = list /\ shown' = shown
      /\ crossed' = crossed /\ asking' = asking
      /\ Receive(p, {"refused"})
  BY DEF Lost
<1>2. /\ \A q \in Person : q # p => hold'[q] = hold[q] /\ held'[q] = held[q]
      /\ \/ hold'[p] = hold[p] /\ held'[p] = held[p]
         \/ hold'[p] = None /\ held'[p] = None
  <2>1. CASE Active(p, m.call)
    <3>1. /\ hold'[p] = None
          /\ held'[p] = IF hold[p] # None /\ held[p] = hold[p].call THEN None ELSE held[p]
          /\ \A q \in Person : q # p => hold'[q] = hold[q] /\ held'[q] = held[q]
      BY <2>1 DEF Lost, Lose, TypeOK
    <3>2. QED
      BY <3>1 DEF PersonOK, NumbersOK
  <2>2. CASE ~Active(p, m.call)
    BY <2>2 DEF Lost
  <2>3. QED
    BY <2>1, <2>2
<1>3. /\ down[p] # <<>>
      /\ down'[p] = Tail(down[p]) /\ up'[p] = up[p] /\ calls <= calls'
      /\ \A q \in Person : q # p => down'[q] = down[q] /\ up'[q] = up[q]
  BY <1>1, ReceiveLemma
<1>4. In(down'[p]) \subseteq In(down[p]) /\ OnLine(p)' \subseteq OnLine(p)
  BY <1>3, DownShrinks DEF PersonOK
<1>5. ASSUME NEW q \in Person, q # p
      PROVE  PersonOK(q)'
  <2>1. Untouched(q)
    BY <1>1, <1>2, <1>5 DEF Untouched
  <2>2. QED
    BY <1>1, <1>3, <1>5, <2>1, StaysAlone
<1>6. PersonOK(p)'
  <2>1. Asked(p)' = Asked(p) /\ Kept(p)' \in {Kept(p), None}
    BY <1>1, <1>2 DEF Asked, Kept
  <2>2. \A n \in OnLine(p) : Counts(n, Asked(p)', Kept(p)') => Counts(n, Asked(p), Kept(p))
    BY <2>1, OnLineLemma, NoneLemma DEF Counts
  <2>3. LineOK(p)'
    BY <1>3, <1>4, <2>2, DownShrinks DEF PersonOK
  <2>4. NumbersOK(p)'
    <3>1. \A n \in OnLine(p)' : New(n) => n.call # Kept(p)'
      BY <1>4, <2>1, OnLineLemma, NoneLemma DEF PersonOK, NumbersOK
    <3>2. QED
      BY <1>1, <1>2, <1>4, <3>1 DEF PersonOK, NumbersOK
  <2>5. GrantOK(p)'
    BY <1>1, <1>2, <1>3, <1>4, <2>2 DEF PersonOK, GrantOK, OnLine
  <2>6. HearOK(p)'
    BY <1>1, <1>2, <1>4 DEF PersonOK, HearOK
  <2>7. QED
    BY <2>3, <2>4, <2>5, <2>6 DEF PersonOK
<1>7. QED
  BY <1>5, <1>6

LEMMA LearnLemma ==
    ASSUME TypeOK, NEW p \in Person, PersonOK(p), Learn(p)
    PROVE  /\ session'[p] = Message(p).session
           /\ list' = list /\ shown'[p] = Shown(list[p], Message(p).session)
           /\ \A q \in Person : q # p => session'[q] = session[q] /\ shown'[q] = shown[q]
<1>1. /\ session'[p] = Message(p).session /\ list' = list
      /\ \A q \in Person : q # p => session'[q] = session[q] /\ shown'[q] = shown[q]
  BY DEF Learn, TypeOK
<1>2. CASE session[p] # Message(p).session /\ list[p] # None
  BY <1>1, <1>2 DEF Learn, TypeOK
<1>3. CASE session[p] = Message(p).session \/ list[p] = None
  <2>1. shown' = shown
    BY <1>3 DEF Learn
  <2>2. Shown(list[p], session[p]) = Shown(list[p], Message(p).session)
    <3>1. CASE session[p] = Message(p).session
      BY <3>1
    <3>2. CASE list[p] = None
      BY <3>2, ShownNone
    <3>3. QED
      BY <1>3, <3>1, <3>2
  <2>3. QED
    BY <1>1, <2>1, <2>2 DEF PersonOK, HearOK
<1>4. QED
  BY <1>2, <1>3

LEMMA GrantedStep ==
    ASSUME IInv, TypeOK', NEW p \in Person, Granted(p)
    PROVE  \A q \in Person : PersonOK(q)'
<1> TypeOK /\ LinksOK /\ \A q \in Person : PersonOK(q)
  BY DEF IInv
<1> DEFINE m == Message(p)
<1>1. /\ link' = link /\ live' = live /\ lease' = lease /\ calls' = calls /\ up' = up
      /\ crossed' = crossed
      /\ Receive(p, {"granted"}) /\ ~m.renews /\ Learn(p)
  BY DEF Granted
<1>2. /\ down[p] # <<>> /\ m.op = "granted"
      /\ down'[p] = Tail(down[p]) /\ up'[p] = up[p] /\ calls <= calls'
      /\ \A q \in Person : q # p => down'[q] = down[q] /\ up'[q] = up[q]
  BY <1>1, ReceiveLemma
<1>3. /\ m \in Answers /\ m \in OnLine(p) /\ m \in In(down[p])
      /\ In(down'[p]) \subseteq In(down[p]) /\ OnLine(p)' \subseteq OnLine(p)
      /\ \A n \in OnLine(p)' : Pair(m, n, Asked(p), Kept(p))
  BY <1>2, DownShrinks DEF PersonOK
<1>4. New(m) /\ Asks(m) /\ m.call \in Call /\ m.call \in Nat
  BY <1>1, <1>2, <1>3, OnLineLemma DEF New, Asks
<1>5. /\ session'[p] = m.session /\ list' = list /\ shown'[p] = Shown(list[p], m.session)
      /\ \A q \in Person : q # p => session'[q] = session[q] /\ shown'[q] = shown[q]
  BY <1>1, LearnLemma
<1>6. /\ hold'[p] # None /\ hold'[p].call = m.call
      /\ held'[p] = IF m.call \in asking[p] THEN m.call ELSE held[p]
      /\ asking'[p] = asking[p] \ {m.call}
      /\ \A q \in Person : q # p => /\ hold'[q] = hold[q] /\ held'[q] = held[q]
                                   /\ asking'[q] = asking[q]
  <2>1. hold'[p] = [call |-> m.call, renewing |-> FALSE]
    BY DEF Granted, TypeOK
  <2>2. hold'[p] \in Hold /\ hold'[p].call = m.call
    BY <1>4, <2>1
  <2>3. hold'[p] # None
    BY <2>2, SyncLeasesAssumption
  <2>4. QED
    BY <2>2, <2>3 DEF Granted, TypeOK
<1> HIDE DEF m
<1>7. m.session = link[p]
  BY <1>2, <1>3 DEF PersonOK, HearOK
<1>8. ASSUME NEW q \in Person, q # p
      PROVE  PersonOK(q)'
  <2>1. Untouched(q)
    BY <1>1, <1>5, <1>6, <1>8 DEF Untouched
  <2>2. QED
    BY <1>1, <1>2, <1>8, <2>1, StaysAlone
<1>9. PersonOK(p)'
  <2>1. /\ Asked(p)' \subseteq Asked(p) /\ Kept(p)' = m.call
        /\ crossed[p] \/ Asked(p) = asking[p]
    BY <1>1, <1>6 DEF Asked, Kept
  <2>2. \A n \in OnLine(p)' : New(n) => n.call # m.call /\ m.call < n.call
    BY <1>3, <1>4, OnLineLemma DEF Pair
  <2>3. \A n \in OnLine(p)' : Counts(n, Asked(p)', Kept(p)') => Counts(n, Asked(p), Kept(p))
    <3>1. \A n \in OnLine(p)' : Again(n) => n.call # m.call
      BY <1>3, <1>4 DEF PersonOK, NumbersOK
    <3>2. QED
      BY <2>1, <3>1 DEF Counts
  <2>4. LineOK(p)'
    BY <1>2, <2>3, DownShrinks DEF PersonOK
  <2>5. held'[p] # None => m.call \in asking[p] /\ held'[p] = m.call
    BY <1>3, <1>4, <1>6 DEF PersonOK, NumbersOK
  <2>6. NumbersOK(p)'
    <3>1. \A n \in OnLine(p)' : Asks(n) => n.call <= calls'
      BY <1>1, <1>3 DEF PersonOK, NumbersOK
    <3>2. /\ \A c \in asking'[p] : c <= calls'
          /\ hold'[p] # None => hold'[p].call <= calls'
      BY <1>1, <1>3, <1>4, <1>6 DEF PersonOK, NumbersOK
    <3>3. \A n \in OnLine(p)' : New(n) => n.call # Kept(p)'
      BY <2>1, <2>2
    <3>4. \A n, o \in OnLine(p)' : New(n) /\ Again(o) => n.call # o.call
      BY <1>3 DEF PersonOK, NumbersOK
    <3>5. \A n \in OnLine(p)', c \in asking'[p] : New(n) /\ n.call \notin asking'[p] => n.call < c
      BY <1>3, <1>6, <2>2 DEF PersonOK, NumbersOK
    <3>6. ASSUME NEW n \in OnLine(p)', held'[p] # None, New(n)
          PROVE  n.call \in asking'[p]
      <4>1. n \in OnLine(p) /\ n.call # m.call /\ m.call < n.call /\ n.call \in Nat
        BY <1>3, <2>2, <3>6, OnLineLemma
      <4>2. n.call \in asking[p]
        <5>1. SUFFICES ASSUME n.call \notin asking[p]
                       PROVE  FALSE
          OBVIOUS
        <5>2. n.call < m.call
          BY <2>5, <3>6, <4>1, <5>1 DEF PersonOK, NumbersOK
        <5>3. QED
          BY <1>4, <4>1, <5>2
      <4>3. QED
        BY <1>6, <4>1, <4>2
    <3>7. held'[p] # None => hold'[p] # None /\ hold'[p].call = held'[p]
      BY <1>6, <2>5
    <3>8. QED
      BY <3>1, <3>2, <3>3, <3>4, <3>5, <3>6, <3>7 DEF NumbersOK
  <2>7. GrantOK(p)'
    <3>1. SUFFICES ASSUME link[p] \in live
                   PROVE  /\ held'[p] # None /\ ~crossed[p]
                             => lease = link[p] /\ \A n \in In(up'[p]) : ~Frees(n)
                          /\ \A n \in In(down'[p]) :
                                n.op = "granted" /\ Counts(n, Asked(p)', Kept(p)') => lease = link[p]
      BY <1>1 DEF GrantOK
    <3>2. \A n \in In(down'[p]) :
             n.op = "granted" /\ Counts(n, Asked(p)', Kept(p)') => lease = link[p]
      BY <1>3, <2>3, <3>1 DEF PersonOK, GrantOK, OnLine
    <3>3. ASSUME held'[p] # None, ~crossed[p]
          PROVE  lease = link[p] /\ \A n \in In(up'[p]) : ~Frees(n)
      <4>1. Counts(m, Asked(p), Kept(p))
        BY <1>4, <2>1, <2>5, <3>3 DEF Counts
      <4>2. lease = link[p]
        BY <1>2, <1>3, <3>1, <4>1 DEF PersonOK, GrantOK
      <4>3. \A n \in In(up'[p]) : ~Frees(n)
        BY <1>3, <4>1 DEF Pair, OnLine
      <4>4. QED
        BY <4>2, <4>3
    <3>4. QED
      BY <3>2, <3>3
  <2>8. HearOK(p)'
    BY <1>1, <1>3, <1>5, <1>7 DEF PersonOK, HearOK
  <2>9. QED
    BY <2>4, <2>6, <2>7, <2>8 DEF PersonOK
<1>10. QED
  BY <1>8, <1>9

LEMMA RenewedStep ==
    ASSUME IInv, TypeOK', NEW p \in Person, Renewed(p)
    PROVE  \A q \in Person : PersonOK(q)'
<1> TypeOK /\ LinksOK /\ \A q \in Person : PersonOK(q)
  BY DEF IInv
<1> DEFINE m == Message(p)
<1>1. /\ link' = link /\ live' = live /\ lease' = lease /\ calls' = calls /\ up' = up
      /\ asking' = asking /\ held' = held
      /\ Receive(p, {"granted"}) /\ m.renews /\ Learn(p)
  BY DEF Renewed
<1>2. /\ down[p] # <<>> /\ m.op = "granted"
      /\ down'[p] = Tail(down[p]) /\ up'[p] = up[p] /\ calls <= calls'
      /\ \A q \in Person : q # p => down'[q] = down[q] /\ up'[q] = up[q]
  BY <1>1, ReceiveLemma
<1>3. /\ m \in Answers /\ m \in OnLine(p) /\ m \in In(down[p])
      /\ In(down'[p]) \subseteq In(down[p]) /\ OnLine(p)' \subseteq OnLine(p)
      /\ \A n \in OnLine(p)' : Pair(m, n, Asked(p), Kept(p))
  BY <1>2, DownShrinks DEF PersonOK
<1>4. Again(m)
  BY <1>1, <1>2 DEF Again, Asks
<1>5. /\ session'[p] = m.session /\ list' = list /\ shown'[p] = Shown(list[p], m.session)
      /\ \A q \in Person : q # p => session'[q] = session[q] /\ shown'[q] = shown[q]
  BY <1>1, LearnLemma
<1>6. \A q \in Person : q # p => hold'[q] = hold[q] /\ crossed'[q] = crossed[q]
  BY DEF Renewed, TypeOK
<1>7. (hold'[p] # None <=> hold[p] # None) /\ (hold[p] # None => hold'[p].call = hold[p].call)
  <2>1. CASE Active(p, m.call)
    <3>1. hold'[p] = [hold[p] EXCEPT !.renewing = FALSE] /\ hold[p] # None
      BY <2>1 DEF Renewed, Active, TypeOK
    <3>2. hold[p] \in Hold
      BY <3>1 DEF TypeOK
    <3>3. hold'[p] \in Hold /\ hold'[p].call = hold[p].call
      BY <3>1, <3>2
    <3>4. QED
      BY <3>1, <3>3, SyncLeasesAssumption
  <2>2. CASE ~Active(p, m.call)
    BY <2>2 DEF Renewed
  <2>3. QED
    BY <2>1, <2>2
<1>8. /\ Active(p, m.call) => ~crossed'[p] /\ Kept(p) = m.call
      /\ ~Active(p, m.call) => crossed'[p] = crossed[p]
  <2>1. crossed'[p] = (crossed[p] /\ ~Active(p, m.call))
    BY Zenon DEF Renewed, TypeOK
  <2>2. crossed[p] \in BOOLEAN
    BY DEF TypeOK
  <2>3. QED
    BY <2>1, <2>2 DEF Active, Kept
<1> HIDE DEF m
<1>9. m.session = link[p]
  BY <1>2, <1>3 DEF PersonOK, HearOK
<1>10. ASSUME NEW q \in Person, q # p
       PROVE  PersonOK(q)'
  <2>1. Untouched(q)
    BY <1>1, <1>5, <1>6, <1>10 DEF Untouched
  <2>2. QED
    BY <1>1, <1>2, <1>10, <2>1, StaysAlone
<1>11. PersonOK(p)'
  <2>1. Kept(p)' = Kept(p)
    BY <1>7 DEF Kept
  <2>2. NumbersOK(p)'
    <3>1. /\ \A n \in OnLine(p)' : Asks(n) => n.call <= calls'
          /\ \A c \in asking'[p] : c <= calls'
      BY <1>1, <1>3 DEF PersonOK, NumbersOK
    <3>2. /\ hold'[p] # None => hold'[p].call <= calls'
          /\ held'[p] # None => hold'[p] # None /\ hold'[p].call = held'[p]
      BY <1>1, <1>7 DEF PersonOK, NumbersOK
    <3>3. \A n \in OnLine(p)' : New(n) => n.call # Kept(p)'
      BY <1>3, <2>1 DEF PersonOK, NumbersOK
    <3>4. /\ \A n, o \in OnLine(p)' : New(n) /\ Again(o) => n.call # o.call
          /\ \A n \in OnLine(p)', c \in asking'[p] : New(n) /\ n.call \notin asking'[p] => n.call < c
          /\ \A n \in OnLine(p)' : held'[p] # None /\ New(n) => n.call \in asking'[p]
      BY <1>1, <1>3 DEF PersonOK, NumbersOK
    <3>5. QED
      BY <3>1, <3>2, <3>3, <3>4 DEF NumbersOK
  <2>3. HearOK(p)'
    BY <1>1, <1>3, <1>5, <1>9 DEF PersonOK, HearOK
  <2>4. CASE Active(p, m.call)
    <3>1. Counts(m, Asked(p), Kept(p))
      BY <1>4, <1>8, <2>4 DEF Counts
    <3>2. \A n \in OnLine(p)' : ~Frees(n)
      BY <1>3, <3>1 DEF Pair
    <3>3. LineOK(p)'
      BY <1>2, <3>2, DownShrinks DEF PersonOK
    <3>4. link[p] \in live => lease = link[p]
      BY <1>2, <1>3, <3>1 DEF PersonOK, GrantOK
    <3>5. GrantOK(p)'
      BY <1>1, <3>2, <3>4 DEF GrantOK, OnLine
    <3>6. QED
      BY <2>2, <2>3, <3>3, <3>5 DEF PersonOK
  <2>5. CASE ~Active(p, m.call)
    <3>1. Asked(p)' = Asked(p)
      BY <1>1, <1>8, <2>5 DEF Asked
    <3>2. LineOK(p)'
      BY <1>2, <2>1, <3>1, DownShrinks DEF PersonOK
    <3>3. GrantOK(p)'
      BY <1>1, <1>2, <1>3, <1>8, <2>1, <2>5, <3>1 DEF PersonOK, GrantOK
    <3>4. QED
      BY <2>2, <2>3, <3>2, <3>3 DEF PersonOK
  <2>6. QED
    BY <2>4, <2>5
<1>12. QED
  BY <1>10, <1>11

-----------------------------------------------------------------------------
(* The server.                                                             *)

LEMMA EndSessionStep ==
    ASSUME IInv, TypeOK', NEW s \in Session, EndSession(s)
    PROVE  \A q \in Person : PersonOK(q)'
<1> TypeOK /\ LinksOK /\ \A q \in Person : PersonOK(q)
  BY DEF IInv
<1>1. /\ Freed(s) \in Lease /\ <<>> \in Seq(Answers) /\ Grant(Freed(s), members \ {s}, None, <<>>)
      /\ live' = live \ {s} /\ calls' = calls /\ calls <= calls' /\ calls' \in Nat
      /\ \A q \in Person : Untouched(q) /\ up'[q] \in {<<>>, up[q]}
  BY DEF TypeOK, Lease, Freed, EndSession, Untouched, client, document
<1>2. ASSUME NEW q \in Person
      PROVE  PersonOK(q)'
  <2>1. lease' = Freed(s) /\ down[q] \in Seq(Answers)
    BY <1>1 DEF TypeOK, Grant
  <2>2. PICK t \in Seq(Answers) : Quiet(t) /\ down'[q] = down[q] \o t
    <3> DEFINE t == Told(q, Freed(s), members \ {s})
    <3>1. down'[q] = (down[q] \o t) \o (IF q = None THEN <<>> ELSE <<>>)
      BY <1>1 DEF Grant, Told
    <3>2. t \in Seq(Answers) /\ Quiet(t)
      BY <1>1, ToldLemma
    <3> HIDE DEF t
    <3>3. (down[q] \o t) \o <<>> = down[q] \o t
      BY <2>1, <3>2, ConcatNothing
    <3>4. QED
      BY <3>1, <3>2, <3>3
  <2>3. Ordered(up'[q], Asked(q), Kept(q)) /\ \A m \in In(up'[q]) : m \in In(up[q])
    BY <1>1, InNone, OrderedShort DEF PersonOK, LineOK
  <2>4. /\ link[q] \in live' => link[q] \in live
        /\ link[q] \in live' => (lease' = lease \/ lease # link[q])
    BY <1>1, <2>1 DEF Freed
  <2>5. LineOK(q)' /\ NumbersOK(q)' /\ HearOK(q)'
    BY <1>1, <2>2, <2>3, Stays
  <2>6. GrantOK(q)'
    BY <1>1, <2>2, <2>3, <2>4, Stays
  <2>7. QED
    BY <2>5, <2>6 DEF PersonOK
<1>3. QED
  BY <1>2

LEMMA ExpireStep ==
    ASSUME IInv, TypeOK', Expire
    PROVE  \A q \in Person : PersonOK(q)'
<1> TypeOK /\ LinksOK /\ \A q \in Person : PersonOK(q)
  BY DEF IInv
<1>1. /\ None \in Lease /\ <<>> \in Seq(Answers) /\ Grant(None, members, None, <<>>)
      /\ live' = live /\ calls' = calls /\ calls <= calls' /\ calls' \in Nat
      /\ \A q \in Person : Untouched(q) /\ up'[q] = up[q]
  BY DEF TypeOK, Lease, Expire, Untouched, client, document
<1>2. ASSUME NEW q \in Person
      PROVE  PersonOK(q)'
  <2>1. lease' = None /\ down[q] \in Seq(Answers)
    BY <1>1 DEF TypeOK, Grant
  <2>2. PICK t \in Seq(Answers) : Quiet(t) /\ down'[q] = down[q] \o t
    <3> DEFINE t == Told(q, None, members)
    <3>1. down'[q] = (down[q] \o t) \o (IF q = None THEN <<>> ELSE <<>>)
      BY <1>1 DEF Grant, Told
    <3>2. t \in Seq(Answers) /\ Quiet(t)
      BY <1>1, ToldLemma
    <3> HIDE DEF t
    <3>3. (down[q] \o t) \o <<>> = down[q] \o t
      BY <2>1, <3>2, ConcatNothing
    <3>4. QED
      BY <3>1, <3>2, <3>3
  <2>3. Ordered(up'[q], Asked(q), Kept(q)) /\ \A m \in In(up'[q]) : m \in In(up[q])
    BY <1>1 DEF PersonOK, LineOK
  <2>4. LineOK(q)' /\ NumbersOK(q)' /\ HearOK(q)'
    BY <1>1, <2>2, <2>3, Stays
  <2>5. GrantOK(q)'
    <3>1. CASE lease # link[q]
      <4>1. /\ link[q] \in live' => link[q] \in live
            /\ link[q] \in live' => (lease' = lease \/ lease # link[q])
        BY <1>1, <3>1
      <4>2. QED
        BY <1>1, <2>2, <2>3, <4>1, Stays
    <3>2. CASE lease = link[q]
      <4>1. hold[q] = None /\ \A m \in In(down[q]) : m.op # "granted"
        BY <3>2 DEF Expire, In
      <4>2. held'[q] = None
        BY <1>1, <4>1 DEF PersonOK, NumbersOK, Untouched
      <4>3. \A m \in In(down'[q]) : m.op # "granted"
        BY <2>1, <2>2, <4>1, InConcat, QuietIdle
      <4>4. QED
        BY <4>2, <4>3 DEF GrantOK
    <3>3. QED
      BY <3>1, <3>2
  <2>6. QED
    BY <2>4, <2>5 DEF PersonOK
<1>3. QED
  BY <1>2

\* An answer counts as the request did, and nothing behind the request frees what it counts for.
LEMMA AnswerStep ==
    ASSUME IInv, TypeOK', NEW p \in Person, up[p] # <<>>, up'[p] = Tail(up[p]),
           Untouched(p), calls' = calls,
           NEW t \in Seq(Answers), Quiet(t), NEW r \in Answers, down'[p] = (down[p] \o t) \o <<r>>,
           Asks(r), Asks(Head(up[p])),
           r.call = Head(up[p]).call, r.renews = Head(up[p]).renews
    PROVE  /\ LineOK(p)' /\ NumbersOK(p)'
           /\ In(down'[p]) = (In(down[p]) \cup In(t)) \cup {r} /\ In(up'[p]) \subseteq In(up[p])
           /\ \A n \in In(up'[p]) : Pair(r, n, Asked(p), Kept(p))
<1> TypeOK /\ LinksOK /\ \A q \in Person : PersonOK(q)
  BY DEF IInv
<1> DEFINE m == Head(up[p])
<1>1. down[p] \in Seq(Answers) /\ up[p] \in Seq(Requests) /\ <<r>> \in Seq(Answers)
  BY DEF TypeOK
<1>2. down[p] \o t \in Seq(Answers) /\ In(down[p] \o t) = In(down[p]) \cup In(t)
  BY <1>1, InConcat
<1>3. In(down'[p]) = (In(down[p]) \cup In(t)) \cup {r}
  <2>1. In((down[p] \o t) \o <<r>>) = In(down[p] \o t) \cup In(<<r>>)
    <3>1. PICK d \in Seq(Answers), e \in Seq(Answers) : d = down[p] \o t /\ e = <<r>>
      BY <1>1, <1>2
    <3>2. In(d \o e) = In(d) \cup In(e)
      BY InConcat
    <3>3. QED
      BY <3>1, <3>2
  <2>2. In(<<r>>) = {r}
    BY InOne
  <2>3. QED
    BY <1>2, <2>1, <2>2
<1>4. In(up[p]) = {m} \cup In(up'[p]) /\ m \in In(up[p])
  BY <1>1, InTail
<1>5. /\ Ordered(up'[p], Asked(p), Kept(p))
      /\ \A n \in In(up'[p]) : Pair(m, n, Asked(p), Kept(p))
  BY <1>1, OrderedTail DEF PersonOK, LineOK
<1>6. /\ New(m) <=> New(r)
      /\ Again(m) <=> Again(r)
      /\ Counts(m, Asked(p), Kept(p)) <=> Counts(r, Asked(p), Kept(p))
      /\ ~Frees(r)
  <2>1. New(m) <=> New(r)
    BY Zenon DEF New
  <2>2. Again(m) <=> Again(r)
    BY Zenon DEF Again
  <2>3. ~Frees(r)
    BY AnswerLemma DEF Frees
  <2>4. QED
    BY <2>1, <2>2, <2>3 DEF Counts
<1> HIDE DEF m
<1>7. r.call = m.call
  BY DEF m
<1>8. Asked(p)' = Asked(p) /\ Kept(p)' = Kept(p)
  BY DEF Untouched, Asked, Kept
<1>9. \A n \in In(t) : Idle(n) /\ n.op # "granted"
  BY QuietIdle
<1>10. \A n \in In(up'[p]) : Pair(r, n, Asked(p), Kept(p))
  BY <1>5, <1>6, <1>7 DEF Pair
<1>11. LineOK(p)'
  <2>1. Ordered(down[p] \o t, Asked(p), Kept(p))
    <3>1. Follows(down[p], t, Asked(p), Kept(p))
      BY <1>9, IdlePair DEF Follows
    <3>2. Ordered(t, Asked(p), Kept(p))
      BY <1>9, OrderedIdle
    <3>3. QED
      BY <1>1, <3>1, <3>2, OrderedConcat DEF PersonOK, LineOK
  <2>2. Follows(down[p] \o t, <<r>>, Asked(p), Kept(p))
    <3>1. In(<<r>>) = {r}
      BY InOne
    <3>2. ASSUME NEW n \in In(down[p] \o t)
          PROVE  Pair(n, r, Asked(p), Kept(p))
      <4>1. CASE n \in In(down[p])
        <5>1. Pair(n, m, Asked(p), Kept(p))
          BY <1>4, <4>1 DEF PersonOK, LineOK, Follows
        <5>2. QED
          BY <1>6, <1>7, <5>1 DEF Pair
      <4>2. CASE n \in In(t)
        BY <1>9, <4>2, IdlePair
      <4>3. QED
        BY <1>2, <3>2, <4>1, <4>2
    <3>3. QED
      BY <3>1, <3>2 DEF Follows
  <2>3. Ordered(<<r>>, Asked(p), Kept(p))
    BY OrderedShort
  <2>4. Ordered(down'[p], Asked(p), Kept(p))
    BY <1>1, <1>2, <2>1, <2>2, <2>3, OrderedConcat
  <2>5. Follows(down'[p], up'[p], Asked(p), Kept(p))
    <3>1. SUFFICES ASSUME NEW n \in In(down'[p]), NEW o \in In(up'[p])
                   PROVE  Pair(n, o, Asked(p), Kept(p))
      BY DEF Follows
    <3>2. CASE n \in In(down[p])
      BY <1>4, <3>2 DEF PersonOK, LineOK, Follows
    <3>3. CASE n \in In(t)
      BY <1>9, <3>3, IdlePair
    <3>4. CASE n = r
      BY <1>10, <3>4
    <3>5. QED
      BY <1>3, <3>2, <3>3, <3>4
  <2>6. QED
    BY <1>5, <1>8, <2>4, <2>5 DEF LineOK
<1>12. NumbersOK(p)'
  <2>1. /\ m \in OnLine(p)
        /\ \A n \in OnLine(p)' : Asks(n) => n \in OnLine(p) \/ n = r
        /\ \A n \in OnLine(p)' : New(n) \/ Again(n) => Asks(n)
    BY <1>3, <1>4, <1>9, OnLineLemma DEF OnLine, Idle
  <2>2. \A n \in OnLine(p)' : Asks(n) => \E o \in OnLine(p) :
           Asks(o) /\ o.call = n.call /\ (New(n) <=> New(o)) /\ (Again(n) <=> Again(o))
    <3>1. Asks(m)
      BY DEF m
    <3>2. QED
      BY <1>6, <1>7, <2>1, <3>1
  <2>3. \A n \in OnLine(p)' : Asks(n) => n.call <= calls'
    BY <2>2 DEF PersonOK, NumbersOK
  <2>4. /\ \A c \in asking'[p] : c <= calls'
        /\ hold'[p] # None => hold'[p].call <= calls'
        /\ held'[p] # None => hold'[p] # None /\ hold'[p].call = held'[p]
    BY DEF PersonOK, NumbersOK, Untouched
  <2>5. \A n \in OnLine(p)' : New(n) => n.call # Kept(p)'
    BY <1>8, <2>1, <2>2 DEF PersonOK, NumbersOK
  <2>6. \A n, o \in OnLine(p)' : New(n) /\ Again(o) => n.call # o.call
    <3>1. ASSUME NEW n \in OnLine(p)', NEW o \in OnLine(p)', New(n), Again(o)
          PROVE  n.call # o.call
      <4>1. PICK n1 \in OnLine(p) : n1.call = n.call /\ New(n1)
        BY <2>1, <2>2, <3>1
      <4>2. PICK o1 \in OnLine(p) : o1.call = o.call /\ Again(o1)
        BY <2>1, <2>2, <3>1
      <4>3. n1.call # o1.call
        BY <4>1, <4>2 DEF PersonOK, NumbersOK
      <4>4. QED
        BY <4>1, <4>2, <4>3
    <3>2. QED
      BY <3>1
  <2>7. \A n \in OnLine(p)', c \in asking'[p] : New(n) /\ n.call \notin asking'[p] => n.call < c
    <3>1. ASSUME NEW n \in OnLine(p)', NEW c \in asking[p], New(n), n.call \notin asking[p]
          PROVE  n.call < c
      <4>1. PICK n1 \in OnLine(p) : n1.call = n.call /\ New(n1)
        BY <2>1, <2>2, <3>1
      <4>2. QED
        BY <3>1, <4>1 DEF PersonOK, NumbersOK
    <3>2. QED
      BY <3>1 DEF Untouched
  <2>8. \A n \in OnLine(p)' : held'[p] # None /\ New(n) => n.call \in asking'[p]
    <3>1. ASSUME NEW n \in OnLine(p)', held[p] # None, New(n)
          PROVE  n.call \in asking[p]
      <4>1. PICK n1 \in OnLine(p) : n1.call = n.call /\ New(n1)
        BY <2>1, <2>2, <3>1
      <4>2. QED
        BY <3>1, <4>1 DEF PersonOK, NumbersOK
    <3>2. QED
      BY <3>1 DEF Untouched
  <2>9. QED
    BY <2>3, <2>4, <2>5, <2>6, <2>7, <2>8 DEF NumbersOK
<1>13. QED
  BY <1>3, <1>4, <1>10, <1>11, <1>12

LEMMA QuietOne ==
    ASSUME NEW a \in Answers, a.op = "changed"
    PROVE  \E u \in Seq(Answers) : u = <<a>> /\ Quiet(u)
<1>1. In(<<a>>) = {a}
  BY InOne
<1>2. Quiet(<<a>>)
  BY <1>1 DEF Quiet
<1>3. <<a>> \in Seq(Answers)
  OBVIOUS
<1>4. QED
  BY <1>2, <1>3, Zenon

LEMMA QuietConcat ==
    ASSUME NEW d \in Seq(Answers), NEW t \in Seq(Answers), NEW u \in Seq(Answers), Quiet(t), Quiet(u)
    PROVE  \E v \in Seq(Answers) : Quiet(v) /\ (d \o t) \o u = d \o v
<1>1. t \o u \in Seq(Answers) /\ In(t \o u) = In(t) \cup In(u)
  BY InConcat
<1>2. Quiet(t \o u)
  BY <1>1 DEF Quiet
<1>3. (d \o t) \o u = d \o (t \o u)
  BY ConcatAssociative
<1>4. QED
  BY <1>1, <1>2, <1>3

LEMMA ServeStep ==
    ASSUME IInv, TypeOK', NEW p \in Person, Serve(p)
    PROVE  \A q \in Person : PersonOK(q)'
<1> TypeOK /\ LinksOK /\ \A q \in Person : PersonOK(q)
  BY DEF IInv
<1> DEFINE m == Head(up[p])
           s == link[p]
<1>1. /\ live' = live /\ calls' = calls /\ calls <= calls' /\ calls' \in Nat
      /\ up[p] # <<>> /\ up'[p] = Tail(up[p])
      /\ \A q \in Person : q # p => up'[q] = up[q]
      /\ \A q \in Person : Untouched(q)
  BY DEF Serve, TypeOK, Untouched, client, document
<1>2. /\ s \in live /\ s \in Lease /\ s # None /\ lease \in Lease /\ Freed(s) \in Lease /\ None \in Lease
      /\ \A q \in Person : q # p => link[q] # s
      /\ None \notin live
  BY <1>1, NoneLemma DEF TypeOK, LinksOK, Lease, Freed
<1>3. m \in Requests /\ m \in In(up[p]) /\ In(up'[p]) \subseteq In(up[p])
  BY <1>1, InTail DEF TypeOK
<1>4. ASSUME NEW to \in Lease, NEW room, NEW answer, Grant(to, room, p, answer)
      PROVE  /\ lease' = to
             /\ Told(p, to, room) \in Seq(Answers) /\ Quiet(Told(p, to, room))
             /\ down'[p] = (down[p] \o Told(p, to, room)) \o answer
  <2>1. Told(p, to, room) \in Seq(Answers) /\ Quiet(Told(p, to, room))
    BY ToldLemma
  <2>2. QED
    BY <1>4, <2>1 DEF Grant, Told
<1>5. ASSUME NEW to \in Lease, NEW room, NEW answer, Grant(to, room, p, answer),
             NEW q \in Person, q # p,
             link[q] \in live => (to = lease \/ lease # link[q])
      PROVE  PersonOK(q)'
  <2> DEFINE t == Told(q, to, room)
  <2>1. t \in Seq(Answers) /\ Quiet(t)
    BY ToldLemma
  <2>2. lease' = to /\ down'[q] = (down[q] \o t) \o <<>>
    BY <1>5 DEF Grant, Told
  <2> HIDE DEF t
  <2>3. down'[q] = down[q] \o t
    <3>1. down[q] \in Seq(Answers)
      BY DEF TypeOK
    <3>2. (down[q] \o t) \o <<>> = down[q] \o t
      BY <2>1, <3>1, ConcatNothing
    <3>3. QED
      BY <2>2, <3>2
  <2>4. Ordered(up'[q], Asked(q), Kept(q)) /\ \A n \in In(up'[q]) : n \in In(up[q])
    BY <1>1, <1>5 DEF PersonOK, LineOK
  <2>5. /\ link[q] \in live' => link[q] \in live
        /\ link[q] \in live' => (lease' = lease \/ lease # link[q])
    BY <1>1, <1>5, <2>2
  <2>6. LineOK(q)' /\ NumbersOK(q)' /\ HearOK(q)'
    BY <1>1, <2>1, <2>3, <2>4, Stays
  <2>7. GrantOK(q)'
    BY <1>1, <2>1, <2>3, <2>4, <2>5, Stays
  <2>8. QED
    BY <2>6, <2>7 DEF PersonOK
<1>6. Ordered(up'[p], Asked(p), Kept(p)) /\ \A n \in In(up'[p]) : Pair(m, n, Asked(p), Kept(p))
  BY <1>1, OrderedTail DEF TypeOK, PersonOK, LineOK
<1>7. ASSUME NEW t \in Seq(Answers), Quiet(t), down'[p] = down[p] \o t
      PROVE  /\ LineOK(p)' /\ NumbersOK(p)' /\ HearOK(p)'
             /\ lease' = lease => GrantOK(p)'
             /\ In(down'[p]) = In(down[p]) \cup In(t)
  <2>1. \A n \in In(up'[p]) : n \in In(up[p])
    BY <1>3
  <2>2. LineOK(p)' /\ NumbersOK(p)' /\ HearOK(p)'
    BY <1>1, <1>6, <1>7, <2>1, Stays
  <2>3. ASSUME lease' = lease
        PROVE  GrantOK(p)'
    BY <1>1, <1>6, <1>7, <2>1, <2>3, Stays
  <2>4. In(down'[p]) = In(down[p]) \cup In(t)
    BY <1>7, InConcat DEF TypeOK
  <2>5. QED
    BY <2>2, <2>3, <2>4
<1>8. Asked(p)' = Asked(p) /\ Kept(p)' = Kept(p)
  BY <1>1 DEF Untouched, Asked, Kept
<1>9. CASE /\ m.op = "acquire" /\ s \in members /\ lease \in {s, None}
           /\ Grant(s, members, p, <<[op |-> "granted", call |-> m.call, renews |-> m.renews,
                                      session |-> s]>>)
  <2>1. m.call \in Call /\ m.renews \in BOOLEAN /\ s \in Session
    BY <1>2, <1>3, <1>9, RequestLemma DEF TypeOK
  <2>2. PICK r \in Answers : r = [op |-> "granted", call |-> m.call, renews |-> m.renews, session |-> s]
    BY <2>1, AnswerLemma
  <2>3. Grant(s, members, p, <<r>>)
    BY <1>9, <2>2
  <2> DEFINE t == Told(p, s, members)
  <2>4. /\ lease' = s /\ t \in Seq(Answers) /\ Quiet(t)
        /\ down'[p] = (down[p] \o t) \o <<r>>
    BY <1>2, <1>4, <2>3
  <2> HIDE DEF t
  <2>5. /\ r.op = "granted" /\ r.call = m.call /\ r.renews = m.renews /\ r.session = s
        /\ Asks(r) /\ Asks(m)
    BY <1>9, <2>2 DEF Asks
  <2>6. /\ LineOK(p)' /\ NumbersOK(p)'
        /\ In(down'[p]) = (In(down[p]) \cup In(t)) \cup {r} /\ In(up'[p]) \subseteq In(up[p])
    BY <1>1, <2>4, <2>5, AnswerStep
  <2>7. GrantOK(p)'
    BY <1>1, <1>3, <2>4 DEF PersonOK, GrantOK, Untouched
  <2>8. HearOK(p)'
    <3>1. \A n \in In(t) : n.op # "granted"
      BY <2>4, QuietIdle
    <3>2. \A n \in In(down'[p]) : n.op = "granted" => n.session = link[p]
      BY <2>5, <2>6, <3>1 DEF PersonOK, HearOK
    <3>3. QED
      BY <1>1, <3>2 DEF PersonOK, HearOK, Untouched
  <2>9. ASSUME NEW q \in Person, q # p
        PROVE  PersonOK(q)'
    <3>1. link[q] \in live => (s = lease \/ lease # link[q])
      BY <1>2, <1>9, <2>9
    <3>2. QED
      BY <1>2, <1>5, <2>3, <2>9, <3>1
  <2>10. QED
    BY <2>6, <2>7, <2>8, <2>9 DEF PersonOK
<1>10. CASE /\ m.op = "acquire"
            /\ Grant(lease, members, p, <<[op |-> "refused", call |-> m.call, renews |-> m.renews]>>)
  <2>1. m.call \in Call /\ m.renews \in BOOLEAN
    BY <1>3, <1>10, RequestLemma
  <2>2. PICK r \in Answers : r = [op |-> "refused", call |-> m.call, renews |-> m.renews]
    BY <2>1, AnswerLemma
  <2>3. Grant(lease, members, p, <<r>>)
    BY <1>10, <2>2
  <2> DEFINE t == Told(p, lease, members)
  <2>4. /\ lease' = lease /\ t \in Seq(Answers) /\ Quiet(t)
        /\ down'[p] = (down[p] \o t) \o <<r>>
    BY <1>2, <1>4, <2>3
  <2> HIDE DEF t
  <2>5. r.op = "refused" /\ r.call = m.call /\ r.renews = m.renews /\ Asks(r) /\ Asks(m)
    BY <1>10, <2>2 DEF Asks
  <2>6. /\ LineOK(p)' /\ NumbersOK(p)'
        /\ In(down'[p]) = (In(down[p]) \cup In(t)) \cup {r} /\ In(up'[p]) \subseteq In(up[p])
    BY <1>1, <2>4, <2>5, AnswerStep
  <2>7. \A n \in In(down'[p]) : n.op = "granted" => n \in In(down[p])
    BY <2>4, <2>5, <2>6, QuietIdle
  <2>8. GrantOK(p)'
    BY <1>1, <1>3, <1>8, <2>4, <2>7 DEF PersonOK, GrantOK, Untouched
  <2>9. HearOK(p)'
    BY <1>1, <2>7 DEF PersonOK, HearOK, Untouched
  <2>10. ASSUME NEW q \in Person, q # p
         PROVE  PersonOK(q)'
    BY <1>2, <1>5, <2>3, <2>10
  <2>11. QED
    BY <2>6, <2>8, <2>9, <2>10 DEF PersonOK
<1>11. ASSUME Frees(m), NEW room, Grant(Freed(s), room, p, <<>>)
       PROVE  \A q \in Person : PersonOK(q)'
  <2> DEFINE t == Told(p, Freed(s), room)
  <2>1. /\ t \in Seq(Answers) /\ Quiet(t)
        /\ down'[p] = (down[p] \o t) \o <<>>
    BY <1>2, <1>4, <1>11
  <2> HIDE DEF t
  <2>2. down'[p] = down[p] \o t
    <3>1. down[p] \in Seq(Answers)
      BY DEF TypeOK
    <3>2. (down[p] \o t) \o <<>> = down[p] \o t
      BY <2>1, <3>1, ConcatNothing
    <3>3. QED
      BY <2>1, <3>2
  <2>3. LineOK(p)' /\ NumbersOK(p)' /\ HearOK(p)' /\ In(down'[p]) = In(down[p]) \cup In(t)
    BY <1>7, <2>1, <2>2
  <2>4. ~(held[p] # None /\ ~crossed[p])
    BY <1>2, <1>3, <1>11 DEF PersonOK, GrantOK
  <2>5. \A n \in In(down'[p]) : n.op = "granted" => ~Counts(n, Asked(p), Kept(p))
    <3>1. \A n \in In(down[p]) : ~Counts(n, Asked(p), Kept(p))
      BY <1>3, <1>11 DEF PersonOK, LineOK, Follows, Pair
    <3>2. QED
      BY <2>1, <2>3, <3>1, QuietIdle
  <2>6. GrantOK(p)'
    BY <1>1, <1>8, <2>4, <2>5 DEF GrantOK, Untouched
  <2>7. ASSUME NEW q \in Person, q # p
        PROVE  PersonOK(q)'
    <3>1. link[q] \in live => (Freed(s) = lease \/ lease # link[q])
      BY <1>2, <2>7 DEF Freed
    <3>2. QED
      BY <1>2, <1>5, <1>11, <2>7, <3>1
  <2>8. QED
    BY <2>3, <2>6, <2>7 DEF PersonOK
<1>12. CASE Grant(lease, members \cup {s}, p, <<[op |-> "changed", lease |-> lease]>>)
  <2>1. PICK a \in Answers : a = [op |-> "changed", lease |-> lease]
    BY <1>2, AnswerLemma
  <2>2. PICK u \in Seq(Answers) : u = <<a>> /\ Quiet(u)
    <3>1. a.op = "changed"
      BY <2>1
    <3>2. QED
      BY <2>1, <3>1, QuietOne
  <2>3. Grant(lease, members \cup {s}, p, u)
    BY <1>12, <2>1, <2>2
  <2> DEFINE t == Told(p, lease, members \cup {s})
  <2>4. /\ lease' = lease /\ t \in Seq(Answers) /\ Quiet(t)
        /\ down'[p] = (down[p] \o t) \o u
    BY <1>2, <1>4, <2>3
  <2> HIDE DEF t
  <2>5. down[p] \in Seq(Answers)
    BY DEF TypeOK
  <2>6. PICK v \in Seq(Answers) : Quiet(v) /\ (down[p] \o t) \o u = down[p] \o v
    BY <2>2, <2>4, <2>5, QuietConcat
  <2>7. LineOK(p)' /\ NumbersOK(p)' /\ HearOK(p)' /\ GrantOK(p)'
    <3>1. down'[p] = down[p] \o v
      BY <2>4, <2>6
    <3>2. QED
      BY <1>7, <2>4, <2>6, <3>1
  <2>8. ASSUME NEW q \in Person, q # p
        PROVE  PersonOK(q)'
    BY <1>2, <1>5, <2>3, <2>8
  <2>9. QED
    BY <2>7, <2>8 DEF PersonOK
<1>13. CASE m.op = "release" /\ Grant(Freed(s), members, p, <<>>)
  BY <1>11, <1>13 DEF Frees
<1>14. CASE m.op = "leave" /\ Grant(Freed(s), members \ {s}, p, <<>>)
  BY <1>11, <1>14 DEF Frees
<1>15. QED
  BY <1>9, <1>10, <1>12, <1>13, <1>14 DEF Serve

-----------------------------------------------------------------------------
(* The theorems.                                                           *)

LEMMA InitIInv == Init => IInv
<1>1. SUFFICES ASSUME Init
               PROVE  IInv
  OBVIOUS
<1>2. \A p \in Person :
         /\ link[p] = None /\ up[p] = <<>> /\ down[p] = <<>> /\ session[p] = None /\ list[p] = None
         /\ hold[p] = None /\ asking[p] = {} /\ held[p] = None /\ crossed[p] = FALSE
         /\ shown[p] = [lease |-> None, mine |-> FALSE]
  BY <1>1 DEF Init
<1>3. TypeOK
  <2>1. <<>> \in Seq(Requests) /\ <<>> \in Seq(Answers) /\ None \in Lease
    BY EmptySeq DEF Lease
  <2>2. shown \in [Person -> [lease : Lease, mine : BOOLEAN]]
    BY <1>1, <2>1 DEF Init
  <2>3. /\ sessions \in 0 .. MaxSessions /\ calls \in 0 .. MaxCalls /\ opens \in 0 .. MaxOpens
        /\ live \subseteq Session /\ members \subseteq live /\ lease \in members \cup {None}
    BY <1>1, SyncLeasesAssumption DEF Init
  <2>4. QED
    BY <1>1, <2>1, <2>2, <2>3 DEF Init, TypeOK
<1>4. LinksOK
  BY <1>1, <1>2 DEF Init, LinksOK
<1>5. ASSUME NEW p \in Person
      PROVE  PersonOK(p)
  <2>1. In(up[p]) = {} /\ In(down[p]) = {}
    BY <1>2, InNone
  <2>2. LineOK(p)
    BY <1>2, OrderedShort DEF LineOK
  <2>3. NumbersOK(p) /\ GrantOK(p)
    BY <1>2, <2>1 DEF NumbersOK, GrantOK, OnLine
  <2>4. shown[p] = Shown(None, None)
    <3>1. (None # None /\ None = None) = FALSE
      BY Zenon
    <3>2. QED
      BY <1>2, <3>1 DEF Shown
  <2>5. HearOK(p)
    BY <1>2, <2>1, <2>4 DEF HearOK
  <2>6. QED
    BY <2>2, <2>3, <2>5 DEF PersonOK
<1>6. QED
  BY <1>3, <1>4, <1>5 DEF IInv

LEMMA NextIInv == IInv /\ [Next]_vars => IInv'
<1>1. SUFFICES ASSUME IInv, [Next]_vars
               PROVE  IInv'
  OBVIOUS
<1>2. TypeOK'
  BY <1>1, TypeStep DEF IInv
<1>3. LinksOK'
  BY <1>1, <1>2, LinksStep DEF IInv
<1>4. \A q \in Person : PersonOK(q)'
  <2>1. CASE UNCHANGED vars
    BY <1>1, <2>1 DEF IInv, vars, client, document, PersonOK, LineOK, NumbersOK, GrantOK, HearOK,
                      OnLine, Asked, Kept
  <2>2. ASSUME NEW p \in Person,
               \/ Connect(p) \/ Disconnected(p) \/ Open(p) \/ CloseDocument(p)
               \/ Acquire(p) \/ Release(p) \/ Renew(p)
        PROVE  \A q \in Person : PersonOK(q)'
    BY <1>1, <1>2, <2>2, ConnectStep, DisconnectedStep, OpenStep, CloseStep, AcquireStep, ReleaseStep,
       RenewStep
  <2>3. ASSUME NEW p \in Person,
               Changed(p) \/ Granted(p) \/ Refused(p) \/ Renewed(p) \/ Lost(p) \/ Serve(p)
        PROVE  \A q \in Person : PersonOK(q)'
    BY <1>1, <1>2, <2>3, ChangedStep, GrantedStep, RefusedStep, RenewedStep, LostStep, ServeStep
  <2>4. ASSUME NEW s \in Session, EndSession(s)
        PROVE  \A q \in Person : PersonOK(q)'
    BY <1>1, <1>2, <2>4, EndSessionStep
  <2>5. CASE Expire
    BY <1>1, <1>2, <2>5, ExpireStep
  <2>6. QED
    BY <1>1, <2>1, <2>2, <2>3, <2>4, <2>5 DEF Next
<1>5. QED
  BY <1>2, <1>3, <1>4 DEF IInv

\* The state of the leases keeps its types: in particular the scope is always granted to a
\* session of the room, or to none, and only sessions that are live are in it.
THEOREM TypeCorrect == Spec => []TypeOK
<1>1. IInv => TypeOK
  BY DEF IInv
<1>2. QED
  BY <1>1, InitIInv, NextIInv, PTL DEF Spec

\* What a document holds is granted to its session by the server, on every connection that both
\* sides still have, but for a release that crossed another acquire: however requests, answers,
\* renewals, lost connections and closed documents come after one another.
THEOREM HeldStaysGranted == Spec => []HeldIsGranted
<1>1. IInv => HeldIsGranted
  BY DEF IInv, PersonOK, GrantOK, HeldIsGranted
<1>2. QED
  BY <1>1, InitIInv, NextIInv, PTL DEF Spec

\* The listeners of a document know all that the client does of the lease, and the holder is
\* never told that its own lease is someone else's.
THEOREM OwnLeaseStaysMine == Spec => []OwnLeaseIsMine
<1>1. ASSUME IInv
      PROVE  OwnLeaseIsMine
  <2>1. SUFFICES ASSUME NEW p \in Person
                 PROVE  /\ shown[p] = Shown(list[p], session[p])
                        /\ held[p] # None /\ list[p] = link[p] => shown[p].mine
    BY DEF OwnLeaseIsMine
  <2>2. shown[p] = Shown(list[p], session[p]) /\ (held[p] # None => session[p] = link[p])
    BY <1>1 DEF IInv, PersonOK, HearOK
  <2>3. ASSUME held[p] # None, list[p] = link[p]
        PROVE  shown[p].mine
    <3>1. link[p] # None /\ session[p] = link[p] /\ list[p] = session[p]
      BY <1>1, <2>2, <2>3 DEF IInv, LinksOK
    <3>2. (session[p] # None /\ list[p] = session[p]) = TRUE
      BY <3>1, Zenon
    <3>3. shown[p] = [lease |-> list[p], mine |-> TRUE]
      BY <2>2, <3>2 DEF Shown
    <3>4. QED
      BY <3>3
  <2>4. QED
    BY <2>2, <2>3
<1>2. QED
  BY <1>1, InitIInv, NextIInv, PTL DEF Spec

=============================================================================
