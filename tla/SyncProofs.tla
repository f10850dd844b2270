----------------------------- MODULE SyncProofs -----------------------------
(***************************************************************************)
(* That the sync client keeps every push once, sends what waited in order, *)
(* re-joins a room without a gap, and implements PushLink; and that the    *)
(* relay on it counts as sent only what a push carries, keeps a position   *)
(* that is true, and at rest holds what its room does.                     *)
(*                                                                         *)
(* A push that is sent and not answered is somewhere on the connection,    *)
(* once, or went where no one answers; a flush has one push on its way,    *)
(* and only that one had to wait; and what is on its way to a member of    *)
(* the room reaches, with what was heard, as far as its messages say.      *)
(* What the relay heard of the room it holds, keeps aside for its blobs or *)
(* has a step for, and what is missing on either side some step leads to.  *)
(***************************************************************************)
EXTENDS SyncRelay, SequenceTheorems, TLAPS

-----------------------------------------------------------------------------
(* Sequences.                                                              *)

Once(s) == \A i, j \in DOMAIN s : s[i] = s[j] => i = j

\* The members of `w` stand in `s` in their order.
Rising(s, w) == \A i, j \in DOMAIN s : i < j /\ s[i] \in w /\ s[j] \in w => s[i] < s[j]

LEMMA EmptyLemma ==
    ASSUME NEW w
    PROVE  Range(<<>>) = {} /\ Once(<<>>) /\ Rising(<<>>, w)
BY DEF Range, Once, Rising

LEMMA AppendLemma ==
    ASSUME NEW S, NEW s \in Seq(S), NEW e \in S
    PROVE  /\ Append(s, e) \in Seq(S)
           /\ Range(Append(s, e)) = Range(s) \cup {e}
           /\ Once(s) /\ e \notin Range(s) => Once(Append(s, e))
<1>1. /\ Append(s, e) \in Seq(S)
      /\ DOMAIN Append(s, e) = 1 .. Len(s) + 1
      /\ \A i \in 1 .. Len(s) : Append(s, e)[i] = s[i]
      /\ Append(s, e)[Len(s) + 1] = e
      /\ DOMAIN s = 1 .. Len(s) /\ Len(s) \in Nat
  BY AppendProperties, LenProperties
<1>2. Range(Append(s, e)) = Range(s) \cup {e}
  BY <1>1 DEF Range
<1>3. Once(s) /\ e \notin Range(s) => Once(Append(s, e))
  BY <1>1 DEF Range, Once
<1>4. QED
  BY <1>1, <1>2, <1>3

LEMMA AppendRising ==
    ASSUME NEW S \in SUBSET Nat, NEW s \in Seq(S), NEW e \in S, NEW w,
           Rising(s, w), \A x \in Range(s) \cap w : e \in w => x < e
    PROVE  Rising(Append(s, e), w)
<1>1. /\ DOMAIN Append(s, e) = 1 .. Len(s) + 1
      /\ \A i \in 1 .. Len(s) : Append(s, e)[i] = s[i] /\ s[i] \in Range(s)
      /\ Append(s, e)[Len(s) + 1] = e
      /\ DOMAIN s = 1 .. Len(s) /\ Len(s) \in Nat
  BY AppendProperties, LenProperties DEF Range
<1>2. QED
  BY <1>1 DEF Rising

LEMMA TailLemma ==
    ASSUME NEW S, NEW s \in Seq(S), s # <<>>
    PROVE  /\ Head(s) \in S /\ Tail(s) \in Seq(S)
           /\ Range(s) = Range(Tail(s)) \cup {Head(s)}
           /\ Once(s) => Once(Tail(s)) /\ Head(s) \notin Range(Tail(s))
<1>1. /\ Head(s) \in S /\ Tail(s) \in Seq(S)
      /\ DOMAIN s = 1 .. Len(s) /\ Len(s) \in Nat \ {0}
      /\ DOMAIN Tail(s) = 1 .. Len(s) - 1
      /\ \A i \in 1 .. Len(s) - 1 : Tail(s)[i] = s[i + 1]
      /\ Head(s) = s[1]
  BY HeadTailProperties, LenProperties, EmptySeq
<1>2. Range(s) = Range(Tail(s)) \cup {Head(s)}
  <2>1. ASSUME NEW i \in 1 .. Len(s), i # 1
        PROVE  i - 1 \in 1 .. Len(s) - 1 /\ s[i] = Tail(s)[i - 1]
    BY <1>1, <2>1
  <2>2. ASSUME NEW i \in 1 .. Len(s) - 1
        PROVE  i + 1 \in 1 .. Len(s) /\ Tail(s)[i] = s[i + 1]
    BY <1>1
  <2>3. 1 \in 1 .. Len(s)
    BY <1>1
  <2>4. ASSUME NEW i \in 1 .. Len(s)
        PROVE  s[i] \in Range(Tail(s)) \cup {Head(s)}
    <3>1. CASE i = 1
      BY <1>1, <3>1
    <3>2. CASE i # 1
      BY <1>1, <2>1, <3>2 DEF Range
    <3>3. QED
      BY <3>1, <3>2
  <2>5. Range(Tail(s)) \cup {Head(s)} \subseteq Range(s)
    BY <1>1, <2>2, <2>3 DEF Range
  <2>6. QED
    BY <1>1, <2>4, <2>5 DEF Range
<1>3. Once(s) => Once(Tail(s)) /\ Head(s) \notin Range(Tail(s))
  BY <1>1 DEF Range, Once
<1>4. QED
  BY <1>1, <1>2, <1>3

LEMMA TailRising ==
    ASSUME NEW S \in SUBSET Nat, NEW s \in Seq(S), s # <<>>, NEW w, Rising(s, w)
    PROVE  /\ Rising(Tail(s), w)
           /\ Head(s) \in w => \A x \in Range(Tail(s)) \cap w : Head(s) < x
<1>1. /\ DOMAIN s = 1 .. Len(s) /\ Len(s) \in Nat \ {0}
      /\ DOMAIN Tail(s) = 1 .. Len(s) - 1
      /\ \A i \in 1 .. Len(s) - 1 : Tail(s)[i] = s[i + 1]
      /\ Head(s) = s[1]
  BY HeadTailProperties, LenProperties, EmptySeq
<1>2. QED
  BY <1>1 DEF Range, Rising

LEMMA ConcatLemma ==
    ASSUME NEW S, NEW s \in Seq(S), NEW t \in Seq(S)
    PROVE  /\ s \o t \in Seq(S)
           /\ Range(s \o t) = Range(s) \cup Range(t)
           /\ Once(s \o t) <=> Once(s) /\ Once(t) /\ Range(s) \cap Range(t) = {}
<1>1. /\ s \o t \in Seq(S)
      /\ DOMAIN (s \o t) = 1 .. Len(s) + Len(t)
      /\ DOMAIN s = 1 .. Len(s) /\ Len(s) \in Nat
      /\ DOMAIN t = 1 .. Len(t) /\ Len(t) \in Nat
  BY ConcatProperties, LenProperties
<1>2. /\ \A i \in 1 .. Len(s) : (s \o t)[i] = s[i]
      /\ \A i \in 1 .. Len(t) : (s \o t)[Len(s) + i] = t[i]
  BY <1>1, ConcatProperties
<1>3. \A i \in 1 .. Len(s) + Len(t) : i \in 1 .. Len(s) \/ \E j \in 1 .. Len(t) : i = Len(s) + j
  <2>1. ASSUME NEW i \in 1 .. Len(s) + Len(t), i \notin 1 .. Len(s)
        PROVE  i - Len(s) \in 1 .. Len(t) /\ i = Len(s) + (i - Len(s))
    BY <1>1, <2>1
  <2>2. QED
    BY <2>1
<1>4. Range(s \o t) = Range(s) \cup Range(t)
  BY RangeConcatenation
<1>5. /\ \A i \in 1 .. Len(s) : i \in 1 .. Len(s) + Len(t)
      /\ \A i \in 1 .. Len(t) : Len(s) + i \in 1 .. Len(s) + Len(t)
      /\ \A i \in 1 .. Len(s), j \in 1 .. Len(t) : i # Len(s) + j
      /\ \A i, j \in 1 .. Len(t) : Len(s) + i = Len(s) + j => i = j
  BY <1>1
<1>6. ASSUME Once(s \o t)
      PROVE  Once(s) /\ Once(t) /\ Range(s) \cap Range(t) = {}
  <2>1. Once(s)
    BY <1>1, <1>2, <1>5, <1>6, Zenon DEF Once
  <2>2. Once(t)
    <3>1. SUFFICES ASSUME NEW i \in 1 .. Len(t), NEW j \in 1 .. Len(t), t[i] = t[j]
                   PROVE  i = j
      BY <1>1, Zenon DEF Once
    <3>2. (s \o t)[Len(s) + i] = (s \o t)[Len(s) + j]
      BY <1>2, <3>1
    <3>3. Len(s) + i = Len(s) + j
      BY <1>1, <1>5, <1>6, <3>2, Zenon DEF Once
    <3>4. QED
      BY <1>1, <3>3
  <2>3. ASSUME NEW x \in Range(s), x \in Range(t)
        PROVE  FALSE
    <3>1. PICK i \in 1 .. Len(s) : x = s[i]
      BY <1>1 DEF Range
    <3>2. PICK j \in 1 .. Len(t) : x = t[j]
      BY <1>1, <2>3 DEF Range
    <3>3. (s \o t)[i] = (s \o t)[Len(s) + j]
      BY <1>2, <3>1, <3>2
    <3>4. i = Len(s) + j
      BY <1>1, <1>5, <1>6, <3>3, Zenon DEF Once
    <3>5. QED
      BY <1>5, <3>4
  <2>4. QED
    BY <2>1, <2>2, <2>3
<1>7. ASSUME Once(s), Once(t), Range(s) \cap Range(t) = {}
      PROVE  Once(s \o t)
  <2>1. SUFFICES ASSUME NEW i \in 1 .. Len(s) + Len(t), NEW j \in 1 .. Len(s) + Len(t),
                        (s \o t)[i] = (s \o t)[j]
                 PROVE  i = j
    BY <1>1 DEF Once
  <2>2. ASSUME NEW k \in 1 .. Len(s), NEW l \in 1 .. Len(t)
        PROVE  s[k] # t[l]
    BY <1>1, <1>7 DEF Range
  <2>3. CASE i \in 1 .. Len(s) /\ j \in 1 .. Len(s)
    BY <1>1, <1>2, <1>7, <2>1, <2>3 DEF Once
  <2>4. CASE i \in 1 .. Len(s) /\ j \notin 1 .. Len(s)
    BY <1>2, <1>3, <2>1, <2>2, <2>4
  <2>5. CASE i \notin 1 .. Len(s) /\ j \in 1 .. Len(s)
    BY <1>2, <1>3, <2>1, <2>2, <2>5
  <2>6. CASE i \notin 1 .. Len(s) /\ j \notin 1 .. Len(s)
    <3>1. PICK k \in 1 .. Len(t) : i = Len(s) + k
      BY <1>3, <2>6
    <3>2. PICK l \in 1 .. Len(t) : j = Len(s) + l
      BY <1>3, <2>6
    <3>3. t[k] = t[l]
      BY <1>2, <2>1, <3>1, <3>2
    <3>4. QED
      BY <1>1, <1>7, <3>1, <3>2, <3>3 DEF Once
  <2>7. QED
    BY <2>3, <2>4, <2>5, <2>6
<1>8. QED
  BY <1>1, <1>4, <1>6, <1>7

LEMMA ConcatRising ==
    ASSUME NEW S \in SUBSET Nat, NEW s \in Seq(S), NEW t \in Seq(S), NEW w,
           Rising(s, w), Rising(t, w),
           \A x \in Range(s) \cap w, y \in Range(t) \cap w : x < y
    PROVE  Rising(s \o t, w)
<1>1. /\ DOMAIN (s \o t) = 1 .. Len(s) + Len(t)
      /\ DOMAIN s = 1 .. Len(s) /\ Len(s) \in Nat
      /\ DOMAIN t = 1 .. Len(t) /\ Len(t) \in Nat
  BY ConcatProperties, LenProperties
<1>2. \A i \in 1 .. Len(s) + Len(t) :
         IF i <= Len(s) THEN (s \o t)[i] = s[i] /\ i \in 1 .. Len(s)
                        ELSE (s \o t)[i] = t[i - Len(s)] /\ i - Len(s) \in 1 .. Len(t)
  BY <1>1, ConcatProperties
<1>3. SUFFICES ASSUME NEW i \in 1 .. Len(s) + Len(t), NEW j \in 1 .. Len(s) + Len(t), i < j,
                      (s \o t)[i] \in w, (s \o t)[j] \in w
               PROVE  (s \o t)[i] < (s \o t)[j]
  BY <1>1 DEF Rising
<1>4. CASE j <= Len(s)
  BY <1>1, <1>2, <1>3, <1>4 DEF Rising
<1>5. CASE ~(i <= Len(s))
  BY <1>1, <1>2, <1>3, <1>5 DEF Rising
<1>6. CASE i <= Len(s) /\ ~(j <= Len(s))
  BY <1>1, <1>2, <1>3, <1>6 DEF Range
<1>7. QED
  BY <1>1, <1>4, <1>5, <1>6

LEMMA RemoveAtLemma ==
    ASSUME NEW S, NEW s \in Seq(S), NEW k \in 1 .. Len(s)
    PROVE  /\ RemoveAt(s, k) \in Seq(S)
           /\ Len(RemoveAt(s, k)) = Len(s) - 1
           /\ \A i \in 1 .. Len(s) - 1 : RemoveAt(s, k)[i] = IF i < k THEN s[i] ELSE s[i + 1]
<1>1. Len(s) \in Nat /\ \A i \in 1 .. Len(s) : s[i] \in S
  BY ElementOfSeq, LenProperties
<1>2. /\ SubSeq(s, 1, k - 1) \in Seq(S) /\ Len(SubSeq(s, 1, k - 1)) = k - 1
      /\ \A i \in 1 .. k - 1 : SubSeq(s, 1, k - 1)[i] = s[i]
  BY <1>1, SubSeqProperties
<1>3. /\ SubSeq(s, k + 1, Len(s)) \in Seq(S) /\ Len(SubSeq(s, k + 1, Len(s))) = Len(s) - k
      /\ \A i \in 1 .. Len(s) - k : SubSeq(s, k + 1, Len(s))[i] = s[k + i]
  BY <1>1, SubSeqProperties
<1>4. ASSUME NEW a, a = SubSeq(s, 1, k - 1), NEW b, b = SubSeq(s, k + 1, Len(s))
      PROVE  /\ a \o b \in Seq(S)
             /\ Len(a \o b) = Len(s) - 1
             /\ \A i \in 1 .. Len(s) - 1 : (a \o b)[i] = IF i < k THEN s[i] ELSE s[i + 1]
  <2>1. /\ a \in Seq(S) /\ Len(a) = k - 1 /\ \A i \in 1 .. k - 1 : a[i] = s[i]
        /\ b \in Seq(S) /\ Len(b) = Len(s) - k /\ \A i \in 1 .. Len(s) - k : b[i] = s[k + i]
    <3>1. a \in Seq(S) /\ b \in Seq(S)
      BY <1>2, <1>3, <1>4
    <3>2. Len(a) = k - 1 /\ Len(b) = Len(s) - k
      BY <1>2, <1>3, <1>4
    <3>3. \A i \in 1 .. k - 1 : a[i] = s[i]
      BY <1>2, <1>4, Zenon
    <3>4. \A i \in 1 .. Len(s) - k : b[i] = s[k + i]
      BY <1>3, <1>4, Zenon
    <3>5. QED
      BY <3>1, <3>2, <3>3, <3>4
  <2>2. a \o b \in Seq(S) /\ Len(a \o b) = Len(s) - 1
    <3>1. a \o b \in Seq(S) /\ Len(a \o b) = Len(a) + Len(b)
      BY <2>1, ConcatProperties
    <3>2. (k - 1) + (Len(s) - k) = Len(s) - 1
      BY <1>1
    <3>3. QED
      BY <2>1, <3>1, <3>2
  <2>3. ASSUME NEW i \in 1 .. Len(s) - 1
        PROVE  (a \o b)[i] = IF i < k THEN s[i] ELSE s[i + 1]
    <3>1. i \in 1 .. Len(a) + Len(b)
      BY <1>1, <2>1
    <3>2. (a \o b)[i] = IF i <= Len(a) THEN a[i] ELSE b[i - Len(a)]
      BY <2>1, <3>1, ConcatProperties
    <3>3. CASE i < k
      BY <1>1, <2>1, <3>2, <3>3
    <3>4. CASE ~(i < k)
      <4>1. i - Len(a) \in 1 .. Len(s) - k /\ k + (i - Len(a)) = i + 1 /\ ~(i <= Len(a))
        BY <1>1, <2>1, <3>4
      <4>2. b[i - Len(a)] = s[i + 1]
        BY <2>1, <4>1
      <4>3. QED
        BY <3>2, <3>4, <4>1, <4>2
    <3>5. QED
      BY <3>3, <3>4
  <2>4. QED
    BY <2>2, <2>3
<1>5. QED
  BY <1>4, Zenon DEF RemoveAt

LEMMA RemoveLemma ==
    ASSUME NEW S, NEW s \in Seq(S), NEW e, Once(s)
    PROVE  /\ RemoveFirst(s, e) \in Seq(S)
           /\ Range(RemoveFirst(s, e)) = Range(s) \ {e}
           /\ Once(RemoveFirst(s, e))
<1>1. DOMAIN s = 1 .. Len(s) /\ Len(s) \in Nat
  BY LenProperties
<1>2. CASE ~\E i \in 1 .. Len(s) : s[i] = e
  BY <1>1, <1>2 DEF RemoveFirst, Range
<1>3. CASE \E i \in 1 .. Len(s) : s[i] = e
  <2>1. PICK k \in 1 .. Len(s) : s[k] = e
    BY <1>3
  <2> DEFINE R == RemoveAt(s, k)
  <2>2. RemoveFirst(s, e) = R
    <3>1. {i \in 1 .. Len(s) : s[i] = e} = {k}
      BY <1>1, <2>1 DEF Once
    <3>2. Min({k}) = k
      BY <1>1 DEF Min
    <3>3. SelectInSeq(s, LAMBDA v : v = e) = k
      BY <3>1, <3>2 DEF SelectInSeq
    <3>4. QED
      BY <1>3, <3>3 DEF RemoveFirst
  <2>3. /\ R \in Seq(S) /\ DOMAIN R = 1 .. Len(s) - 1
        /\ \A i \in 1 .. Len(s) - 1 : R[i] = IF i < k THEN s[i] ELSE s[i + 1]
    BY <1>1, RemoveAtLemma, LenProperties
  <2> HIDE DEF R
  <2>4. ASSUME NEW x \in Range(R)
        PROVE  x \in Range(s) \ {e}
    <3>1. PICK i \in 1 .. Len(s) - 1 : x = R[i]
      BY <2>3 DEF Range
    <3>2. PICK j \in 1 .. Len(s) : j # k /\ x = s[j]
      <4>1. CASE i < k
        BY <1>1, <2>3, <3>1, <4>1
      <4>2. CASE ~(i < k)
        BY <1>1, <2>3, <3>1, <4>2
      <4>3. QED
        BY <4>1, <4>2
    <3>3. QED
      BY <1>1, <2>1, <3>2 DEF Range, Once
  <2>5. ASSUME NEW x \in Range(s), x # e
        PROVE  x \in Range(R)
    <3>1. PICK j \in 1 .. Len(s) : x = s[j]
      BY <1>1 DEF Range
    <3>2. CASE j < k
      <4>1. j \in 1 .. Len(s) - 1
        BY <1>1, <3>2
      <4>2. R[j] = x
        BY <2>3, <3>1, <3>2, <4>1
      <4>3. QED
        BY <2>3, <4>1, <4>2 DEF Range
    <3>3. CASE j > k
      <4>1. j - 1 \in 1 .. Len(s) - 1 /\ ~(j - 1 < k) /\ (j - 1) + 1 = j
        BY <1>1, <3>3
      <4>2. R[j - 1] = x
        BY <2>3, <3>1, <4>1
      <4>3. QED
        BY <2>3, <4>1, <4>2 DEF Range
    <3>4. QED
      BY <1>1, <2>1, <2>5, <3>1, <3>2, <3>3
  <2>6. Once(R)
    <3>1. SUFFICES ASSUME NEW i \in 1 .. Len(s) - 1, NEW j \in 1 .. Len(s) - 1, R[i] = R[j]
                   PROVE  i = j
      BY <2>3 DEF Once
    <3>2. /\ (IF i < k THEN i ELSE i + 1) \in 1 .. Len(s)
          /\ (IF j < k THEN j ELSE j + 1) \in 1 .. Len(s)
          /\ s[IF i < k THEN i ELSE i + 1] = s[IF j < k THEN j ELSE j + 1]
      BY <1>1, <2>3, <3>1
    <3>3. (IF i < k THEN i ELSE i + 1) = (IF j < k THEN j ELSE j + 1)
      BY <1>1, <3>2 DEF Once
    <3>4. QED
      BY <1>1, <3>3
  <2>7. QED
    BY <2>2, <2>3, <2>4, <2>5, <2>6
<1>4. QED
  BY <1>2, <1>3

LEMMA RemoveRising ==
    ASSUME NEW S \in SUBSET Nat, NEW s \in Seq(S), NEW e, Once(s), NEW w, Rising(s, w)
    PROVE  Rising(RemoveFirst(s, e), w)
<1>1. DOMAIN s = 1 .. Len(s) /\ Len(s) \in Nat
  BY LenProperties
<1>2. CASE ~\E i \in 1 .. Len(s) : s[i] = e
  BY <1>2 DEF RemoveFirst
<1>3. CASE \E i \in 1 .. Len(s) : s[i] = e
  <2>1. PICK k \in 1 .. Len(s) : s[k] = e
    BY <1>3
  <2> DEFINE R == RemoveAt(s, k)
  <2>2. RemoveFirst(s, e) = R
    <3>1. {i \in 1 .. Len(s) : s[i] = e} = {k}
      BY <1>1, <2>1 DEF Once
    <3>2. Min({k}) = k
      BY <1>1 DEF Min
    <3>3. SelectInSeq(s, LAMBDA v : v = e) = k
      BY <3>1, <3>2 DEF SelectInSeq
    <3>4. QED
      BY <1>3, <3>3 DEF RemoveFirst
  <2>3. /\ DOMAIN R = 1 .. Len(s) - 1
        /\ \A i \in 1 .. Len(s) - 1 : R[i] = IF i < k THEN s[i] ELSE s[i + 1]
    BY <1>1, RemoveAtLemma, LenProperties
  <2> HIDE DEF R
  <2>4. SUFFICES ASSUME NEW i \in 1 .. Len(s) - 1, NEW j \in 1 .. Len(s) - 1, i < j,
                        R[i] \in w, R[j] \in w
                 PROVE  R[i] < R[j]
    BY <2>2, <2>3 DEF Rising
  <2>5. PICK a \in 1 .. Len(s), b \in 1 .. Len(s) : a < b /\ R[i] = s[a] /\ R[j] = s[b]
    <3>1. R[i] = s[IF i < k THEN i ELSE i + 1] /\ R[j] = s[IF j < k THEN j ELSE j + 1]
      BY <2>3
    <3>2. /\ (IF i < k THEN i ELSE i + 1) \in 1 .. Len(s)
          /\ (IF j < k THEN j ELSE j + 1) \in 1 .. Len(s)
          /\ (IF i < k THEN i ELSE i + 1) < (IF j < k THEN j ELSE j + 1)
      BY <1>1, <2>4
    <3>3. QED
      BY <3>1, <3>2
  <2>6. QED
    BY <1>1, <2>4, <2>5 DEF Rising
<1>4. QED
  BY <1>2, <1>3

-----------------------------------------------------------------------------
(* Messages.                                                               *)

PushOps == {"push", "pushed", "refused"}

\* The pushes that messages carry or answer, each by one of them.
InFlight(s) == {s[i].push : i \in {j \in DOMAIN s : s[j].op \in PushOps}}
OnceInFlight(s) ==
    \A i, j \in DOMAIN s :
        s[i].op \in PushOps /\ s[j].op \in PushOps /\ s[i].push = s[j].push => i = j

\* Whether there is a message of that kind, and not two.
Has(s, op) == \E i \in DOMAIN s : s[i].op = op
One(s, op) == \A i, j \in DOMAIN s : s[i].op = op /\ s[j].op = op => i = j

LEMMA EmptyMessages ==
    /\ InFlight(<<>>) = {} /\ OnceInFlight(<<>>)
    /\ \A op : ~Has(<<>>, op) /\ One(<<>>, op)
BY DEF InFlight, OnceInFlight, Has, One

LEMMA AppendMessage ==
    ASSUME NEW M, NEW s \in Seq(M), NEW m \in M
    PROVE  /\ InFlight(Append(s, m)) = InFlight(s) \cup (IF m.op \in PushOps THEN {m.push} ELSE {})
           /\ OnceInFlight(s) /\ (m.op \in PushOps => m.push \notin InFlight(s))
              => OnceInFlight(Append(s, m))
           /\ \A op : Has(Append(s, m), op) <=> Has(s, op) \/ m.op = op
           /\ \A op : One(s, op) /\ (m.op = op => ~Has(s, op)) => One(Append(s, m), op)
<1> DEFINE t == Append(s, m)
<1>1. /\ DOMAIN s = 1 .. Len(s) /\ Len(s) \in Nat
      /\ DOMAIN t = 1 .. Len(s) + 1
      /\ \A i \in 1 .. Len(s) : t[i] = s[i]
      /\ t[Len(s) + 1] = m
  BY AppendProperties, LenProperties
<1> HIDE DEF t
<1>2. /\ 1 .. Len(s) + 1 = 1 .. Len(s) \cup {Len(s) + 1}
      /\ Len(s) + 1 \notin 1 .. Len(s)
  BY <1>1
<1>3. InFlight(t) = InFlight(s) \cup (IF m.op \in PushOps THEN {m.push} ELSE {})
  BY <1>1, <1>2 DEF InFlight
<1>4. OnceInFlight(s) /\ (m.op \in PushOps => m.push \notin InFlight(s)) => OnceInFlight(t)
  <2>1. SUFFICES ASSUME OnceInFlight(s), m.op \in PushOps => m.push \notin InFlight(s),
                        NEW i \in 1 .. Len(s) + 1, NEW j \in 1 .. Len(s) + 1,
                        t[i].op \in PushOps, t[j].op \in PushOps, t[i].push = t[j].push
                 PROVE  i = j
    BY <1>1 DEF OnceInFlight
  <2>2. \A k \in 1 .. Len(s) : s[k].op \in PushOps => s[k].push \in InFlight(s)
    BY <1>1 DEF InFlight
  <2>3. CASE i \in 1 .. Len(s) /\ j \in 1 .. Len(s)
    BY <1>1, <2>1, <2>3 DEF OnceInFlight
  <2>4. CASE i = Len(s) + 1 \/ j = Len(s) + 1
    BY <1>1, <1>2, <2>1, <2>2, <2>4
  <2>5. QED
    BY <1>2, <2>3, <2>4
<1>5. \A op : Has(t, op) <=> Has(s, op) \/ m.op = op
  BY <1>1, <1>2, Zenon DEF Has
<1>6. \A op : One(s, op) /\ (m.op = op => ~Has(s, op)) => One(t, op)
  <2>1. SUFFICES ASSUME NEW op, One(s, op), m.op = op => ~Has(s, op),
                        NEW i \in 1 .. Len(s) + 1, NEW j \in 1 .. Len(s) + 1,
                        t[i].op = op, t[j].op = op
                 PROVE  i = j
    BY <1>1 DEF One
  <2>2. CASE i \in 1 .. Len(s) /\ j \in 1 .. Len(s)
    BY <1>1, <2>1, <2>2 DEF One
  <2>3. CASE i = Len(s) + 1 \/ j = Len(s) + 1
    BY <1>1, <1>2, <2>1, <2>3 DEF Has
  <2>4. QED
    BY <1>2, <2>2, <2>3
<1>7. QED
  BY <1>3, <1>4, <1>5, <1>6 DEF t

LEMMA TailMessage ==
    ASSUME NEW M, NEW s \in Seq(M), s # <<>>
    PROVE  /\ InFlight(s) = InFlight(Tail(s))
                            \cup (IF Head(s).op \in PushOps THEN {Head(s).push} ELSE {})
           /\ OnceInFlight(s) => /\ OnceInFlight(Tail(s))
                                 /\ Head(s).op \in PushOps => Head(s).push \notin InFlight(Tail(s))
           /\ \A op : Has(s, op) <=> Has(Tail(s), op) \/ Head(s).op = op
           /\ \A op : One(s, op) => One(Tail(s), op) /\ (Head(s).op = op => ~Has(Tail(s), op))
<1> DEFINE t == Tail(s)
           m == Head(s)
           Up(i) == i + 1
<1>1. /\ DOMAIN s = 1 .. Len(s) /\ Len(s) \in Nat \ {0}
      /\ DOMAIN t = 1 .. Len(s) - 1
      /\ \A i \in 1 .. Len(s) - 1 : t[i] = s[Up(i)]
      /\ m = s[1]
  BY HeadTailProperties, LenProperties, EmptySeq
<1>2. /\ \A i \in 1 .. Len(s) : i = 1 \/ \E j \in 1 .. Len(s) - 1 : i = Up(j)
      /\ \A i \in 1 .. Len(s) - 1 : Up(i) \in 1 .. Len(s) /\ Up(i) # 1
      /\ \A i, j \in 1 .. Len(s) - 1 : Up(i) = Up(j) => i = j
      /\ 1 \in 1 .. Len(s)
  <2>1. ASSUME NEW i \in 1 .. Len(s), i # 1
        PROVE  i - 1 \in 1 .. Len(s) - 1 /\ i = Up(i - 1)
    BY <1>1, <2>1
  <2>2. QED
    BY <1>1, <2>1
<1> HIDE DEF t, m, Up
<1>3. /\ \A x \in InFlight(t) : \E i \in 1 .. Len(s) - 1 : t[i].op \in PushOps /\ x = t[i].push
      /\ \A i \in 1 .. Len(s) - 1 : t[i].op \in PushOps => t[i].push \in InFlight(t)
      /\ \A x \in InFlight(s) : \E i \in 1 .. Len(s) : s[i].op \in PushOps /\ x = s[i].push
      /\ \A i \in 1 .. Len(s) : s[i].op \in PushOps => s[i].push \in InFlight(s)
  BY <1>1 DEF InFlight
<1>4. InFlight(s) = InFlight(t) \cup (IF m.op \in PushOps THEN {m.push} ELSE {})
  <2>1. ASSUME NEW x \in InFlight(s)
        PROVE  x \in InFlight(t) \cup (IF m.op \in PushOps THEN {m.push} ELSE {})
    <3>1. PICK i \in 1 .. Len(s) : s[i].op \in PushOps /\ x = s[i].push
      BY <1>3
    <3>2. CASE i = 1
      BY <1>1, <3>1, <3>2
    <3>3. CASE \E j \in 1 .. Len(s) - 1 : i = Up(j)
      BY <1>1, <1>3, <3>1, <3>3
    <3>4. QED
      BY <1>2, <3>2, <3>3
  <2>2. ASSUME NEW x \in InFlight(t)
        PROVE  x \in InFlight(s)
    <3>1. PICK i \in 1 .. Len(s) - 1 : t[i].op \in PushOps /\ x = t[i].push
      BY <1>3
    <3>2. Up(i) \in 1 .. Len(s) /\ s[Up(i)] = t[i]
      BY <1>1, <1>2
    <3>3. QED
      BY <1>3, <3>1, <3>2
  <2>3. m.op \in PushOps => m.push \in InFlight(s)
    BY <1>1, <1>2, <1>3
  <2>4. QED
    BY <2>1, <2>2, <2>3
<1>5. OnceInFlight(s) => /\ OnceInFlight(t)
                         /\ m.op \in PushOps => m.push \notin InFlight(t)
  <2>1. SUFFICES ASSUME OnceInFlight(s)
                 PROVE  /\ OnceInFlight(t)
                        /\ m.op \in PushOps => m.push \notin InFlight(t)
    OBVIOUS
  <2>2. \A i, j \in 1 .. Len(s) - 1 :
           t[i].op \in PushOps /\ t[j].op \in PushOps /\ t[i].push = t[j].push => Up(i) = Up(j)
    BY <1>1, <1>2, <2>1 DEF OnceInFlight
  <2>3. OnceInFlight(t)
    BY <1>1, <1>2, <2>2 DEF OnceInFlight
  <2>4. \A i \in 1 .. Len(s) - 1 :
           t[i].op \in PushOps /\ m.op \in PushOps /\ t[i].push = m.push => Up(i) = 1
    BY <1>1, <1>2, <2>1 DEF OnceInFlight
  <2>5. QED
    BY <1>2, <1>3, <2>3, <2>4
<1>6. \A op : Has(s, op) <=> Has(t, op) \/ m.op = op
  <2>1. SUFFICES ASSUME NEW op
                 PROVE  Has(s, op) <=> Has(t, op) \/ m.op = op
    OBVIOUS
  <2>2. ASSUME Has(s, op)
        PROVE  Has(t, op) \/ m.op = op
    <3>1. PICK i \in 1 .. Len(s) : s[i].op = op
      BY <1>1, <2>2 DEF Has
    <3>2. CASE i = 1
      BY <1>1, <3>1, <3>2
    <3>3. CASE \E j \in 1 .. Len(s) - 1 : i = Up(j)
      BY <1>1, <3>1, <3>3 DEF Has
    <3>4. QED
      BY <1>2, <3>2, <3>3
  <2>3. ASSUME Has(t, op) \/ m.op = op
        PROVE  Has(s, op)
    BY <1>1, <1>2, <2>3 DEF Has
  <2>4. QED
    BY <2>2, <2>3
<1>7. \A op : One(s, op) => One(t, op) /\ (m.op = op => ~Has(t, op))
  <2>1. SUFFICES ASSUME NEW op, One(s, op)
                 PROVE  One(t, op) /\ (m.op = op => ~Has(t, op))
    OBVIOUS
  <2>2. \A i, j \in 1 .. Len(s) - 1 : t[i].op = op /\ t[j].op = op => Up(i) = Up(j)
    BY <1>1, <1>2, <2>1 DEF One
  <2>3. One(t, op)
    <3>1. SUFFICES ASSUME NEW i \in 1 .. Len(s) - 1, NEW j \in 1 .. Len(s) - 1,
                          t[i].op = op, t[j].op = op
                   PROVE  i = j
      BY <1>1 DEF One
    <3>2. Up(i) = Up(j)
      BY <2>2, <3>1
    <3>3. QED
      BY <1>2, <3>2
  <2>4. \A i \in 1 .. Len(s) - 1 : t[i].op = op /\ m.op = op => Up(i) = 1
    BY <1>1, <1>2, <2>1 DEF One
  <2>5. QED
    BY <1>1, <1>2, <2>3, <2>4 DEF Has
<1>8. QED
  BY <1>4, <1>5, <1>6, <1>7 DEF t, m

-----------------------------------------------------------------------------
(* Types.                                                                  *)

\* The client's steps for any caller: it may join from any seq.
ClientNext == Next \/ \E from \in Nat : Join(from)

LEMMA RequestLemma ==
    /\ \A m \in Requests : /\ m.op \in {"push", "join", "rejoin"}
                           /\ m.op = "push" => m.push \in Push
                           /\ m.op # "push" => m.since \in Nat
    /\ \A p \in Push : [op |-> "push", push |-> p] \in Requests
    /\ \A n \in Nat : /\ [op |-> "join", since |-> n] \in Requests
                      /\ [op |-> "rejoin", since |-> n] \in Requests
BY DEF Requests

LEMMA AnswerLemma ==
    /\ \A m \in Answers : /\ m.op \in {"pushed", "refused", "join", "rejoin", "pull"}
                          /\ m.op \in {"pushed", "refused"} => m.push \in Push
                          /\ m.op # "refused" => m.seq \in Nat
                          /\ m.op \in {"join", "rejoin"} => m.since \in Nat
    /\ \A p \in Push : [op |-> "refused", push |-> p] \in Answers
    /\ \A p \in Push, n \in Nat : [op |-> "pushed", push |-> p, seq |-> n] \in Answers
    /\ \A n \in Nat : [op |-> "pull", seq |-> n] \in Answers
    /\ \A o \in {"join", "rejoin"}, k, n \in Nat : [op |-> o, since |-> k, seq |-> n] \in Answers
BY DEF Answers

LEMMA SendType ==
    ASSUME NEW p \in Push, NEW sent \in Seq(Push), NEW line \in Seq(Requests),
           NEW greeted \in BOOLEAN, stray \subseteq Push, Send(p, sent, line, greeted)
    PROVE  pending' \in Seq(Push) /\ up' \in Seq(Requests) /\ stray' \subseteq Push
<1>1. Append(sent, p) \in Seq(Push)
  BY AppendProperties
<1>2. Append(line, [op |-> "push", push |-> p]) \in Seq(Requests)
  BY RequestLemma, AppendProperties
<1>3. QED
  BY <1>1, <1>2 DEF Send

LEMMA FlushType ==
    ASSUME NEW queued \in Seq(Push), NEW sent \in Seq(Push), NEW line \in Seq(Requests),
           NEW greeted \in BOOLEAN, stray \subseteq Push, Flush(queued, sent, line, greeted)
    PROVE  /\ queue' \in Seq(Push) /\ pending' \in Seq(Push) /\ flushing' \in Push \cup {None}
           /\ up' \in Seq(Requests) /\ stray' \subseteq Push
<1>1. CASE queued = <<>>
  BY <1>1 DEF Flush
<1>2. CASE queued # <<>>
  <2>1. Head(queued) \in Push /\ Tail(queued) \in Seq(Push)
    BY <1>2, TailLemma
  <2>2. /\ Send(Head(queued), sent, line, greeted)
        /\ queue' = Tail(queued) /\ flushing' = Head(queued)
    BY <1>2 DEF Flush
  <2>3. QED
    BY <2>1, <2>2, SendType
<1>3. QED
  BY <1>1, <1>2

LEMMA HigherType ==
    ASSUME lastSeq \in Nat, NEW n \in Nat
    PROVE  Higher(n) \in Nat /\ Higher(n) >= n /\ Higher(n) >= lastSeq /\ Higher(n) \in {n, lastSeq}
BY DEF Higher

LEMMA TypeStep ==
    ASSUME TypeOK, Once(pending), ClientNext
    PROVE  TypeOK'
<1> USE SyncClientAssumption
<1>1. ASSUME NEW p \in Push, MakePush(p)
      PROVE  TypeOK'
  <2>1. fate' \in [Push -> Fates] /\ waited' \subseteq Push
    BY <1>1 DEF MakePush, TypeOK, Fates
  <2>2. /\ queue' \in Seq(Push) /\ pending' \in Seq(Push) /\ up' \in Seq(Requests)
        /\ stray' \subseteq Push
    <3>1. CASE Send(p, pending, up, state = "online") /\ UNCHANGED queue
      BY <3>1, SendType DEF TypeOK
    <3>2. CASE /\ queue' = IF ready THEN <<p>> \o queue ELSE Append(queue, p)
               /\ UNCHANGED <<pending, up, stray>>
      <4>1. <<p>> \o queue \in Seq(Push) /\ Append(queue, p) \in Seq(Push)
        BY ConcatProperties, AppendProperties DEF TypeOK
      <4>2. QED
        BY <3>2, <4>1 DEF TypeOK
    <3>3. QED
      BY <1>1, <3>1, <3>2 DEF MakePush
  <2>3. QED
    BY <1>1, <2>1, <2>2 DEF MakePush, TypeOK, connection, following, server
<1>2. ASSUME OpenConnection
      PROVE  TypeOK'
  BY <1>2 DEF OpenConnection, TypeOK, following, pushing, server
<1>3. ASSUME SendHello
      PROVE  TypeOK'
  <2>1. CASE /\ greeting' = "rejoin" /\ up' = Append(up, [op |-> "rejoin", since |-> lastSeq])
             /\ UNCHANGED <<ready, pushing>>
    <3>1. up' \in Seq(Requests)
      BY <2>1, RequestLemma, AppendProperties DEF TypeOK
    <3>2. QED
      BY <1>3, <2>1, <3>1 DEF SendHello, TypeOK, following, pushing, server
  <2>2. CASE greeting' = "none" /\ ready' = TRUE /\ Flush(queue, pending, up, TRUE)
    <3>1. /\ queue' \in Seq(Push) /\ pending' \in Seq(Push) /\ flushing' \in Push \cup {None}
          /\ up' \in Seq(Requests) /\ stray' \subseteq Push
      BY <2>2, FlushType DEF TypeOK
    <3>2. QED
      BY <1>3, <2>2, <3>1 DEF SendHello, TypeOK, following, server
  <2>3. QED
    BY <1>3, <2>1, <2>2 DEF SendHello
<1>4. ASSUME HandleDisconnect
      PROVE  TypeOK'
  <2>1. /\ Requeued \in Seq(Push) /\ <<>> \in Seq(Push)
        /\ <<>> \in Seq(Requests) /\ <<>> \in Seq(Answers)
    BY ConcatProperties, EmptySeq DEF Requeued, TypeOK
  <2>2. /\ queue' \in Seq(Push) /\ pending' \in Seq(Push) /\ flushing' \in Push \cup {None}
        /\ up' \in Seq(Requests) /\ stray' \subseteq Push
    <3>1. CASE Flush(Requeued, <<>>, <<>>, FALSE)
      BY <2>1, <3>1, FlushType DEF TypeOK
    <3>2. CASE ~Flush(Requeued, <<>>, <<>>, FALSE)
      BY <1>4, <2>1, <3>2 DEF HandleDisconnect, TypeOK
    <3>3. QED
      BY <3>1, <3>2
  <2>3. ready' \in BOOLEAN
    BY <1>4, Zenon DEF HandleDisconnect
  <2>4. drops' \in Nat
    BY <1>4 DEF HandleDisconnect, TypeOK
  <2>5. QED
    BY <1>4, <2>1, <2>2, <2>3, <2>4 DEF HandleDisconnect, TypeOK
<1>5. ASSUME Close
      PROVE  TypeOK'
  <2>1. <<>> \in Seq(Push) /\ <<>> \in Seq(Requests) /\ <<>> \in Seq(Answers)
    BY EmptySeq
  <2>2. fate' \in [Push -> Fates]
    BY <1>5 DEF Close, TypeOK, Fates
  <2>3. QED
    BY <1>5, <2>1, <2>2 DEF Close, TypeOK
<1>6. ASSUME NEW from \in Nat, Join(from)
      PROVE  TypeOK'
  <2>1. up' \in Seq(Requests)
    BY <1>6, RequestLemma, AppendProperties DEF Join, TypeOK
  <2>2. QED
    BY <1>6, <2>1 DEF Join, TypeOK, connection, pushing, server
<1>7. ASSUME Leave
      PROVE  TypeOK'
  BY <1>7 DEF Leave, TypeOK, connection, pushing
<1>8. ASSUME HandleJoined
      PROVE  TypeOK'
  <2>1. Head(down) \in Answers /\ down' \in Seq(Answers)
    BY <1>8, TailLemma DEF HandleJoined, TypeOK
  <2>2. Head(down).seq \in Nat /\ Head(down).since \in Nat
    BY <1>8, <2>1, AnswerLemma DEF HandleJoined
  <2>3. lastSeq' \in Nat
    BY <1>8, <2>2, HigherType DEF HandleJoined, TypeOK
  <2>4. heard' \subseteq Nat
    <3>1. heard' = heard \cup (Head(down).since + 1 .. Head(down).seq)
      BY <1>8 DEF HandleJoined
    <3>2. Head(down).since + 1 .. Head(down).seq \subseteq Nat
      BY <2>2
    <3>3. QED
      BY <3>1, <3>2 DEF TypeOK
  <2>5. CASE Head(down).op = "join"
    BY <1>8, <2>1, <2>3, <2>4, <2>5 DEF HandleJoined, TypeOK, server, pushing
  <2>6. CASE Head(down).op = "rejoin"
    <3>1. /\ Flush(queue, pending, up, TRUE)
          /\ greeting' = "none" /\ ready' = TRUE /\ UNCHANGED <<joining, relaying>>
      BY <1>8, <2>6 DEF HandleJoined
    <3>2. /\ queue' \in Seq(Push) /\ pending' \in Seq(Push) /\ flushing' \in Push \cup {None}
          /\ up' \in Seq(Requests) /\ stray' \subseteq Push
      BY <3>1, FlushType DEF TypeOK
    <3>3. QED
      BY <1>8, <2>1, <2>3, <2>4, <3>1, <3>2 DEF HandleJoined, TypeOK, server
  <2>7. QED
    BY <1>8, <2>5, <2>6 DEF HandleJoined
<1>9. ASSUME HandlePull
      PROVE  TypeOK'
  <2>1. Head(down) \in Answers /\ down' \in Seq(Answers)
    BY <1>9, TailLemma DEF HandlePull, TypeOK
  <2>2. Head(down).seq \in Nat
    BY <1>9, <2>1, AnswerLemma DEF HandlePull
  <2>3. lastSeq' \in Nat /\ heard' \subseteq Nat
    BY <1>9, <2>2, HigherType DEF HandlePull, TypeOK
  <2>4. QED
    BY <1>9, <2>1, <2>3 DEF HandlePull, TypeOK, connection, pushing, server
<1>10. ASSUME HandlePushed
       PROVE  TypeOK'
  <2>1. Head(down) \in Answers /\ down' \in Seq(Answers)
    BY <1>10, TailLemma DEF HandlePushed, TypeOK
  <2>2. Answered \in Push /\ (Head(down).op = "pushed" => Head(down).seq \in Nat)
    BY <1>10, <2>1, AnswerLemma DEF HandlePushed, Answered
  <2>3. lastSeq' \in Nat /\ heard' \subseteq Nat
    <3>1. CASE Head(down).op = "pushed"
      BY <1>10, <2>2, <3>1, HigherType DEF HandlePushed, TypeOK
    <3>2. CASE Head(down).op # "pushed"
      BY <1>10, <3>2 DEF HandlePushed, TypeOK
    <3>3. QED
      BY <3>1, <3>2
  <2>4. fate' \in [Push -> Fates]
    BY <1>10 DEF HandlePushed, TypeOK, Fates
  <2> DEFINE rest == RemoveFirst(pending, Answered)
  <2>5. rest \in Seq(Push)
    BY RemoveLemma DEF TypeOK
  <2> HIDE DEF rest
  <2>6. /\ queue' \in Seq(Push) /\ pending' \in Seq(Push) /\ flushing' \in Push \cup {None}
        /\ up' \in Seq(Requests) /\ stray' \subseteq Push
    <3>1. CASE Flush(queue, rest, up, TRUE)
      BY <2>5, <3>1, FlushType DEF TypeOK
    <3>2. CASE pending' = rest /\ UNCHANGED <<queue, flushing, up, stray>>
      BY <2>5, <3>2 DEF TypeOK
    <3>3. QED
      BY <1>10, <3>1, <3>2 DEF HandlePushed, rest
  <2>7. QED
    BY <1>10, <2>1, <2>3, <2>4, <2>6 DEF HandlePushed, TypeOK, connection, server
<1>11. ASSUME ServerTakes
       PROVE  TypeOK'
  <2>1. Head(up) \in Requests /\ up' \in Seq(Requests)
    BY <1>11, TailLemma DEF ServerTakes, TypeOK
  <2>2. Head(up).push \in Push
    BY <1>11, <2>1, RequestLemma DEF ServerTakes
  <2>3. room' \in Seq(Push \cup {None}) /\ Len(room') \in Nat
    BY <1>11, <2>2, AppendProperties, LenProperties DEF ServerTakes, TypeOK
  <2>4. down' \in Seq(Answers)
    BY <1>11, <2>2, <2>3, AnswerLemma, AppendProperties DEF ServerTakes, TypeOK
  <2>5. QED
    BY <1>11, <2>1, <2>3, <2>4 DEF ServerTakes, TypeOK, connection, following, pushing
<1>12. ASSUME ServerRefuses
       PROVE  TypeOK'
  <2>1. Head(up) \in Requests /\ up' \in Seq(Requests)
    BY <1>12, TailLemma DEF ServerRefuses, TypeOK
  <2>2. Head(up).push \in Push
    BY <1>12, <2>1, RequestLemma DEF ServerRefuses
  <2>3. down' \in Seq(Answers)
    BY <1>12, <2>2, AnswerLemma, AppendProperties DEF ServerRefuses, TypeOK
  <2>4. QED
    BY <1>12, <2>1, <2>3 DEF ServerRefuses, TypeOK, connection, following, pushing
<1>13. ASSUME ServerJoins
       PROVE  TypeOK'
  <2>1. Head(up) \in Requests /\ up' \in Seq(Requests)
    BY <1>13, TailLemma DEF ServerJoins, TypeOK
  <2>2. Head(up).since \in Nat /\ Head(up).op \in {"join", "rejoin"} /\ Len(room) \in Nat
    BY <1>13, <2>1, RequestLemma, LenProperties DEF ServerJoins, TypeOK
  <2>3. down' \in Seq(Answers)
    BY <1>13, <2>2, AnswerLemma, AppendProperties DEF ServerJoins, TypeOK
  <2>4. QED
    BY <1>13, <2>1, <2>3 DEF ServerJoins, TypeOK, connection, following, pushing
<1>14. ASSUME OtherChanges
       PROVE  TypeOK'
  <2>1. room' \in Seq(Push \cup {None}) /\ Len(room') \in Nat
    BY <1>14, AppendProperties, LenProperties DEF OtherChanges, TypeOK
  <2>2. down' \in Seq(Answers)
    BY <1>14, <2>1, AnswerLemma, AppendProperties DEF OtherChanges, TypeOK
  <2>3. QED
    BY <1>14, <2>1, <2>2 DEF OtherChanges, TypeOK, connection, following, pushing
<1>15. QED
  BY <1>1, <1>2, <1>3, <1>4, <1>5, <1>6, <1>7, <1>8, <1>9, <1>10, <1>11, <1>12, <1>13, <1>14
     DEF ClientNext, Next

LEMMA TypeInit == Init => TypeOK
<1>1. /\ <<>> \in Seq(Push) /\ <<>> \in Seq(Requests) /\ <<>> \in Seq(Answers)
      /\ <<>> \in Seq(Push \cup {None})
  BY EmptySeq
<1>2. ASSUME Init
      PROVE  [p \in Push |-> "unmade"] \in [Push -> Fates]
  BY DEF Fates
<1>3. ASSUME Init
      PROVE  TypeOK
  <2>1. /\ queue \in Seq(Push) /\ pending \in Seq(Push) /\ up \in Seq(Requests)
        /\ down \in Seq(Answers) /\ room \in Seq(Push \cup {None}) /\ fate \in [Push -> Fates]
    BY <1>1, <1>2, <1>3, Zenon DEF Init
  <2>2. QED
    BY <1>3, <2>1 DEF Init, TypeOK
<1>4. QED
  BY <1>3

-----------------------------------------------------------------------------
(* Pushes and their messages.                                              *)

Open == {p \in Push : fate[p] = "open"}

\* What is sent into anything but a connection the server has greeted goes nowhere.
Connected ==
    /\ state = "offline" <=> transport # "up"
    /\ state = "connecting" <=> greeting = "hello"
    /\ state # "online" => up = <<>> /\ down = <<>> /\ ~member
    /\ closed => state = "offline"

\* The open pushes wait or were sent, each once.
Kept(queued, sent, open) ==
    /\ Once(queued) /\ Once(sent)
    /\ Range(queued) \cap Range(sent) = {}
    /\ Range(queued) \cup Range(sent) = open

\* The messages are of pushes that were sent, one for each at most.
Carried(sent, line, answers) ==
    /\ OnceInFlight(line) /\ OnceInFlight(answers)
    /\ InFlight(line) \cap InFlight(answers) = {}
    /\ InFlight(line) \cup InFlight(answers) \subseteq Range(sent)

\* What was taken, or is answered so, is in the room.
Recorded ==
    /\ \A p \in Push : fate[p] = "taken" => p \in Range(room)
    /\ \A i \in DOMAIN down : down[i].op = "pushed" => down[i].push \in Range(room)

\* Pushes are made in their order, and only those that were made wait or are in the room.
MadeInOrder ==
    /\ \A p, q \in Push : q < p /\ fate[q] = "unmade" => fate[p] = "unmade"
    /\ \A p \in Push : p \in waited \/ p \in Range(room) => fate[p] # "unmade"

\* The same joins are among both lines of messages.
SameJoins(line, longer) ==
    \A op \in {"join", "rejoin"} :
        /\ Has(longer, op) <=> Has(line, op)
        /\ One(line, op) => One(longer, op)

PushesOK ==
    /\ Connected
    /\ Kept(queue, pending, Open)
    /\ Carried(pending, up, down)
    /\ Recorded
    /\ MadeInOrder

LEMMA AskLemma ==
    ASSUME NEW line \in Seq(Requests), NEW o \in {"join", "rejoin"}, NEW n \in Nat,
           NEW m, m = [op |-> o, since |-> n]
    PROVE  /\ Append(line, m) \in Seq(Requests)
           /\ InFlight(Append(line, m)) = InFlight(line)
           /\ OnceInFlight(line) => OnceInFlight(Append(line, m))
           /\ \A op : Has(Append(line, m), op) <=> Has(line, op) \/ op = o
           /\ \A op : One(line, op) /\ (op = o => ~Has(line, op)) => One(Append(line, m), op)
<1>1. m \in Requests /\ m.op = o /\ m.op \notin PushOps
  BY RequestLemma DEF PushOps
<1>2. /\ InFlight(Append(line, m)) = InFlight(line) \cup (IF m.op \in PushOps THEN {m.push} ELSE {})
      /\ OnceInFlight(line) /\ (m.op \in PushOps => m.push \notin InFlight(line))
         => OnceInFlight(Append(line, m))
      /\ \A op : Has(Append(line, m), op) <=> Has(line, op) \/ m.op = op
      /\ \A op : One(line, op) /\ (m.op = op => ~Has(line, op)) => One(Append(line, m), op)
  BY <1>1, AppendMessage
<1>3. Append(line, m) \in Seq(Requests)
  BY <1>1, AppendProperties
<1>4. QED
  BY <1>1, <1>2, <1>3

LEMMA SendKept ==
    ASSUME NEW p \in Push, NEW queued, NEW sent \in Seq(Push), NEW line, NEW greeted, NEW open,
           p \notin Range(queued), p \notin Range(sent), Kept(queued, sent, open),
           Send(p, sent, line, greeted)
    PROVE  Kept(queued, pending', open \cup {p})
<1>1. pending' = Append(sent, p)
  BY DEF Send
<1>2. Range(pending') = Range(sent) \cup {p} /\ Once(pending')
  BY <1>1, AppendLemma DEF Kept
<1>3. QED
  BY <1>2 DEF Kept

LEMMA SendCarried ==
    ASSUME NEW p \in Push, NEW sent \in Seq(Push), NEW line \in Seq(Requests), NEW answers,
           NEW greeted \in BOOLEAN, p \notin Range(sent), Carried(sent, line, answers),
           Send(p, sent, line, greeted)
    PROVE  /\ Carried(pending', up', answers)
           /\ IF greeted THEN InFlight(up') = InFlight(line) \cup {p} /\ stray' = stray
                         ELSE up' = line /\ stray' = stray \cup {p}
           /\ Range(pending') = Range(sent) \cup {p}
           /\ SameJoins(line, up')
<1> DEFINE m == [op |-> "push", push |-> p]
<1>1. /\ pending' = Append(sent, p)
      /\ up' = IF greeted THEN Append(line, m) ELSE line
      /\ stray' = IF greeted THEN stray ELSE stray \cup {p}
  BY DEF Send
<1>2. Range(pending') = Range(sent) \cup {p}
  BY <1>1, AppendLemma
<1>3. m \in Requests /\ m.op = "push" /\ m.push = p
  BY RequestLemma
<1> HIDE DEF m
<1>4. CASE greeted
  <2>1. /\ InFlight(Append(line, m)) = InFlight(line) \cup {p}
        /\ p \notin InFlight(line) => OnceInFlight(Append(line, m))
        /\ SameJoins(line, Append(line, m))
    BY <1>3, AppendMessage DEF PushOps, Carried, SameJoins
  <2>2. Carried(pending', up', answers)
    BY <1>1, <1>2, <1>4, <2>1 DEF Carried
  <2>3. QED
    BY <1>1, <1>2, <1>4, <2>1, <2>2
<1>5. CASE ~greeted
  BY <1>1, <1>2, <1>5 DEF Carried, SameJoins
<1>6. QED
  BY <1>4, <1>5

LEMMA FlushKeeps ==
    ASSUME NEW queued \in Seq(Push), NEW sent \in Seq(Push), NEW line \in Seq(Requests),
           NEW answers, NEW greeted \in BOOLEAN, NEW open,
           Kept(queued, sent, open), Carried(sent, line, answers),
           Flush(queued, sent, line, greeted)
    PROVE  /\ Kept(queue', pending', open)
           /\ Carried(pending', up', answers)
           /\ ~greeted => up' = line
           /\ SameJoins(line, up')
<1>1. CASE queued = <<>>
  BY <1>1 DEF Flush, SameJoins
<1>2. CASE queued # <<>>
  <2>1. /\ Head(queued) \in Push /\ Tail(queued) \in Seq(Push)
        /\ Range(queued) = Range(Tail(queued)) \cup {Head(queued)}
        /\ Once(Tail(queued)) /\ Head(queued) \notin Range(Tail(queued))
    BY <1>2, TailLemma DEF Kept
  <2>2. /\ Send(Head(queued), sent, line, greeted)
        /\ queue' = Tail(queued)
    BY <1>2 DEF Flush
  <2>3. Kept(Tail(queued), sent, open \ {Head(queued)}) /\ Head(queued) \notin Range(sent)
    BY <2>1 DEF Kept
  <2>4. Kept(Tail(queued), pending', (open \ {Head(queued)}) \cup {Head(queued)})
    BY <2>1, <2>2, <2>3, SendKept
  <2>5. /\ Carried(pending', up', answers)
        /\ IF greeted THEN InFlight(up') = InFlight(line) \cup {Head(queued)} /\ stray' = stray
                      ELSE up' = line /\ stray' = stray \cup {Head(queued)}
        /\ SameJoins(line, up')
    BY <2>1, <2>2, <2>3, SendCarried
  <2>6. (open \ {Head(queued)}) \cup {Head(queued)} = open
    BY <2>1 DEF Kept
  <2>7. QED
    BY <2>2, <2>4, <2>5, <2>6
<1>3. QED
  BY <1>1, <1>2

\* What the head of the answers leaves when it is handled.
LEMMA AnswerTaken ==
    ASSUME TypeOK, PushesOK, down # <<>>
    PROVE  /\ Head(down) \in Answers /\ Tail(down) \in Seq(Answers) /\ state = "online"
           /\ Head(down).op \in {"pushed", "refused"}
              => /\ Answered \in Range(pending) /\ Answered \in InFlight(down)
                 /\ Answered \notin InFlight(Tail(down)) /\ Answered \notin InFlight(up)
                 /\ InFlight(down) = InFlight(Tail(down)) \cup {Answered}
                 /\ Head(down).op = "pushed" => Answered \in Range(room)
           /\ Head(down).op \notin {"pushed", "refused"} => InFlight(Tail(down)) = InFlight(down)
           /\ OnceInFlight(Tail(down))
           /\ Carried(pending, up, Tail(down))
           /\ \A i \in DOMAIN Tail(down) : i + 1 \in DOMAIN down /\ Tail(down)[i] = down[i + 1]
<1>1. Head(down) \in Answers /\ Tail(down) \in Seq(Answers) /\ state = "online"
  BY TailLemma DEF TypeOK, PushesOK, Connected
<1>2. /\ InFlight(down) = InFlight(Tail(down))
                          \cup (IF Head(down).op \in PushOps THEN {Head(down).push} ELSE {})
      /\ OnceInFlight(Tail(down))
      /\ Head(down).op \in PushOps => Head(down).push \notin InFlight(Tail(down))
  BY TailMessage DEF TypeOK, PushesOK, Carried
<1>3. Head(down).op \in PushOps <=> Head(down).op \in {"pushed", "refused"}
  BY <1>1, AnswerLemma DEF PushOps
<1>4. /\ 1 \in DOMAIN down /\ Head(down) = down[1]
      /\ \A i \in DOMAIN Tail(down) : i + 1 \in DOMAIN down /\ Tail(down)[i] = down[i + 1]
  BY HeadTailProperties, LenProperties, EmptySeq DEF TypeOK
<1>5. Carried(pending, up, Tail(down))
  BY <1>2 DEF PushesOK, Carried
<1>6. QED
  BY <1>1, <1>2, <1>3, <1>4, <1>5 DEF PushesOK, Carried, Recorded, Answered

\* What the head of the requests leaves, and what is added to the answers for it.
LEMMA RequestServed ==
    ASSUME TypeOK, PushesOK, up # <<>>, NEW m \in Answers,
           m.op \in PushOps <=> Head(up).op = "push", Head(up).op = "push" => m.push = Head(up).push
    PROVE  /\ Head(up) \in Requests /\ Tail(up) \in Seq(Requests) /\ state = "online"
           /\ Head(up).op = "push"
              => Head(up).push \in Range(pending) /\ fate[Head(up).push] = "open"
           /\ Carried(pending, Tail(up), Append(down, m))
           /\ InFlight(Tail(up)) \cup InFlight(Append(down, m)) = InFlight(up) \cup InFlight(down)
<1>1. Head(up) \in Requests /\ Tail(up) \in Seq(Requests) /\ state = "online"
  BY TailLemma DEF TypeOK, PushesOK, Connected
<1>2. Head(up).op \in PushOps <=> Head(up).op = "push"
  BY <1>1, RequestLemma DEF PushOps
<1>3. /\ InFlight(up)
         = InFlight(Tail(up)) \cup (IF Head(up).op = "push" THEN {Head(up).push} ELSE {})
      /\ OnceInFlight(Tail(up))
      /\ Head(up).op = "push" => Head(up).push \notin InFlight(Tail(up))
  BY <1>2, TailMessage DEF TypeOK, PushesOK, Carried
<1>4. /\ InFlight(Append(down, m))
         = InFlight(down) \cup (IF Head(up).op = "push" THEN {Head(up).push} ELSE {})
      /\ (Head(up).op = "push" => Head(up).push \notin InFlight(down))
         => OnceInFlight(Append(down, m))
  BY AppendMessage DEF TypeOK, PushesOK, Carried
<1>5. /\ InFlight(up) \cap InFlight(down) = {}
      /\ InFlight(up) \cup InFlight(down) \subseteq Range(pending)
      /\ Range(pending) \subseteq Open
  BY DEF PushesOK, Carried, Kept
<1>6. Carried(pending, Tail(up), Append(down, m))
  BY <1>3, <1>4, <1>5 DEF Carried
<1>7. QED
  BY <1>1, <1>3, <1>4, <1>5, <1>6 DEF Open

LEMMA PushesMade ==
    ASSUME TypeOK, PushesOK, NEW p \in Push, MakePush(p)
    PROVE  PushesOK'
<1>1. /\ fate[p] = "unmade" /\ \A q \in Push : q < p => fate[q] # "unmade"
      /\ fate' = [fate EXCEPT ![p] = "open"]
      /\ waited' = IF ready THEN waited ELSE waited \cup {p}
      /\ UNCHANGED <<state, transport, greeting, closed, member, down, room>>
  BY DEF MakePush, connection, server
<1>2. /\ p \notin Range(queue) /\ p \notin Range(pending)
      /\ Open' = Open \cup {p}
      /\ Kept(queue, pending, Open)
  BY <1>1 DEF PushesOK, Kept, Open, TypeOK
<1>3. Recorded'
  BY <1>1 DEF PushesOK, Recorded, TypeOK
<1>4. MadeInOrder'
  BY <1>1 DEF PushesOK, MadeInOrder, TypeOK, Push
<1>5. CASE Send(p, pending, up, state = "online") /\ UNCHANGED queue
  <2>1. Kept(queue, pending', Open \cup {p})
    BY <1>2, <1>5, SendKept DEF TypeOK
  <2>2. (state = "online") \in BOOLEAN /\ Carried(pending, up, down)
    BY Zenon DEF PushesOK
  <2>3. /\ Carried(pending', up', down)
        /\ state # "online" => up' = up
    BY <1>2, <1>5, <2>2, SendCarried DEF TypeOK
  <2>4. Connected'
    BY <1>1, <2>3 DEF PushesOK, Connected
  <2>5. Kept(queue, pending, Open)' /\ Carried(pending, up, down)'
    BY <1>1, <1>2, <1>5, <2>1, <2>3
  <2>6. QED
    BY <1>3, <1>4, <2>4, <2>5 DEF PushesOK
<1>6. CASE /\ queue' = IF ready THEN <<p>> \o queue ELSE Append(queue, p)
           /\ UNCHANGED <<pending, up, stray>>
  <2>1. Range(queue') = Range(queue) \cup {p} /\ Once(queue')
    <3>1. CASE ready
      <4>1. <<p>> \in Seq(Push) /\ Range(<<p>>) = {p} /\ Once(<<p>>)
        BY DEF Range, Once
      <4>2. queue \in Seq(Push) /\ Once(queue) /\ queue' = <<p>> \o queue
        BY <1>2, <1>6, <3>1 DEF TypeOK, Kept
      <4>3. Range(<<p>>) \cap Range(queue) = {}
        BY <1>2, <4>1
      <4>4. Range(<<p>> \o queue) = Range(<<p>>) \cup Range(queue)
        BY <4>1, <4>2, ConcatLemma
      <4>5. Once(<<p>> \o queue)
        BY <4>1, <4>2, <4>3, ConcatLemma
      <4>6. QED
        BY <4>1, <4>2, <4>4, <4>5
    <3>2. CASE ~ready
      BY <1>2, <1>6, <3>2, AppendLemma DEF TypeOK, Kept
    <3>3. QED
      BY <3>1, <3>2
  <2>2. Kept(queue, pending, Open)'
    BY <1>2, <1>6, <2>1 DEF Kept
  <2>3. Connected'
    BY <1>1, <1>6 DEF PushesOK, Connected
  <2>4. Carried(pending, up, down)'
    BY <1>1, <1>6 DEF PushesOK
  <2>5. QED
    BY <1>3, <1>4, <2>2, <2>3, <2>4 DEF PushesOK
<1>7. QED
  BY <1>5, <1>6 DEF MakePush

LEMMA PushesConnect ==
    ASSUME TypeOK, PushesOK, OpenConnection \/ SendHello \/ HandleDisconnect \/ Close
    PROVE  PushesOK'
<1>1. CASE OpenConnection
  <2>1. Connected'
    BY <1>1 DEF OpenConnection, PushesOK, Connected, server, pushing
  <2>2. Kept(queue, pending, Open)' /\ Carried(pending, up, down)' /\ Recorded' /\ MadeInOrder'
    BY <1>1, Zenon DEF OpenConnection, PushesOK, Open, Recorded, MadeInOrder, server, pushing
  <2>3. QED
    BY <2>1, <2>2 DEF PushesOK
<1>2. CASE SendHello
  <2>1. Open' = Open /\ Recorded' /\ MadeInOrder' /\ UNCHANGED <<down, member, closed, transport>>
    BY <1>2, Zenon DEF SendHello, PushesOK, Open, Recorded, MadeInOrder, server
  <2>2. CASE /\ greeting' = "rejoin" /\ up' = Append(up, [op |-> "rejoin", since |-> lastSeq])
             /\ UNCHANGED <<ready, pushing>>
    <3>1. /\ InFlight(up') = InFlight(up)
          /\ OnceInFlight(up) => OnceInFlight(up')
      BY <2>2, AskLemma DEF TypeOK
    <3>2. Carried(pending, up, down)' /\ Kept(queue, pending, Open)'
      <4>1. Carried(pending, up, down)'
        BY <2>1, <2>2, <3>1 DEF PushesOK, Carried, pushing
      <4>2. Kept(queue, pending, Open)'
        BY <2>1, <2>2, Zenon DEF PushesOK, pushing
      <4>3. QED
        BY <4>1, <4>2
    <3>3. Connected'
      BY <1>2, <2>1, <2>2 DEF SendHello, PushesOK, Connected
    <3>4. QED
      BY <2>1, <3>2, <3>3 DEF PushesOK
  <2>3. CASE greeting' = "none" /\ ready' = TRUE /\ Flush(queue, pending, up, TRUE)
    <3>1. Kept(queue', pending', Open) /\ Carried(pending', up', down)
      BY <2>3, FlushKeeps DEF TypeOK, PushesOK
    <3>2. Connected'
      BY <1>2, <2>1, <2>3 DEF SendHello, PushesOK, Connected
    <3>3. QED
      BY <2>1, <3>1, <3>2 DEF PushesOK
  <2>4. QED
    BY <1>2, <2>2, <2>3 DEF SendHello
<1>3. CASE HandleDisconnect
  <2>1. Open' = Open /\ Recorded' /\ MadeInOrder'
    BY <1>3 DEF HandleDisconnect, PushesOK, Open, Recorded, MadeInOrder
  <2>2. /\ Requeued \in Seq(Push) /\ <<>> \in Seq(Push) /\ <<>> \in Seq(Requests)
        /\ Kept(Requeued, <<>>, Open) /\ Carried(<<>>, <<>>, <<>>)
    <3>1. /\ Requeued \in Seq(Push)
          /\ Range(Requeued) = Range(pending) \cup Range(queue)
          /\ Once(Requeued)
      BY ConcatLemma DEF Requeued, TypeOK, PushesOK, Kept
    <3>2. Range(<<>>) = {} /\ Once(<<>>)
      BY EmptyLemma
    <3>3. QED
      BY <3>1, <3>2, EmptySeq, EmptyMessages DEF PushesOK, Kept, Carried
  <2>3. Kept(queue', pending', Open) /\ Carried(pending', up', <<>>) /\ up' = <<>>
    <3>1. CASE Flush(Requeued, <<>>, <<>>, FALSE)
      BY <2>2, <3>1, FlushKeeps
    <3>2. CASE ~Flush(Requeued, <<>>, <<>>, FALSE)
      BY <1>3, <2>2, <3>2 DEF HandleDisconnect
    <3>3. QED
      BY <3>1, <3>2
  <2>4. Connected'
    BY <1>3, <2>3 DEF HandleDisconnect, PushesOK, Connected
  <2>5. down' = <<>>
    BY <1>3 DEF HandleDisconnect
  <2>6. QED
    BY <2>1, <2>3, <2>4, <2>5 DEF PushesOK
<1>4. CASE Close
  <2>1. Open' = {}
    BY <1>4 DEF Close, Open
  <2>2. Recorded'
    BY <1>4 DEF Close, Recorded, PushesOK
  <2>3. MadeInOrder'
    BY <1>4 DEF Close, MadeInOrder, PushesOK
  <2>4. Kept(queue, pending, Open)' /\ Carried(pending, up, down)'
    BY <1>4, <2>1, EmptyLemma, EmptyMessages DEF Close, Kept, Carried
  <2>5. Connected'
    BY <1>4 DEF Close, Connected
  <2>6. QED
    BY <2>2, <2>3, <2>4, <2>5 DEF PushesOK
<1>5. QED
  BY <1>1, <1>2, <1>3, <1>4

LEMMA PushesRoom ==
    ASSUME TypeOK, PushesOK,
           (\E from \in Nat : Join(from)) \/ Leave \/ HandleJoined \/ HandlePull
    PROVE  PushesOK'
<1>1. ASSUME NEW from \in Nat, Join(from)
      PROVE  PushesOK'
  <2>1. /\ InFlight(up') = InFlight(up)
        /\ OnceInFlight(up) => OnceInFlight(up')
    BY <1>1, AskLemma DEF TypeOK, Join
  <2>2. Carried(pending, up, down)' /\ Kept(queue, pending, Open)' /\ Recorded' /\ MadeInOrder'
    <3>1. Carried(pending, up, down)'
      BY <1>1, <2>1 DEF Join, PushesOK, Carried, pushing
    <3>2. Kept(queue, pending, Open)' /\ Recorded' /\ MadeInOrder'
      BY <1>1, Zenon DEF Join, PushesOK, pushing, Open, Recorded, MadeInOrder, server
    <3>3. QED
      BY <3>1, <3>2
  <2>3. Connected'
    BY <1>1 DEF Join, PushesOK, Connected, connection, server
  <2>4. QED
    BY <2>2, <2>3 DEF PushesOK
<1>2. CASE Leave
  <2>1. Connected'
    BY <1>2 DEF Leave, PushesOK, Connected, connection
  <2>2. Kept(queue, pending, Open)' /\ Carried(pending, up, down)' /\ Recorded' /\ MadeInOrder'
    BY <1>2, Zenon DEF Leave, PushesOK, Open, Recorded, MadeInOrder, pushing
  <2>3. QED
    BY <2>1, <2>2 DEF PushesOK
<1>3. CASE HandleJoined
  <2>1. /\ Carried(pending, up, Tail(down)) /\ state = "online" /\ down' = Tail(down)
        /\ \A i \in DOMAIN Tail(down) : i + 1 \in DOMAIN down /\ Tail(down)[i] = down[i + 1]
    BY <1>3, AnswerTaken DEF HandleJoined
  <2>2. Open' = Open /\ MadeInOrder' /\ Recorded'
    BY <1>3, <2>1 DEF HandleJoined, PushesOK, Open, MadeInOrder, Recorded, server
  <2>3. Kept(queue, pending, Open)' /\ Carried(pending, up, down)'
    <3>1. CASE Flush(queue, pending, up, TRUE)
      <4>1. Kept(queue', pending', Open) /\ Carried(pending', up', Tail(down))
        BY <2>1, <3>1, FlushKeeps DEF TypeOK, PushesOK
      <4>2. QED
        BY <2>1, <2>2, <4>1
    <3>2. CASE UNCHANGED <<pushing, up>>
      BY <2>1, <2>2, <3>2 DEF PushesOK, pushing
    <3>3. QED
      BY <1>3, <3>1, <3>2 DEF HandleJoined
  <2>4. Connected'
    BY <1>3, <2>1 DEF HandleJoined, PushesOK, Connected, server
  <2>5. QED
    BY <2>2, <2>3, <2>4 DEF PushesOK
<1>4. CASE HandlePull
  <2>1. /\ Carried(pending, up, Tail(down)) /\ state = "online" /\ down' = Tail(down)
        /\ \A i \in DOMAIN Tail(down) : i + 1 \in DOMAIN down /\ Tail(down)[i] = down[i + 1]
    BY <1>4, AnswerTaken DEF HandlePull
  <2>2. Open' = Open /\ MadeInOrder' /\ Recorded'
    BY <1>4, <2>1 DEF HandlePull, PushesOK, Open, MadeInOrder, Recorded, server
  <2>3. Kept(queue, pending, Open)' /\ Carried(pending, up, down)'
    BY <1>4, <2>1, <2>2 DEF HandlePull, PushesOK, pushing
  <2>4. Connected'
    BY <1>4, <2>1 DEF HandlePull, PushesOK, Connected, connection, server
  <2>5. QED
    BY <2>2, <2>3, <2>4 DEF PushesOK
<1>5. QED
  BY <1>1, <1>2, <1>3, <1>4

LEMMA PushesAnswered ==
    ASSUME TypeOK, PushesOK, HandlePushed
    PROVE  PushesOK'
<1> DEFINE p == Answered
           rest == RemoveFirst(pending, p)
<1>1. /\ Head(down).op \in {"pushed", "refused"} /\ down # <<>> /\ down' = Tail(down)
      /\ UNCHANGED <<connection, waited, server>>
      /\ fate' = [fate EXCEPT ![p] = IF Head(down).op = "pushed" THEN "taken" ELSE "refused"]
      /\ \/ Flush(queue, rest, up, TRUE)
         \/ pending' = rest /\ UNCHANGED <<queue, flushing, up, stray>>
  BY DEF HandlePushed
<1>2. /\ p \in Range(pending) /\ p \in InFlight(down)
      /\ p \notin InFlight(Tail(down)) /\ p \notin InFlight(up)
      /\ Head(down).op = "pushed" => p \in Range(room)
      /\ state = "online" /\ Carried(pending, up, Tail(down))
      /\ \A i \in DOMAIN Tail(down) : i + 1 \in DOMAIN down /\ Tail(down)[i] = down[i + 1]
  BY <1>1, AnswerTaken
<1>3. /\ rest \in Seq(Push) /\ Range(rest) = Range(pending) \ {p} /\ Once(rest)
  BY RemoveLemma DEF TypeOK, PushesOK, Kept
<1> HIDE DEF rest, p
<1>4. p \in Push /\ fate[p] = "open" /\ Open' = Open \ {p}
  <2>1. p \in Open
    BY <1>2 DEF PushesOK, Kept
  <2>2. QED
    BY <1>1, <2>1 DEF Open, TypeOK
<1>5. Kept(queue, rest, Open') /\ Carried(rest, up, Tail(down))
  BY <1>2, <1>3, <1>4 DEF PushesOK, Kept, Carried
<1>6. Recorded'
  BY <1>1, <1>2, <1>4 DEF PushesOK, Recorded, TypeOK, server
<1>7. MadeInOrder'
  BY <1>1, <1>4 DEF PushesOK, MadeInOrder, TypeOK, server
<1>8. Kept(queue, pending, Open)' /\ Carried(pending, up, down)'
  <2>1. CASE Flush(queue, rest, up, TRUE)
    <3>1. Kept(queue', pending', Open') /\ Carried(pending', up', Tail(down))
      BY <1>3, <1>5, <2>1, FlushKeeps DEF TypeOK
    <3>2. QED
      BY <1>1, <3>1
  <2>2. CASE pending' = rest /\ UNCHANGED <<queue, flushing, up, stray>>
    BY <1>1, <1>5, <2>2
  <2>3. QED
    BY <1>1, <2>1, <2>2
<1>9. Connected'
  BY <1>1, <1>2 DEF PushesOK, Connected, connection, server
<1>10. QED
  BY <1>6, <1>7, <1>8, <1>9 DEF PushesOK

LEMMA RoomLemma ==
    ASSUME TypeOK, NEW c \in Push \cup {None}
    PROVE  /\ Append(room, c) \in Seq(Push \cup {None})
           /\ Range(Append(room, c)) = Range(room) \cup {c}
           /\ Len(Append(room, c)) = Len(room) + 1 /\ Len(room) \in Nat
           /\ DOMAIN room = 1 .. Len(room) /\ DOMAIN Append(room, c) = 1 .. Len(room) + 1
           /\ \A i \in 1 .. Len(room) : Append(room, c)[i] = room[i]
           /\ Append(room, c)[Len(room) + 1] = c
<1>1. room \in Seq(Push \cup {None})
  BY DEF TypeOK
<1>2. QED
  BY <1>1, AppendLemma, AppendProperties, LenProperties

LEMMA PushesServed ==
    ASSUME TypeOK, PushesOK, ServerTakes \/ ServerRefuses \/ ServerJoins
    PROVE  PushesOK'
<1>1. PICK m \in Answers :
         /\ up # <<>> /\ up' = Tail(up) /\ down' = Append(down, m)
         /\ m.op \in PushOps <=> Head(up).op = "push"
         /\ Head(up).op = "push" => m.push = Head(up).push
         /\ m.op = "pushed" => room' = Append(room, Head(up).push)
         /\ m.op # "pushed" => room' = room
         /\ UNCHANGED <<connection, pushing, fate, waited>>
  <2>1. CASE ServerTakes
    <3>1. Head(up) \in Requests /\ Head(up).push \in Push
      BY <2>1, RequestLemma, TailLemma DEF ServerTakes, TypeOK
    <3>2. Len(room') \in Nat
      BY <2>1, <3>1, AppendProperties, LenProperties DEF ServerTakes, TypeOK
    <3>3. [op |-> "pushed", push |-> Head(up).push, seq |-> Len(room')] \in Answers
      BY <3>1, <3>2, AnswerLemma
    <3>4. QED
      BY <3>3, <2>1 DEF ServerTakes, PushOps
  <2>2. CASE ServerRefuses
    <3>1. Head(up) \in Requests /\ Head(up).push \in Push
      BY <2>2, RequestLemma, TailLemma DEF ServerRefuses, TypeOK
    <3>2. [op |-> "refused", push |-> Head(up).push] \in Answers
      BY <3>1, AnswerLemma
    <3>3. QED
      BY <3>2, <2>2 DEF ServerRefuses, PushOps
  <2>3. CASE ServerJoins
    <3>1. Head(up) \in Requests /\ Head(up).since \in Nat /\ Head(up).op \in {"join", "rejoin"}
      BY <2>3, RequestLemma, TailLemma DEF ServerJoins, TypeOK
    <3>2. Len(room) \in Nat
      BY LenProperties DEF TypeOK
    <3>3. [op |-> Head(up).op, since |-> Head(up).since, seq |-> Len(room)] \in Answers
      BY <3>1, <3>2, AnswerLemma
    <3>4. QED
      BY <3>3, <2>3, <3>1 DEF ServerJoins, PushOps
  <2>4. QED
    BY <2>1, <2>2, <2>3
<1>2. /\ Head(up) \in Requests /\ state = "online"
      /\ Head(up).op = "push" => Head(up).push \in Push /\ fate[Head(up).push] = "open"
      /\ Carried(pending, up', down')
  BY <1>1, RequestServed, RequestLemma
<1>3. m.op = "pushed" => /\ m.push = Head(up).push /\ Head(up).push \in Push
                         /\ fate[Head(up).push] = "open"
                         /\ Range(room') = Range(room) \cup {Head(up).push}
  BY <1>1, <1>2, RoomLemma DEF TypeOK, PushOps
<1>4. Range(room) \subseteq Range(room')
  BY <1>1, <1>3
<1>5. Recorded'
  <2>1. /\ DOMAIN down = 1 .. Len(down) /\ Len(down) \in Nat
        /\ DOMAIN down' = 1 .. Len(down) + 1
        /\ \A i \in 1 .. Len(down) : down'[i] = down[i]
        /\ down'[Len(down) + 1] = m
    BY <1>1, AppendProperties, LenProperties DEF TypeOK
  <2>2. QED
    BY <1>1, <1>3, <1>4, <2>1 DEF PushesOK, Recorded
<1>6. MadeInOrder'
  BY <1>1, <1>3 DEF PushesOK, MadeInOrder
<1>7. Connected'
  BY <1>1, <1>2 DEF PushesOK, Connected, connection
<1>8. Kept(queue, pending, Open)' /\ Carried(pending, up, down)'
  BY <1>1, <1>2, Zenon DEF PushesOK, Open, pushing
<1>9. QED
  BY <1>5, <1>6, <1>7, <1>8 DEF PushesOK

LEMMA PushesOthers ==
    ASSUME TypeOK, PushesOK, OtherChanges
    PROVE  PushesOK'
<1>1. Range(room') = Range(room) \cup {None}
  BY RoomLemma DEF OtherChanges, TypeOK
<1> DEFINE m == [op |-> "pull", seq |-> Len(room')]
<1>2. room' \in Seq(Push \cup {None})
  BY AppendProperties DEF OtherChanges, TypeOK
<1>3. m \in Answers /\ m.op = "pull" /\ down' = IF member THEN Append(down, m) ELSE down
  BY <1>2, AnswerLemma, LenProperties DEF OtherChanges
<1> HIDE DEF m
<1>4. UNCHANGED <<connection, following, ready, pushing, fate, waited, up, member, refusals>>
  BY DEF OtherChanges
<1>5. Carried(pending, up, down)'
  <2>1. CASE member
    <3>1. /\ InFlight(Append(down, m)) = InFlight(down)
          /\ OnceInFlight(down) => OnceInFlight(Append(down, m))
      BY <1>3, AppendMessage DEF TypeOK, PushOps
    <3>2. QED
      BY <1>3, <1>4, <2>1, <3>1 DEF PushesOK, Carried, pushing
  <2>2. CASE ~member
    BY <1>3, <1>4, <2>2 DEF PushesOK, pushing
  <2>3. QED
    BY <2>1, <2>2
<1>6. Recorded'
  <2>1. CASE member
    <3>1. /\ DOMAIN down = 1 .. Len(down) /\ Len(down) \in Nat
          /\ DOMAIN down' = 1 .. Len(down) + 1
          /\ \A i \in 1 .. Len(down) : down'[i] = down[i]
          /\ down'[Len(down) + 1] = m
      BY <1>3, <2>1, AppendProperties, LenProperties DEF TypeOK
    <3>2. QED
      BY <1>1, <1>3, <1>4, <3>1 DEF PushesOK, Recorded
  <2>2. CASE ~member
    BY <1>1, <1>3, <1>4, <2>2 DEF PushesOK, Recorded
  <2>3. QED
    BY <2>1, <2>2
<1>7. MadeInOrder'
  BY <1>1, <1>4, SyncClientAssumption DEF PushesOK, MadeInOrder, Push
<1>8. Connected'
  BY <1>3, <1>4 DEF PushesOK, Connected, connection
<1>9. Kept(queue, pending, Open)'
  BY <1>4, Zenon DEF PushesOK, Open, pushing
<1>10. QED
  BY <1>5, <1>6, <1>7, <1>8, <1>9 DEF PushesOK

LEMMA PushesStep ==
    ASSUME TypeOK, PushesOK, ClientNext
    PROVE  TypeOK' /\ PushesOK'
<1>1. TypeOK'
  BY TypeStep DEF PushesOK, Kept
<1>2. PushesOK'
  BY PushesMade, PushesConnect, PushesRoom, PushesAnswered, PushesServed, PushesOthers
     DEF ClientNext, Next
<1>3. QED
  BY <1>1, <1>2

LEMMA PushesInit == Init => TypeOK /\ PushesOK
<1>1. Init => TypeOK
  BY TypeInit
<1>2. ASSUME Init
      PROVE  PushesOK
  <2>1. Kept(queue, pending, Open)
    BY <1>2, EmptyLemma DEF Init, Kept, Open
  <2>2. Carried(pending, up, down)
    BY <1>2, EmptyLemma, EmptyMessages DEF Init, Carried
  <2>3. Connected
    BY <1>2 DEF Init, Connected
  <2>4. Recorded /\ MadeInOrder
    BY <1>2, EmptyLemma DEF Init, Recorded, MadeInOrder
  <2>5. QED
    BY <2>1, <2>2, <2>3, <2>4 DEF PushesOK
<1>3. QED
  BY <1>1, <1>2

LEMMA PushesAlways == Spec => [](TypeOK /\ PushesOK)
<1>1. TypeOK /\ PushesOK /\ [Next]_vars => (TypeOK /\ PushesOK)'
  <2>1. TypeOK /\ PushesOK /\ Next => (TypeOK /\ PushesOK)'
    BY PushesStep DEF ClientNext
  <2>2. TypeOK /\ PushesOK /\ UNCHANGED vars => (TypeOK /\ PushesOK)'
    <3>1. UNCHANGED vars => UNCHANGED <<state, transport, greeting, closed, drops, joined, lastSeq,
             joining, relaying, heard, queue, pending, flushing, stray, ready, fate, waited, up,
             down, member, room, refusals>>
      BY DEF vars, connection, following, pushing, server
    <3>2. QED
      BY <3>1, Zenon DEF TypeOK, PushesOK, Connected, Open, Recorded, MadeInOrder
  <2>3. QED
    BY <2>1, <2>2
<1>2. QED
  BY <1>1, PushesInit, PTL DEF Spec

\* The variables have their types (`SyncClient`).
THEOREM TypeCorrect == Spec => []TypeOK
BY PushesAlways, PTL

\* No connection that drops, answer that is lost, flush or close loses a push that is open, or
\* keeps one twice (`handleDisconnect` and `flushQueue`).
THEOREM PushesStay == Spec => []EveryPushIsKept
<1>1. TypeOK /\ PushesOK => EveryPushIsKept
  <2>1. SUFFICES ASSUME TypeOK, PushesOK
                 PROVE  EveryPushIsKept
    OBVIOUS
  <2>2. /\ queue \in Seq(Push) /\ pending \in Seq(Push) /\ Once(queue) /\ Once(pending)
        /\ Range(queue) \cap Range(pending) = {} /\ Range(queue) \cup Range(pending) = Open
    BY <2>1 DEF TypeOK, PushesOK, Kept
  <2>3. ASSUME NEW both, both = queue \o pending
        PROVE  Range(both) = Open /\ Once(both)
    <3>1. Range(both) = Range(queue) \cup Range(pending)
      BY <2>2, <2>3, ConcatLemma
    <3>2. Once(both)
      BY <2>2, <2>3, ConcatLemma
    <3>3. QED
      BY <2>2, <3>1, <3>2
  <2>4. Range(queue \o pending) = Open /\ Once(queue \o pending)
    BY <2>3, Zenon
  <2>5. QED
    BY <2>4 DEF EveryPushIsKept, Open, Once
<1>2. QED
  BY <1>1, PushesAlways, PTL

-----------------------------------------------------------------------------
(* The abstract link.                                                      *)

LEMMA LinkStep ==
    ASSUME TypeOK, PushesOK, ClientNext
    PROVE  Link!LinkNext \/ UNCHANGED Link!linkVars
<1> DEFINE held == Range(room) \ {None}
<1>1. ASSUME NEW p \in Push, MakePush(p)
      PROVE  Link!Make(p)
  BY <1>1 DEF MakePush, Link!Make, server
<1>2. ASSUME UNCHANGED <<fate, room>>
      PROVE  UNCHANGED Link!linkVars
  BY <1>2 DEF Link!linkVars
<1>3. ASSUME Close
      PROVE  Link!Abandon
  BY <1>3 DEF Close, Link!Abandon
<1>4. ASSUME HandlePushed
      PROVE  Answered \in Push /\ Link!Settle(Answered)
  <2>1. /\ down # <<>> /\ Head(down).op \in {"pushed", "refused"} /\ UNCHANGED room
        /\ fate' = [fate EXCEPT ![Answered] =
                       IF Head(down).op = "pushed" THEN "taken" ELSE "refused"]
    BY <1>4 DEF HandlePushed, server
  <2>2. /\ Answered \in Range(pending)
        /\ Head(down).op = "pushed" => Answered \in Range(room)
    BY <2>1, AnswerTaken
  <2>3. Answered \in Push /\ fate[Answered] = "open" /\ Answered # None
    BY <2>2, SyncClientAssumption DEF PushesOK, Kept, Open, Push
  <2>4. QED
    BY <2>1, <2>2, <2>3 DEF Link!Settle
<1>5. ASSUME ServerTakes
      PROVE  Head(up).push \in Push /\ Link!Take(Head(up).push)
  <2>1. up # <<>> /\ Head(up).op = "push" /\ room' = Append(room, Head(up).push) /\ UNCHANGED fate
    BY <1>5 DEF ServerTakes
  <2>2. Head(up) \in Requests /\ Head(up).push \in Push
    BY <2>1, TailLemma, RequestLemma DEF TypeOK
  <2>3. [op |-> "refused", push |-> Head(up).push] \in Answers
    BY <2>2, AnswerLemma
  <2>4. fate[Head(up).push] = "open"
    <3>1. ASSUME NEW m \in Answers, m = [op |-> "refused", push |-> Head(up).push]
          PROVE  fate[Head(up).push] = "open"
      BY <2>1, <3>1, RequestServed DEF PushOps
    <3>2. QED
      BY <2>3, <3>1
  <2>5. Range(room') = Range(room) \cup {Head(up).push} /\ Head(up).push # None
    BY <2>1, <2>2, RoomLemma, SyncClientAssumption DEF Push
  <2>6. QED
    BY <2>1, <2>2, <2>4, <2>5 DEF Link!Take
<1>6. ASSUME OtherChanges
      PROVE  UNCHANGED Link!linkVars
  <2>1. room' = Append(room, None) /\ UNCHANGED fate
    BY <1>6 DEF OtherChanges
  <2>2. Range(room') = Range(room) \cup {None}
    BY <2>1, RoomLemma
  <2>3. QED
    BY <2>1, <2>2 DEF Link!linkVars
<1>7. OpenConnection \/ SendHello \/ HandleDisconnect \/ Leave \/ HandleJoined \/ HandlePull
      \/ ServerRefuses \/ ServerJoins \/ (\E from \in Nat : Join(from))
      => UNCHANGED <<fate, room>>
  BY Zenon DEF OpenConnection, SendHello, HandleDisconnect, Leave, HandleJoined, HandlePull,
               ServerRefuses, ServerJoins, Join, server
<1>8. QED
  BY <1>1, <1>2, <1>3, <1>4, <1>5, <1>6, <1>7, Zenon DEF ClientNext, Next, Link!LinkNext

\* The client keeps the promises of the abstract link: what it tells of a push is what the room
\* did with it (`sendPush`).
THEOREM ImplementsTheLink == Spec => KeepsItsPromises
<1>1. Init => Link!LinkInit
  BY DEF Init, Link!LinkInit, Range
<1>2. TypeOK /\ PushesOK /\ [Next]_vars => [Link!LinkNext]_Link!linkVars
  <2>1. TypeOK /\ PushesOK /\ Next => Link!LinkNext \/ UNCHANGED Link!linkVars
    BY LinkStep DEF ClientNext
  <2>2. UNCHANGED vars => UNCHANGED Link!linkVars
    BY DEF vars, server, Link!linkVars
  <2>3. QED
    BY <2>1, <2>2
<1>3. QED
  BY <1>1, <1>2, PushesAlways, PTL DEF Spec, KeepsItsPromises, Link!LinkSpec

-----------------------------------------------------------------------------
(* Joins and their messages.                                               *)

Asked(op) == One(up, op) /\ One(down, op) /\ ~(Has(up, op) /\ Has(down, op))

\* A join is on its way once while its caller waits for it, and `sendHello` waits for its own.
AsksOK ==
    /\ Asked("join") /\ Asked("rejoin")
    /\ Has(up, "join") \/ Has(down, "join") => joining
    /\ Has(up, "rejoin") \/ Has(down, "rejoin") => greeting = "rejoin"
    /\ joining => ~relaying
    /\ relaying => joined
    /\ Has(down, "join") => member

LEMMA JoinsAppend ==
    ASSUME NEW M, NEW s \in Seq(M), NEW m \in M, m.op \notin {"join", "rejoin"}
    PROVE  SameJoins(s, Append(s, m))
BY AppendMessage DEF SameJoins

LEMMA JoinsTail ==
    ASSUME NEW M, NEW s \in Seq(M), s # <<>>, Head(s).op \notin {"join", "rejoin"}
    PROVE  SameJoins(s, Tail(s))
BY TailMessage DEF SameJoins

LEMMA AsksSame ==
    ASSUME AsksOK, SameJoins(up, up'), SameJoins(down, down'),
           UNCHANGED <<joining, relaying, joined, greeting, member>>
    PROVE  AsksOK'
BY DEF AsksOK, Asked, SameJoins

LEMMA NoJoins ==
    ASSUME NEW s, s = <<>>, NEW op
    PROVE  ~Has(s, op) /\ One(s, op)
BY DEF Has, One

LEMMA AsksQuiet ==
    ASSUME TypeOK, PushesOK, AsksOK,
           \/ \E p \in Push : MakePush(p)
           \/ HandlePull \/ HandlePushed \/ ServerTakes \/ ServerRefuses \/ OtherChanges
    PROVE  AsksOK'
<1>0. SameJoins(up, up) /\ SameJoins(down, down)
  BY DEF SameJoins
<1>1. ASSUME NEW p \in Push, MakePush(p)
      PROVE  AsksOK'
  <2>1. UNCHANGED <<joining, relaying, joined, greeting, member, down>>
    BY <1>1 DEF MakePush, connection, following, server
  <2>2. SameJoins(up, up')
    <3>1. CASE Send(p, pending, up, state = "online")
      <4>1. fate[p] = "unmade"
        BY <1>1 DEF MakePush
      <4>2. p \notin Range(pending) /\ Carried(pending, up, down) /\ (state = "online") \in BOOLEAN
        BY <4>1 DEF PushesOK, Kept, Open
      <4>3. QED
        BY <3>1, <4>2, SendCarried DEF TypeOK
    <3>2. CASE UNCHANGED up
      BY <1>0, <3>2
    <3>3. QED
      BY <1>1, <3>1, <3>2 DEF MakePush
  <2>3. QED
    BY <1>0, <2>1, <2>2, AsksSame
<1>2. CASE HandlePull
  <2>1. /\ UNCHANGED <<joining, relaying, joined, greeting, member, up>>
        /\ down # <<>> /\ Head(down).op = "pull" /\ down' = Tail(down)
    BY <1>2 DEF HandlePull, connection, server
  <2>2. QED
    BY <1>0, <2>1, AsksSame, JoinsTail DEF TypeOK
<1>3. CASE HandlePushed
  <2>1. /\ UNCHANGED <<joining, relaying, joined, greeting, member>>
        /\ down # <<>> /\ Head(down).op \in {"pushed", "refused"} /\ down' = Tail(down)
    BY <1>3 DEF HandlePushed, connection, server
  <2>2. SameJoins(down, down')
    BY <2>1, JoinsTail DEF TypeOK
  <2>3. SameJoins(up, up')
    <3> DEFINE rest == RemoveFirst(pending, Answered)
    <3>1. CASE Flush(queue, rest, up, TRUE)
      <4>1. rest \in Seq(Push) /\ Range(rest) = Range(pending) \ {Answered} /\ Once(rest)
        BY RemoveLemma DEF TypeOK, PushesOK, Kept
      <4>2. Answered \notin InFlight(up) /\ Answered \notin InFlight(Tail(down))
            /\ Carried(pending, up, Tail(down))
        BY <2>1, AnswerTaken
      <4> HIDE DEF rest
      <4>3. Kept(queue, rest, Open \ {Answered}) /\ Carried(rest, up, Tail(down))
        <5>1. Answered \in Range(pending)
          BY <2>1, AnswerTaken
        <5>2. QED
          BY <4>1, <4>2, <5>1 DEF PushesOK, Kept, Carried
      <4>4. QED
        BY <3>1, <4>1, <4>3, FlushKeeps DEF TypeOK
    <3>2. CASE UNCHANGED up
      BY <1>0, <3>2
    <3>3. QED
      BY <1>3, <3>1, <3>2 DEF HandlePushed
  <2>4. QED
    BY <2>1, <2>2, <2>3, AsksSame
<1>4. CASE ServerTakes \/ ServerRefuses
  <2>1. PICK m \in Answers : m.op \in {"pushed", "refused"} /\ down' = Append(down, m)
    <3>1. up # <<>> /\ Head(up).op = "push"
      BY <1>4 DEF ServerTakes, ServerRefuses
    <3>2. Head(up).push \in Push
      BY <3>1, TailLemma, RequestLemma DEF TypeOK
    <3>3. CASE ServerTakes
      <4>1. Len(room') \in Nat
        BY <3>2, <3>3, RoomLemma DEF ServerTakes
      <4>2. [op |-> "pushed", push |-> Head(up).push, seq |-> Len(room')] \in Answers
        BY <3>2, <4>1, AnswerLemma
      <4>3. QED
        BY <3>3, <4>2 DEF ServerTakes
    <3>4. CASE ServerRefuses
      <4>1. [op |-> "refused", push |-> Head(up).push] \in Answers
        BY <3>2, AnswerLemma
      <4>2. QED
        BY <3>4, <4>1 DEF ServerRefuses
    <3>5. QED
      BY <1>4, <3>3, <3>4
  <2>2. /\ UNCHANGED <<joining, relaying, joined, greeting, member>>
        /\ up # <<>> /\ Head(up).op = "push" /\ up' = Tail(up)
    BY <1>4 DEF ServerTakes, ServerRefuses, connection, following
  <2>3. SameJoins(up, up') /\ SameJoins(down, down')
    BY <2>1, <2>2, JoinsTail, JoinsAppend DEF TypeOK
  <2>4. QED
    BY <2>2, <2>3, AsksSame
<1>5. CASE OtherChanges
  <2>1. UNCHANGED <<joining, relaying, joined, greeting, member, up>>
    BY <1>5 DEF OtherChanges, connection, following
  <2>2. Len(room') \in Nat
    BY <1>5, RoomLemma DEF OtherChanges
  <2>3. [op |-> "pull", seq |-> Len(room')] \in Answers
    BY <2>2, AnswerLemma
  <2>4. SameJoins(down, down')
    <3>1. ASSUME NEW m \in Answers, m = [op |-> "pull", seq |-> Len(room')]
          PROVE  SameJoins(down, Append(down, m))
      BY <3>1, JoinsAppend DEF TypeOK
    <3>2. QED
      BY <1>0, <1>5, <2>3, <3>1 DEF OtherChanges
  <2>5. QED
    BY <1>0, <2>1, <2>4, AsksSame
<1>6. QED
  BY <1>1, <1>2, <1>3, <1>4, <1>5

LEMMA AsksConnect ==
    ASSUME TypeOK, PushesOK, AsksOK, OpenConnection \/ SendHello \/ HandleDisconnect \/ Close
    PROVE  AsksOK'
<1>1. CASE OpenConnection
  <2>1. up = <<>> /\ down = <<>> /\ UNCHANGED <<up, down, joining, relaying, joined, member>>
    BY <1>1 DEF OpenConnection, PushesOK, Connected, following, server
  <2>2. QED
    BY <2>1, NoJoins DEF AsksOK, Asked
<1>2. CASE SendHello
  <2>1. up = <<>> /\ down = <<>> /\ UNCHANGED <<down, joining, relaying, joined, member>>
    BY <1>2 DEF SendHello, PushesOK, Connected, following, server
  <2>2. \A op : ~Has(up, op) /\ One(up, op) /\ ~Has(down, op) /\ One(down, op)
    BY <2>1, NoJoins
  <2>3. CASE greeting' = "rejoin" /\ up' = Append(up, [op |-> "rejoin", since |-> lastSeq])
    <3>1. /\ \A op : Has(up', op) <=> op = "rejoin"
          /\ \A op : One(up', op)
      <4>1. ASSUME NEW m, m = [op |-> "rejoin", since |-> lastSeq]
            PROVE  /\ \A op : Has(Append(up, m), op) <=> Has(up, op) \/ op = "rejoin"
                   /\ \A op : One(up, op) /\ (op = "rejoin" => ~Has(up, op))
                                => One(Append(up, m), op)
        BY <4>1, AskLemma DEF TypeOK
      <4>2. QED
        BY <2>2, <2>3, <4>1
    <3>2. \A op : ~Has(down', op) /\ One(down', op)
      BY <2>1, <2>2
    <3>3. Asked("join")' /\ Asked("rejoin")'
      BY <3>1, <3>2 DEF Asked
    <3>4. QED
      BY <2>1, <2>3, <3>1, <3>2, <3>3 DEF AsksOK
  <2>4. CASE greeting' = "none" /\ Flush(queue, pending, up, TRUE)
    <3>1. SameJoins(up, up')
      BY <2>4, FlushKeeps DEF TypeOK, PushesOK
    <3>2. QED
      BY <2>1, <2>2, <3>1 DEF AsksOK, Asked, SameJoins
  <2>5. QED
    BY <1>2, <2>3, <2>4 DEF SendHello
<1>3. CASE HandleDisconnect \/ Close
  <2>1. PushesOK' /\ state' # "online" /\ joining' = FALSE /\ UNCHANGED <<relaying, joined>>
    BY <1>3, PushesConnect DEF HandleDisconnect, Close
  <2>2. up' = <<>> /\ down' = <<>>
    BY <2>1 DEF PushesOK, Connected
  <2>3. \A op : ~Has(up', op) /\ One(up', op) /\ ~Has(down', op) /\ One(down', op)
    BY <2>2, NoJoins
  <2>4. QED
    BY <2>1, <2>3 DEF AsksOK, Asked
<1>4. QED
  BY <1>1, <1>2, <1>3

LEMMA AsksRoom ==
    ASSUME TypeOK, PushesOK, AsksOK,
           (\E from \in Nat : Join(from)) \/ Leave \/ HandleJoined \/ ServerJoins
    PROVE  AsksOK'
<1>1. ASSUME NEW from \in Nat, Join(from)
      PROVE  AsksOK'
  <2>1. /\ \A op : Has(up', op) <=> Has(up, op) \/ op = "join"
        /\ \A op : One(up, op) /\ (op = "join" => ~Has(up, op)) => One(up', op)
    BY <1>1, AskLemma DEF TypeOK, Join
  <2>2. /\ ~joining /\ joining' /\ ~relaying
        /\ UNCHANGED <<down, relaying, joined, greeting, member>>
    BY <1>1 DEF Join, connection, server
  <2>3. QED
    BY <2>1, <2>2 DEF AsksOK, Asked
<1>2. CASE Leave
  <2>1. relaying /\ ~relaying' /\ ~joined' /\ UNCHANGED <<up, down, joining, greeting>>
    BY <1>2 DEF Leave, connection
  <2>2. QED
    BY <2>1 DEF AsksOK, Asked
<1>3. CASE HandleJoined
  <2>1. /\ down # <<>> /\ Head(down).op \in {"join", "rejoin"} /\ down' = Tail(down) /\ joined'
        /\ UNCHANGED member
    BY <1>3 DEF HandleJoined, server
  <2>2. /\ \A op : Has(down, op) <=> Has(down', op) \/ Head(down).op = op
        /\ \A op : One(down, op) => One(down', op) /\ (Head(down).op = op => ~Has(down', op))
    BY <2>1, TailMessage DEF TypeOK
  <2>3. CASE Head(down).op = "join" /\ ~joining' /\ relaying' /\ UNCHANGED <<greeting, up>>
    BY <2>1, <2>2, <2>3 DEF AsksOK, Asked
  <2>4. CASE /\ Head(down).op = "rejoin" /\ greeting' = "none" /\ Flush(queue, pending, up, TRUE)
             /\ UNCHANGED <<joining, relaying>>
    <3>1. SameJoins(up, up')
      BY <2>4, FlushKeeps DEF TypeOK, PushesOK
    <3>2. QED
      BY <2>1, <2>2, <2>4, <3>1 DEF AsksOK, Asked, SameJoins
  <2>5. QED
    BY <1>3, <2>3, <2>4 DEF HandleJoined
<1>4. CASE ServerJoins
  <2>1. /\ up # <<>> /\ Head(up).op \in {"join", "rejoin"} /\ up' = Tail(up) /\ member'
        /\ UNCHANGED <<joining, relaying, joined, greeting>>
        /\ down' = Append(down, [op |-> Head(up).op, since |-> Head(up).since, seq |-> Len(room)])
    BY <1>4 DEF ServerJoins, connection, following
  <2>2. /\ \A op : Has(up, op) <=> Has(up', op) \/ Head(up).op = op
        /\ \A op : One(up, op) => One(up', op) /\ (Head(up).op = op => ~Has(up', op))
    BY <2>1, TailMessage DEF TypeOK
  <2>3. PICK m \in Answers : m.op = Head(up).op /\ down' = Append(down, m)
    <3>1. Head(up) \in Requests /\ Head(up).since \in Nat
      BY <2>1, TailLemma, RequestLemma DEF TypeOK
    <3>2. Len(room) \in Nat
      BY LenProperties DEF TypeOK
    <3>3. [op |-> Head(up).op, since |-> Head(up).since, seq |-> Len(room)] \in Answers
      BY <2>1, <3>1, <3>2, AnswerLemma
    <3>4. QED
      BY <2>1, <3>3
  <2>4. /\ \A op : Has(down', op) <=> Has(down, op) \/ Head(up).op = op
        /\ \A op : One(down, op) /\ (Head(up).op = op => ~Has(down, op)) => One(down', op)
    BY <2>3, AppendMessage DEF TypeOK
  <2>5. Has(up, Head(up).op)
    BY <2>2
  <2>6. QED
    BY <2>1, <2>2, <2>4, <2>5 DEF AsksOK, Asked
<1>5. QED
  BY <1>1, <1>2, <1>3, <1>4

LEMMA AsksStep ==
    ASSUME TypeOK, PushesOK, AsksOK, ClientNext
    PROVE  AsksOK'
BY AsksQuiet, AsksConnect, AsksRoom DEF ClientNext, Next

-----------------------------------------------------------------------------
(* The order of what waited.                                               *)

\* What waited stands in its order, and what of it was sent goes before what still waits.
InOrder(queued, sent, w) ==
    /\ Rising(queued, w) /\ Rising(sent, w)
    /\ \A p \in Range(sent) \cap w, q \in Range(queued) \cap w : p < q

\* What was sent to where one answers has its message among the two lines.
OnLine(sent, line, answers, lost) ==
    Range(sent) \ lost \subseteq InFlight(line) \cup InFlight(answers)

\* Of what waited, only the push that the flush waits for has a message.
OnlyFirst(line, answers, first, w) ==
    \A p \in InFlight(line) \cup InFlight(answers) : p \in w => p = first

\* The flush waits for a push that was made.
Begun == flushing \in Push => fate[flushing] # "unmade"

OrderOK ==
    /\ InOrder(queue, pending, waited)
    /\ OnLine(pending, up, down, stray)
    /\ OnlyFirst(up, down, flushing, waited)
    /\ \A p \in InFlight(up) \cup InFlight(down) :
          p \in waited \/ p = flushing => greeting = "none"
    /\ Begun
    /\ \A p \in Push : fate[p] = "closed" => closed
    /\ WaitedInOrder

LEMMA OpenPushes ==
    ASSUME TypeOK, PushesOK
    PROVE  \A x \in Range(queue) \cup Range(pending) : x \in Push /\ fate[x] = "open"
BY DEF PushesOK, Kept, Open

LEMMA SendAdds ==
    ASSUME NEW p \in Push, NEW sent \in Seq(Push), NEW line \in Seq(Requests),
           NEW greeted \in BOOLEAN, Send(p, sent, line, greeted)
    PROVE  /\ InFlight(up') = InFlight(line) \cup (IF greeted THEN {p} ELSE {})
           /\ Range(pending') = Range(sent) \cup {p}
           /\ stray' = stray \cup (IF greeted THEN {} ELSE {p})
           /\ pending' = Append(sent, p)
<1> DEFINE m == [op |-> "push", push |-> p]
<1>1. /\ pending' = Append(sent, p)
      /\ up' = IF greeted THEN Append(line, m) ELSE line
      /\ stray' = IF greeted THEN stray ELSE stray \cup {p}
  BY DEF Send
<1>2. Range(pending') = Range(sent) \cup {p}
  BY <1>1, AppendLemma
<1>3. m \in Requests /\ m.op \in PushOps /\ m.push = p
  BY RequestLemma DEF PushOps
<1> HIDE DEF m
<1>4. InFlight(Append(line, m)) = InFlight(line) \cup {p}
  BY <1>3, AppendMessage
<1>5. QED
  BY <1>1, <1>2, <1>4

LEMMA PushNumbers == Push \in SUBSET Nat /\ \A p \in Push : p # None
BY SyncClientAssumption DEF Push

\* A flush that starts with nothing that waited on its way has one push of it on its way.
LEMMA FlushInOrder ==
    ASSUME NEW queued \in Seq(Push), NEW sent \in Seq(Push), NEW line \in Seq(Requests),
           NEW answers, NEW greeted \in BOOLEAN, NEW w,
           InOrder(queued, sent, w), OnLine(sent, line, answers, stray),
           \A p \in InFlight(line) \cup InFlight(answers) : p \notin w,
           Flush(queued, sent, line, greeted)
    PROVE  /\ InOrder(queue', pending', w)
           /\ OnLine(pending', up', answers, stray')
           /\ OnlyFirst(up', answers, flushing', w)
           /\ stray \subseteq stray' /\ (flushing' = None \/ flushing' \in Range(queued))
<1>1. CASE queued = <<>>
  BY <1>1 DEF Flush, OnLine, OnlyFirst
<1>2. CASE queued # <<>>
  <2> DEFINE h == Head(queued)
  <2>1. Send(h, sent, line, greeted) /\ queue' = Tail(queued) /\ flushing' = h
    BY <1>2 DEF Flush
  <2>2. /\ h \in Push /\ Range(queued) = Range(Tail(queued)) \cup {h}
        /\ Rising(Tail(queued), w)
        /\ h \in w => \A x \in Range(Tail(queued)) \cap w : h < x
    BY <1>2, TailLemma, TailRising, PushNumbers DEF InOrder
  <2> HIDE DEF h
  <2>3. /\ InFlight(up') = InFlight(line) \cup (IF greeted THEN {h} ELSE {})
        /\ Range(pending') = Range(sent) \cup {h}
        /\ stray' = stray \cup (IF greeted THEN {} ELSE {h})
        /\ pending' = Append(sent, h)
    BY <2>1, <2>2, SendAdds
  <2>4. Rising(pending', w)
    BY <2>2, <2>3, AppendRising, PushNumbers DEF InOrder
  <2>5. InOrder(queue', pending', w)
    BY <2>1, <2>2, <2>3, <2>4 DEF InOrder
  <2>6. OnLine(pending', up', answers, stray') /\ OnlyFirst(up', answers, flushing', w)
    BY <2>1, <2>3 DEF OnLine, OnlyFirst
  <2>7. QED
    BY <2>1, <2>2, <2>3, <2>5, <2>6
<1>3. QED
  BY <1>1, <1>2

LEMMA WaitedStay ==
    ASSUME TypeOK, WaitedInOrder, waited' = waited, stray \subseteq stray',
           Range(room') \ {None} = Range(room) \ {None},
           \A p \in Push : fate[p] = "refused" => fate'[p] = "refused"
    PROVE  WaitedInOrder'
<1>1. \A p \in Push : p \in Range(room') <=> p \in Range(room)
  BY PushNumbers
<1>2. waited \subseteq Push
  BY DEF TypeOK
<1>3. QED
  BY <1>1, <1>2 DEF WaitedInOrder

\* A step that leaves the pushes where they are.
LEMMA OrderSame ==
    ASSUME TypeOK, OrderOK, UNCHANGED <<queue, pending, flushing, stray, waited, fate, closed>>,
           InFlight(up') \cup InFlight(down') = InFlight(up) \cup InFlight(down),
           greeting' = greeting \/ InFlight(up) \cup InFlight(down) = {},
           Range(room') \ {None} = Range(room) \ {None}
    PROVE  OrderOK'
<1>1. WaitedInOrder' /\ Begun'
  BY WaitedStay DEF OrderOK, Begun
<1>2. InOrder(queue, pending, waited)' /\ OnLine(pending, up, down, stray)'
      /\ OnlyFirst(up, down, flushing, waited)'
  BY DEF OrderOK, OnLine, OnlyFirst
<1>3. \A p \in InFlight(up') \cup InFlight(down') :
         p \in waited' \/ p = flushing' => greeting' = "none"
  BY DEF OrderOK
<1>4. QED
  BY <1>1, <1>2, <1>3 DEF OrderOK

LEMMA OrderQuiet ==
    ASSUME TypeOK, PushesOK, OrderOK,
           OpenConnection \/ (\E from \in Nat : Join(from)) \/ Leave \/ HandlePull \/ OtherChanges
           \/ ServerJoins
    PROVE  OrderOK'
<1>1. CASE OpenConnection
  <2>1. up = <<>> /\ down = <<>>
    BY <1>1 DEF OpenConnection, PushesOK, Connected
  <2>2. InFlight(up) \cup InFlight(down) = {}
    BY <2>1, EmptyMessages
  <2>3. QED
    BY <1>1, <2>2, OrderSame DEF OpenConnection, pushing, server
<1>2. ASSUME NEW from \in Nat, Join(from)
      PROVE  OrderOK'
  <2>1. InFlight(up') = InFlight(up)
    BY <1>2, AskLemma DEF TypeOK, Join
  <2>2. QED
    BY <1>2, <2>1, OrderSame DEF Join, connection, pushing, server
<1>3. CASE Leave
  BY <1>3, OrderSame DEF Leave, connection, pushing
<1>4. CASE HandlePull
  <2>1. InFlight(down') = InFlight(down)
    BY <1>4, AnswerTaken DEF HandlePull
  <2>2. QED
    BY <1>4, <2>1, OrderSame DEF HandlePull, connection, pushing, server
<1>5. CASE OtherChanges
  <2>1. Range(room') = Range(room) \cup {None}
    BY <1>5, RoomLemma DEF OtherChanges
  <2>2. InFlight(down') = InFlight(down)
    <3>1. CASE ~member
      BY <1>5, <3>1 DEF OtherChanges
    <3>2. CASE member
      <4>1. Len(room') \in Nat
        BY <1>5, RoomLemma DEF OtherChanges
      <4>2. PICK m \in Answers : m.op = "pull" /\ down' = Append(down, m)
        <5>1. [op |-> "pull", seq |-> Len(room')] \in Answers
          BY <4>1, AnswerLemma
        <5>2. QED
          BY <1>5, <3>2, <5>1 DEF OtherChanges
      <4>3. QED
        BY <4>2, AppendMessage DEF TypeOK, PushOps
    <3>3. QED
      BY <3>1, <3>2
  <2>3. QED
    BY <1>5, <2>1, <2>2, OrderSame DEF OtherChanges, connection, pushing
<1>6. CASE ServerJoins
  <2>1. up # <<>> /\ Head(up).op \in {"join", "rejoin"} /\ up' = Tail(up)
    BY <1>6 DEF ServerJoins
  <2>2. PICK m \in Answers : m.op = Head(up).op /\ down' = Append(down, m)
    <3>1. Head(up) \in Requests /\ Head(up).since \in Nat
      BY <2>1, TailLemma, RequestLemma DEF TypeOK
    <3>2. Len(room) \in Nat
      BY LenProperties DEF TypeOK
    <3>3. [op |-> Head(up).op, since |-> Head(up).since, seq |-> Len(room)] \in Answers
      BY <2>1, <3>1, <3>2, AnswerLemma
    <3>4. QED
      BY <1>6, <3>3 DEF ServerJoins
  <2>3. InFlight(up') \cup InFlight(down') = InFlight(up) \cup InFlight(down)
    BY <2>1, <2>2, RequestServed DEF PushOps
  <2>4. QED
    BY <1>6, <2>3, OrderSame DEF ServerJoins, connection, pushing
<1>7. QED
  BY <1>1, <1>2, <1>3, <1>4, <1>5, <1>6

LEMMA OrderConnect ==
    ASSUME TypeOK, PushesOK, OrderOK, SendHello \/ HandleDisconnect \/ Close
    PROVE  OrderOK'
<1>1. CASE SendHello
  <2>1. up = <<>> /\ down = <<>> /\ UNCHANGED <<down, fate, closed, waited, room>>
    BY <1>1 DEF SendHello, PushesOK, Connected, server
  <2>2. InFlight(up) \cup InFlight(down) = {}
    BY <2>1, EmptyMessages
  <2>3. CASE up' = Append(up, [op |-> "rejoin", since |-> lastSeq]) /\ UNCHANGED pushing
    <3>1. InFlight(up') = InFlight(up)
      BY <2>3, AskLemma DEF TypeOK
    <3>2. QED
      BY <2>1, <2>2, <2>3, <3>1, OrderSame DEF pushing
  <2>4. CASE greeting' = "none" /\ Flush(queue, pending, up, TRUE)
    <3>1. /\ InOrder(queue', pending', waited) /\ OnLine(pending', up', down, stray')
          /\ OnlyFirst(up', down, flushing', waited) /\ stray \subseteq stray'
          /\ flushing' = None \/ flushing' \in Range(queue)
      BY <2>2, <2>4, FlushInOrder DEF TypeOK, OrderOK
    <3>2. WaitedInOrder'
      BY <2>1, <3>1, WaitedStay DEF OrderOK
    <3>3. Begun'
      BY <2>1, <3>1, OpenPushes, PushNumbers DEF Begun
    <3>4. QED
      BY <2>1, <2>4, <3>1, <3>2, <3>3 DEF OrderOK
  <2>5. QED
    BY <1>1, <2>3, <2>4 DEF SendHello
<1>2. CASE HandleDisconnect
  <2>1. /\ down' = <<>> /\ UNCHANGED <<fate, closed, waited, room>>
        /\ greeting' = "none"
        /\ \/ Flush(Requeued, <<>>, <<>>, FALSE)
           \/ /\ queue' = Requeued /\ pending' = <<>> /\ up' = <<>> /\ flushing' = None
              /\ UNCHANGED stray
    BY <1>2 DEF HandleDisconnect
  <2>2. /\ Requeued \in Seq(Push) /\ Rising(Requeued, waited)
        /\ Range(Requeued) = Range(pending) \cup Range(queue)
    BY ConcatLemma, ConcatRising, PushNumbers DEF TypeOK, OrderOK, InOrder, Requeued
  <2>3. InOrder(Requeued, <<>>, waited) /\ OnLine(<<>>, <<>>, <<>>, stray)
    BY <2>2, EmptyLemma DEF InOrder, OnLine
  <2>4. /\ InOrder(queue', pending', waited) /\ OnLine(pending', up', <<>>, stray')
        /\ OnlyFirst(up', <<>>, flushing', waited) /\ stray \subseteq stray'
        /\ flushing' = None \/ flushing' \in Range(Requeued)
    <3>1. CASE Flush(Requeued, <<>>, <<>>, FALSE)
      <4>1. <<>> \in Seq(Push) /\ <<>> \in Seq(Requests)
        BY EmptySeq
      <4>2. \A p \in InFlight(<<>>) \cup InFlight(<<>>) : p \notin waited
        BY EmptyMessages
      <4>3. QED
        BY <2>2, <2>3, <3>1, <4>1, <4>2, FlushInOrder
    <3>2. CASE /\ queue' = Requeued /\ pending' = <<>> /\ up' = <<>> /\ flushing' = None
               /\ UNCHANGED stray
      BY <2>3, <3>2, EmptyMessages DEF OnlyFirst
    <3>3. QED
      BY <2>1, <3>1, <3>2
  <2>5. WaitedInOrder'
    BY <2>1, <2>4, WaitedStay DEF OrderOK
  <2>6. Begun'
    BY <2>1, <2>2, <2>4, OpenPushes, PushNumbers DEF Begun
  <2>7. QED
    BY <2>1, <2>4, <2>5, <2>6 DEF OrderOK
<1>3. CASE Close
  <2>1. /\ queue' = <<>> /\ pending' = <<>> /\ up' = <<>> /\ down' = <<>> /\ closed'
        /\ flushing' = None
        /\ UNCHANGED <<waited, stray, room>>
        /\ \A p \in Push : fate[p] = "refused" => fate'[p] = "refused"
    BY <1>3 DEF Close
  <2>2. WaitedInOrder'
    BY <2>1, WaitedStay DEF OrderOK
  <2>3. InFlight(up') \cup InFlight(down') = {}
    BY <2>1, EmptyMessages
  <2>4. InOrder(queue, pending, waited)'
    BY <2>1, EmptyLemma DEF InOrder
  <2>5. OnLine(pending, up, down, stray)' /\ OnlyFirst(up, down, flushing, waited)'
    BY <2>1, <2>3, EmptyLemma DEF OnLine, OnlyFirst
  <2>6. Begun'
    BY <2>1, PushNumbers DEF Begun
  <2>7. QED
    BY <2>1, <2>2, <2>3, <2>4, <2>5, <2>6 DEF OrderOK
<1>4. QED
  BY <1>1, <1>2, <1>3

LEMMA OrderMade ==
    ASSUME TypeOK, PushesOK, OrderOK, NEW p \in Push, MakePush(p)
    PROVE  OrderOK'
<1>1. /\ fate[p] = "unmade"
      /\ fate' = [fate EXCEPT ![p] = "open"]
      /\ waited' = IF ready THEN waited ELSE waited \cup {p}
      /\ UNCHANGED <<greeting, closed, flushing, down, room>>
  BY DEF MakePush, connection, server
<1>2. /\ p \notin waited /\ p \notin Range(room) /\ waited \subseteq Push
      /\ p \notin InFlight(up) \cup InFlight(down)
      /\ Range(queue) \cup Range(pending) = Open /\ p \notin Open
      /\ \A x \in Push : fate[x] # "unmade" => ~(p < x)
      /\ \A x \in Open : x < p
  <2>1. p \notin waited /\ p \notin Range(room) /\ waited \subseteq Push
    BY <1>1 DEF PushesOK, MadeInOrder, TypeOK
  <2>2. Range(queue) \cup Range(pending) = Open /\ p \notin Open
    BY <1>1 DEF PushesOK, Kept, Open
  <2>3. p \notin InFlight(up) \cup InFlight(down)
    BY <2>2 DEF PushesOK, Carried
  <2>4. \A x \in Push : fate[x] # "unmade" => ~(p < x)
    BY <1>1 DEF PushesOK, MadeInOrder
  <2>5. \A x \in Open : x < p
    BY <1>1, <2>4, PushNumbers DEF Open
  <2>6. QED
    BY <2>1, <2>2, <2>3, <2>4, <2>5
<1>3. \A x \in Push : fate'[x] = IF x = p THEN "open" ELSE fate[x]
  BY <1>1 DEF TypeOK
<1>4. stray \subseteq stray' => WaitedInOrder'
  <2>1. SUFFICES ASSUME stray \subseteq stray',
                        NEW a \in waited' \ stray', NEW b \in waited' \ stray',
                        a < b, b \in Range(room)
                 PROVE  a \in Range(room) \/ fate'[a] = "refused"
    BY <1>1 DEF WaitedInOrder
  <2>2. a \in Push /\ b \in Push /\ b # p /\ fate[b] # "unmade"
    BY <1>1, <1>2, <2>1 DEF PushesOK, MadeInOrder
  <2>3. a # p
    BY <1>2, <2>1, <2>2
  <2>4. a \in waited \ stray /\ b \in waited \ stray
    BY <1>1, <2>1, <2>2, <2>3
  <2>5. QED
    BY <1>3, <2>1, <2>2, <2>3, <2>4 DEF OrderOK, WaitedInOrder
<1>5. (\A x \in Push : fate'[x] = "closed" => closed') /\ Begun'
  BY <1>1, <1>3 DEF OrderOK, Begun
<1>6. CASE Send(p, pending, up, state = "online") /\ UNCHANGED queue /\ ready
  <2>2. /\ InFlight(up') \subseteq InFlight(up) \cup {p}
        /\ state = "online" => InFlight(up') = InFlight(up) \cup {p}
        /\ state # "online" => InFlight(up') = InFlight(up)
        /\ Range(pending') = Range(pending) \cup {p}
        /\ stray' = stray \cup (IF state = "online" THEN {} ELSE {p})
        /\ pending' = Append(pending, p)
    <3>1. CASE state = "online"
      <4>1. (state = "online") = TRUE
        BY <3>1, Zenon
      <4>2. Send(p, pending, up, TRUE)
        BY <1>6, <4>1, Zenon
      <4>3. QED
        BY <3>1, <4>2, SendAdds DEF TypeOK
    <3>2. CASE state # "online"
      <4>1. (state = "online") = FALSE
        BY <3>2, Zenon
      <4>2. Send(p, pending, up, FALSE)
        BY <1>6, <4>1, Zenon
      <4>3. /\ InFlight(up') = InFlight(up) \cup {}
            /\ Range(pending') = Range(pending) \cup {p}
            /\ stray' = stray \cup {p}
            /\ pending' = Append(pending, p)
        BY <4>2, SendAdds DEF TypeOK
      <4>4. QED
        BY <3>2, <4>3
    <3>3. QED
      BY <3>1, <3>2
  <2>3. Rising(pending', waited)
    BY <1>2, <2>2, AppendRising, PushNumbers DEF OrderOK, InOrder, TypeOK
  <2>4. InOrder(queue, pending, waited)'
    BY <1>1, <1>2, <1>6, <2>2, <2>3 DEF OrderOK, InOrder
  <2>5. OnLine(pending, up, down, stray)'
    BY <1>1, <2>2 DEF OrderOK, OnLine
  <2>6. OnlyFirst(up, down, flushing, waited)'
    BY <1>1, <1>2, <1>6, <2>2 DEF OrderOK, OnlyFirst
  <2>7. \A x \in InFlight(up') \cup InFlight(down') :
          x \in waited' \/ x = flushing' => greeting' = "none"
    BY <1>1, <1>2, <1>6, <2>2 DEF OrderOK, Begun
  <2>8. WaitedInOrder'
    BY <1>4, <2>2
  <2>9. QED
    BY <1>5, <2>4, <2>5, <2>6, <2>7, <2>8 DEF OrderOK
<1>7. CASE /\ queue' = IF ready THEN <<p>> \o queue ELSE Append(queue, p)
           /\ UNCHANGED <<pending, up, stray>>
  <2>1. Rising(pending, waited')
    BY <1>1, <1>2 DEF OrderOK, InOrder, Rising, Range
  <2>2. Range(queue') = Range(queue) \cup {p} /\ Rising(queue', waited')
    <3>1. CASE ready
      <4>1. <<p>> \in Seq(Push) /\ Range(<<p>>) = {p} /\ Rising(<<p>>, waited)
        BY PushNumbers DEF Range, Rising
      <4>2. queue \in Seq(Push) /\ queue' = <<p>> \o queue /\ Rising(queue, waited)
        BY <1>7, <3>1 DEF TypeOK, OrderOK, InOrder
      <4>3. \A x \in Range(<<p>>) \cap waited, y \in Range(queue) \cap waited : x < y
        BY <1>2, <4>1
      <4>4. Rising(<<p>> \o queue, waited)
        BY <4>1, <4>2, <4>3, ConcatRising, PushNumbers
      <4>5. Range(<<p>> \o queue) = Range(<<p>>) \cup Range(queue)
        BY <4>1, <4>2, ConcatLemma
      <4>6. QED
        BY <1>1, <3>1, <4>1, <4>2, <4>4, <4>5
    <3>2. CASE ~ready
      <4>1. queue' = Append(queue, p) /\ waited' = waited \cup {p} /\ queue \in Seq(Push)
        BY <1>1, <1>7, <3>2 DEF TypeOK
      <4>2. Rising(queue, waited') /\ \A x \in Range(queue) \cap waited' : x < p
        BY <1>2, <4>1 DEF OrderOK, InOrder, Rising, Range
      <4>3. QED
        BY <4>1, <4>2, AppendLemma, AppendRising, PushNumbers
    <3>3. QED
      BY <3>1, <3>2
  <2>3. InOrder(queue, pending, waited)'
    <3>1. ASSUME NEW x \in Range(pending) \cap waited', NEW y \in Range(queue') \cap waited'
          PROVE  x < y
      BY <1>1, <1>2, <2>2, <3>1 DEF OrderOK, InOrder
    <3>2. QED
      BY <1>7, <2>1, <2>2, <3>1 DEF InOrder
  <2>4. OnLine(pending, up, down, stray)' /\ OnlyFirst(up, down, flushing, waited)'
    BY <1>1, <1>2, <1>7 DEF OrderOK, OnLine, OnlyFirst
  <2>5. \A x \in InFlight(up') \cup InFlight(down') :
          x \in waited' \/ x = flushing' => greeting' = "none"
    BY <1>1, <1>2, <1>7 DEF OrderOK
  <2>6. QED
    BY <1>4, <1>5, <1>7, <2>3, <2>4, <2>5 DEF OrderOK
<1>8. QED
  BY <1>6, <1>7 DEF MakePush

LEMMA OrderJoined ==
    ASSUME TypeOK, PushesOK, AsksOK, OrderOK, HandleJoined
    PROVE  OrderOK'
<1>1. /\ down # <<>> /\ Head(down).op \in {"join", "rejoin"} /\ down' = Tail(down)
      /\ UNCHANGED <<fate, closed, waited, room>>
  BY DEF HandleJoined, server
<1>2. InFlight(down') = InFlight(down)
  BY <1>1, AnswerTaken
<1>3. CASE UNCHANGED <<greeting, pushing, up>>
  BY <1>1, <1>2, <1>3, OrderSame DEF pushing
<1>4. CASE Head(down).op = "rejoin" /\ greeting' = "none" /\ Flush(queue, pending, up, TRUE)
  <2>1. greeting = "rejoin"
    BY <1>1, <1>4, TailMessage DEF TypeOK, AsksOK
  <2>2. \A p \in InFlight(up) \cup InFlight(down') : p \notin waited
    BY <1>2, <2>1 DEF OrderOK
  <2>3. OnLine(pending, up, down', stray)
    BY <1>2 DEF OrderOK, OnLine
  <2>4. /\ InOrder(queue', pending', waited) /\ OnLine(pending', up', down', stray')
        /\ OnlyFirst(up', down', flushing', waited) /\ stray \subseteq stray'
        /\ flushing' = None \/ flushing' \in Range(queue)
    BY <1>4, <2>2, <2>3, FlushInOrder DEF TypeOK, OrderOK
  <2>5. WaitedInOrder'
    BY <1>1, <2>4, WaitedStay DEF OrderOK
  <2>6. Begun'
    BY <1>1, <2>4, OpenPushes, PushNumbers DEF Begun
  <2>7. QED
    BY <1>1, <1>4, <2>4, <2>5, <2>6 DEF OrderOK
<1>5. QED
  BY <1>3, <1>4 DEF HandleJoined

LEMMA OrderAnswered ==
    ASSUME TypeOK, PushesOK, AsksOK, OrderOK, HandlePushed
    PROVE  OrderOK'
<1> DEFINE p == Answered
           rest == RemoveFirst(pending, p)
<1>1. /\ Head(down).op \in {"pushed", "refused"} /\ down # <<>> /\ down' = Tail(down)
      /\ UNCHANGED <<greeting, closed, waited, room>>
      /\ fate' = [fate EXCEPT ![p] = IF Head(down).op = "pushed" THEN "taken" ELSE "refused"]
      /\ \/ p = flushing /\ Flush(queue, rest, up, TRUE)
         \/ p # flushing /\ pending' = rest /\ UNCHANGED <<queue, flushing, up, stray>>
  BY DEF HandlePushed, connection, server
<1>2. /\ p \in Range(pending) /\ p \in InFlight(down)
      /\ p \notin InFlight(Tail(down)) /\ p \notin InFlight(up)
      /\ InFlight(down) = InFlight(Tail(down)) \cup {p}
  BY <1>1, AnswerTaken
<1>3. /\ rest \in Seq(Push) /\ Range(rest) = Range(pending) \ {p} /\ Rising(rest, waited)
  BY RemoveLemma, RemoveRising, PushNumbers DEF TypeOK, PushesOK, Kept, OrderOK, InOrder
<1> HIDE DEF rest, p
<1>4. p \in Push /\ fate[p] = "open"
  <2>1. p \in Open
    BY <1>2 DEF PushesOK, Kept
  <2>2. QED
    BY <2>1 DEF Open
<1>5. InOrder(queue, rest, waited) /\ OnLine(rest, up, Tail(down), stray)
  BY <1>2, <1>3 DEF OrderOK, InOrder, OnLine
<1>6. /\ \A x \in Push : fate[x] = "refused" => fate'[x] = "refused"
      /\ \A x \in Push : fate'[x] = "closed" => closed'
  BY <1>1, <1>4 DEF TypeOK, OrderOK
<1>7. stray \subseteq stray' => WaitedInOrder'
  BY <1>1, <1>6, WaitedStay DEF OrderOK
<1>8. CASE p = flushing /\ Flush(queue, rest, up, TRUE)
  <2>1. \A x \in InFlight(up) \cup InFlight(Tail(down)) : x \notin waited
    BY <1>2, <1>8 DEF OrderOK, OnlyFirst
  <2>2. /\ InOrder(queue', pending', waited) /\ OnLine(pending', up', Tail(down), stray')
        /\ OnlyFirst(up', Tail(down), flushing', waited) /\ stray \subseteq stray'
        /\ flushing' = None \/ flushing' \in Range(queue)
    BY <1>3, <1>5, <1>8, <2>1, FlushInOrder DEF TypeOK
  <2>3. greeting = "none"
    BY <1>2, <1>8 DEF OrderOK
  <2>4. Begun'
    BY <1>1, <2>2, OpenPushes, PushNumbers DEF Begun, TypeOK
  <2>5. QED
    BY <1>1, <1>6, <1>7, <2>2, <2>3, <2>4 DEF OrderOK
<1>9. CASE p # flushing /\ pending' = rest /\ UNCHANGED <<queue, flushing, up, stray>>
  <2>1. OnlyFirst(up, Tail(down), flushing, waited)
    BY <1>2 DEF OrderOK, OnlyFirst
  <2>2. \A x \in InFlight(up) \cup InFlight(Tail(down)) :
          x \in waited \/ x = flushing => greeting = "none"
    BY <1>2 DEF OrderOK
  <2>3. QED
    BY <1>1, <1>4, <1>5, <1>6, <1>7, <1>9, <2>1, <2>2 DEF OrderOK, Begun, TypeOK
<1>10. QED
  BY <1>1, <1>8, <1>9

LEMMA OrderServed ==
    ASSUME TypeOK, PushesOK, OrderOK, ServerTakes \/ ServerRefuses
    PROVE  OrderOK'
<1>1. /\ up # <<>> /\ Head(up).op = "push" /\ up' = Tail(up)
      /\ UNCHANGED <<queue, pending, flushing, stray, waited, fate, closed, greeting>>
      /\ room' = room \/ room' = Append(room, Head(up).push)
  BY DEF ServerTakes, ServerRefuses, pushing, connection
<1>2. Head(up).push \in Push
  BY <1>1, TailLemma, RequestLemma DEF TypeOK
<1>3. PICK m \in Answers : /\ m.op \in PushOps /\ m.push = Head(up).push
                           /\ down' = Append(down, m)
  <2>1. CASE ServerTakes
    <3>1. Len(room') \in Nat
      BY <1>2, <2>1, RoomLemma DEF ServerTakes
    <3>2. [op |-> "pushed", push |-> Head(up).push, seq |-> Len(room')] \in Answers
      BY <1>2, <3>1, AnswerLemma
    <3>3. QED
      BY <2>1, <3>2 DEF ServerTakes, PushOps
  <2>2. CASE ServerRefuses
    <3>1. [op |-> "refused", push |-> Head(up).push] \in Answers
      BY <1>2, AnswerLemma
    <3>2. QED
      BY <2>2, <3>1 DEF ServerRefuses, PushOps
  <2>3. QED
    BY <2>1, <2>2
<1> DEFINE h == Head(up).push
<1>4. /\ InFlight(up') \cup InFlight(down') = InFlight(up) \cup InFlight(down)
      /\ h \in Range(pending) /\ fate[h] = "open" /\ state = "online"
  BY <1>1, <1>3, RequestServed
<1>5. h \in InFlight(up)
  BY <1>1, TailMessage DEF TypeOK, PushOps
<1> HIDE DEF h
<1>6. CASE room' = room
  BY <1>1, <1>4, <1>6, OrderSame
<1>7. CASE room' = Append(room, h)
  <2>1. Range(room') = Range(room) \cup {h}
    BY <1>2, <1>7, RoomLemma DEF h
  <2>2. ASSUME NEW a \in waited \ stray, h \in waited \ stray, a < h
        PROVE  a \in Range(room) \/ fate[a] = "refused"
    <3>1. a \in Push /\ fate[a] \in Fates /\ fate[a] # "unmade"
      BY DEF TypeOK, PushesOK, MadeInOrder
    <3>2. fate[a] # "closed"
      BY <1>4, <3>1 DEF OrderOK, PushesOK, Connected
    <3>3. CASE fate[a] = "taken"
      BY <3>1, <3>3 DEF PushesOK, Recorded
    <3>4. CASE fate[a] = "open"
      <4>1. a \in Range(queue) \/ a \in Range(pending)
        BY <3>1, <3>4 DEF PushesOK, Kept, Open
      <4>2. ~(h < a)
        <5>1. h \in Nat /\ a \in Nat
          BY <1>2, <3>1, PushNumbers DEF h
        <5>2. QED
          BY <2>2, <5>1
      <4>3. a \in Range(pending)
        BY <1>4, <2>2, <4>1, <4>2 DEF OrderOK, InOrder
      <4>4. a \in InFlight(up) \cup InFlight(down)
        BY <4>3 DEF OrderOK, OnLine
      <4>5. a = flushing /\ h = flushing
        BY <1>5, <2>2, <4>4 DEF OrderOK, OnlyFirst
      <4>6. QED
        BY <2>2, <3>1, <4>5, PushNumbers
    <3>5. QED
      BY <3>1, <3>2, <3>3, <3>4 DEF Fates
  <2>3. WaitedInOrder'
    BY <1>1, <2>1, <2>2 DEF OrderOK, WaitedInOrder
  <2>4. InOrder(queue, pending, waited)' /\ OnLine(pending, up, down, stray)'
        /\ OnlyFirst(up, down, flushing, waited)'
    BY <1>1, <1>4 DEF OrderOK, OnLine, OnlyFirst
  <2>5. /\ \A x \in InFlight(up') \cup InFlight(down') :
              x \in waited' \/ x = flushing' => greeting' = "none"
        /\ Begun'
    BY <1>1, <1>4 DEF OrderOK, Begun
  <2>6. QED
    BY <1>1, <2>3, <2>4, <2>5 DEF OrderOK
<1>8. QED
  BY <1>1, <1>6, <1>7 DEF h

LEMMA OrderStep ==
    ASSUME TypeOK, PushesOK, AsksOK, OrderOK, ClientNext
    PROVE  OrderOK'
BY OrderMade, OrderQuiet, OrderConnect, OrderJoined, OrderAnswered, OrderServed DEF ClientNext, Next

LEMMA OrderAlways == Spec => [](TypeOK /\ PushesOK /\ AsksOK /\ OrderOK)
<1> DEFINE I == TypeOK /\ PushesOK /\ AsksOK /\ OrderOK
<1>1. Init => I
  <2>1. SUFFICES ASSUME Init
                 PROVE  AsksOK /\ OrderOK
    BY PushesInit
  <2>2. /\ queue = <<>> /\ pending = <<>> /\ up = <<>> /\ down = <<>> /\ room = <<>>
        /\ waited = {} /\ ~joining /\ ~relaying /\ flushing = None
        /\ \A p \in Push : fate[p] = "unmade"
    BY <2>1 DEF Init
  <2>3. AsksOK
    BY <2>2, NoJoins DEF AsksOK, Asked
  <2>4. OrderOK
    <3>1. InOrder(queue, pending, waited) /\ OnLine(pending, up, down, stray)
      BY <2>2, EmptyLemma DEF InOrder, OnLine
    <3>2. InFlight(up) \cup InFlight(down) = {}
      BY <2>2, EmptyMessages
    <3>3. Begun
      BY <2>2, PushNumbers DEF Begun
    <3>4. QED
      BY <2>2, <3>1, <3>2, <3>3 DEF OrderOK, OnlyFirst, WaitedInOrder
  <2>5. QED
    BY <2>3, <2>4
<1>2. I /\ [Next]_vars => I'
  <2>1. I /\ Next => I'
    BY PushesStep, AsksStep, OrderStep DEF ClientNext
  <2>2. ASSUME I, UNCHANGED vars
        PROVE  I'
    <3>1. UNCHANGED <<connection, following, ready, pushing, fate, waited, up, down, server>>
      BY <2>2 DEF vars
    <3>2. TypeOK'
      BY <2>2, <3>1 DEF TypeOK, connection, following, pushing, server
    <3>3. PushesOK'
      BY <2>2, <3>1, Zenon DEF PushesOK, Connected, Recorded, MadeInOrder, Open, connection,
                               following, pushing, server
    <3>4. AsksOK'
      BY <2>2, <3>1, Zenon DEF AsksOK, Asked, connection, following, pushing, server
    <3>5. OrderOK'
      BY <2>2, <3>1, Zenon DEF OrderOK, Begun, WaitedInOrder, connection, following, pushing, server
    <3>6. QED
      BY <3>2, <3>3, <3>4, <3>5
  <2>3. QED
    BY <2>1, <2>2
<1>3. QED
  BY <1>1, <1>2, PTL DEF Spec

\* Pushes that had to wait reach the room in the order they were made (`flushQueue`), over any
\* number of connections, if they are not refused or sent where no one answers.
THEOREM WaitedKeepTheirOrder == Spec => []WaitedInOrder
<1>1. OrderOK => WaitedInOrder
  BY DEF OrderOK
<1>2. QED
  BY <1>1, OrderAlways, PTL

-----------------------------------------------------------------------------
(* What is heard of the room.                                              *)

\* The changes an answer hands over, and the seq up to which it speaks of the room.
Handed(m) == IF m.op \in {"pushed", "pull"} THEN {m.seq}
             ELSE IF m.op \in {"join", "rejoin"} THEN m.since + 1 .. m.seq ELSE {}
Reach(m) == IF m.op = "refused" THEN 0 ELSE m.seq

\* What was handed over once the first n answers were.
ToldBy(answers, told, n) == told \cup UNION {Handed(answers[i]) : i \in 1 .. n}
Joins(answers, n) == \E i \in 1 .. n : answers[i].op = "join"

\* The answers speak of the room in its order, and of what was not heard of yet.
SeqsOK ==
    /\ lastSeq <= Len(room)
    /\ \A i \in DOMAIN down :
          down[i].op # "refused" => lastSeq <= down[i].seq /\ down[i].seq <= Len(room)
    /\ \A i, j \in DOMAIN down :
          i < j /\ down[i].op # "refused" /\ down[j].op # "refused" => down[i].seq <= down[j].seq

\* Who is in the room, or will be by then, is handed all an answer speaks of no later than with it.
Heard(b) == heard \cup 1 .. b
Tells(b) == \A n \in DOMAIN down :
               relaying \/ Joins(down, n) => 1 .. Reach(down[n]) \subseteq ToldBy(down, Heard(b), n)
TellsAll(b) == member /\ (relaying \/ Joins(down, Len(down)))
               => 1 .. Len(room) \subseteq ToldBy(down, Heard(b), Len(down))

\* A join asks for what its caller does not hold; a re-join for what was not heard, before anything
\* else.
Asking(line, reach, b) ==
    /\ \A i \in DOMAIN line : /\ line[i].op = "join" => line[i].since <= b
                              /\ line[i].op = "rejoin" => line[i].since <= reach
    /\ Has(line, "rejoin") => Head(line).op = "rejoin"

\* The server does not tell one that has still to re-join.
Rejoins ==
    /\ Has(up, "rejoin") => down = <<>> /\ ~member
    /\ relaying /\ ~member /\ state = "online" => Has(up, "rejoin")

\* Nothing is skipped, if the caller held the first b changes when it joined.
Follows(b) == relaying => 1 .. lastSeq \subseteq Heard(b)

HearsOK(b) == Follows(b) /\ Tells(b) /\ TellsAll(b) /\ Asking(up, lastSeq, b) /\ Rejoins

Grown(line, longer) ==
    longer = line \/ \E m \in Requests : m.op = "push" /\ longer = Append(line, m)

LEMMA AskingGrown ==
    ASSUME NEW line \in Seq(Requests), NEW longer, Grown(line, longer), NEW reach, NEW b,
           Asking(line, reach, b)
    PROVE  /\ Asking(longer, reach, b)
           /\ Has(longer, "rejoin") <=> Has(line, "rejoin")
<1>1. CASE longer = line
  BY <1>1
<1>2. ASSUME NEW m \in Requests, m.op = "push", longer = Append(line, m)
      PROVE  /\ Asking(longer, reach, b)
             /\ Has(longer, "rejoin") <=> Has(line, "rejoin")
  <2>1. Has(longer, "rejoin") <=> Has(line, "rejoin")
    BY <1>2, AppendMessage
  <2>2. /\ DOMAIN line = 1 .. Len(line) /\ Len(line) \in Nat
        /\ DOMAIN longer = 1 .. Len(line) + 1
        /\ \A i \in 1 .. Len(line) : longer[i] = line[i]
        /\ longer[Len(line) + 1] = m
    BY <1>2, AppendProperties, LenProperties
  <2>3. Has(line, "rejoin") => Head(longer) = Head(line)
    BY <1>2, <2>2, HeadTailProperties, AppendProperties, EmptySeq DEF Has
  <2>4. QED
    BY <1>2, <2>1, <2>2, <2>3 DEF Asking
<1>3. QED
  BY <1>1, <1>2 DEF Grown

LEMMA AskingTail ==
    ASSUME NEW line \in Seq(Requests), line # <<>>, NEW reach, NEW b, Asking(line, reach, b),
           One(line, "rejoin")
    PROVE  Asking(Tail(line), reach, b) /\ ~Has(Tail(line), "rejoin")
<1>1. ~Has(Tail(line), "rejoin")
  BY TailMessage DEF Asking
<1>2. \A i \in DOMAIN Tail(line) : i + 1 \in DOMAIN line /\ Tail(line)[i] = line[i + 1]
  BY HeadTailProperties, LenProperties, EmptySeq
<1>3. QED
  BY <1>1, <1>2 DEF Asking

LEMMA FlushGrows ==
    ASSUME NEW queued \in Seq(Push), NEW sent, NEW line, NEW greeted,
           Flush(queued, sent, line, greeted)
    PROVE  Grown(line, up')
<1>1. CASE queued = <<>>
  BY <1>1 DEF Flush, Grown
<1>2. CASE queued # <<>>
  <2>1. Head(queued) \in Push
    BY <1>2, TailLemma
  <2>2. [op |-> "push", push |-> Head(queued)] \in Requests
    BY <2>1, RequestLemma
  <2>3. QED
    BY <1>2, <2>2 DEF Flush, Send, Grown
<1>3. QED
  BY <1>1, <1>2

LEMMA OneMore ==
    ASSUME NEW s \in Seq(Answers), NEW m \in Answers, NEW t, t = Append(s, m)
    PROVE  /\ Len(s) \in Nat /\ Len(t) = Len(s) + 1
           /\ DOMAIN s = 1 .. Len(s) /\ DOMAIN t = 1 .. Len(t)
           /\ \A i \in 1 .. Len(s) : t[i] = s[i]
           /\ t[Len(t)] = m
           /\ 1 .. Len(t) = (1 .. Len(s)) \cup {Len(t)}
           /\ \A n \in 1 .. Len(s) : Joins(t, n) <=> Joins(s, n)
           /\ Joins(t, Len(t)) <=> Joins(s, Len(s)) \/ m.op = "join"
<1>1. /\ Len(s) \in Nat /\ Len(t) = Len(s) + 1
      /\ DOMAIN s = 1 .. Len(s) /\ DOMAIN t = 1 .. Len(t)
      /\ \A i \in 1 .. Len(s) : t[i] = s[i]
      /\ t[Len(t)] = m
  BY AppendProperties, LenProperties
<1>2. 1 .. Len(t) = (1 .. Len(s)) \cup {Len(t)}
  BY <1>1
<1>3. ASSUME NEW n \in 1 .. Len(s)
      PROVE  Joins(t, n) <=> Joins(s, n)
  <2>1. \A i \in 1 .. n : i \in 1 .. Len(s) /\ t[i] = s[i]
    BY <1>1, <1>3
  <2>2. QED
    BY <2>1 DEF Joins
<1>4. Joins(t, Len(t)) <=> Joins(s, Len(s)) \/ m.op = "join"
  BY <1>1, <1>2 DEF Joins
<1>5. QED
  BY <1>1, <1>2, <1>3, <1>4

LEMMA ToldTail ==
    ASSUME NEW s \in Seq(Answers), s # <<>>, NEW told
    PROVE  /\ Len(Tail(s)) + 1 = Len(s) /\ Len(Tail(s)) \in Nat
           /\ DOMAIN Tail(s) = 1 .. Len(Tail(s)) /\ DOMAIN s = 1 .. Len(s)
           /\ \A i \in DOMAIN Tail(s) : Tail(s)[i] = s[i + 1]
           /\ s[1] = Head(s)
           /\ \A n \in 0 .. Len(Tail(s)) :
                 /\ ToldBy(Tail(s), told \cup Handed(Head(s)), n) = ToldBy(s, told, n + 1)
                 /\ Joins(s, n + 1) <=> Joins(Tail(s), n) \/ Head(s).op = "join"
<1> DEFINE t == Tail(s)
           h == Head(s)
<1>1. /\ Len(t) \in Nat /\ Len(t) + 1 = Len(s)
      /\ DOMAIN t = 1 .. Len(t) /\ DOMAIN s = 1 .. Len(s)
      /\ \A i \in 1 .. Len(t) : t[i] = s[i + 1]
      /\ h = s[1]
  BY HeadTailProperties, LenProperties, EmptySeq
<1> HIDE DEF t, h
<1>2. ASSUME NEW n \in 0 .. Len(t)
      PROVE  /\ ToldBy(t, told \cup Handed(h), n) = ToldBy(s, told, n + 1)
             /\ Joins(s, n + 1) <=> Joins(t, n) \/ h.op = "join"
  <2>1. \A i \in 1 .. n : i + 1 \in 1 .. n + 1 /\ t[i] = s[i + 1]
    BY <1>1, <1>2
  <2>2. ASSUME NEW j \in 1 .. n + 1, j # 1
        PROVE  j - 1 \in 1 .. n /\ t[j - 1] = s[j]
    <3>1. j - 1 \in 1 .. n /\ j - 1 \in 1 .. Len(t) /\ (j - 1) + 1 = j
      BY <1>1, <1>2, <2>2
    <3>2. t[j - 1] = s[(j - 1) + 1]
      BY <1>1, <3>1
    <3>3. QED
      BY <3>1, <3>2
  <2>3. 1 \in 1 .. n + 1
    BY <1>2
  <2>4. ToldBy(t, told \cup Handed(h), n) \subseteq ToldBy(s, told, n + 1)
    <3>1. Handed(h) \subseteq ToldBy(s, told, n + 1)
      BY <1>1, <2>3 DEF ToldBy
    <3>2. ASSUME NEW i \in 1 .. n
          PROVE  Handed(t[i]) \subseteq ToldBy(s, told, n + 1)
      BY <2>1 DEF ToldBy
    <3>3. QED
      BY <3>1, <3>2 DEF ToldBy
  <2>5. ToldBy(s, told, n + 1) \subseteq ToldBy(t, told \cup Handed(h), n)
    <3>1. ASSUME NEW j \in 1 .. n + 1
          PROVE  Handed(s[j]) \subseteq ToldBy(t, told \cup Handed(h), n)
      <4>1. CASE j = 1
        BY <1>1, <4>1 DEF ToldBy
      <4>2. CASE j # 1
        BY <2>2, <4>2 DEF ToldBy
      <4>3. QED
        BY <4>1, <4>2
    <3>2. told \subseteq ToldBy(t, told \cup Handed(h), n)
      BY DEF ToldBy
    <3>3. QED
      BY <3>1, <3>2 DEF ToldBy
  <2>6. Joins(s, n + 1) <=> Joins(t, n) \/ h.op = "join"
    BY <1>1, <2>1, <2>2, <2>3 DEF Joins
  <2>7. QED
    BY <2>4, <2>5, <2>6
<1>3. QED
  BY <1>1, <1>2 DEF t, h

\* An answer is handled: what it speaks of was handed over with it.
LEMMA AnswerHeard ==
    ASSUME NEW b \in Nat, TypeOK, AsksOK, SeqsOK, HearsOK(b), down # <<>>, down' = Tail(down),
           heard' = heard \cup Handed(Head(down)),
           lastSeq' = IF Head(down).op = "refused" THEN lastSeq ELSE Higher(Head(down).seq),
           relaying' <=> relaying \/ Head(down).op = "join",
           Grown(up, up'), UNCHANGED <<state, member, room>>
    PROVE  SeqsOK' /\ HearsOK(b)'
<1> DEFINE h == Head(down)
<1>0. Heard(b)' = Heard(b) \cup Handed(h)
  BY DEF Heard
<1>1. /\ Len(down') + 1 = Len(down) /\ Len(down') \in Nat
      /\ DOMAIN down' = 1 .. Len(down') /\ DOMAIN down = 1 .. Len(down)
      /\ \A i \in DOMAIN down' : down'[i] = down[i + 1]
      /\ down[1] = h
      /\ \A n \in 0 .. Len(down') : /\ ToldBy(down', Heard(b)', n) = ToldBy(down, Heard(b), n + 1)
                                    /\ Joins(down, n + 1) <=> Joins(down', n) \/ h.op = "join"
  BY <1>0, ToldTail DEF TypeOK
<1>2. h \in Answers /\ (h.op # "refused" => h.seq \in Nat) /\ lastSeq \in Nat
  BY TailLemma, AnswerLemma DEF TypeOK
<1>3. \A i \in DOMAIN down : down[i].op # "refused" => down[i].seq \in Nat
  BY <1>1, AnswerLemma DEF TypeOK
<1>4. Has(down, h.op)
  BY <1>1 DEF Has
<1> HIDE DEF h
<1>5. /\ lastSeq' \in Nat /\ lastSeq <= lastSeq'
      /\ lastSeq' = IF h.op = "refused" THEN lastSeq ELSE h.seq
  BY <1>1, <1>2 DEF SeqsOK, Higher, h
<1>6. SeqsOK'
  <2>1. lastSeq' <= Len(room')
    BY <1>1, <1>5 DEF SeqsOK
  <2>2. \A i \in DOMAIN down' : i + 1 \in DOMAIN down /\ 1 < i + 1 /\ 1 \in DOMAIN down
    BY <1>1
  <2>3. \A i \in DOMAIN down' :
           down'[i].op # "refused" => lastSeq' <= down'[i].seq /\ down'[i].seq <= Len(room')
    BY <1>1, <1>5, <2>2 DEF SeqsOK
  <2>4. \A i, j \in DOMAIN down' : i < j => i + 1 < j + 1
    BY <1>1
  <2>5. \A i, j \in DOMAIN down' :
          i < j /\ down'[i].op # "refused" /\ down'[j].op # "refused"
          => down'[i].seq <= down'[j].seq
    BY <1>1, <2>2, <2>4 DEF SeqsOK
  <2>6. QED
    BY <2>1, <2>3, <2>5 DEF SeqsOK
<1>7. Follows(b)'
  <2>1. SUFFICES ASSUME relaying'
                 PROVE  1 .. lastSeq' \subseteq Heard(b)'
    BY DEF Follows
  <2>2. Heard(b)' = ToldBy(down, Heard(b), 1)
    <3>1. 0 \in 0 .. Len(down') /\ 0 + 1 = 1
      BY <1>1
    <3>2. ToldBy(down', Heard(b)', 0) = ToldBy(down, Heard(b), 0 + 1)
      BY <1>1, <3>1
    <3>3. ToldBy(down', Heard(b)', 0) = Heard(b)'
      BY DEF ToldBy
    <3>4. QED
      BY <3>1, <3>2, <3>3
  <2>3. CASE h.op = "refused"
    BY <1>5, <2>1, <2>3 DEF HearsOK, Follows, Heard, h
  <2>4. CASE h.op # "refused"
    <3>1. relaying \/ Joins(down, 1)
      BY <1>1, <2>1 DEF Joins, h
    <3>2. 1 \in DOMAIN down
      BY <1>1
    <3>3. 1 .. Reach(down[1]) \subseteq ToldBy(down, Heard(b), 1)
      BY <3>1, <3>2 DEF HearsOK, Tells
    <3>4. QED
      BY <1>1, <1>5, <2>2, <2>4, <3>3 DEF Reach
  <2>5. QED
    BY <2>3, <2>4
<1>8. Tells(b)'
  <2>1. SUFFICES ASSUME NEW n \in DOMAIN down', relaying' \/ Joins(down', n)
                 PROVE  1 .. Reach(down'[n]) \subseteq ToldBy(down', Heard(b)', n)
    BY DEF Tells
  <2>2. n \in 0 .. Len(down') /\ n + 1 \in DOMAIN down /\ down'[n] = down[n + 1]
    BY <1>1
  <2>3. relaying \/ Joins(down, n + 1)
    BY <1>1, <2>1, <2>2 DEF h
  <2>4. 1 .. Reach(down[n + 1]) \subseteq ToldBy(down, Heard(b), n + 1)
    BY <2>2, <2>3 DEF HearsOK, Tells
  <2>5. QED
    BY <1>1, <2>2, <2>4
<1>9. TellsAll(b)'
  <2>1. SUFFICES ASSUME member', relaying' \/ Joins(down', Len(down'))
                 PROVE  1 .. Len(room) \subseteq ToldBy(down', Heard(b)', Len(down'))
    BY DEF TellsAll
  <2>2. Len(down') \in 0 .. Len(down') /\ Len(down') + 1 = Len(down)
    BY <1>1
  <2>3. relaying \/ Joins(down, Len(down') + 1)
    BY <1>1, <2>1, <2>2 DEF h
  <2>4. 1 .. Len(room) \subseteq ToldBy(down, Heard(b), Len(down))
    BY <2>1, <2>2, <2>3 DEF HearsOK, TellsAll
  <2>5. QED
    BY <1>1, <2>2, <2>4
<1>10. Asking(up', lastSeq', b) /\ (Has(up', "rejoin") <=> Has(up, "rejoin"))
  <2>1. Asking(up', lastSeq, b) /\ (Has(up', "rejoin") <=> Has(up, "rejoin"))
    BY AskingGrown DEF TypeOK, HearsOK
  <2>2. \A i \in DOMAIN up' : up'[i].op = "rejoin" => up'[i].since \in Nat
    <3>1. \A i \in DOMAIN up : up[i] \in Requests
      BY LenProperties DEF TypeOK
    <3>2. \A m \in Requests : \A i \in DOMAIN Append(up, m) : Append(up, m)[i] \in Requests
      BY AppendProperties, LenProperties DEF TypeOK
    <3>3. QED
      BY <3>1, <3>2, RequestLemma DEF Grown
  <2>3. QED
    BY <1>2, <1>5, <2>1, <2>2 DEF Asking
<1>11. Rejoins'
  BY <1>4, <1>10 DEF HearsOK, Rejoins, AsksOK, h
<1>12. QED
  BY <1>6, <1>7, <1>8, <1>9, <1>10, <1>11 DEF HearsOK

\* An answer is sent: to who follows it hands over what was not, as far as it speaks of the room.
LEMMA AnswerSent ==
    ASSUME NEW b \in Nat, TypeOK, SeqsOK, Tells(b), TellsAll(b), NEW m \in Answers, down' = Append(down, m),
           Len(room) <= Len(room'), room' \in Seq(Push \cup {None}),
           m.op # "refused" => m.seq = Len(room'),
           relaying \/ Joins(down, Len(down)) \/ m.op = "join"
           => 1 .. Len(room') \subseteq ToldBy(down, Heard(b), Len(down)) \cup Handed(m),
           UNCHANGED <<lastSeq, heard, relaying>>
    PROVE  SeqsOK' /\ Tells(b)' /\ TellsAll(b)'
<1> down \in Seq(Answers)
  BY DEF TypeOK
<1>1. /\ DOMAIN down = 1 .. Len(down) /\ Len(down) \in Nat
      /\ DOMAIN down' = 1 .. Len(down') /\ Len(down') = Len(down) + 1
      /\ \A i \in 1 .. Len(down) : down'[i] = down[i]
      /\ down'[Len(down')] = m
  BY AppendProperties, LenProperties
<1>2. /\ \A n \in 1 .. Len(down) : Joins(down', n) <=> Joins(down, n)
      /\ \A n \in 1 .. Len(down) : ToldBy(down', Heard(b)', n) = ToldBy(down, Heard(b), n)
      /\ Joins(down', Len(down')) <=> Joins(down, Len(down)) \/ m.op = "join"
      /\ ToldBy(down', Heard(b)', Len(down')) = ToldBy(down, Heard(b), Len(down)) \cup Handed(m)
  <2>1. \A n \in 1 .. Len(down) : Joins(down', n) <=> Joins(down, n)
    BY OneMore
  <2>2. Joins(down', Len(down')) <=> Joins(down, Len(down)) \/ m.op = "join"
    BY OneMore
  <2>3. ASSUME NEW n \in 1 .. Len(down)
        PROVE  ToldBy(down', Heard(b), n) = ToldBy(down, Heard(b), n)
    <3>1. \A i \in 1 .. n : i \in 1 .. Len(down) /\ down'[i] = down[i]
      BY <1>1, <2>3
    <3>2. QED
      BY <3>1 DEF ToldBy
  <2>4. ToldBy(down', Heard(b), Len(down')) = ToldBy(down, Heard(b), Len(down)) \cup Handed(m)
    <3>1. 1 .. Len(down') = (1 .. Len(down)) \cup {Len(down')}
      BY <1>1
    <3>2. QED
      BY <1>1, <3>1 DEF ToldBy
  <2>5. QED
    BY <2>1, <2>2, <2>3, <2>4 DEF Heard
<1>3. /\ Len(room) \in Nat /\ Len(room') \in Nat /\ lastSeq \in Nat
      /\ \A i \in 1 .. Len(down) : down[i].op # "refused" => down[i].seq \in Nat
  BY <1>2, AnswerLemma, LenProperties DEF TypeOK
<1>4. SeqsOK'
  <2>1. lastSeq' <= Len(room')
    BY <1>3 DEF SeqsOK
  <2>2. \A i \in DOMAIN down' :
           down'[i].op # "refused" => lastSeq' <= down'[i].seq /\ down'[i].seq <= Len(room')
    BY <1>1, <1>2, <1>3, <2>1 DEF SeqsOK
  <2>3. \A i, j \in DOMAIN down' :
          i < j /\ down'[i].op # "refused" /\ down'[j].op # "refused"
          => down'[i].seq <= down'[j].seq
    BY <1>1, <1>2, <1>3, <2>2 DEF SeqsOK
  <2>4. QED
    BY <2>1, <2>2, <2>3 DEF SeqsOK
<1>5. Tells(b)'
  <2>1. SUFFICES ASSUME NEW n \in DOMAIN down', relaying \/ Joins(down', n)
                 PROVE  1 .. Reach(down'[n]) \subseteq ToldBy(down', Heard(b)', n)
    BY DEF Tells
  <2>2. CASE n \in 1 .. Len(down)
    BY <1>1, <1>2, <2>1, <2>2 DEF Tells
  <2>3. CASE n \notin 1 .. Len(down)
    <3>1. n = Len(down') /\ down'[n] = m
      BY <1>1, <1>2, <2>3
    <3>2. 1 .. Len(room') \subseteq ToldBy(down', Heard(b)', n)
      BY <1>2, <2>1, <3>1
    <3>3. CASE m.op = "refused"
      BY <3>1, <3>3 DEF Reach
    <3>4. CASE m.op # "refused"
      BY <3>1, <3>2, <3>4 DEF Reach
    <3>5. QED
      BY <3>3, <3>4
  <2>4. QED
    BY <2>2, <2>3
<1>6. TellsAll(b)'
  <2>1. relaying' \/ Joins(down', Len(down'))
        => 1 .. Len(room') \subseteq ToldBy(down', Heard(b)', Len(down'))
    BY <1>2
  <2>2. QED
    BY <2>1 DEF TellsAll
<1>7. QED
  BY <1>4, <1>5, <1>6

LEMMA HearsSame ==
    ASSUME NEW b \in Nat, SeqsOK, HearsOK(b), UNCHANGED <<down, room, lastSeq, heard, relaying, member>>
    PROVE  SeqsOK' /\ Follows(b)' /\ Tells(b)' /\ TellsAll(b)'
BY Zenon DEF SeqsOK, HearsOK, Follows, Heard, Tells, TellsAll

LEMMA NothingAsked == \A reach, b : Asking(<<>>, reach, b)
BY EmptyMessages DEF Asking

\* Nothing speaks of the room on a line that was cut.
LEMMA HearsCut ==
    ASSUME NEW b \in Nat, TypeOK, SeqsOK, HearsOK(b), UNCHANGED <<room, lastSeq, heard, relaying>>,
           up' = <<>>, down' = <<>>, ~member', state' # "online"
    PROVE  SeqsOK' /\ HearsOK(b)'
<1>1. DOMAIN down' = {}
  BY LenProperties, EmptySeq
<1>2. SeqsOK' /\ Tells(b)' /\ TellsAll(b)'
  BY <1>1 DEF SeqsOK, Tells, TellsAll
<1>3. Follows(b)'
  BY DEF HearsOK, Follows, Heard
<1>4. Asking(up', lastSeq', b)
  BY NothingAsked
<1>5. Rejoins'
  BY EmptyMessages DEF Rejoins
<1>6. QED
  BY <1>2, <1>3, <1>4, <1>5 DEF HearsOK

LEMMA HearsConnect ==
    ASSUME NEW b \in Nat, TypeOK, PushesOK, AsksOK, SeqsOK, HearsOK(b),
           OpenConnection \/ SendHello \/ HandleDisconnect \/ Close
    PROVE  SeqsOK' /\ HearsOK(b)'
<1>1. CASE OpenConnection
  <2>1. /\ up = <<>> /\ UNCHANGED <<up, down, room, lastSeq, heard, relaying, member>>
        /\ state' = "connecting"
    BY <1>1 DEF OpenConnection, PushesOK, Connected, following, server
  <2>2. Asking(up', lastSeq', b) /\ Rejoins'
    BY <2>1 DEF HearsOK, Rejoins
  <2>3. QED
    BY <2>1, <2>2, HearsSame DEF HearsOK
<1>2. CASE SendHello
  <2>1. /\ up = <<>> /\ down = <<>> /\ ~member
        /\ UNCHANGED <<joined, down, room, lastSeq, heard, relaying, member>>
    BY <1>2 DEF SendHello, PushesOK, Connected, following, server
  <2>2. CASE up' = Append(up, [op |-> "rejoin", since |-> lastSeq])
    <3>1. ASSUME NEW m, m = [op |-> "rejoin", since |-> lastSeq]
          PROVE  Asking(Append(up, m), lastSeq, b) /\ Has(Append(up, m), "rejoin")
      <4>1. m \in Requests /\ m.op = "rejoin" /\ m.since = lastSeq /\ lastSeq \in Nat
        BY <3>1, RequestLemma DEF TypeOK
      <4>2. Has(Append(up, m), "rejoin")
        BY <4>1, AppendMessage DEF TypeOK
      <4>3. Append(up, m) = <<m>>
        BY <2>1
      <4>4. QED
        BY <4>1, <4>2, <4>3 DEF Asking
    <3>2. Asking(up', lastSeq', b) /\ Has(up', "rejoin")
      BY <2>1, <2>2, <3>1
    <3>3. Rejoins'
      BY <2>1, <3>2 DEF Rejoins
    <3>4. QED
      BY <2>1, <3>2, <3>3, HearsSame DEF HearsOK
  <2>3. CASE ~joined /\ Flush(queue, pending, up, TRUE)
    <3>1. Asking(up', lastSeq, b) /\ (Has(up', "rejoin") <=> Has(up, "rejoin"))
      BY <2>3, FlushGrows, AskingGrown DEF TypeOK, HearsOK
    <3>2. ~relaying /\ ~Has(up, "rejoin")
      BY <2>1, <2>3, EmptyMessages DEF AsksOK
    <3>3. Rejoins'
      BY <2>1, <3>1, <3>2 DEF Rejoins
    <3>4. QED
      BY <2>1, <3>1, <3>3, HearsSame DEF HearsOK
  <2>4. QED
    BY <1>2, <2>2, <2>3 DEF SendHello
<1>3. CASE HandleDisconnect \/ Close
  <2>1. PushesOK' /\ state' # "online" /\ ~member' /\ UNCHANGED <<room, lastSeq, heard, relaying>>
    BY <1>3, PushesConnect DEF HandleDisconnect, Close
  <2>2. up' = <<>> /\ down' = <<>>
    BY <2>1 DEF PushesOK, Connected
  <2>3. QED
    BY <2>1, <2>2, HearsCut
<1>4. QED
  BY <1>1, <1>2, <1>3

LEMMA HearsAsked ==
    ASSUME NEW b \in Nat, TypeOK, PushesOK, AsksOK, SeqsOK, HearsOK(b),
           (\E p \in Push : MakePush(p)) \/ (\E from \in 0 .. b : Join(from)) \/ Leave
    PROVE  SeqsOK' /\ HearsOK(b)'
<1>1. ASSUME NEW p \in Push, MakePush(p)
      PROVE  SeqsOK' /\ HearsOK(b)'
  <2>1. UNCHANGED <<down, room, lastSeq, heard, relaying, member, state>>
    BY <1>1 DEF MakePush, connection, following, server
  <2>2. Grown(up, up')
    <3>1. [op |-> "push", push |-> p] \in Requests
      BY RequestLemma
    <3>2. QED
      BY <1>1, <3>1 DEF MakePush, Send, Grown
  <2>3. Asking(up', lastSeq, b) /\ (Has(up', "rejoin") <=> Has(up, "rejoin"))
    BY <2>2, AskingGrown DEF TypeOK, HearsOK
  <2>4. Rejoins'
    BY <2>1, <2>3 DEF HearsOK, Rejoins
  <2>5. QED
    BY <2>1, <2>3, <2>4, HearsSame DEF HearsOK
<1>2. ASSUME NEW from \in 0 .. b, Join(from)
      PROVE  SeqsOK' /\ HearsOK(b)'
  <2>1. /\ UNCHANGED <<down, room, lastSeq, heard, relaying, member, state>> /\ ~relaying
        /\ up' = Append(up, [op |-> "join", since |-> from])
    BY <1>2 DEF Join, connection, server
  <2>2. ASSUME NEW m, m = [op |-> "join", since |-> from]
        PROVE  /\ Asking(Append(up, m), lastSeq, b)
               /\ Has(Append(up, m), "rejoin") <=> Has(up, "rejoin")
    <3>1. m \in Requests /\ m.op = "join" /\ m.since <= b
      <4>1. from \in Nat /\ from <= b
        OBVIOUS
      <4>2. QED
        BY <2>2, <4>1, RequestLemma
    <3>2. Has(Append(up, m), "rejoin") <=> Has(up, "rejoin")
      BY <3>1, AppendMessage DEF TypeOK
    <3>3. /\ DOMAIN up = 1 .. Len(up) /\ Len(up) \in Nat
          /\ DOMAIN Append(up, m) = 1 .. Len(up) + 1
          /\ \A i \in 1 .. Len(up) : Append(up, m)[i] = up[i]
          /\ Append(up, m)[Len(up) + 1] = m
      BY <3>1, AppendProperties, LenProperties DEF TypeOK
    <3>4. Has(up, "rejoin") => Head(Append(up, m)) = Head(up)
      BY <3>1, <3>3, HeadTailProperties, AppendProperties, EmptySeq DEF TypeOK, Has
    <3>5. QED
      BY <3>1, <3>2, <3>3, <3>4 DEF HearsOK, Asking
  <2>3. Asking(up', lastSeq', b) /\ (Has(up', "rejoin") <=> Has(up, "rejoin"))
    BY <2>1, <2>2
  <2>4. Rejoins'
    BY <2>1, <2>3 DEF HearsOK, Rejoins
  <2>5. QED
    BY <2>1, <2>3, <2>4, HearsSame DEF HearsOK
<1>3. CASE Leave
  <2>1. /\ UNCHANGED <<up, down, room, lastSeq, heard, state>> /\ ~relaying' /\ (member' => member)
    BY <1>3 DEF Leave, connection
  <2>2. SeqsOK' /\ Follows(b)'
    BY <2>1 DEF SeqsOK, Follows
  <2>3. Tells(b)' /\ TellsAll(b)'
    BY <2>1 DEF HearsOK, Tells, TellsAll, Heard
  <2>4. Asking(up', lastSeq', b) /\ Rejoins'
    BY <2>1 DEF HearsOK, Rejoins
  <2>5. QED
    BY <2>2, <2>3, <2>4 DEF HearsOK
<1>4. QED
  BY <1>1, <1>2, <1>3

LEMMA HearsHandled ==
    ASSUME NEW b \in Nat, TypeOK, PushesOK, AsksOK, SeqsOK, HearsOK(b),
           HandleJoined \/ HandlePull \/ HandlePushed
    PROVE  SeqsOK' /\ HearsOK(b)'
<1>1. /\ down # <<>> /\ down' = Tail(down) /\ UNCHANGED <<state, member, room>>
  BY DEF HandleJoined, HandlePull, HandlePushed, connection, server
<1>2. Head(down) \in Answers
  BY <1>1, TailLemma DEF TypeOK
<1>3. Grown(up, up')
  <2>1. CASE HandlePushed
    <3>1. CASE Flush(queue, RemoveFirst(pending, Answered), up, TRUE)
      BY <3>1, FlushGrows DEF TypeOK
    <3>2. QED
      BY <2>1, <3>1 DEF HandlePushed, Grown
  <2>2. CASE HandleJoined \/ HandlePull
    <3>1. CASE Flush(queue, pending, up, TRUE)
      BY <3>1, FlushGrows DEF TypeOK
    <3>2. QED
      BY <2>2, <3>1 DEF HandleJoined, HandlePull, Grown
  <2>3. QED
    BY <2>1, <2>2
<1>4. relaying' <=> relaying \/ Head(down).op = "join"
  <2>1. CASE HandleJoined
    <3>1. CASE Head(down).op = "join" /\ relaying' = TRUE
      BY <3>1
    <3>2. CASE Head(down).op = "rejoin" /\ relaying' = relaying
      BY <3>2
    <3>3. QED
      BY <2>1, <3>1, <3>2 DEF HandleJoined
  <2>2. CASE HandlePull \/ HandlePushed
    <3>1. Head(down).op # "join" /\ relaying' = relaying
      BY <2>2 DEF HandlePull, HandlePushed
    <3>2. QED
      BY <3>1
  <2>3. QED
    BY <2>1, <2>2
<1>5. /\ heard' = heard \cup Handed(Head(down))
      /\ lastSeq' = IF Head(down).op = "refused" THEN lastSeq ELSE Higher(Head(down).seq)
  <2>1. CASE HandleJoined
    BY <2>1 DEF HandleJoined, Handed
  <2>2. CASE HandlePull
    BY <2>2 DEF HandlePull, Handed
  <2>3. CASE HandlePushed
    BY <2>3 DEF HandlePushed, Handed
  <2>4. QED
    BY <2>1, <2>2, <2>3
<1>6. QED
  BY <1>1, <1>3, <1>4, <1>5, AnswerHeard

LEMMA HearsServed ==
    ASSUME NEW b \in Nat, TypeOK, PushesOK, AsksOK, SeqsOK, HearsOK(b),
           ServerTakes \/ ServerRefuses \/ ServerJoins
    PROVE  SeqsOK' /\ HearsOK(b)'
<1>1. /\ up # <<>> /\ up' = Tail(up) /\ UNCHANGED <<state, lastSeq, heard, relaying, joining>>
  BY DEF ServerTakes, ServerRefuses, ServerJoins, connection, following
<1>2. /\ Asking(up', lastSeq, b) /\ ~Has(up', "rejoin") /\ Head(up) \in Requests /\ state = "online"
      /\ Head(up).op = "rejoin" <=> Has(up, "rejoin")
  <2>1. Has(up, Head(up).op) /\ One(up, "rejoin")
    BY <1>1, TailMessage DEF TypeOK, AsksOK, Asked
  <2>2. QED
    BY <1>1, <2>1, AskingTail, TailLemma DEF TypeOK, HearsOK, PushesOK, Connected, Asking
<1>3. /\ Len(room) \in Nat /\ lastSeq \in Nat /\ lastSeq <= Len(room)
      /\ Heard(b) \subseteq ToldBy(down, Heard(b), Len(down))
  BY LenProperties DEF TypeOK, SeqsOK, ToldBy
\* Whoever follows the room is a member, or the request is a re-join.
<1>4. Head(up).op # "rejoin" /\ (relaying \/ Joins(down, Len(down))) => member
  <2>1. Joins(down, Len(down)) => Has(down, "join")
    BY LenProperties DEF TypeOK, Joins, Has
  <2>2. Has(down, "join") => member
    BY DEF AsksOK
  <2>3. Head(up).op # "rejoin" /\ relaying => member
    BY <1>2 DEF HearsOK, Rejoins
  <2>4. QED
    BY <2>1, <2>2, <2>3
<1>5. Head(up).op # "rejoin" /\ (relaying \/ Joins(down, Len(down)))
      => 1 .. Len(room) \subseteq ToldBy(down, Heard(b), Len(down))
  BY <1>4 DEF HearsOK, TellsAll
<1>6. Follows(b)'
  BY <1>1 DEF HearsOK, Follows, Heard
<1>7. SUFFICES SeqsOK' /\ Tells(b)' /\ TellsAll(b)' /\ Rejoins'
  BY <1>1, <1>2, <1>6 DEF HearsOK
<1>8. CASE ServerTakes
  <2>1. Head(up).op = "push" /\ Head(up).push \in Push
    BY <1>2, <1>8, RequestLemma DEF ServerTakes
  <2>2. room' \in Seq(Push \cup {None}) /\ Len(room') = Len(room) + 1
    BY <1>8, <2>1, RoomLemma DEF ServerTakes
  <2>3. PICK m \in Answers : m.op = "pushed" /\ m.seq = Len(room') /\ down' = Append(down, m)
    <3>1. [op |-> "pushed", push |-> Head(up).push, seq |-> Len(room')] \in Answers
      BY <1>3, <2>1, <2>2, AnswerLemma
    <3>2. QED
      BY <1>8, <3>1 DEF ServerTakes
  <2>4. relaying \/ Joins(down, Len(down)) \/ m.op = "join"
        => 1 .. Len(room') \subseteq ToldBy(down, Heard(b), Len(down)) \cup Handed(m)
    BY <1>3, <1>5, <2>1, <2>2, <2>3 DEF Handed
  <2>5. SeqsOK' /\ Tells(b)' /\ TellsAll(b)'
    BY <1>1, <1>3, <2>2, <2>3, <2>4, AnswerSent DEF HearsOK
  <2>6. UNCHANGED member
    BY <1>8 DEF ServerTakes
  <2>7. Rejoins'
    BY <1>1, <1>2, <2>1, <2>6 DEF HearsOK, Rejoins
  <2>8. QED
    BY <2>5, <2>7
<1>9. CASE ServerRefuses
  <2>1. Head(up).op = "push" /\ Head(up).push \in Push /\ UNCHANGED <<room, member>>
    BY <1>2, <1>9, RequestLemma DEF ServerRefuses
  <2>2. PICK m \in Answers : m.op = "refused" /\ down' = Append(down, m)
    <3>1. [op |-> "refused", push |-> Head(up).push] \in Answers
      BY <2>1, AnswerLemma
    <3>2. QED
      BY <1>9, <3>1 DEF ServerRefuses
  <2>3. room' \in Seq(Push \cup {None}) /\ Len(room) <= Len(room')
    BY <1>3, <2>1 DEF TypeOK
  <2>4. relaying \/ Joins(down, Len(down)) \/ m.op = "join"
        => 1 .. Len(room') \subseteq ToldBy(down, Heard(b), Len(down)) \cup Handed(m)
    BY <1>5, <2>1, <2>2
  <2>5. SeqsOK' /\ Tells(b)' /\ TellsAll(b)'
    BY <1>1, <2>2, <2>3, <2>4, AnswerSent DEF HearsOK
  <2>6. Rejoins'
    BY <1>1, <1>2, <2>1 DEF HearsOK, Rejoins
  <2>7. QED
    BY <2>5, <2>6
<1>10. CASE ServerJoins
  <2>1. Head(up).op \in {"join", "rejoin"} /\ Head(up).since \in Nat /\ room' = room /\ member'
    BY <1>2, <1>10, RequestLemma DEF ServerJoins
  <2>2. PICK m \in Answers : /\ m.op = Head(up).op /\ m.since = Head(up).since /\ m.seq = Len(room)
                             /\ down' = Append(down, m)
    <3>1. [op |-> Head(up).op, since |-> Head(up).since, seq |-> Len(room)] \in Answers
      BY <1>3, <2>1, AnswerLemma
    <3>2. QED
      BY <1>10, <3>1 DEF ServerJoins
  <2>3. room' \in Seq(Push \cup {None}) /\ Len(room) <= Len(room')
    BY <1>3, <2>1 DEF TypeOK
  <2>4. 1 \in DOMAIN up /\ Head(up) = up[1]
    BY <1>1, HeadTailProperties, LenProperties, EmptySeq DEF TypeOK
  <2>5. Handed(m) = Head(up).since + 1 .. Len(room)
    BY <2>1, <2>2 DEF Handed
  <2>6. relaying \/ Joins(down, Len(down)) \/ m.op = "join"
        => 1 .. Len(room') \subseteq ToldBy(down, Heard(b), Len(down)) \cup Handed(m)
    <3>1. CASE Head(up).op = "join"
      <4>1. Head(up).since <= b
        BY <2>4, <3>1 DEF HearsOK, Asking
      <4>2. QED
        <5>1. 1 .. b \subseteq ToldBy(down, Heard(b), Len(down))
          BY <1>3 DEF Heard
        <5>2. 1 .. Len(room) \subseteq 1 .. b \cup (Head(up).since + 1 .. Len(room))
          BY <1>3, <2>1, <4>1
        <5>3. QED
          BY <2>1, <2>5, <5>1, <5>2
    <3>2. CASE Head(up).op = "rejoin"
      <4>1. Head(up).since <= lastSeq
        BY <2>4, <3>2 DEF HearsOK, Asking
      <4>2. down = <<>>
        BY <1>2, <3>2 DEF HearsOK, Rejoins
      <4>3. ~Joins(down, Len(down))
        BY <4>2, LenProperties, EmptySeq DEF Joins
      <4>4. relaying => 1 .. lastSeq \subseteq Heard(b)
        BY DEF HearsOK, Follows
      <4>5. 1 .. Len(room) \subseteq (1 .. lastSeq) \cup (Head(up).since + 1 .. Len(room))
        BY <1>3, <2>1, <4>1
      <4>6. QED
        BY <1>3, <2>1, <2>2, <2>5, <3>2, <4>3, <4>4, <4>5
    <3>3. QED
      BY <2>1, <3>1, <3>2
  <2>7. SeqsOK' /\ Tells(b)' /\ TellsAll(b)'
    BY <1>1, <2>1, <2>2, <2>3, <2>6, AnswerSent DEF HearsOK
  <2>8. Rejoins'
    BY <1>2, <2>1 DEF Rejoins
  <2>9. QED
    BY <2>7, <2>8
<1>11. QED
  BY <1>8, <1>9, <1>10

LEMMA HearsOthers ==
    ASSUME NEW b \in Nat, TypeOK, PushesOK, AsksOK, SeqsOK, HearsOK(b), OtherChanges
    PROVE  SeqsOK' /\ HearsOK(b)'
<1>1. UNCHANGED <<state, lastSeq, heard, relaying, up, member>>
  BY DEF OtherChanges, connection, following
<1>2. /\ room' \in Seq(Push \cup {None}) /\ Len(room') = Len(room) + 1 /\ Len(room) \in Nat
      /\ lastSeq \in Nat
  BY RoomLemma DEF OtherChanges, TypeOK
<1>3. Follows(b)' /\ Asking(up', lastSeq', b)
  BY <1>1 DEF HearsOK, Follows, Heard
<1>4. CASE member
  <2>1. PICK m \in Answers : m.op = "pull" /\ m.seq = Len(room') /\ down' = Append(down, m)
    <3>1. [op |-> "pull", seq |-> Len(room')] \in Answers
      BY <1>2, AnswerLemma
    <3>2. QED
      BY <1>4, <3>1 DEF OtherChanges
  <2>2. relaying \/ Joins(down, Len(down)) \/ m.op = "join"
        => 1 .. Len(room') \subseteq ToldBy(down, Heard(b), Len(down)) \cup Handed(m)
    BY <1>2, <1>4, <2>1 DEF HearsOK, TellsAll, Handed
  <2>3. SeqsOK' /\ Tells(b)' /\ TellsAll(b)'
    BY <1>1, <1>2, <2>1, <2>2, AnswerSent DEF HearsOK
  <2>4. Rejoins'
    BY <1>1, <1>4 DEF HearsOK, Rejoins
  <2>5. QED
    BY <1>3, <2>3, <2>4 DEF HearsOK
<1>5. CASE ~member
  <2>1. UNCHANGED down
    BY <1>5 DEF OtherChanges
  <2>2. SeqsOK'
    <3>1. \A i \in DOMAIN down : down[i].op # "refused" => down[i].seq \in Nat
      BY AnswerLemma, LenProperties DEF TypeOK
    <3>2. QED
      BY <1>1, <1>2, <2>1, <3>1 DEF SeqsOK
  <2>3. Tells(b)' /\ TellsAll(b)' /\ Rejoins'
    BY <1>1, <1>5, <2>1 DEF HearsOK, Tells, TellsAll, Heard, Rejoins
  <2>4. QED
    BY <1>3, <2>2, <2>3 DEF HearsOK
<1>6. QED
  BY <1>4, <1>5

LEMMA HearsStep ==
    ASSUME NEW b \in Nat, TypeOK, PushesOK, AsksOK, SeqsOK, HearsOK(b),
           Next \/ \E from \in 0 .. b : Join(from)
    PROVE  SeqsOK' /\ HearsOK(b)'
<1>1. 0 \in 0 .. b
  OBVIOUS
<1>2. QED
  BY <1>1, HearsConnect, HearsAsked, HearsHandled, HearsServed, HearsOthers DEF Next

\* The room is re-joined from a seq up to which its caller was handed every change or made it
\* itself (`lastSeq`, `rejoinAll`), whatever is lost with a connection.
THEOREM NoGap == Spec => []NothingIsSkipped
<1> DEFINE I == TypeOK /\ PushesOK /\ AsksOK /\ OrderOK
           J == SeqsOK /\ HearsOK(0)
<1>1. Init => J
  <2>1. SUFFICES ASSUME Init
                 PROVE  J
    OBVIOUS
  <2>2. /\ up = <<>> /\ down = <<>> /\ room = <<>> /\ lastSeq = 0 /\ ~relaying /\ ~member
        /\ state = "offline"
    BY <2>1 DEF Init
  <2>3. DOMAIN down = {} /\ Len(room) = 0
    BY <2>2, LenProperties, EmptySeq
  <2>4. SeqsOK /\ Tells(0) /\ TellsAll(0) /\ Follows(0)
    BY <2>2, <2>3 DEF SeqsOK, Tells, TellsAll, Follows
  <2>5. Asking(up, lastSeq, 0) /\ Rejoins
    BY <2>2, NothingAsked, EmptyMessages DEF Rejoins
  <2>6. QED
    BY <2>4, <2>5 DEF HearsOK
<1>2. I /\ J /\ [Next]_vars => J'
  <2>1. CASE Next
    BY <2>1, HearsStep
  <2>2. ASSUME J, UNCHANGED vars
        PROVE  J'
    <3>1. UNCHANGED <<connection, following, up, down, server>>
      BY <2>2 DEF vars
    <3>2. SeqsOK' /\ Follows(0)' /\ Tells(0)' /\ TellsAll(0)'
      BY <2>2, <3>1, HearsSame DEF following, server
    <3>3. Asking(up', lastSeq', 0) /\ Rejoins'
      BY <2>2, <3>1, Zenon DEF HearsOK, Rejoins, connection, following, server
    <3>4. QED
      BY <3>2, <3>3 DEF HearsOK
  <2>3. QED
    BY <2>1, <2>2
<1>3. J => NothingIsSkipped
  BY DEF HearsOK, Follows, Heard, NothingIsSkipped
<1>4. QED
  BY <1>1, <1>2, <1>3, OrderAlways, PTL DEF Spec

-----------------------------------------------------------------------------
(* The relay. What it speaks of is in the room, and the room only grows.   *)

KnownAnswers ==
    {m \in Answers : /\ m.op # "refused" => m.seq <= Len(room)
                     /\ m.op \in {"pull", "pushed"} => m.seq \in DOMAIN room
                     /\ m.op = "pushed" => room[m.seq] = m.push}

KnownSteps ==
    [op : {"online", "joining", "waiting", "send"}]
    \cup [op : {"export"}, version : SUBSET replica]
    \cup [op : {"import"}, seqs : Seq(DOMAIN room), seen : (0 .. Len(room)) \cup {None},
          rest : Seq({WaitingStep})]

Known ==
    /\ down \in Seq(KnownAnswers)
    /\ todo \in Seq(KnownSteps)
    /\ waiting \subseteq DOMAIN room
    /\ since \in 0 .. Len(room)
    /\ DOMAIN content = Push /\ DOMAIN sentBy = Push /\ DOMAIN kept = {"sent", "seen"}
    /\ kept.seen # None => kept.seen.seq \in 0 .. Len(room)
    /\ overtaken \subseteq {p \in Push : fate[p] # "unmade"}

RoomGrows ==
    /\ Len(room) \in Nat /\ Len(room') \in Nat /\ Len(room) <= Len(room')
    /\ DOMAIN room = 1 .. Len(room) /\ DOMAIN room' = 1 .. Len(room')
    /\ \A s \in DOMAIN room : room'[s] = room[s]
    /\ \A p \in Push : fate[p] # "unmade" => content'[p] = content[p]

LEMMA SeqGrows ==
    ASSUME NEW S, NEW T, S \subseteq T, NEW s \in Seq(S)
    PROVE  s \in Seq(T)
<1>1. s \in [1 .. Len(s) -> S] /\ Len(s) \in Nat
  BY LenProperties, ElementOfSeq
<1>2. s \in [1 .. Len(s) -> T]
  BY <1>1
<1>3. QED
  BY <1>1, <1>2, SeqDef

\* What the relay does of the client's steps: it never leaves, and no one closes the client.
RelayedNext ==
    \/ \E p \in Push : MakePush(p)
    \/ OpenConnection \/ SendHello \/ HandleDisconnect \/ Join(since)
    \/ HandleJoined \/ HandlePull \/ HandlePushed
    \/ ServerTakes \/ ServerRefuses \/ ServerJoins \/ OtherChanges

LEMMA RelayMoves == RelayNext => RelayedNext \/ UNCHANGED vars \/ Crash
<1>1. Edit \/ SaveReplica \/ ImportRefused \/ ImportFails => UNCHANGED vars
  BY DEF Edit, SaveReplica, ImportRefused, ImportFails
<1>2. RelayStep => RelayedNext \/ UNCHANGED vars
  <2>1. TakeVersion \/ PushNothing \/ ImportRemote \/ ImportLater \/ ImportWaiting => UNCHANGED vars
    BY DEF TakeVersion, PushNothing, ImportRemote, ImportLater, ImportWaiting
  <2>2. \A p \in Push : PushLocal(p) => MakePush(p)
    BY DEF PushLocal
  <2>3. BackOnline => Join(since) \/ UNCHANGED vars
    BY DEF BackOnline
  <2>4. QED
    BY <2>1, <2>2, <2>3 DEF RelayStep, RelayedNext
<1>3. Connecting \/ Greeted \/ Dropped \/ JoinedRoom \/ Pulled \/ PushSettled => RelayedNext
  BY DEF Connecting, Greeted, Dropped, JoinedRoom, Pulled, PushSettled, RelayedNext
<1>4. Serving \/ OthersChange => RelayedNext
  BY DEF Serving, OthersChange, RelayedNext
<1>5. QED
  BY <1>1, <1>2, <1>3, <1>4 DEF RelayNext

LEMMA CrashPushes ==
    ASSUME TypeOK, PushesOK, Crash
    PROVE  TypeOK' /\ PushesOK'
<1>1. /\ state' = "offline" /\ transport' = "none" /\ greeting' = "none"
      /\ ~joined' /\ ~joining' /\ ~relaying' /\ ~member' /\ ~ready'
      /\ lastSeq' = 0 /\ heard' = {}
      /\ fate' = [p \in Push |-> IF fate[p] = "open" THEN "closed" ELSE fate[p]]
      /\ queue' = <<>> /\ pending' = <<>> /\ flushing' = None
      /\ up' = <<>> /\ down' = <<>>
      /\ UNCHANGED <<closed, drops, waited, stray, room, refusals>>
  BY DEF Crash
<1>2. TypeOK'
  <2>1. <<>> \in Seq(Push) /\ <<>> \in Seq(Requests) /\ <<>> \in Seq(Answers)
    BY EmptySeq
  <2>2. fate' \in [Push -> Fates]
    BY <1>1 DEF TypeOK, Fates
  <2>3. /\ joined' = FALSE /\ joining' = FALSE /\ relaying' = FALSE /\ member' = FALSE
        /\ ready' = FALSE
    BY DEF Crash
  <2>4. QED
    BY <1>1, <2>1, <2>2, <2>3 DEF TypeOK
<1>3. Open' = {}
  BY <1>1 DEF Open
<1>4. Connected'
  BY <1>1 DEF Connected
<1>5. Kept(queue', pending', Open')
  BY <1>1, <1>3, EmptyLemma DEF Kept
<1>6. Carried(pending', up', down')
  BY <1>1, EmptyMessages DEF Carried
<1>7. Recorded'
  <2>1. \A p \in Push : fate'[p] = "taken" => fate[p] = "taken"
    BY <1>1
  <2>2. DOMAIN down' = {}
    BY <1>1
  <2>3. QED
    BY <1>1, <2>1, <2>2 DEF PushesOK, Recorded
<1>8. MadeInOrder'
  <2>1. \A p \in Push : fate'[p] = "unmade" <=> fate[p] = "unmade"
    BY <1>1
  <2>2. QED
    BY <1>1, <2>1 DEF PushesOK, MadeInOrder
<1>9. QED
  BY <1>2, <1>4, <1>5, <1>6, <1>7, <1>8 DEF PushesOK

LEMMA RelayPushes ==
    ASSUME TypeOK, PushesOK, Known, RelayNext
    PROVE  TypeOK' /\ PushesOK'
<1>1. CASE UNCHANGED vars
  <2>1. UNCHANGED <<connection, following, ready, pushing, fate, waited, up, down, server>>
    BY <1>1 DEF vars
  <2>2. TypeOK'
    BY <2>1 DEF TypeOK, connection, following, pushing, server
  <2>3. Open' = Open
    BY <2>1 DEF Open
  <2>4. QED
    BY <2>1, <2>2, <2>3 DEF PushesOK, connection, pushing, server, Connected, Recorded, MadeInOrder
<1>2. CASE RelayedNext
  <2>1. since \in Nat
    BY DEF Known
  <2>2. ClientNext
    BY <1>2, <2>1 DEF RelayedNext, ClientNext, Next
  <2>3. QED
    BY <2>2, PushesStep
<1>3. QED
  BY <1>1, <1>2, RelayMoves, CrashPushes

LEMMA RoomStep ==
    ASSUME TypeOK, PushesOK, Known, RelayNext
    PROVE  RoomGrows
<1>1. Len(room) \in Nat /\ DOMAIN room = 1 .. Len(room)
  BY LenProperties DEF TypeOK
<1>2. room' = room \/ \E c \in Push \cup {None} : room' = Append(room, c)
  <2>1. CASE RelayedNext
    <3>1. CASE ServerTakes
      <4>1. Head(up) \in Requests
        BY <3>1, TailLemma DEF TypeOK, ServerTakes
      <4>2. Head(up).push \in Push
        BY <3>1, <4>1, RequestLemma DEF ServerTakes
      <4>3. QED
        BY <3>1, <4>2 DEF ServerTakes
    <3>2. CASE OtherChanges
      BY <3>2 DEF OtherChanges
    <3>3. CASE (\E p \in Push : MakePush(p)) \/ OpenConnection \/ SendHello \/ Join(since)
      BY <3>3 DEF MakePush, OpenConnection, SendHello, Join, server
    <3>4. CASE HandleDisconnect \/ HandleJoined \/ HandlePull \/ HandlePushed
      BY <3>4 DEF HandleDisconnect, HandleJoined, HandlePull, HandlePushed, server
    <3>5. CASE ServerRefuses \/ ServerJoins
      BY <3>5 DEF ServerRefuses, ServerJoins
    <3>6. QED
      BY <2>1, <3>1, <3>2, <3>3, <3>4, <3>5 DEF RelayedNext
  <2>2. CASE UNCHANGED vars
    BY <2>2 DEF vars, server
  <2>3. CASE Crash
    BY <2>3 DEF Crash
  <2>4. QED
    BY <2>1, <2>2, <2>3, RelayMoves
<1>3. \A p \in Push : fate[p] # "unmade" => content'[p] = content[p]
  <2>1. CASE \E p \in Push : PushLocal(p)
    <3>1. PICK q \in Push : PushLocal(q)
      BY <2>1
    <3>2. fate[q] = "unmade" /\ content' = [content EXCEPT ![q] = Exported]
      BY <3>1 DEF PushLocal, MakePush
    <3>3. QED
      BY <3>2 DEF Known
  <2>2. CASE Edit \/ SaveReplica \/ ImportRefused \/ ImportFails \/ Crash
    BY <2>2 DEF Edit, SaveReplica, ImportRefused, ImportFails, Crash
  <2>3. CASE TakeVersion \/ PushNothing \/ ImportRemote \/ ImportLater \/ ImportWaiting \/ BackOnline
    BY <2>3 DEF TakeVersion, PushNothing, ImportRemote, ImportLater, ImportWaiting, BackOnline
  <2>4. CASE Connecting \/ Greeted \/ Dropped \/ JoinedRoom \/ Pulled
    BY <2>4 DEF Connecting, Greeted, Dropped, JoinedRoom, Pulled, Told, Unheard, relayVars
  <2>5. CASE PushSettled \/ Serving \/ OthersChange
    BY <2>5 DEF PushSettled, Serving, OthersChange, Unheard, relayVars
  <2>6. QED
    BY <2>1, <2>2, <2>3, <2>4, <2>5 DEF RelayNext, RelayStep
<1>4. CASE room' = room
  BY <1>1, <1>3, <1>4 DEF RoomGrows
<1>5. CASE \E c \in Push \cup {None} : room' = Append(room, c)
  <2>1. PICK c \in Push \cup {None} : room' = Append(room, c)
    BY <1>5
  <2>2. /\ Len(room') = Len(room) + 1 /\ DOMAIN room' = 1 .. Len(room) + 1
        /\ \A i \in 1 .. Len(room) : room'[i] = room[i]
    BY <2>1, RoomLemma
  <2>3. QED
    BY <1>1, <1>3, <2>2 DEF RoomGrows
<1>6. QED
  BY <1>2, <1>4, <1>5

\* What a change of the room carries stays what it is.
LEMMA EntriesStay ==
    ASSUME TypeOK, PushesOK, RoomGrows
    PROVE  /\ DOMAIN room \subseteq DOMAIN room'
           /\ \A s \in DOMAIN room : Entry(s)' = Entry(s)
           /\ InRoom \subseteq InRoom'
<1>1. DOMAIN room \subseteq DOMAIN room'
  BY DEF RoomGrows
<1>2. ASSUME NEW s \in DOMAIN room
      PROVE  Entry(s)' = Entry(s)
  <2>1. room'[s] = room[s] /\ room[s] \in Push \cup {None}
    BY DEF RoomGrows, TypeOK
  <2>2. CASE room[s] = None
    BY <2>1, <2>2 DEF Entry
  <2>3. CASE room[s] # None
    <3>1. fate[room[s]] # "unmade"
      BY <2>1, <2>3 DEF PushesOK, MadeInOrder, Range
    <3>2. content'[room[s]] = content[room[s]]
      BY <2>1, <2>3, <3>1 DEF RoomGrows
    <3>3. QED
      BY <2>1, <2>3, <3>2 DEF Entry
  <2>4. QED
    BY <2>2, <2>3
<1>3. ASSUME NEW x \in InRoom
      PROVE  x \in InRoom'
  <2>1. PICK s \in DOMAIN room : x \in Entry(s)
    BY <1>3 DEF InRoom
  <2>2. s \in DOMAIN room' /\ x \in Entry(s)'
    BY <1>1, <1>2, <2>1
  <2>3. QED
    BY <2>2 DEF InRoom
<1>4. QED
  BY <1>1, <1>2, <1>3

LEMMA AnswersGrow ==
    ASSUME RoomGrows
    PROVE  KnownAnswers \subseteq KnownAnswers'
<1>1. SUFFICES ASSUME NEW m \in KnownAnswers
               PROVE  m \in KnownAnswers'
  OBVIOUS
<1>2. /\ m \in Answers
      /\ m.op # "refused" => m.seq \in Nat /\ m.seq <= Len(room)
      /\ m.op \in {"pull", "pushed"} => m.seq \in DOMAIN room
      /\ m.op = "pushed" => room[m.seq] = m.push
  BY AnswerLemma DEF KnownAnswers
<1>3. /\ m.op # "refused" => m.seq <= Len(room')
      /\ m.op \in {"pull", "pushed"} => m.seq \in DOMAIN room'
      /\ m.op = "pushed" => room'[m.seq] = m.push
  BY <1>2 DEF RoomGrows
<1>4. QED
  BY <1>2, <1>3 DEF KnownAnswers

LEMMA AnswersStay ==
    ASSUME TypeOK, PushesOK, Known, RoomGrows, RelayNext
    PROVE  down' \in Seq(KnownAnswers')
<1>1. down \in Seq(KnownAnswers')
  BY AnswersGrow, SeqGrows DEF Known
<1>2. Len(room') \in Nat /\ DOMAIN room' = 1 .. Len(room')
  BY DEF RoomGrows
<1>3. CASE down' = down
  BY <1>1, <1>3
<1>4. CASE down' = <<>>
  BY <1>4
<1>5. CASE down # <<>> /\ down' = Tail(down)
  BY <1>1, <1>5, TailLemma
<1>6. ASSUME NEW m \in KnownAnswers', down' = Append(down, m)
      PROVE  down' \in Seq(KnownAnswers')
  BY <1>1, <1>6, AppendLemma
<1>7. CASE ServerTakes \/ ServerRefuses \/ ServerJoins
  <2>1. Head(up) \in Requests /\ Len(room) \in Nat
    BY <1>7, TailLemma, LenProperties DEF TypeOK, ServerTakes, ServerRefuses, ServerJoins
  <2>2. CASE ServerTakes
    <3>1. /\ Head(up).push \in Push /\ room' = Append(room, Head(up).push)
          /\ down' = Append(down, [op |-> "pushed", push |-> Head(up).push, seq |-> Len(room')])
      BY <2>1, <2>2, RequestLemma DEF ServerTakes
    <3>2. Len(room') = Len(room) + 1 /\ room'[Len(room')] = Head(up).push
      BY <3>1, RoomLemma
    <3>3. PICK m \in Answers : /\ m.op = "pushed" /\ m.push = Head(up).push /\ m.seq = Len(room')
                               /\ m = [op |-> "pushed", push |-> Head(up).push, seq |-> Len(room')]
      BY <1>2, <3>1, AnswerLemma
    <3>4. m \in KnownAnswers'
      BY <1>2, <2>1, <3>2, <3>3 DEF KnownAnswers
    <3>5. QED
      BY <1>6, <3>1, <3>3, <3>4
  <2>3. CASE ServerRefuses
    <3>1. /\ Head(up).push \in Push
          /\ down' = Append(down, [op |-> "refused", push |-> Head(up).push])
      BY <2>1, <2>3, RequestLemma DEF ServerRefuses
    <3>2. PICK m \in Answers : m.op = "refused" /\ m = [op |-> "refused", push |-> Head(up).push]
      BY <3>1, AnswerLemma
    <3>3. m \in KnownAnswers'
      BY <3>2 DEF KnownAnswers
    <3>4. QED
      BY <1>6, <3>1, <3>2, <3>3
  <2>4. CASE ServerJoins
    <3>1. /\ Head(up).op \in {"join", "rejoin"} /\ Head(up).since \in Nat /\ room' = room
          /\ down' = Append(down, [op |-> Head(up).op, since |-> Head(up).since, seq |-> Len(room)])
      BY <2>1, <2>4, RequestLemma DEF ServerJoins
    <3>2. PICK m \in Answers :
             /\ m.op \in {"join", "rejoin"} /\ m.seq = Len(room)
             /\ m = [op |-> Head(up).op, since |-> Head(up).since, seq |-> Len(room)]
      BY <2>1, <3>1, AnswerLemma
    <3>3. m \in KnownAnswers'
      BY <2>1, <3>1, <3>2 DEF KnownAnswers
    <3>4. QED
      BY <1>6, <3>1, <3>2, <3>3
  <2>5. QED
    BY <1>7, <2>2, <2>3, <2>4
<1>8. CASE OtherChanges
  <2>1. room' = Append(room, None)
    BY <1>8 DEF OtherChanges
  <2>2. Len(room') = Len(room) + 1 /\ Len(room) \in Nat
    BY <2>1, RoomLemma
  <2>3. PICK m \in Answers : /\ m.op = "pull" /\ m.seq = Len(room')
                             /\ m = [op |-> "pull", seq |-> Len(room')]
    BY <1>2, AnswerLemma
  <2>4. m \in KnownAnswers'
    BY <1>2, <2>2, <2>3 DEF KnownAnswers
  <2>5. down' = down \/ down' = Append(down, m)
    BY <1>8, <2>3 DEF OtherChanges
  <2>6. QED
    BY <1>3, <1>6, <2>4, <2>5
<1>9. CASE (\E p \in Push : MakePush(p)) \/ OpenConnection \/ SendHello \/ Join(since)
  BY <1>3, <1>9 DEF MakePush, OpenConnection, SendHello, Join
<1>10. CASE HandleDisconnect \/ HandleJoined \/ HandlePull \/ HandlePushed
  BY <1>4, <1>5, <1>10 DEF HandleDisconnect, HandleJoined, HandlePull, HandlePushed
<1>11. CASE UNCHANGED vars
  BY <1>3, <1>11 DEF vars
<1>12. CASE Crash
  BY <1>4, <1>12 DEF Crash
<1>13. QED
  BY <1>7, <1>8, <1>9, <1>10, <1>11, <1>12, RelayMoves DEF RelayedNext

\* A step the relay is given, or has left of one that ran.
FreshSteps == {t \in KnownSteps : t.op # "export"}

LEMMA StepLemma ==
    /\ \A t \in KnownSteps :
          /\ t.op = "export" => t.version \subseteq replica
          /\ t.op = "import" => /\ t.seqs \in Seq(DOMAIN room)
                                /\ t.seen \in (0 .. Len(room)) \cup {None}
                                /\ t.rest \in Seq({WaitingStep})
    /\ Online \in KnownSteps /\ WaitingStep \in KnownSteps /\ SendStep \in KnownSteps
    /\ [op |-> "joining"] \in KnownSteps
    /\ \A v \in SUBSET replica : [op |-> "export", version |-> v] \in KnownSteps
    /\ \A q \in Seq(DOMAIN room), n \in (0 .. Len(room)) \cup {None}, r \in Seq({WaitingStep}) :
          ImportStep(q, n, r) \in FreshSteps
    /\ FreshSteps \subseteq KnownSteps
    /\ Online \in FreshSteps /\ WaitingStep \in FreshSteps /\ SendStep \in FreshSteps
    /\ [op |-> "joining"] \in FreshSteps
BY DEF KnownSteps, FreshSteps, Online, WaitingStep, SendStep, ImportStep

LEMMA StepsGrow ==
    ASSUME RoomGrows, replica \subseteq replica'
    PROVE  KnownSteps \subseteq KnownSteps'
<1>1. \A q \in Seq(DOMAIN room) : q \in Seq(DOMAIN room')
  BY SeqGrows DEF RoomGrows
<1>2. 0 .. Len(room) \subseteq 0 .. Len(room')
  BY DEF RoomGrows
<1>3. QED
  BY <1>1, <1>2 DEF KnownSteps

LEMMA OneStep ==
    ASSUME NEW S, NEW x \in S, NEW a, a = <<x>>
    PROVE  a \in Seq(S) /\ Len(a) = 1 /\ a[1] = x /\ Range(a) = {x}
BY DEF Range

LEMMA SendingLemma ==
    ASSUME NEW S, SendStep \in S, NEW q \in Seq(S)
    PROVE  Sending(q) \in Seq(S) /\ (Sending(q) = q \/ Sending(q) = Append(q, SendStep))
BY AppendLemma DEF Sending

\* The step that runs makes way for what it has left.
LEMMA Replaced ==
    ASSUME NEW S, NEW q \in Seq(S), q # <<>>, NEW x \in Seq(S), NEW r, r = x \o Tail(q)
    PROVE  /\ r \in Seq(S)
           /\ Len(x) \in Nat /\ Len(q) \in Nat \ {0}
           /\ DOMAIN x = 1 .. Len(x) /\ DOMAIN q = 1 .. Len(q)
           /\ Len(r) = Len(x) + Len(q) - 1 /\ DOMAIN r = 1 .. Len(r)
           /\ Head(q) = q[1] /\ Head(q) \in S
           /\ \A i \in 1 .. Len(x) : r[i] = x[i]
           /\ \A i \in 2 .. Len(q) : r[Len(x) + i - 1] = q[i]
<1>1. /\ Tail(q) \in Seq(S) /\ Len(Tail(q)) = Len(q) - 1 /\ Head(q) = q[1] /\ Head(q) \in S
      /\ \A i \in 1 .. Len(q) - 1 : Tail(q)[i] = q[i + 1]
      /\ Len(q) \in Nat \ {0} /\ Len(x) \in Nat
      /\ DOMAIN x = 1 .. Len(x) /\ DOMAIN q = 1 .. Len(q)
  BY HeadTailProperties, LenProperties, EmptySeq
<1>2. ASSUME NEW t, t = Tail(q)
      PROVE  /\ r \in Seq(S) /\ Len(r) = Len(x) + Len(t) /\ DOMAIN r = 1 .. Len(r)
             /\ \A i \in 1 .. Len(x) : r[i] = x[i]
             /\ \A i \in 1 .. Len(t) : r[Len(x) + i] = t[i]
  <2>1. t \in Seq(S) /\ r = x \o t /\ Len(t) \in Nat
    BY <1>1, <1>2
  <2>2. /\ r \in Seq(S) /\ Len(r) = Len(x) + Len(t)
        /\ \A i \in 1 .. Len(x) + Len(t) : r[i] = IF i <= Len(x) THEN x[i] ELSE t[i - Len(x)]
    BY <2>1, ConcatProperties
  <2>3. DOMAIN r = 1 .. Len(r)
    BY <2>2, LenProperties
  <2>4. \A i \in 1 .. Len(x) : r[i] = x[i]
    BY <1>1, <2>1, <2>2
  <2>5. ASSUME NEW i \in 1 .. Len(t)
        PROVE  r[Len(x) + i] = t[i]
    <3>1. \A k \in 1 .. Len(x) + Len(t) : r[k] = IF k <= Len(x) THEN x[k] ELSE t[k - Len(x)]
      BY <2>2
    <3>2. ASSUME NEW j, j = Len(x) + i
          PROVE  r[j] = t[i]
      <4>1. j \in 1 .. Len(x) + Len(t) /\ ~(j <= Len(x)) /\ j - Len(x) = i
        BY <1>1, <2>1, <3>2
      <4>2. r[j] = t[j - Len(x)]
        BY <3>1, <4>1, Zenon
      <4>3. QED
        BY <4>1, <4>2
    <3>3. QED
      BY <3>2
  <2>6. QED
    BY <2>2, <2>3, <2>4, <2>5
<1>3. ASSUME NEW i \in 2 .. Len(q)
      PROVE  r[Len(x) + i - 1] = q[i]
  <2>1. i - 1 \in 1 .. Len(q) - 1 /\ i - 1 + 1 = i /\ Len(x) + (i - 1) = Len(x) + i - 1
    BY <1>1
  <2>2. r[Len(x) + (i - 1)] = Tail(q)[i - 1]
    BY <1>1, <1>2, <2>1
  <2>3. QED
    BY <1>1, <2>1, <2>2
<1>4. QED
  BY <1>1, <1>2, <1>3

\* What a step has left, once one of its changes is dealt with.
Remainder(step) ==
    IF Len(step.seqs) > 1 THEN <<[step EXCEPT !.seqs = Tail(@)]>> ELSE step.rest

LEMMA StepChanges ==
    ASSUME NEW step \in [op : {"import"}, seqs : Seq(DOMAIN room), seen : (0 .. Len(room)) \cup {None},
                         rest : Seq({WaitingStep})]
    PROVE  [step EXCEPT !.seqs = Tail(@)] = ImportStep(Tail(step.seqs), step.seen, step.rest)
<1>1. \A q : [step EXCEPT !.seqs = q] = ImportStep(q, step.seen, step.rest)
  BY DEF ImportStep
<1>2. [step EXCEPT !.seqs = Tail(@)] = [step EXCEPT !.seqs = Tail(step.seqs)]
  BY Zenon
<1>3. QED
  BY <1>1, <1>2, Zenon

LEMMA RemainderLemma ==
    ASSUME NEW step \in KnownSteps, step.op = "import"
    PROVE  /\ Remainder(step) \in Seq(FreshSteps)
           /\ Imported(step) = Remainder(step) \o Tail(todo)
           /\ IF Len(step.seqs) > 1
              THEN /\ Remainder(step) = <<ImportStep(Tail(step.seqs), step.seen, step.rest)>>
                   /\ Tail(step.seqs) \in Seq(DOMAIN room)
              ELSE Remainder(step) = step.rest /\ Remainder(step) \in Seq({WaitingStep})
<1>1. /\ step.seqs \in Seq(DOMAIN room) /\ step.seen \in (0 .. Len(room)) \cup {None}
      /\ step.rest \in Seq({WaitingStep}) /\ WaitingStep \in FreshSteps
      /\ Len(step.seqs) \in Nat
  BY StepLemma, LenProperties
<1>2. Imported(step) = Remainder(step) \o Tail(todo)
  BY DEF Imported, Remainder
<1>3. CASE Len(step.seqs) > 1
  <2>1. Tail(step.seqs) \in Seq(DOMAIN room)
    <3>1. step.seqs # <<>>
      BY <1>3
    <3>2. QED
      BY <1>1, <3>1, TailLemma
  <2>2. [step EXCEPT !.seqs = Tail(@)] = ImportStep(Tail(step.seqs), step.seen, step.rest)
    <3>1. step \in [op : {"import"}, seqs : Seq(DOMAIN room), seen : (0 .. Len(room)) \cup {None},
                    rest : Seq({WaitingStep})]
      BY DEF KnownSteps
    <3>2. QED
      BY <3>1, StepChanges, Zenon
  <2>3. ImportStep(Tail(step.seqs), step.seen, step.rest) \in FreshSteps
    BY <1>1, <2>1, StepLemma
  <2>4. Remainder(step) = <<ImportStep(Tail(step.seqs), step.seen, step.rest)>>
    BY <1>3, <2>2 DEF Remainder
  <2>5. Remainder(step) \in Seq(FreshSteps)
    BY <2>3, <2>4, OneStep
  <2>6. QED
    BY <1>2, <1>3, <2>1, <2>4, <2>5
<1>4. CASE ~(Len(step.seqs) > 1)
  <2>1. Remainder(step) = step.rest
    BY <1>4 DEF Remainder
  <2>2. step.rest \in Seq(FreshSteps)
    BY <1>1, SeqGrows
  <2>3. QED
    BY <1>1, <1>2, <1>4, <2>1, <2>2
<1>5. QED
  BY <1>3, <1>4

\* Only a crash takes the replica back.
LEMMA ReplicaGrows ==
    ASSUME TypeOK, PushesOK, Known, RoomGrows, RelayNext
    PROVE  replica \subseteq replica' \/ Crash
<1>1. CASE Edit
  BY <1>1 DEF Edit
<1>2. CASE SaveReplica
  BY <1>2 DEF SaveReplica, relayState
<1>3. CASE TakeVersion \/ (\E p \in Push : PushLocal(p)) \/ PushNothing
  BY <1>3 DEF TakeVersion, PushLocal, PushNothing
<1>4. CASE ImportRemote
  BY <1>4 DEF ImportRemote
<1>5. CASE ImportLater \/ ImportRefused \/ ImportFails
  BY <1>5 DEF ImportLater, ImportRefused, ImportFails
<1>6. CASE ImportWaiting
  BY <1>6 DEF ImportWaiting
<1>7. CASE BackOnline
  BY <1>7 DEF BackOnline
<1>8. CASE Connecting \/ Greeted \/ Dropped \/ JoinedRoom \/ Pulled
  BY <1>8 DEF Connecting, Greeted, Dropped, JoinedRoom, Pulled, Told, Unheard, relayVars, relayState
<1>9. CASE PushSettled \/ Serving \/ OthersChange
  BY <1>9 DEF PushSettled, Serving, OthersChange, Unheard, relayVars, relayState
<1>10. QED
  BY <1>1, <1>2, <1>3, <1>4, <1>5, <1>6, <1>7, <1>8, <1>9 DEF RelayNext, RelayStep

LEMMA NoStep ==
    ASSUME NEW S, NEW a, a = <<>>
    PROVE  a \in Seq(S) /\ Len(a) = 0 /\ Range(a) = {}
BY DEF Range

\* The seqs of a join's result.
Brought(a, z) == [n \in 1 .. (z - a) |-> a + n]

LEMMA JoinSeqs ==
    ASSUME NEW a \in Nat, NEW z \in Nat, NEW q \in [1 .. (z - a) -> Nat],
           \A n \in 1 .. (z - a) : q[n] = a + n
    PROVE  /\ q \in Seq(1 .. z) /\ Len(q) \in Nat /\ DOMAIN q = 1 .. Len(q)
           /\ \A n \in DOMAIN q : q[n] = a + n
           /\ Range(q) = a + 1 .. z
<1>1. CASE a < z
  <2>1. z - a \in Nat /\ DOMAIN q = 1 .. (z - a)
    BY <1>1
  <2>2. q \in [1 .. (z - a) -> 1 .. z]
    BY <1>1
  <2>3. q \in Seq(1 .. z)
    BY <2>1, <2>2, SeqDef
  <2>4. Len(q) = z - a
    BY <2>1, <2>3, LenProperties
  <2>5. \A k \in a + 1 .. z : k - a \in 1 .. (z - a) /\ a + (k - a) = k
    BY <1>1
  <2>6. \A n \in 1 .. (z - a) : a + n \in a + 1 .. z
    BY <1>1
  <2>7. Range(q) = a + 1 .. z
    BY <2>1, <2>5, <2>6 DEF Range
  <2>8. QED
    BY <2>1, <2>3, <2>4, <2>7
<1>2. CASE ~(a < z)
  <2>1. 1 .. (z - a) = {} /\ a + 1 .. z = {} /\ 1 .. 0 = {}
    BY <1>2
  <2>2. q \in [1 .. 0 -> 1 .. z] /\ DOMAIN q = {}
    BY <2>1
  <2>3. q \in Seq(1 .. z)
    BY <2>2, SeqDef
  <2>4. DOMAIN q = 1 .. Len(q) /\ Len(q) \in Nat
    BY <2>3, LenProperties
  <2>5. Range(q) = {}
    BY <2>2 DEF Range
  <2>6. QED
    BY <2>1, <2>2, <2>3, <2>4, <2>5
<1>3. QED
  BY <1>1, <1>2

LEMMA BroughtLemma ==
    ASSUME NEW a \in Nat, NEW z \in Nat, NEW q, q = Brought(a, z)
    PROVE  /\ q \in Seq(1 .. z) /\ Len(q) \in Nat /\ DOMAIN q = 1 .. Len(q)
           /\ \A n \in DOMAIN q : q[n] = a + n
           /\ Range(q) = a + 1 .. z
<1>1. Brought(a, z) \in [1 .. (z - a) -> Nat] /\ \A n \in 1 .. (z - a) : Brought(a, z)[n] = a + n
  BY DEF Brought
<1>2. q \in [1 .. (z - a) -> Nat] /\ \A n \in 1 .. (z - a) : q[n] = a + n
  BY <1>1
<1>3. QED
  BY <1>2, JoinSeqs

\* What a join's answer makes of the relay's steps.
LEMMA JoinedSteps ==
    ASSUME JoinedRoom
    PROVE  todo' = IF Head(down).op = "join"
                   THEN <<ImportStep(Brought(Head(down).since, Head(down).seq), Head(down).seq, <<WaitingStep>>)>> \o Tail(todo)
                   ELSE todo \o [n \in DOMAIN Brought(Head(down).since, Head(down).seq)
                                   |-> ImportStep(<<Brought(Head(down).since, Head(down).seq)[n]>>, None, <<>>)]
BY Zenon DEF JoinedRoom, Told, Brought

LEMMA OneByOne ==
    ASSUME NEW q \in Seq(DOMAIN room),
           NEW r, r = [n \in DOMAIN q |-> ImportStep(<<q[n]>>, None, <<>>)]
    PROVE  /\ r \in Seq(FreshSteps) /\ Len(r) = Len(q) /\ Len(q) \in Nat
           /\ DOMAIN r = 1 .. Len(r) /\ DOMAIN q = 1 .. Len(q)
           /\ \A n \in DOMAIN q : r[n] = ImportStep(<<q[n]>>, None, <<>>)
<1>1. Len(q) \in Nat /\ DOMAIN q = 1 .. Len(q) /\ \A n \in 1 .. Len(q) : q[n] \in DOMAIN room
  BY LenProperties, ElementOfSeq
<1>2. ASSUME NEW n \in 1 .. Len(q)
      PROVE  r[n] \in FreshSteps /\ r[n] = ImportStep(<<q[n]>>, None, <<>>)
  <2>1. ASSUME NEW o, o = <<q[n]>>, NEW e, e = <<>>
        PROVE  ImportStep(o, None, e) \in FreshSteps
    <3>1. o \in Seq(DOMAIN room)
      BY <1>1, <2>1, OneStep
    <3>2. e \in Seq({WaitingStep})
      BY <2>1
    <3>3. QED
      BY <3>1, <3>2, StepLemma
  <2>2. r[n] = ImportStep(<<q[n]>>, None, <<>>)
    BY <1>1, Zenon
  <2>3. QED
    BY <2>1, <2>2
<1>3. r \in [1 .. Len(q) -> FreshSteps]
  BY <1>1, <1>2
<1>4. r \in Seq(FreshSteps)
  BY <1>1, <1>3, SeqDef
<1>5. Len(r) = Len(q)
  BY <1>1, <1>3, <1>4, LenProperties
<1>6. QED
  BY <1>1, <1>2, <1>4, <1>5

LEMMA JoinKnown ==
    ASSUME TypeOK, Known, down # <<>>
    PROVE  /\ Head(down) \in KnownAnswers /\ Head(down) \in Answers
           /\ Head(down).op \in {"join", "rejoin", "pull", "pushed"}
              => Head(down).seq \in 0 .. Len(room)
           /\ Head(down).op \in {"join", "rejoin"} => Head(down).since \in Nat
           /\ Head(down).op \in {"pull", "pushed"} => Head(down).seq \in DOMAIN room
           /\ Head(down).op = "pushed" => room[Head(down).seq] = Head(down).push
           /\ Len(room) \in Nat /\ DOMAIN room = 1 .. Len(room)
<1>1. Head(down) \in KnownAnswers
  BY TailLemma DEF Known
<1>2. Len(room) \in Nat /\ DOMAIN room = 1 .. Len(room)
  BY LenProperties DEF TypeOK
<1>3. QED
  BY <1>1, <1>2, AnswerLemma DEF KnownAnswers

LEMMA JoinedSeqs ==
    ASSUME TypeOK, Known, down # <<>>, Head(down).op \in {"join", "rejoin"},
           NEW seqs, seqs = Brought(Head(down).since, Head(down).seq)
    PROVE  seqs \in Seq(DOMAIN room)
<1>1. /\ Head(down).seq \in 0 .. Len(room) /\ Head(down).since \in Nat
      /\ Len(room) \in Nat /\ DOMAIN room = 1 .. Len(room) /\ Head(down).seq \in Nat
  BY JoinKnown
<1>2. \A a, z \in Nat : Brought(a, z) \in Seq(1 .. z)
  BY BroughtLemma
<1>3. seqs \in Seq(1 .. Head(down).seq)
  BY <1>1, <1>2, Zenon
<1>4. 1 .. Head(down).seq \subseteq DOMAIN room
  BY <1>1
<1>5. ASSUME NEW q \in Seq(1 .. Head(down).seq)
      PROVE  q \in Seq(DOMAIN room)
  BY <1>4, SeqGrows
<1>6. QED
  BY <1>3, <1>5, Zenon

LEMMA PulledStep ==
    ASSUME TypeOK, Known, down # <<>>, Head(down).op = "pull"
    PROVE  ImportStep(<<Head(down).seq>>, Head(down).seq, <<>>) \in FreshSteps
<1>1. Head(down).seq \in DOMAIN room /\ Head(down).seq \in 0 .. Len(room)
  BY JoinKnown
<1>2. PICK q \in Seq(DOMAIN room) : q = <<Head(down).seq>>
  BY <1>1, OneStep
<1>3. PICK r \in Seq({WaitingStep}) : r = <<>>
  BY NoStep, Zenon
<1>4. ImportStep(q, Head(down).seq, r) \in FreshSteps
  BY <1>1, StepLemma
<1>5. QED
  BY <1>2, <1>3, <1>4

\* While its join is on its way, the relay's step waits for it.
Waits == joining => Running("joining")

LEMMA TodoWithin ==
    ASSUME TypeOK, PushesOK, AsksOK, Waits, Known, RelayNext, NEW T,
           FreshSteps \subseteq T, relaying => KnownSteps \subseteq T, todo \in Seq(T)
    PROVE  todo' \in Seq(T)
<1>1. CASE Crash
  BY <1>1 DEF Crash
<1>2. CASE ~Crash
  <2>1. FreshSteps \subseteq T
    OBVIOUS
  <2>2. todo \in Seq(T)
    OBVIOUS
  <2>3. Online \in T /\ WaitingStep \in T /\ SendStep \in T
        /\ [op |-> "joining"] \in T
    BY <2>1, StepLemma
  <2>4. \A q \in Seq(T) : Sending(q) \in Seq(T)
    BY <2>3, SendingLemma
  <2>5. ASSUME NEW x \in T, todo # <<>>
        PROVE  <<x>> \o Tail(todo) \in Seq(T)
    <3>1. PICK a \in Seq(T) : a = <<x>>
      BY OneStep
    <3>2. QED
      BY <2>2, <2>5, <3>1, TailLemma, ConcatLemma
  <2>6. ASSUME Running("import")
        PROVE  Imported(Head(todo)) \in Seq(T)
    <3>1. Head(todo) \in KnownSteps /\ Head(todo).op = "import" /\ Tail(todo) \in Seq(T)
      BY <2>2, <2>6, TailLemma DEF Running, Known
    <3>2. Remainder(Head(todo)) \in Seq(T)
      BY <2>1, <3>1, RemainderLemma, SeqGrows
    <3>3. Imported(Head(todo)) = Remainder(Head(todo)) \o Tail(todo)
      BY <3>1, RemainderLemma
    <3>4. Remainder(Head(todo)) \o Tail(todo) \in Seq(T)
      BY <3>1, <3>2, ConcatProperties
    <3>5. QED
      BY <3>3, <3>4
  <2>7. todo # <<>> => Tail(todo) \in Seq(T)
    BY <2>2, TailLemma
  <2>8. CASE Edit
    BY <2>2, <2>4, <2>8 DEF Edit
  <2>9. CASE TakeVersion
    <3>1. todo # <<>>
      BY <2>9 DEF TakeVersion, Running
    <3>2. relaying => [op |-> "export", version |-> replica] \in T
      BY StepLemma
    <3>3. QED
      BY <2>5, <2>7, <2>9, <3>1, <3>2 DEF TakeVersion
  <2>10. CASE (\E p \in Push : PushLocal(p)) \/ PushNothing
    BY <2>7, <2>10 DEF PushLocal, PushNothing, Running
  <2>11. CASE ImportRemote
    <3>1. todo' = Imported(Head(todo)) \/ todo' = Sending(Imported(Head(todo)))
      BY <2>11 DEF ImportRemote
    <3>2. QED
      BY <2>4, <2>6, <2>11, <3>1 DEF ImportRemote
  <2>12. CASE ImportLater
    BY <2>6, <2>12 DEF ImportLater
  <2>13. CASE ImportWaiting
    <3>1. todo # <<>> /\ (todo' = <<SendStep>> \o Tail(todo) \/ todo' \in {todo, Sending(todo)})
      BY <2>13 DEF ImportWaiting, Running
    <3>2. QED
      BY <2>2, <2>3, <2>4, <2>5, <3>1
  <2>14. CASE BackOnline
    <3>1. /\ todo # <<>>
          /\ \/ todo' = <<WaitingStep>> \o Tail(todo)
             \/ todo' = <<[op |-> "joining"]>> \o Tail(todo)
             \/ todo' = Tail(todo)
      BY <2>14 DEF BackOnline, Running
    <3>2. QED
      BY <2>3, <2>5, <2>7, <3>1
  <2>15. CASE ImportRefused \/ ImportFails
    <3>1. todo # <<>> /\ todo' = Tail(todo)
      BY <2>15 DEF ImportRefused, ImportFails, Running
    <3>2. QED
      BY <2>7, <3>1
  <2>16. CASE Greeted
    BY <2>2, <2>3, <2>16, AppendLemma DEF Greeted, Told
  <2>17. CASE Dropped
    BY <2>2, <2>7, <2>17 DEF Dropped, Told, Running
  <2>18. CASE JoinedRoom
    <3>1. down # <<>> /\ Head(down).op \in {"join", "rejoin"} /\ HandleJoined
      BY <2>18 DEF JoinedRoom, HandleJoined
    <3>2. Head(down).seq \in 0 .. Len(room)
      BY <3>1, JoinKnown
    <3>3. ASSUME NEW seqs, seqs = Brought(Head(down).since, Head(down).seq)
          PROVE  seqs \in Seq(DOMAIN room)
      BY <3>1, <3>3, JoinedSeqs
    <3>4. PICK seqs \in Seq(DOMAIN room) :
             todo' = IF Head(down).op = "join"
                     THEN <<ImportStep(seqs, Head(down).seq, <<WaitingStep>>)>> \o Tail(todo)
                     ELSE todo \o [n \in DOMAIN seqs |-> ImportStep(<<seqs[n]>>, None, <<>>)]
      BY <2>18, <3>3, JoinedSteps, Zenon
    <3>5. CASE Head(down).op = "join" /\ todo # <<>>
      <4>1. PICK r \in Seq({WaitingStep}) : r = <<WaitingStep>>
        BY OneStep
      <4>2. ImportStep(seqs, Head(down).seq, r) \in T
        BY <2>1, <3>2, <3>3, StepLemma
      <4>3. QED
        BY <2>5, <3>4, <3>5, <4>1, <4>2
    <3>6. CASE Head(down).op = "rejoin"
      <4>1. PICK r \in Seq(FreshSteps) : r = [n \in DOMAIN seqs |-> ImportStep(<<seqs[n]>>, None, <<>>)]
        BY <3>3, OneByOne
      <4>2. r \in Seq(T) /\ todo' = todo \o r
        BY <2>1, <3>4, <3>6, <4>1, SeqGrows
      <4>3. QED
        BY <2>2, <4>2, ConcatLemma
    <3>7. Head(down).op = "join" => todo # <<>>
      BY <3>1, TailMessage DEF TypeOK, AsksOK, Waits, Running
    <3>8. QED
      BY <3>1, <3>5, <3>6, <3>7
  <2>19. CASE Pulled
    <3>1. down # <<>> /\ Head(down).op = "pull"
          /\ todo' = Append(todo, ImportStep(<<Head(down).seq>>, Head(down).seq, <<>>))
      BY <2>19 DEF Pulled, HandlePull, Told
    <3>2. ImportStep(<<Head(down).seq>>, Head(down).seq, <<>>) \in T
      BY <2>1, <3>1, PulledStep
    <3>3. QED
      BY <2>2, <3>1, <3>2, AppendLemma
  <2>20. CASE SaveReplica \/ Connecting \/ PushSettled \/ Serving \/ OthersChange
    BY <2>2, <2>20 DEF SaveReplica, Connecting, PushSettled, Serving, OthersChange, Unheard,
                       relayVars, relayState
  <2>21. QED
    BY <1>2, <2>8, <2>9, <2>10, <2>11, <2>12, <2>13, <2>14, <2>15, <2>16, <2>17, <2>18, <2>19,
       <2>20 DEF RelayNext, RelayStep
<1>3. QED
  BY <1>1, <1>2

LEMMA TodoStays ==
    ASSUME TypeOK, PushesOK, AsksOK, Waits, Known, RoomGrows, RelayNext
    PROVE  todo' \in Seq(KnownSteps')
<1>1. CASE Crash
  BY <1>1 DEF Crash
<1>2. CASE ~Crash
  <2>1. KnownSteps \subseteq KnownSteps' /\ FreshSteps \subseteq KnownSteps
    BY <1>2, ReplicaGrows, StepsGrow, StepLemma
  <2>2. todo \in Seq(KnownSteps')
    BY <2>1, SeqGrows DEF Known
  <2>3. QED
    BY <2>1, <2>2, TodoWithin
<1>3. QED
  BY <1>1, <1>2

LEMMA HeadStays ==
    ASSUME NEW S, NEW q \in Seq(S), NEW r \in Seq(S), NEW x \in S
    PROVE  /\ q # <<>> => Append(q, x) # <<>> /\ Head(Append(q, x)) = Head(q)
           /\ q # <<>> => q \o r # <<>> /\ Head(q \o r) = Head(q)
           /\ \A o : o = <<x>> \o r => o # <<>> /\ Head(o) = x
<1>1. ASSUME q # <<>>
      PROVE  /\ Append(q, x) # <<>> /\ Head(Append(q, x)) = Head(q)
             /\ q \o r # <<>> /\ Head(q \o r) = Head(q)
  <2>1. Head(q) = q[1] /\ Len(q) \in Nat \ {0}
    BY <1>1, HeadTailProperties, LenProperties, EmptySeq
  <2>2. /\ Append(q, x) \in Seq(S) /\ Len(Append(q, x)) = Len(q) + 1 /\ Append(q, x)[1] = q[1]
    BY <2>1, AppendProperties
  <2>3. q \o r \in Seq(S) /\ Len(q \o r) = Len(q) + Len(r) /\ (q \o r)[1] = q[1] /\ Len(r) \in Nat
    BY <2>1, ConcatProperties, LenProperties
  <2>4. \A o \in Seq(S) : Len(o) # 0 => o # <<>> /\ Head(o) = o[1]
    BY HeadTailProperties, EmptySeq
  <2>5. Len(q) + 1 # 0 /\ Len(q) + Len(r) # 0
    BY <2>1, <2>3
  <2>6. QED
    BY <2>1, <2>2, <2>3, <2>4, <2>5
<1>2. ASSUME NEW o, o = <<x>> \o r
      PROVE  o # <<>> /\ Head(o) = x
  <2>1. PICK a \in Seq(S) : a = <<x>> /\ Len(a) = 1 /\ a[1] = x
    BY OneStep
  <2>2. o = a \o r
    BY <1>2, <2>1
  <2>3. o \in Seq(S) /\ Len(o) = 1 + Len(r) /\ o[1] = x /\ Len(r) \in Nat
    BY <2>1, <2>2, ConcatProperties, LenProperties
  <2>4. QED
    BY <2>3, HeadTailProperties, EmptySeq
<1>3. QED
  BY <1>1, <1>2

LEMMA WaitsStep ==
    ASSUME TypeOK, AsksOK, Waits, Known, RelayNext
    PROVE  Waits'
<1>1. SUFFICES ASSUME joining'
               PROVE  Running("joining")'
  BY DEF Waits
<1>2. todo \in Seq(KnownSteps) /\ SendStep \in KnownSteps /\ [op |-> "joining"] \in KnownSteps
  BY StepLemma DEF Known
<1>3. ASSUME joining, todo' = todo
      PROVE  Running("joining")'
  BY <1>3 DEF Waits, Running
<1>4. ASSUME joining, NEW r \in Seq(KnownSteps), todo' = todo \o r
      PROVE  Running("joining")'
  BY <1>2, <1>4, HeadStays DEF Waits, Running
<1>5. ASSUME joining, NEW x \in KnownSteps, todo' = Append(todo, x)
      PROVE  Running("joining")'
  <2>1. todo # <<>> /\ Head(todo).op = "joining"
    BY <1>5 DEF Waits, Running
  <2>2. todo' # <<>> /\ Head(todo') = Head(todo)
    BY <1>2, <1>5, <2>1, HeadStays
  <2>3. QED
    BY <2>1, <2>2 DEF Running
<1>6. CASE Edit
  <2>1. joining /\ (todo' = todo \/ todo' = Append(todo, SendStep))
    BY <1>1, <1>2, <1>6, SendingLemma DEF Edit, vars, following
  <2>2. QED
    BY <1>2, <1>3, <1>5, <2>1
<1>7. CASE SaveReplica
  BY <1>1, <1>3, <1>7 DEF SaveReplica, relayState, vars, following
<1>8. CASE RelayStep \/ ImportRefused \/ ImportFails
  <2>1. \E op \in {"send", "export", "import", "waiting", "online"} : Running(op)
    BY <1>8 DEF RelayStep, TakeVersion, PushLocal, PushNothing, ImportRemote, ImportLater,
                ImportWaiting, BackOnline, ImportRefused, ImportFails
  <2>2. ~joining
    BY <2>1 DEF Waits, Running
  <2>3. BackOnline /\ Join(since)
    <3>1. CASE TakeVersion \/ PushNothing \/ ImportRemote \/ ImportLater \/ ImportWaiting
               \/ ImportRefused \/ ImportFails
      BY <1>1, <2>2, <3>1 DEF TakeVersion, PushNothing, ImportRemote, ImportLater, ImportWaiting,
                              ImportRefused, ImportFails, vars, following
    <3>2. CASE \E p \in Push : PushLocal(p)
      BY <1>1, <2>2, <3>2 DEF PushLocal, MakePush, following
    <3>3. CASE BackOnline
      BY <1>1, <2>2, <3>3 DEF BackOnline, vars, following
    <3>4. QED
      BY <1>8, <3>1, <3>2, <3>3 DEF RelayStep
  <2>4. ~relaying /\ state = "online" /\ todo # <<>>
    BY <2>3 DEF Join, BackOnline, Running
  <2>5. todo' = <<[op |-> "joining"]>> \o Tail(todo)
    <3>1. joining' = TRUE /\ joining = FALSE
      BY <2>2, <2>3 DEF Join, TypeOK
    <3>2. ~UNCHANGED vars
      BY <3>1 DEF vars, following
    <3>3. QED
      BY <2>3, <3>2 DEF BackOnline
  <2>6. Tail(todo) \in Seq(KnownSteps)
    BY <1>2, <2>4, TailLemma
  <2>7. todo' # <<>> /\ Head(todo') = [op |-> "joining"]
    BY <1>2, <2>5, <2>6, HeadStays
  <2>8. QED
    BY <2>7 DEF Running
<1>9. CASE Connecting \/ PushSettled \/ Serving \/ OthersChange
  <2>1. UNCHANGED joining
    BY <1>9 DEF Connecting, OpenConnection, PushSettled, HandlePushed, Serving, ServerTakes,
                ServerRefuses, ServerJoins, OthersChange, OtherChanges, following
  <2>2. UNCHANGED todo
    BY <1>9 DEF Connecting, PushSettled, Serving, OthersChange, Unheard, relayVars, relayState
  <2>3. QED
    BY <1>1, <1>3, <2>1, <2>2
<1>10. CASE Greeted
  <2>1. UNCHANGED joining /\ todo' = Append(todo, Online) /\ Online \in KnownSteps
    BY <1>10, StepLemma DEF Greeted, SendHello, following, Told
  <2>2. QED
    BY <1>1, <1>5, <2>1
<1>11. CASE Dropped \/ Crash
  BY <1>1, <1>11 DEF Dropped, HandleDisconnect, Crash
<1>12. CASE JoinedRoom
  <2>1. down # <<>> /\ Head(down).op \in {"join", "rejoin"} /\ HandleJoined
    BY <1>12 DEF JoinedRoom, HandleJoined
  <2>2. Head(down).op = "rejoin" /\ joining
    BY <1>1, <2>1 DEF HandleJoined
  <2>3. PICK seqs : /\ seqs = Brought(Head(down).since, Head(down).seq)
                    /\ todo' = todo \o [n \in DOMAIN seqs |-> ImportStep(<<seqs[n]>>, None, <<>>)]
    <3>1. todo' = todo \o [n \in DOMAIN Brought(Head(down).since, Head(down).seq)
                      |-> ImportStep(<<Brought(Head(down).since, Head(down).seq)[n]>>, None, <<>>)]
      BY <1>12, <2>2, JoinedSteps
    <3>2. QED
      BY <3>1, Zenon
  <2>4. seqs \in Seq(DOMAIN room)
    BY <2>1, <2>3, JoinedSeqs
  <2>5. PICK r \in Seq(KnownSteps) : r = [n \in DOMAIN seqs |-> ImportStep(<<seqs[n]>>, None, <<>>)]
    <3>1. PICK r \in Seq(FreshSteps) : r = [n \in DOMAIN seqs |-> ImportStep(<<seqs[n]>>, None, <<>>)]
      BY <2>4, OneByOne
    <3>2. r \in Seq(KnownSteps)
      BY StepLemma, SeqGrows
    <3>3. QED
      BY <3>1, <3>2
  <2>6. QED
    BY <1>4, <2>2, <2>3, <2>5
<1>13. CASE Pulled
  <2>1. joining /\ todo' = Append(todo, ImportStep(<<Head(down).seq>>, Head(down).seq, <<>>))
        /\ down # <<>> /\ Head(down).op = "pull"
    BY <1>1, <1>13 DEF Pulled, HandlePull, Told
  <2>2. ImportStep(<<Head(down).seq>>, Head(down).seq, <<>>) \in KnownSteps
    BY <2>1, PulledStep, StepLemma
  <2>3. QED
    BY <1>5, <2>1, <2>2
<1>14. QED
  BY <1>6, <1>7, <1>8, <1>9, <1>10, <1>11, <1>12, <1>13 DEF RelayNext

\* What most steps leave alone.
LEMMA SinceStays == RelayNext => UNCHANGED since \/ Crash
<1>1. Edit \/ SaveReplica \/ TakeVersion \/ (\E p \in Push : PushLocal(p)) \/ PushNothing
      => UNCHANGED since
  BY DEF Edit, SaveReplica, TakeVersion, PushLocal, PushNothing, session
<1>2. ImportRemote \/ ImportLater \/ ImportWaiting \/ BackOnline \/ ImportRefused \/ ImportFails
      => UNCHANGED since
  BY DEF ImportRemote, ImportLater, ImportWaiting, BackOnline, ImportRefused, ImportFails, session
<1>3. Connecting \/ Greeted \/ Dropped \/ JoinedRoom \/ Pulled => UNCHANGED since
  BY DEF Connecting, Greeted, Dropped, JoinedRoom, Pulled, Told, Unheard, relayVars, session
<1>4. PushSettled \/ Serving \/ OthersChange => UNCHANGED since
  BY DEF PushSettled, Serving, OthersChange, Unheard, relayVars, session
<1>5. QED
  BY <1>1, <1>2, <1>3, <1>4 DEF RelayNext, RelayStep

LEMMA ContentStays ==
    RelayNext => (content' = content /\ sentBy' = sentBy) \/ \E p \in Push : PushLocal(p)
<1>1. Edit \/ SaveReplica \/ TakeVersion \/ PushNothing \/ Crash
      => content' = content /\ sentBy' = sentBy
  BY DEF Edit, SaveReplica, TakeVersion, PushNothing, Crash
<1>2. ImportRemote \/ ImportLater \/ ImportWaiting \/ BackOnline \/ ImportRefused \/ ImportFails
      => content' = content /\ sentBy' = sentBy
  BY DEF ImportRemote, ImportLater, ImportWaiting, BackOnline, ImportRefused, ImportFails
<1>3. Connecting \/ Greeted \/ Dropped \/ JoinedRoom \/ Pulled
      => content' = content /\ sentBy' = sentBy
  BY DEF Connecting, Greeted, Dropped, JoinedRoom, Pulled, Told, Unheard, relayVars
<1>4. PushSettled \/ Serving \/ OthersChange => content' = content /\ sentBy' = sentBy
  BY DEF PushSettled, Serving, OthersChange, Unheard, relayVars
<1>5. QED
  BY <1>1, <1>2, <1>3, <1>4 DEF RelayNext, RelayStep

LEMMA KeptStays == RelayNext => ImportRemote \/ ImportRefused \/ PushSettled \/ kept' = kept
<1>1. Edit \/ SaveReplica \/ TakeVersion \/ (\E p \in Push : PushLocal(p)) \/ PushNothing \/ Crash
      => kept' = kept
  BY DEF Edit, SaveReplica, TakeVersion, PushLocal, PushNothing, Crash, session
<1>2. ImportLater \/ ImportWaiting \/ ImportFails \/ BackOnline => kept' = kept
  BY DEF ImportLater, ImportWaiting, ImportFails, BackOnline, session
<1>3. Connecting \/ Greeted \/ Dropped \/ JoinedRoom \/ Pulled => kept' = kept
  BY DEF Connecting, Greeted, Dropped, JoinedRoom, Pulled, Told, Unheard, relayVars, session
<1>4. Serving \/ OthersChange => kept' = kept
  BY DEF Serving, OthersChange, Unheard, relayVars, session
<1>5. QED
  BY <1>1, <1>2, <1>3, <1>4 DEF RelayNext, RelayStep

LEMMA OvertakenStays == RelayNext => overtaken' = overtaken \/ PushSettled
<1>1. Edit \/ SaveReplica \/ TakeVersion \/ (\E p \in Push : PushLocal(p)) \/ PushNothing \/ Crash
      => overtaken' = overtaken
  BY DEF Edit, SaveReplica, TakeVersion, PushLocal, PushNothing, Crash
<1>2. ImportRemote \/ ImportLater \/ ImportWaiting \/ BackOnline \/ ImportRefused \/ ImportFails
      => overtaken' = overtaken
  BY DEF ImportRemote, ImportLater, ImportWaiting, BackOnline, ImportRefused, ImportFails
<1>3. Connecting \/ Greeted \/ Dropped \/ JoinedRoom \/ Pulled => overtaken' = overtaken
  BY DEF Connecting, Greeted, Dropped, JoinedRoom, Pulled, Told, Unheard, relayVars
<1>4. Serving \/ OthersChange => overtaken' = overtaken
  BY DEF Serving, OthersChange, Unheard, relayVars
<1>5. QED
  BY <1>1, <1>2, <1>3, <1>4 DEF RelayNext, RelayStep

LEMMA FatesStay ==
    RelayNext => fate' = fate \/ (\E p \in Push : PushLocal(p)) \/ PushSettled \/ Crash
<1>1. Edit \/ SaveReplica \/ TakeVersion \/ PushNothing \/ ImportRefused \/ ImportFails
      => fate' = fate
  BY DEF Edit, SaveReplica, TakeVersion, PushNothing, ImportRefused, ImportFails, vars
<1>2. ImportRemote \/ ImportLater \/ ImportWaiting \/ BackOnline => fate' = fate
  BY DEF ImportRemote, ImportLater, ImportWaiting, BackOnline, Join, vars
<1>3. Connecting \/ Greeted \/ Dropped \/ JoinedRoom \/ Pulled => fate' = fate
  BY DEF Connecting, Greeted, Dropped, JoinedRoom, Pulled, OpenConnection, SendHello,
         HandleDisconnect, HandleJoined, HandlePull
<1>4. Serving \/ OthersChange => fate' = fate
  BY DEF Serving, ServerTakes, ServerRefuses, ServerJoins, OthersChange, OtherChanges
<1>5. QED
  BY <1>1, <1>2, <1>3, <1>4 DEF RelayNext, RelayStep

\* A push that is made stays made; it is open no more once it is answered or the window is gone.
LEMMA FatesMove ==
    ASSUME TypeOK, RelayNext
    PROVE  /\ \A p \in Push : fate[p] # "unmade" => fate'[p] # "unmade"
           /\ \A p \in Push : fate[p] = "refused" => fate'[p] = "refused" \/ PushSettled
           /\ \A p \in Push : fate'[p] = "open" => fate[p] = "open" \/ PushLocal(p)
<1>1. CASE fate' = fate
  BY <1>1
<1>2. CASE \E p \in Push : PushLocal(p)
  <2>1. PICK p \in Push : PushLocal(p)
    BY <1>2
  <2>2. fate' = [fate EXCEPT ![p] = "open"] /\ fate[p] = "unmade"
    BY <2>1 DEF PushLocal, MakePush
  <2>3. QED
    BY <2>1, <2>2 DEF TypeOK
<1>3. CASE PushSettled
  <2>1. PICK v \in {"taken", "refused"} : fate' = [fate EXCEPT ![Answered] = v]
    BY <1>3 DEF PushSettled, HandlePushed
  <2>2. QED
    BY <1>3, <2>1 DEF TypeOK
<1>4. CASE Crash
  <2>1. fate' = [p \in Push |-> IF fate[p] = "open" THEN "closed" ELSE fate[p]]
    BY <1>4 DEF Crash
  <2>2. QED
    BY <2>1
<1>5. QED
  BY <1>1, <1>2, <1>3, <1>4, FatesStay

LEMMA KnownStep ==
    ASSUME TypeOK, PushesOK, AsksOK, Waits, Known, RelayNext
    PROVE  Known' /\ RoomGrows
<1>1. RoomGrows
  BY RoomStep
<1>2. down' \in Seq(KnownAnswers') /\ todo' \in Seq(KnownSteps')
  BY <1>1, AnswersStay, TodoStays
<1>3. DOMAIN room \subseteq DOMAIN room' /\ 0 .. Len(room) \subseteq 0 .. Len(room')
  BY <1>1 DEF RoomGrows
<1>4. waiting' \subseteq DOMAIN room
  <2>1. CASE ImportLater
    <3>1. /\ Head(todo) \in KnownSteps /\ Head(todo).op = "import" /\ Head(todo).seqs # <<>>
          /\ waiting' = waiting \cup {Head(Head(todo).seqs)}
      BY <2>1, TailLemma DEF ImportLater, Running, Known
    <3>2. Head(Head(todo).seqs) \in DOMAIN room
      BY <3>1, StepLemma, TailLemma
    <3>3. QED
      BY <3>1, <3>2 DEF Known
  <2>2. CASE ImportWaiting \/ ImportRefused \/ ImportFails
    BY <2>2 DEF ImportWaiting, ImportRefused, ImportFails, Known
  <2>3. CASE Edit \/ SaveReplica \/ Crash
    BY <2>3 DEF Edit, SaveReplica, Crash, Known, relayState
  <2>4. CASE TakeVersion \/ (\E p \in Push : PushLocal(p)) \/ PushNothing \/ ImportRemote \/ BackOnline
    BY <2>4 DEF TakeVersion, PushLocal, PushNothing, ImportRemote, BackOnline, Known
  <2>5. CASE Connecting \/ Greeted \/ Dropped \/ JoinedRoom \/ Pulled
    BY <2>5 DEF Connecting, Greeted, Dropped, JoinedRoom, Pulled, Told, Unheard, relayVars,
                relayState, Known
  <2>6. CASE PushSettled \/ Serving \/ OthersChange
    BY <2>6 DEF PushSettled, Serving, OthersChange, Unheard, relayVars, relayState, Known
  <2>7. QED
    BY <2>1, <2>2, <2>3, <2>4, <2>5, <2>6 DEF RelayNext, RelayStep
<1>5. since' \in 0 .. Len(room)
  <2>1. CASE Crash
    <3>1. 0 \in 0 .. Len(room)
      BY <1>1 DEF RoomGrows
    <3>2. QED
      BY <2>1, <3>1 DEF Crash, ResumeSeq, Known
  <2>2. CASE UNCHANGED since
    BY <2>2 DEF Known
  <2>3. UNCHANGED since \/ Crash
    BY SinceStays
  <2>4. QED
    BY <2>1, <2>2, <2>3
<1>6. /\ DOMAIN content' = Push /\ DOMAIN sentBy' = Push
      /\ (content' = content /\ sentBy' = sentBy) \/ \E p \in Push : PushLocal(p)
  <2>1. CASE \E p \in Push : PushLocal(p)
    <3>1. PICK p \in Push : /\ content' = [content EXCEPT ![p] = Exported]
                            /\ sentBy' = [sentBy EXCEPT ![p] = lastSent']
      BY <2>1 DEF PushLocal
    <3>2. QED
      BY <2>1, <3>1 DEF Known
  <2>2. CASE content' = content /\ sentBy' = sentBy
    BY <2>2 DEF Known
  <2>3. (content' = content /\ sentBy' = sentBy) \/ \E p \in Push : PushLocal(p)
    BY ContentStays
  <2>4. QED
    BY <2>1, <2>2, <2>3
<1>7. DOMAIN kept' = {"sent", "seen"} /\ (kept'.seen # None => kept'.seen.seq \in 0 .. Len(room))
  <2>1. CASE ImportRemote
    <3>1. /\ Head(todo) \in KnownSteps /\ Head(todo).op = "import"
          /\ kept' = Seen(Head(todo), replica', waiting)
      BY <2>1, TailLemma DEF ImportRemote, Running, Known
    <3>2. Head(todo).seen \in (0 .. Len(room)) \cup {None}
      BY <3>1, StepLemma
    <3>3. QED
      BY <3>1, <3>2 DEF Seen, Known
  <2>2. CASE ImportRefused
    BY <2>2 DEF ImportRefused, Known
  <2>3. CASE PushSettled
    <3>1. kept' = kept \/ \E v : kept' = [kept EXCEPT !.sent = v]
      BY <2>3 DEF PushSettled
    <3>2. QED
      BY <3>1 DEF Known
  <2>4. CASE kept' = kept
    BY <2>4 DEF Known
  <2>5. ImportRemote \/ ImportRefused \/ PushSettled \/ kept' = kept
    BY KeptStays
  <2>6. QED
    BY <2>1, <2>2, <2>3, <2>4, <2>5
<1>8. overtaken' \subseteq {p \in Push : fate'[p] # "unmade"}
  <2>1. \A p \in Push : fate[p] # "unmade" => fate'[p] # "unmade"
    BY FatesMove
  <2>2. CASE overtaken' = overtaken
    BY <2>1, <2>2 DEF Known
  <2>3. CASE PushSettled
    <3>1. overtaken' \subseteq overtaken \cup {q \in Push : fate[q] \in {"open", "refused"}}
      BY <2>3 DEF PushSettled
    <3>2. QED
      BY <2>1, <3>1 DEF Known
  <2>4. overtaken' = overtaken \/ PushSettled
    BY OvertakenStays
  <2>5. QED
    BY <2>2, <2>3, <2>4
<1>9. QED
  BY <1>1, <1>2, <1>3, <1>4, <1>5, <1>6, <1>7, <1>8 DEF Known

-----------------------------------------------------------------------------
(* What was sent.                                                          *)

Carries(c, P) == UNION {c[p] : p \in P}
Unsettled(p) == fate[p] \in {"open", "refused"}

SentOK ==
    /\ lastSent \subseteq InRoom \cup Carries(content, overtaken \cup {q \in Push : Unsettled(q)})
    /\ kept.sent \subseteq InRoom \cup Carries(content, overtaken)
    /\ \A p \in Push : fate[p] = "open" =>
          sentBy[p] \subseteq InRoom
              \cup Carries(content, overtaken \cup {q \in Push : q <= p /\ Unsettled(q)})

LEMMA CarriesLemma == \A c, P, x : x \in Carries(c, P) <=> \E p \in P : x \in c[p]
BY DEF Carries

LEMMA CarriesOn ==
    ASSUME TypeOK, PushesOK, RoomGrows, NEW P \in SUBSET Push, NEW Q, NEW X,
           X \subseteq InRoom \cup Carries(content, P),
           \A p \in P : fate[p] # "unmade" /\ (p \in Q \/ content[p] \subseteq InRoom)
    PROVE  X \subseteq InRoom' \cup Carries(content', Q)
<1>1. InRoom \subseteq InRoom'
  BY EntriesStay
<1>2. SUFFICES ASSUME NEW x \in X, x \notin InRoom
               PROVE  x \in Carries(content', Q)
  BY <1>1
<1>3. PICK p \in P : x \in content[p]
  BY <1>2, CarriesLemma
<1>4. p \in Q /\ content'[p] = content[p]
  BY <1>2, <1>3 DEF RoomGrows
<1>5. QED
  BY <1>3, <1>4, CarriesLemma

LEMMA LastSentStays ==
    ASSUME TypeOK, Known, RelayNext
    PROVE  \/ lastSent' \subseteq lastSent \cup InRoom
           \/ \E p \in Push : PushLocal(p)
           \/ Crash
<1>1. Edit \/ SaveReplica \/ TakeVersion \/ PushNothing \/ ImportRefused \/ ImportFails
      => lastSent' = lastSent
  BY DEF Edit, SaveReplica, TakeVersion, PushNothing, ImportRefused, ImportFails, relayState
<1>2. ImportLater \/ BackOnline => lastSent' = lastSent
  BY DEF ImportLater, BackOnline
<1>3. Connecting \/ Greeted \/ Dropped \/ JoinedRoom \/ Pulled => lastSent' = lastSent
  BY DEF Connecting, Greeted, Dropped, JoinedRoom, Pulled, Told, Unheard, relayVars, relayState
<1>4. PushSettled \/ Serving \/ OthersChange => lastSent' = lastSent
  BY DEF PushSettled, Serving, OthersChange, Unheard, relayVars, relayState
<1>5. CASE ImportRemote
  <2>1. Head(todo) \in KnownSteps /\ Head(todo).op = "import"
    BY <1>5, TailLemma DEF ImportRemote, Running, Known
  <2>2. Head(todo).seqs # <<>> => Head(Head(todo).seqs) \in DOMAIN room
    BY <2>1, StepLemma, TailLemma
  <2>3. CASE Head(todo).seqs = <<>>
    BY <1>5, <2>3 DEF ImportRemote
  <2>4. CASE Head(todo).seqs # <<>>
    <3>1. lastSent' = lastSent \cup Entry(Head(Head(todo).seqs))
      BY <1>5, <2>4 DEF ImportRemote
    <3>2. Entry(Head(Head(todo).seqs)) \subseteq InRoom
      BY <2>2, <2>4 DEF InRoom
    <3>3. QED
      BY <3>1, <3>2
  <2>5. QED
    BY <2>3, <2>4
<1>6. CASE ImportWaiting
  <2>1. lastSent' = lastSent \/ \E seq \in waiting : lastSent' = lastSent \cup Entry(seq)
    BY <1>6 DEF ImportWaiting
  <2>2. \A seq \in waiting : Entry(seq) \subseteq InRoom
    BY DEF Known, InRoom
  <2>3. QED
    BY <2>1, <2>2
<1>7. QED
  BY <1>1, <1>2, <1>3, <1>4, <1>5, <1>6 DEF RelayNext, RelayStep

LEMMA KeptSentStays ==
    ASSUME Known, RelayNext
    PROVE  kept'.sent = kept.sent \/ PushSettled
<1>1. CASE ImportRemote
  BY <1>1 DEF ImportRemote, Seen, Known
<1>2. CASE ImportRefused
  BY <1>2 DEF ImportRefused, Known
<1>3. QED
  BY <1>1, <1>2, KeptStays

LEMMA SentMade ==
    ASSUME TypeOK, PushesOK, Known, RoomGrows, SentOK, NEW p \in Push, PushLocal(p)
    PROVE  SentOK'
<1>1. /\ fate[p] = "unmade" /\ \A q \in Push : q < p => fate[q] # "unmade"
      /\ fate' = [fate EXCEPT ![p] = "open"]
      /\ content' = [content EXCEPT ![p] = replica \ lastSent]
      /\ sentBy' = [sentBy EXCEPT ![p] = lastSent']
      /\ lastSent' = lastSent \cup Head(todo).version
      /\ UNCHANGED <<overtaken, kept>>
      /\ todo # <<>> /\ Head(todo).op = "export"
  BY DEF PushLocal, MakePush, Exported, session, Running
<1>2. Head(todo).version \subseteq replica
  BY <1>1, TailLemma, StepLemma DEF Known
<1>3. /\ fate'[p] = "open" /\ content'[p] = replica \ lastSent /\ sentBy'[p] = lastSent'
      /\ \A q \in Push \ {p} : fate'[q] = fate[q] /\ sentBy'[q] = sentBy[q]
  BY <1>1 DEF TypeOK, Known
<1>4. overtaken \subseteq Push /\ \A q \in overtaken : fate[q] # "unmade"
  BY DEF Known
<1>5. \A q \in Push : fate[q] # "unmade" => q < p
  BY <1>1, PushNumbers DEF PushesOK, MadeInOrder
<1> DEFINE Q == overtaken \cup {q \in Push : q <= p /\ Unsettled(q)'}
<1>6. lastSent' \subseteq InRoom' \cup Carries(content', Q)
  <2>1. lastSent \subseteq InRoom' \cup Carries(content', Q)
    <3>1. \A q \in overtaken \cup {r \in Push : Unsettled(r)} :
             fate[q] # "unmade" /\ q \in Q
      <4>1. ASSUME NEW q \in Push, Unsettled(q)
            PROVE  fate[q] # "unmade" /\ q <= p /\ Unsettled(q)'
        <5>1. fate[q] # "unmade" /\ q < p
          BY <1>5, <4>1 DEF Unsettled
        <5>2. q # p /\ q <= p
          BY <5>1, PushNumbers
        <5>3. fate'[q] = fate[q]
          BY <1>3, <5>2
        <5>4. QED
          BY <4>1, <5>1, <5>2, <5>3 DEF Unsettled
      <4>2. QED
        BY <1>4, <4>1
    <3>2. overtaken \cup {r \in Push : Unsettled(r)} \in SUBSET Push
      BY <1>4
    <3>3. lastSent \subseteq InRoom \cup Carries(content, overtaken \cup {r \in Push : Unsettled(r)})
      BY DEF SentOK
    <3>4. QED
      BY <3>1, <3>2, <3>3, CarriesOn
  <2>2. p \in Q
    BY <1>3, PushNumbers DEF Unsettled
  <2>3. replica \ lastSent \subseteq Carries(content', Q)
    BY <1>3, <2>2, CarriesLemma
  <2>4. QED
    BY <1>1, <1>2, <2>1, <2>3
<1>7. (lastSent \subseteq InRoom \cup Carries(content, overtaken \cup {q \in Push : Unsettled(q)}))'
  <2>1. Q \subseteq overtaken' \cup {q \in Push : Unsettled(q)'}
    BY <1>1
  <2>2. Carries(content', Q) \subseteq Carries(content', overtaken' \cup {q \in Push : Unsettled(q)'})
    BY <2>1, CarriesLemma
  <2>3. QED
    BY <1>6, <2>2
<1>8. (kept.sent \subseteq InRoom \cup Carries(content, overtaken))'
  <2>1. kept.sent \subseteq InRoom' \cup Carries(content', overtaken)
    BY <1>4, CarriesOn DEF SentOK
  <2>2. QED
    BY <1>1, <2>1
<1>9. ASSUME NEW r \in Push, fate'[r] = "open"
      PROVE  sentBy'[r] \subseteq InRoom'
                 \cup Carries(content', overtaken' \cup {q \in Push : q <= r /\ Unsettled(q)'})
  <2>1. CASE r = p
    BY <1>1, <1>3, <1>6, <2>1
  <2>2. CASE r # p
    <3>1. fate[r] = "open" /\ sentBy'[r] = sentBy[r]
      BY <1>3, <1>9, <2>2
    <3>2. sentBy[r] \subseteq InRoom
              \cup Carries(content, overtaken \cup {q \in Push : q <= r /\ Unsettled(q)})
      BY <3>1 DEF SentOK
    <3>3. \A q \in overtaken \cup {u \in Push : u <= r /\ Unsettled(u)} :
             fate[q] # "unmade" /\ q \in overtaken' \cup {u \in Push : u <= r /\ Unsettled(u)'}
      BY <1>1, <1>3, <1>4 DEF Unsettled
    <3>4. overtaken \cup {u \in Push : u <= r /\ Unsettled(u)} \in SUBSET Push
      BY <1>4
    <3>5. QED
      BY <3>1, <3>2, <3>3, <3>4, CarriesOn
  <2>3. QED
    BY <2>1, <2>2
<1>10. QED
  BY <1>7, <1>8, <1>9 DEF SentOK

LEMMA SentSettled ==
    ASSUME TypeOK, PushesOK, Known, RoomGrows, SentOK, PushSettled
    PROVE  SentOK'
<1>1. /\ HandlePushed /\ down # <<>> /\ Head(down).op \in {"pushed", "refused"}
      /\ UNCHANGED <<lastSent, sentBy>>
  BY DEF PushSettled, HandlePushed, relayState
<1>2. PICK a \in Push :
         /\ a = Answered /\ fate[a] = "open"
         /\ fate' = [fate EXCEPT ![a] = IF Head(down).op = "pushed" THEN "taken" ELSE "refused"]
  <2>1. Answered \in Range(pending)
    BY <1>1, AnswerTaken
  <2>2. QED
    BY <1>1, <2>1, OpenPushes DEF HandlePushed
<1>3. Head(down).op = "pushed"
      => /\ kept' = [kept EXCEPT !.sent = sentBy[a]]
         /\ overtaken' = overtaken \cup {q \in Push : q < a /\ Unsettled(q)}
  BY <1>2 DEF PushSettled, SentWith, Answered, Unsettled
<1>4. Head(down).op # "pushed" => UNCHANGED <<kept, overtaken>>
  BY DEF PushSettled
<1>5. overtaken \subseteq Push /\ \A q \in overtaken : fate[q] # "unmade" /\ q \in overtaken'
  BY <1>3, <1>4 DEF Known
\* What it carries is in the room, or it stays unsettled.
<1>6. \A q \in Push : Unsettled(q) =>
         fate[q] # "unmade" /\ (Unsettled(q)' \/ (q = a /\ content[q] \subseteq InRoom))
  <2>1. Head(down).op = "pushed" => content[a] \subseteq InRoom
    <3>1. ASSUME Head(down).op = "pushed"
          PROVE  content[a] \subseteq InRoom
      <4>1. PICK s \in DOMAIN room : room[s] = a
        BY <1>1, <1>2, <3>1, AnswerTaken DEF Range
      <4>2. Entry(s) = content[a]
        BY <1>2, <4>1, PushNumbers DEF Entry
      <4>3. QED
        BY <4>2 DEF InRoom
    <3>2. QED
      BY <3>1
  <2>2. ASSUME NEW q \in Push, Unsettled(q)
        PROVE  fate[q] # "unmade" /\ (Unsettled(q)' \/ (q = a /\ content[q] \subseteq InRoom))
    <3>1. CASE q = a
      BY <1>1, <1>2, <2>1, <3>1 DEF TypeOK, Unsettled
    <3>2. CASE q # a
      BY <1>2, <2>2, <3>2 DEF TypeOK, Unsettled
    <3>3. QED
      BY <3>1, <3>2
  <2>3. QED
    BY <2>2
<1>7. ASSUME NEW P \in SUBSET Push, NEW Q, NEW X, X \subseteq InRoom \cup Carries(content, overtaken \cup P),
             \A q \in P : Unsettled(q) /\ (Unsettled(q)' => q \in Q), overtaken' \subseteq Q
      PROVE  X \subseteq InRoom' \cup Carries(content', Q)
  <2>1. overtaken \cup P \in SUBSET Push
    BY <1>5
  <2>2. \A q \in overtaken \cup P : fate[q] # "unmade" /\ (q \in Q \/ content[q] \subseteq InRoom)
    BY <1>5, <1>6, <1>7
  <2>3. QED
    BY <1>7, <2>1, <2>2, CarriesOn
<1>8. lastSent' \subseteq InRoom' \cup Carries(content', overtaken' \cup {q \in Push : Unsettled(q)'})
  <2>1. \A q \in {u \in Push : Unsettled(u)} :
           Unsettled(q) /\ (Unsettled(q)' => q \in overtaken' \cup {u \in Push : Unsettled(u)'})
    OBVIOUS
  <2>2. lastSent \subseteq InRoom \cup Carries(content, overtaken \cup {q \in Push : Unsettled(q)})
    BY DEF SentOK
  <2>3. QED
    BY <1>1, <1>7, <2>1, <2>2
<1>9. kept'.sent \subseteq InRoom' \cup Carries(content', overtaken')
  <2>1. CASE Head(down).op = "pushed"
    <3>1. kept'.sent = sentBy[a]
      BY <1>3, <2>1 DEF Known
    <3>2. sentBy[a] \subseteq InRoom
              \cup Carries(content, overtaken \cup {q \in Push : q <= a /\ Unsettled(q)})
      BY <1>2 DEF SentOK
    <3>3. \A q \in {u \in Push : u <= a /\ Unsettled(u)} :
             Unsettled(q) /\ (Unsettled(q)' => q \in overtaken')
      <4>1. ~Unsettled(a)'
        BY <1>2, <2>1 DEF TypeOK, Unsettled
      <4>2. \A q \in Push : q <= a /\ q # a => q < a
        BY <1>2, PushNumbers
      <4>3. QED
        BY <1>3, <2>1, <4>1, <4>2
    <3>4. QED
      BY <1>7, <3>1, <3>2, <3>3
  <2>2. CASE Head(down).op # "pushed"
    <3>1. kept.sent \subseteq InRoom' \cup Carries(content', overtaken)
      BY <1>5, CarriesOn DEF SentOK
    <3>2. QED
      BY <1>4, <2>2, <3>1
  <2>3. QED
    BY <2>1, <2>2
<1>10. ASSUME NEW r \in Push, fate'[r] = "open"
       PROVE  sentBy'[r] \subseteq InRoom'
                  \cup Carries(content', overtaken' \cup {q \in Push : q <= r /\ Unsettled(q)'})
  <2>1. fate[r] = "open"
    BY <1>2, <1>10 DEF TypeOK
  <2>2. sentBy[r] \subseteq InRoom
            \cup Carries(content, overtaken \cup {q \in Push : q <= r /\ Unsettled(q)})
    BY <2>1 DEF SentOK
  <2>3. \A q \in {u \in Push : u <= r /\ Unsettled(u)} :
           /\ Unsettled(q)
           /\ Unsettled(q)' => q \in overtaken' \cup {u \in Push : u <= r /\ Unsettled(u)'}
    OBVIOUS
  <2>4. QED
    BY <1>1, <1>7, <2>2, <2>3
<1>11. QED
  BY <1>8, <1>9, <1>10 DEF SentOK

LEMMA SentStep ==
    ASSUME TypeOK, PushesOK, Known, RoomGrows, SentOK, RelayNext
    PROVE  SentOK'
<1>1. CASE \E p \in Push : PushLocal(p)
  BY <1>1, SentMade
<1>2. CASE PushSettled
  BY <1>2, SentSettled
<1>3. CASE Crash
  <2>1. /\ lastSent' = kept.sent /\ UNCHANGED <<sentBy, kept, overtaken>>
        /\ \A p \in Push : fate'[p] # "open"
    BY <1>3 DEF Crash
  <2>2. overtaken \subseteq Push /\ \A q \in overtaken : fate[q] # "unmade"
    BY DEF Known
  <2>3. kept.sent \subseteq InRoom' \cup Carries(content', overtaken)
    BY <2>2, CarriesOn DEF SentOK
  <2>4. Carries(content', overtaken) \subseteq Carries(content', overtaken \cup {q \in Push : Unsettled(q)'})
    BY CarriesLemma
  <2>5. QED
    BY <2>1, <2>3, <2>4 DEF SentOK
<1>4. CASE ~(\E p \in Push : PushLocal(p)) /\ ~PushSettled /\ ~Crash
  <2>1. /\ fate' = fate /\ overtaken' = overtaken /\ kept'.sent = kept.sent /\ sentBy' = sentBy
        /\ lastSent' \subseteq lastSent \cup InRoom
    BY <1>4, FatesStay, OvertakenStays, KeptSentStays, ContentStays, LastSentStays
  <2>2. ASSUME NEW P \in SUBSET Push, NEW X, X \subseteq InRoom \cup Carries(content, overtaken \cup P),
               \A q \in P : Unsettled(q)
        PROVE  X \subseteq InRoom' \cup Carries(content', overtaken \cup P)
    <3>1. overtaken \cup P \in SUBSET Push /\ \A q \in overtaken \cup P : fate[q] # "unmade"
      BY <2>2 DEF Known, Unsettled
    <3>2. QED
      BY <2>2, <3>1, CarriesOn
  <2>3. \A q \in Push : Unsettled(q)' <=> Unsettled(q)
    BY <2>1 DEF Unsettled
  <2>4. lastSent' \subseteq InRoom' \cup Carries(content', overtaken' \cup {q \in Push : Unsettled(q)'})
    <3>1. lastSent \subseteq InRoom' \cup Carries(content', overtaken \cup {q \in Push : Unsettled(q)})
      BY <2>2 DEF SentOK
    <3>2. InRoom \subseteq InRoom'
      BY EntriesStay
    <3>3. QED
      BY <2>1, <2>3, <3>1, <3>2
  <2>5. kept'.sent \subseteq InRoom' \cup Carries(content', overtaken')
    <3>1. overtaken \cup {} = overtaken
      OBVIOUS
    <3>2. QED
      BY <2>1, <2>2, <3>1 DEF SentOK
  <2>6. ASSUME NEW r \in Push, fate'[r] = "open"
        PROVE  sentBy'[r] \subseteq InRoom'
                   \cup Carries(content', overtaken' \cup {q \in Push : q <= r /\ Unsettled(q)'})
    <3>1. sentBy[r] \subseteq InRoom'
              \cup Carries(content', overtaken \cup {q \in Push : q <= r /\ Unsettled(q)})
      BY <2>1, <2>2, <2>6 DEF SentOK
    <3>2. QED
      BY <2>1, <2>3, <3>1
  <2>7. QED
    BY <2>4, <2>5, <2>6 DEF SentOK
<1>5. QED
  BY <1>1, <1>2, <1>3, <1>4

LEMMA RelayAsks ==
    ASSUME TypeOK, PushesOK, AsksOK, Known, RelayNext
    PROVE  AsksOK'
<1>1. CASE RelayedNext
  <2>1. since \in Nat
    BY DEF Known
  <2>2. ClientNext
    BY <1>1, <2>1 DEF RelayedNext, ClientNext, Next
  <2>3. QED
    BY <2>2, AsksStep
<1>2. CASE UNCHANGED vars
  <2>1. UNCHANGED <<up, down, joining, relaying, joined, greeting, member>>
    BY <1>2 DEF vars, connection, following, server
  <2>2. QED
    BY <2>1 DEF AsksOK, Asked
<1>3. CASE Crash
  <2>1. up' = <<>> /\ down' = <<>> /\ ~joining' /\ ~relaying'
    BY <1>3 DEF Crash
  <2>2. \A op : ~Has(up', op) /\ One(up', op) /\ ~Has(down', op) /\ One(down', op)
    BY <2>1, NoJoins
  <2>3. QED
    BY <2>1, <2>2 DEF AsksOK, Asked
<1>4. QED
  BY <1>1, <1>2, <1>3, RelayMoves

RelayOK == TypeOK /\ PushesOK /\ AsksOK /\ Waits /\ Known

LEMMA RelayBegins == RelayInit => RelayOK /\ SentOK
<1>1. SUFFICES ASSUME RelayInit
               PROVE  RelayOK /\ SentOK
  OBVIOUS
<1>2. Init /\ TypeOK /\ PushesOK
  BY <1>1, PushesInit DEF RelayInit
<1>3. /\ up = <<>> /\ down = <<>> /\ ~joining /\ ~relaying /\ room = <<>>
      /\ \A p \in Push : fate[p] = "unmade"
  BY <1>2 DEF Init
<1>4. AsksOK
  <2>1. \A op : ~Has(up, op) /\ One(up, op) /\ ~Has(down, op) /\ One(down, op)
    BY <1>3, NoJoins
  <2>2. QED
    BY <1>3, <2>1 DEF AsksOK, Asked
<1>5. Waits
  BY <1>3 DEF Waits
<1>6. Known
  <2>1. /\ todo = <<>> /\ waiting = {} /\ since = 0 /\ kept = [sent |-> {}, seen |-> None]
        /\ content = [p \in Push |-> {}] /\ sentBy = [p \in Push |-> {}] /\ overtaken = {}
    BY <1>1 DEF RelayInit
  <2>2. Len(room) = 0 /\ 0 \in 0 .. 0
    BY <1>3
  <2>3. down \in Seq(KnownAnswers) /\ todo \in Seq(KnownSteps)
    BY <1>3, <2>1, NoStep, Zenon
  <2>4. QED
    BY <2>1, <2>2, <2>3 DEF Known
<1>7. SentOK
  <2>1. lastSent = {} /\ kept.sent = {}
    BY <1>1 DEF RelayInit
  <2>2. \A p \in Push : fate[p] # "open"
    BY <1>3
  <2>3. QED
    BY <2>1, <2>2 DEF SentOK
<1>8. QED
  BY <1>2, <1>4, <1>5, <1>6, <1>7 DEF RelayOK

LEMMA RelayStays ==
    ASSUME RelayOK, RelayNext
    PROVE  RelayOK' /\ RoomGrows
BY RelayPushes, RelayAsks, WaitsStep, KnownStep DEF RelayOK

\* Nothing of the invariant names more than the variables.
LEMMA RelayStutters ==
    ASSUME UNCHANGED <<vars, relayVars>>
    PROVE  (RelayOK => RelayOK') /\ (SentOK => SentOK')
<1>1. UNCHANGED <<state, transport, greeting, closed, drops, joined, lastSeq,
             joining, relaying, heard, queue, pending, flushing, stray, ready, fate, waited, up,
             down, member, room, refusals>>
  BY DEF vars, connection, following, pushing, server
<1>2. UNCHANGED <<replica, edits, lastSent, todo, waiting, saved, content, sentBy, kept, since,
                  blocked, blocks, crashes, overtaken, heldBack, dropped>>
  BY DEF relayVars, relayState, session, failed
<1>3. TypeOK /\ PushesOK /\ AsksOK => TypeOK' /\ PushesOK' /\ AsksOK'
  BY <1>1, Zenon DEF TypeOK, PushesOK, Connected, Open, Recorded, MadeInOrder, AsksOK, Asked
<1>4. (Known => Known') /\ (Waits => Waits')
  BY <1>1, <1>2, Zenon DEF Known, KnownAnswers, KnownSteps, Waits, Running
<1>5. SentOK => SentOK'
  BY <1>1, <1>2, Zenon DEF SentOK, InRoom, Entry, Unsettled
<1>6. QED
  BY <1>3, <1>4, <1>5 DEF RelayOK

LEMMA SentAlways == RelaySpec => [](RelayOK /\ SentOK)
<1>1. RelayOK /\ SentOK /\ [RelayNext]_<<vars, relayVars>> => (RelayOK /\ SentOK)'
  <2>1. RelayOK /\ SentOK /\ RelayNext => (RelayOK /\ SentOK)'
    BY RelayStays, SentStep DEF RelayOK
  <2>2. RelayOK /\ SentOK /\ UNCHANGED <<vars, relayVars>> => (RelayOK /\ SentOK)'
    BY RelayStutters
  <2>3. QED
    BY <2>1, <2>2
<1>2. QED
  BY <1>1, RelayBegins, PTL DEF RelaySpec

\* What counts as sent (`lastSent` of relay.ts) is in the room or carried by a push that is not
\* lost: an edit made or a change imported beside a sending is never taken for sent with it.
THEOREM NothingIsSentUnpushed == RelaySpec => []SentIsCarried
<1>1. SentOK => SentIsCarried
  BY DEF SentOK, SentIsCarried, Carries, Unsettled
<1>2. QED
  BY <1>1, SentAlways, PTL

\* What is kept as sent (`onSent`, collabRelays.ts) is in the room, whatever order the pushes are
\* settled in, but for those a later one was settled before.
THEOREM WhatIsKeptWasSent == RelaySpec => []SentIsInRoom
<1>1. SentOK => SentIsInRoom
  BY DEF SentOK, SentIsInRoom, Carries
<1>2. QED
  BY <1>1, SentAlways, PTL

-----------------------------------------------------------------------------
(* What the relay hears. It joins from `since`, and never leaves.          *)

HearsSince == SeqsOK /\ \A b \in Nat : b = since => HearsOK(b)

LEMMA HearsUnchanged ==
    ASSUME NEW b \in Nat, SeqsOK, HearsOK(b), UNCHANGED vars
    PROVE  SeqsOK' /\ HearsOK(b)'
<1>1. UNCHANGED <<connection, following, up, down, server>>
  BY DEF vars
<1>2. SeqsOK' /\ Follows(b)' /\ Tells(b)' /\ TellsAll(b)'
  BY <1>1, HearsSame DEF following, server
<1>3. Asking(up', lastSeq', b) /\ Rejoins'
  BY <1>1, Zenon DEF HearsOK, Rejoins, connection, following, server
<1>4. QED
  BY <1>2, <1>3 DEF HearsOK

LEMMA HearsNothing ==
    ASSUME NEW b \in Nat, TypeOK, up = <<>>, down = <<>>, lastSeq = 0, ~relaying, ~member,
           state = "offline"
    PROVE  SeqsOK /\ HearsOK(b)
<1>1. DOMAIN down = {} /\ Len(room) \in Nat
  BY LenProperties DEF TypeOK
<1>2. SeqsOK /\ Tells(b) /\ TellsAll(b) /\ Follows(b)
  BY <1>1 DEF SeqsOK, Tells, TellsAll, Follows
<1>3. Asking(up, lastSeq, b) /\ Rejoins
  BY NothingAsked, EmptyMessages DEF Rejoins
<1>4. QED
  BY <1>2, <1>3 DEF HearsOK

LEMMA HearsNothingNext ==
    (\A b \in Nat : TypeOK /\ up = <<>> /\ down = <<>> /\ lastSeq = 0 /\ ~relaying /\ ~member
                    /\ state = "offline" => SeqsOK /\ HearsOK(b))'
<1>1. \A b \in Nat : TypeOK /\ up = <<>> /\ down = <<>> /\ lastSeq = 0 /\ ~relaying /\ ~member
                     /\ state = "offline" => SeqsOK /\ HearsOK(b)
  BY HearsNothing
<1>2. QED
  BY <1>1, PTL

LEMMA RelayHears ==
    ASSUME RelayOK, HearsSince, RelayNext
    PROVE  HearsSince'
<1>1. since \in Nat /\ TypeOK'
  BY RelayStays DEF RelayOK, Known
<1>2. CASE Crash
  <2>1. up' = <<>> /\ down' = <<>> /\ lastSeq' = 0 /\ ~relaying' /\ ~member' /\ state' = "offline"
    BY <1>2 DEF Crash
  <2>2. \A b \in Nat : SeqsOK' /\ HearsOK(b)'
    BY <1>1, <2>1, HearsNothingNext
  <2>3. 0 \in Nat
    OBVIOUS
  <2>4. QED
    BY <2>2, <2>3 DEF HearsSince
<1>3. CASE ~Crash
  <2>1. UNCHANGED since
    BY <1>3, SinceStays
  <2>2. ASSUME NEW b \in Nat, b = since
        PROVE  SeqsOK' /\ HearsOK(b)'
    <3>1. SeqsOK /\ HearsOK(b)
      BY <2>2 DEF HearsSince
    <3>2. CASE UNCHANGED vars
      BY <3>1, <3>2, HearsUnchanged
    <3>3. CASE RelayedNext
      <4>1. Join(since) => \E from \in 0 .. b : Join(from)
        <5>1. since \in 0 .. b
          BY <2>2
        <5>2. QED
          BY <5>1
      <4>2. Next \/ \E from \in 0 .. b : Join(from)
        BY <3>3, <4>1 DEF RelayedNext, Next
      <4>3. QED
        BY <3>1, <4>2, HearsStep DEF RelayOK
    <3>4. QED
      BY <1>3, <3>2, <3>3, RelayMoves
  <2>3. SeqsOK'
    BY <1>1, <2>2
  <2>4. \A b \in Nat : b = since' => HearsOK(b)'
    BY <2>1, <2>2
  <2>5. QED
    BY <2>3, <2>4 DEF HearsSince
<1>4. QED
  BY <1>2, <1>3

\* Who follows the room has joined it; before, nothing of it is told, held or sent.
FollowOK ==
    /\ ~relaying => heard = {} /\ Open = {} /\ todo \in Seq(FreshSteps)
    /\ joined => relaying
    /\ greeting = "rejoin" => joined
    /\ \A i \in DOMAIN down : down[i].op = "pull" => relaying \/ Joins(down, i)
    /\ member => relaying \/ Has(down, "join")

LEMMA AnswerAdded ==
    ASSUME TypeOK, NEW m \in Answers, down' = Append(down, m)
    PROVE  /\ Len(down) \in Nat /\ Len(down') = Len(down) + 1
           /\ DOMAIN down = 1 .. Len(down) /\ DOMAIN down' = 1 .. Len(down')
           /\ \A i \in 1 .. Len(down) : down'[i] = down[i]
           /\ down'[Len(down')] = m
           /\ 1 .. Len(down') = (1 .. Len(down)) \cup {Len(down')}
           /\ \A n \in 1 .. Len(down) : Joins(down', n) <=> Joins(down, n)
           /\ Joins(down', Len(down')) <=> Joins(down, Len(down)) \/ m.op = "join"
<1>1. down \in Seq(Answers)
  BY DEF TypeOK
<1>2. /\ Len(down) \in Nat /\ Len(down') = Len(down) + 1
      /\ DOMAIN down = 1 .. Len(down) /\ DOMAIN down' = 1 .. Len(down')
      /\ \A i \in 1 .. Len(down) : down'[i] = down[i]
      /\ down'[Len(down')] = m
  BY <1>1, AppendProperties, LenProperties
<1>3. 1 .. Len(down') = (1 .. Len(down)) \cup {Len(down')}
  BY <1>2
<1>4. \A n \in 1 .. Len(down) : Joins(down', n) <=> Joins(down, n)
  BY <1>1, OneMore
<1>5. Joins(down', Len(down')) <=> Joins(down, Len(down)) \/ m.op = "join"
  BY <1>1, OneMore
<1>6. QED
  BY <1>2, <1>3, <1>4, <1>5

LEMMA FollowAnswers ==
    ASSUME RelayOK, FollowOK, RelayNext
    PROVE  /\ joined' => relaying'
           /\ greeting' = "rejoin" => joined'
           /\ \A i \in DOMAIN down' : down'[i].op = "pull" => relaying' \/ Joins(down', i)
           /\ member' => relaying' \/ Has(down', "join")
           /\ relaying => relaying' \/ Crash
<1>1. down \in Seq(Answers) /\ up \in Seq(Requests) /\ TypeOK /\ PushesOK /\ AsksOK
  BY DEF RelayOK, TypeOK
<1>2. CASE UNCHANGED vars
  <2>1. UNCHANGED <<joined, relaying, greeting, down, member>>
    BY <1>2 DEF vars, connection, following, server
  <2>2. QED
    BY <2>1 DEF FollowOK
<1>3. CASE Crash
  <2>1. ~joined' /\ greeting' = "none" /\ down' = <<>> /\ ~member'
    BY <1>3 DEF Crash
  <2>2. DOMAIN down' = {}
    BY <2>1
  <2>3. QED
    BY <1>3, <2>1, <2>2
<1>4. CASE (\E p \in Push : MakePush(p)) \/ OpenConnection \/ Join(since)
  <2>1. UNCHANGED <<joined, relaying, down, member>> /\ greeting' \in {greeting, "hello"}
    BY <1>4 DEF MakePush, OpenConnection, Join, connection, following, server
  <2>2. QED
    BY <2>1 DEF FollowOK
<1>5. CASE SendHello
  <2>1. UNCHANGED <<joined, relaying, down, member>> /\ (greeting' = "rejoin" => joined)
    BY <1>5 DEF SendHello, following, server
  <2>2. QED
    BY <2>1 DEF FollowOK
<1>6. CASE HandleDisconnect
  <2>1. UNCHANGED <<joined, relaying>> /\ down' = <<>> /\ ~member' /\ greeting' = "none"
    BY <1>6 DEF HandleDisconnect
  <2>2. DOMAIN down' = {}
    BY <2>1
  <2>3. QED
    BY <2>1, <2>2 DEF FollowOK
<1>7. CASE HandleJoined \/ HandlePull \/ HandlePushed
  <2>1. /\ down # <<>> /\ down' = Tail(down) /\ UNCHANGED member
        /\ Head(down).op = "join" => relaying'
        /\ relaying => relaying'
        /\ greeting' = "rejoin" => greeting = "rejoin"
        /\ joined' => joined \/ (Head(down).op \in {"join", "rejoin"} /\ HandleJoined)
        /\ joined => joined'
    <3>1. CASE HandleJoined
      <4>1. down # <<>> /\ down' = Tail(down) /\ UNCHANGED member /\ joined' = TRUE
            /\ Head(down).op \in {"join", "rejoin"}
        BY <3>1 DEF HandleJoined, server
      <4>2. CASE Head(down).op = "join" /\ relaying' = TRUE /\ UNCHANGED greeting
        BY <3>1, <4>1, <4>2
      <4>3. CASE Head(down).op = "rejoin" /\ greeting' = "none" /\ UNCHANGED relaying
        BY <3>1, <4>1, <4>3
      <4>4. QED
        BY <3>1, <4>2, <4>3 DEF HandleJoined
    <3>2. CASE HandlePull
      BY <3>2 DEF HandlePull, server, connection
    <3>3. CASE HandlePushed
      BY <3>3 DEF HandlePushed, server, connection
    <3>4. QED
      BY <1>7, <3>1, <3>2, <3>3
  <2>2. Head(down).op = "rejoin" => greeting = "rejoin"
    BY <1>1, <2>1, TailMessage DEF AsksOK
  <2>3. joined' => relaying'
    BY <2>1, <2>2 DEF FollowOK
  <2>4. greeting' = "rejoin" => joined'
    BY <2>1 DEF FollowOK
  <2>5. Has(down, "join") <=> Has(Tail(down), "join") \/ Head(down).op = "join"
    BY <1>1, <2>1, TailMessage
  <2>6. member' => relaying' \/ Has(down', "join")
    BY <2>1, <2>5 DEF FollowOK
  <2>7. ASSUME NEW i \in DOMAIN down', down'[i].op = "pull", ~relaying'
        PROVE  Joins(down', i)
    <3>1. /\ Len(Tail(down)) + 1 = Len(down) /\ Len(Tail(down)) \in Nat
          /\ DOMAIN Tail(down) = 1 .. Len(Tail(down)) /\ DOMAIN down = 1 .. Len(down)
          /\ \A k \in DOMAIN Tail(down) : Tail(down)[k] = down[k + 1]
          /\ \A n \in 0 .. Len(Tail(down)) :
                Joins(down, n + 1) <=> Joins(Tail(down), n) \/ Head(down).op = "join"
      BY <1>1, <2>1, ToldTail
    <3>2. i \in 0 .. Len(Tail(down)) /\ i + 1 \in DOMAIN down /\ down[i + 1].op = "pull"
      BY <2>1, <2>7, <3>1
    <3>3. Joins(down, i + 1)
      BY <2>1, <2>7, <3>2 DEF FollowOK
    <3>4. QED
      BY <2>1, <2>7, <3>1, <3>2, <3>3
  <2>8. QED
    BY <2>1, <2>3, <2>4, <2>6, <2>7
<1>8. CASE ServerTakes \/ ServerRefuses \/ ServerJoins \/ OtherChanges
  <2>1. UNCHANGED <<joined, relaying, greeting>>
    BY <1>8 DEF ServerTakes, ServerRefuses, ServerJoins, OtherChanges, connection, following
  <2>2. ASSUME NEW m \in Answers, down' = Append(down, m),
               m.op = "pull" => member,
               member' => member \/ m.op = "join" \/ relaying
        PROVE  /\ \A i \in DOMAIN down' : down'[i].op = "pull" => relaying' \/ Joins(down', i)
               /\ member' => relaying' \/ Has(down', "join")
    <3>1. /\ Len(down) \in Nat /\ Len(down') = Len(down) + 1
          /\ DOMAIN down = 1 .. Len(down) /\ DOMAIN down' = 1 .. Len(down')
          /\ \A i \in 1 .. Len(down) : down'[i] = down[i]
          /\ down'[Len(down')] = m
          /\ 1 .. Len(down') = (1 .. Len(down)) \cup {Len(down')}
          /\ \A n \in 1 .. Len(down) : Joins(down', n) <=> Joins(down, n)
          /\ Joins(down', Len(down')) <=> Joins(down, Len(down)) \/ m.op = "join"
      BY <1>1, <2>2, AnswerAdded
    <3>2. Has(down', "join") <=> Has(down, "join") \/ m.op = "join"
      BY <1>1, <2>2, AppendMessage
    <3>3. Has(down, "join") => Joins(down, Len(down))
      BY <3>1 DEF Has, Joins
    <3>4. ASSUME NEW i \in DOMAIN down', down'[i].op = "pull"
          PROVE  relaying' \/ Joins(down', i)
      <4>1. CASE i \in 1 .. Len(down)
        BY <2>1, <3>1, <3>4, <4>1 DEF FollowOK
      <4>2. CASE i = Len(down')
        BY <2>1, <2>2, <3>1, <3>3, <3>4, <4>2 DEF FollowOK
      <4>3. QED
        BY <3>1, <4>1, <4>2
    <3>5. member' => relaying' \/ Has(down', "join")
      BY <2>1, <2>2, <3>2 DEF FollowOK
    <3>6. QED
      BY <3>4, <3>5
  <2>3. CASE OtherChanges
    <3>1. UNCHANGED member
      BY <2>3 DEF OtherChanges
    <3>2. CASE member
      <4>1. Len(room') \in Nat
        BY RelayStays DEF RoomGrows
      <4>2. PICK m \in Answers : m.op = "pull" /\ down' = Append(down, m)
        BY <2>3, <3>2, <4>1, AnswerLemma DEF OtherChanges
      <4>3. QED
        BY <2>1, <2>2, <3>1, <3>2, <4>2 DEF FollowOK
    <3>3. CASE ~member
      <4>1. UNCHANGED down
        BY <2>3, <3>3 DEF OtherChanges
      <4>2. QED
        BY <2>1, <3>1, <4>1 DEF FollowOK
    <3>4. QED
      BY <3>2, <3>3
  <2>4. CASE ServerTakes \/ ServerRefuses \/ ServerJoins
    <3>1. up # <<>> /\ Head(up) \in Requests /\ Has(up, Head(up).op) /\ Len(room') \in Nat /\ Len(room) \in Nat
      <4>1. up # <<>>
        BY <2>4 DEF ServerTakes, ServerRefuses, ServerJoins
      <4>2. Len(room') \in Nat /\ Len(room) \in Nat
        BY RelayStays DEF RoomGrows
      <4>3. QED
        BY <1>1, <4>1, <4>2, TailMessage, TailLemma
    <3>2. CASE ServerTakes \/ ServerRefuses
      <4>1. UNCHANGED member /\ Head(up).push \in Push
        BY <3>1, <3>2, RequestLemma DEF ServerTakes, ServerRefuses
      <4>2. PICK m \in Answers : m.op \in {"pushed", "refused"} /\ down' = Append(down, m)
        BY <3>1, <3>2, <4>1, AnswerLemma DEF ServerTakes, ServerRefuses
      <4>3. QED
        BY <2>1, <2>2, <4>1, <4>2 DEF FollowOK
    <3>3. CASE ServerJoins
      <4>1. Head(up).op \in {"join", "rejoin"} /\ Head(up).since \in Nat
        BY <3>1, <3>3, RequestLemma DEF ServerJoins
      <4>2. PICK m \in Answers : m.op = Head(up).op /\ down' = Append(down, m)
        BY <3>1, <3>3, <4>1, AnswerLemma DEF ServerJoins
      <4>3. Head(up).op = "rejoin" => relaying
        BY <1>1, <3>1 DEF AsksOK, FollowOK
      <4>4. QED
        BY <2>1, <2>2, <4>1, <4>2, <4>3 DEF FollowOK
    <3>4. QED
      BY <2>4, <3>2, <3>3
  <2>5. QED
    BY <1>8, <2>3, <2>4
<1>9. QED
  BY <1>2, <1>3, <1>4, <1>5, <1>6, <1>7, <1>8, RelayMoves DEF RelayedNext

LEMMA FollowTodo ==
    ASSUME RelayOK, RoomGrows, ~relaying, todo \in Seq(FreshSteps), RelayNext
    PROVE  todo' \in Seq(FreshSteps')
<1>1. CASE Crash
  BY <1>1 DEF Crash
<1>2. CASE ~Crash
  <2>1. KnownSteps \subseteq KnownSteps'
    BY <1>2, ReplicaGrows, StepsGrow DEF RelayOK
  <2>2. FreshSteps \subseteq FreshSteps'
    BY <2>1 DEF FreshSteps
  <2>3. todo \in Seq(FreshSteps')
    BY <2>2, SeqGrows
  <2>4. QED
    BY <2>2, <2>3, TodoWithin DEF RelayOK
<1>3. QED
  BY <1>1, <1>2

LEMMA FollowStep ==
    ASSUME RelayOK, FollowOK, RelayNext
    PROVE  FollowOK'
<1>1. RoomGrows /\ RelayOK' /\ TypeOK /\ PushesOK /\ AsksOK
  BY RelayStays DEF RelayOK
<1>2. SUFFICES ASSUME ~relaying'
               PROVE  heard' = {} /\ Open' = {} /\ todo' \in Seq(FreshSteps')
  BY FollowAnswers DEF FollowOK
<1>3. CASE Crash
  <2>1. /\ heard' = {} /\ todo' = <<>>
        /\ fate' = [p \in Push |-> IF fate[p] = "open" THEN "closed" ELSE fate[p]]
    BY <1>3 DEF Crash
  <2>2. Open' = {}
    BY <2>1 DEF Open
  <2>3. QED
    BY <2>1, <2>2
<1>4. CASE ~Crash
  <2>1. ~relaying /\ heard = {} /\ Open = {} /\ todo \in Seq(FreshSteps)
    BY <1>2, <1>4, FollowAnswers DEF FollowOK
  <2>2. todo' \in Seq(FreshSteps')
    BY <1>1, <2>1, FollowTodo
  <2>3. \A p \in Push : ~PushLocal(p)
    <3>1. SUFFICES ASSUME NEW p \in Push, PushLocal(p)
                   PROVE  FALSE
      OBVIOUS
    <3>2. todo # <<>> /\ Head(todo).op = "export"
      BY <3>1 DEF PushLocal, Running
    <3>3. Head(todo) \in FreshSteps
      BY <2>1, <3>2, TailLemma
    <3>4. QED
      BY <3>2, <3>3 DEF FreshSteps
  <2>4. down = <<>> \/ Head(down).op \notin {"pushed", "refused"}
    <3>1. SUFFICES ASSUME down # <<>>, Head(down).op \in {"pushed", "refused"}
                   PROVE  FALSE
      OBVIOUS
    <3>2. Answered \in Range(pending)
      BY <1>1, <3>1, AnswerTaken
    <3>3. Range(pending) \subseteq Open
      BY <1>1 DEF PushesOK, Kept
    <3>4. QED
      BY <2>1, <3>2, <3>3
  <2>5. ~PushSettled
    BY <2>4 DEF PushSettled, HandlePushed
  <2>6. Open' = {}
    <3>1. fate' = fate
      BY <1>4, <2>3, <2>5, FatesStay
    <3>2. QED
      BY <2>1, <3>1 DEF Open
  <2>7. ~HandlePull
    <3>1. SUFFICES ASSUME HandlePull
                   PROVE  FALSE
      OBVIOUS
    <3>2. down # <<>> /\ Head(down).op = "pull" /\ down \in Seq(Answers)
      BY <1>1, <3>1 DEF HandlePull, TypeOK
    <3>3. 1 \in DOMAIN down /\ down[1] = Head(down)
      BY <3>2, HeadTailProperties, LenProperties, EmptySeq
    <3>4. ~Joins(down, 1)
      <4>1. \A i \in 1 .. 1 : i = 1
        OBVIOUS
      <4>2. QED
        BY <3>2, <3>3, <4>1 DEF Joins
    <3>5. QED
      BY <2>1, <3>2, <3>3, <3>4 DEF FollowOK
  <2>8. ~HandleJoined
    <3>1. SUFFICES ASSUME HandleJoined
                   PROVE  FALSE
      OBVIOUS
    <3>2. down # <<>> /\ Head(down).op = "rejoin" /\ down \in Seq(Answers)
      BY <1>1, <1>2, <3>1 DEF HandleJoined, TypeOK
    <3>3. Has(down, "rejoin")
      BY <3>2, TailMessage
    <3>4. QED
      BY <1>1, <2>1, <3>3 DEF AsksOK, FollowOK
  <2>9. UNCHANGED heard
    <3>1. CASE UNCHANGED vars
      BY <3>1 DEF vars, following
    <3>2. CASE (\E p \in Push : MakePush(p)) \/ OpenConnection \/ SendHello \/ HandleDisconnect \/ Join(since)
      BY <3>2 DEF MakePush, OpenConnection, SendHello, HandleDisconnect, Join, following
    <3>3. CASE ServerTakes \/ ServerRefuses \/ ServerJoins \/ OtherChanges
      BY <3>3 DEF ServerTakes, ServerRefuses, ServerJoins, OtherChanges, following
    <3>4. ~HandlePushed
      BY <2>4 DEF HandlePushed
    <3>5. QED
      BY <1>4, <2>7, <2>8, <3>1, <3>2, <3>3, <3>4, RelayMoves DEF RelayedNext
  <2>10. QED
    BY <2>1, <2>2, <2>6, <2>9
<1>5. QED
  BY <1>3, <1>4

-----------------------------------------------------------------------------
(* What is held of the room, and what the steps to come bring.             *)

\* The seqs that the first n steps name.
Names(q, n) == {s \in Nat : \E i \in 1 .. n : q[i].op = "import" /\ s \in Range(q[i].seqs)}

\* A step that ends with a position has everything up to it, with what G names.
Covered(q, G) ==
    \A i \in DOMAIN q : q[i].op = "import" /\ q[i].seen # None
                        => 1 .. q[i].seen \subseteq G \cup Names(q, i)

LEMMA CoverMore ==
    ASSUME NEW S, NEW q \in Seq(S), NEW G, NEW H, G \subseteq H
    PROVE  /\ Covered(q, G) => Covered(q, H)
           /\ \A n, k \in Nat : n <= k => Names(q, n) \subseteq Names(q, k)
<1>1. Covered(q, G) => Covered(q, H)
  <2>1. \A i : G \cup Names(q, i) \subseteq H \cup Names(q, i)
    OBVIOUS
  <2>2. QED
    BY <2>1 DEF Covered
<1>2. ASSUME NEW n \in Nat, NEW k \in Nat, n <= k
      PROVE  Names(q, n) \subseteq Names(q, k)
  <2>1. 1 .. n \subseteq 1 .. k
    BY <1>2
  <2>2. QED
    BY <2>1 DEF Names
<1>3. QED
  BY <1>1, <1>2

LEMMA CoverNone == \A G, n : Covered(<<>>, G) /\ Names(<<>>, 0) = {}
<1>1. 1 .. 0 = {} /\ DOMAIN <<>> = {}
  OBVIOUS
<1>2. QED
  BY <1>1 DEF Covered, Names

\* Steps put behind the others.
LEMMA CoverAppend ==
    ASSUME NEW S, NEW q \in Seq(S), NEW r \in Seq(S), NEW o, o = q \o r, NEW G, Covered(q, G),
           \A i \in DOMAIN r : r[i].op = "import" /\ r[i].seen # None
                               => 1 .. r[i].seen \subseteq G \cup Names(q, Len(q)) \cup Names(r, i)
    PROVE  Covered(o, G) /\ Names(o, Len(o)) = Names(q, Len(q)) \cup Names(r, Len(r))
<1>1. /\ Len(q) \in Nat /\ DOMAIN q = 1 .. Len(q) /\ Len(r) \in Nat /\ DOMAIN r = 1 .. Len(r)
      /\ Len(o) = Len(q) + Len(r) /\ DOMAIN o = 1 .. Len(o)
      /\ \A i \in 1 .. Len(q) + Len(r) : o[i] = IF i <= Len(q) THEN q[i] ELSE r[i - Len(q)]
  BY ConcatProperties, LenProperties
<1>2. \A i \in 1 .. Len(q) : i \in 1 .. Len(o) /\ o[i] = q[i]
  BY <1>1
<1>3. \A i \in 1 .. Len(o) : i \notin 1 .. Len(q) => i - Len(q) \in 1 .. Len(r) /\ o[i] = r[i - Len(q)]
  BY <1>1
<1>4. ASSUME NEW k \in 1 .. Len(r), NEW i, i = Len(q) + k
      PROVE  o[i] = r[k] /\ i \in 1 .. Len(o)
  <2>1. i \in 1 .. Len(q) + Len(r) /\ ~(i <= Len(q)) /\ i - Len(q) = k
    BY <1>1, <1>4
  <2>2. o[i] = r[i - Len(q)]
    BY <1>1, <2>1
  <2>3. QED
    BY <1>1, <2>1, <2>2
<1>5. ASSUME NEW n \in 1 .. Len(q)
      PROVE  Names(o, n) = Names(q, n)
  <2>1. 1 .. n \subseteq 1 .. Len(q)
    BY <1>1
  <2>2. \A i \in 1 .. n : o[i] = q[i]
    BY <1>2, <2>1
  <2>3. QED
    BY <2>2 DEF Names
<1>6. ASSUME NEW k \in 0 .. Len(r), NEW n, n = Len(q) + k
      PROVE  Names(o, n) = Names(q, Len(q)) \cup Names(r, k)
  <2>1. ASSUME NEW s \in Names(o, n)
        PROVE  s \in Names(q, Len(q)) \cup Names(r, k)
    <3>1. s \in Nat /\ \E i \in 1 .. n : o[i].op = "import" /\ s \in Range(o[i].seqs)
      BY <2>1 DEF Names
    <3>2. PICK i \in 1 .. n : o[i].op = "import" /\ s \in Range(o[i].seqs)
      BY <3>1
    <3>3. CASE i \in 1 .. Len(q)
      BY <1>2, <3>1, <3>2, <3>3 DEF Names
    <3>4. CASE i \notin 1 .. Len(q)
      <4>1. i \in 1 .. Len(o) /\ i - Len(q) \in 1 .. k
        BY <1>1, <1>6, <3>2, <3>4
      <4>2. o[i] = r[i - Len(q)]
        BY <1>3, <3>4, <4>1
      <4>3. QED
        BY <3>1, <3>2, <4>1, <4>2 DEF Names
    <3>5. QED
      BY <3>3, <3>4
  <2>2. ASSUME NEW s \in Names(q, Len(q)) \cup Names(r, k)
        PROVE  s \in Names(o, n)
    <3>1. s \in Nat
      BY <2>2 DEF Names
    <3>2. CASE s \in Names(q, Len(q))
      <4>1. PICK i \in 1 .. Len(q) : q[i].op = "import" /\ s \in Range(q[i].seqs)
        BY <3>2 DEF Names
      <4>2. i \in 1 .. n
        BY <1>1, <1>6, <4>1
      <4>3. QED
        BY <1>2, <3>1, <4>1, <4>2 DEF Names
    <3>3. CASE s \in Names(r, k)
      <4>1. PICK j \in 1 .. k : r[j].op = "import" /\ s \in Range(r[j].seqs)
        BY <3>3 DEF Names
      <4>2. ASSUME NEW i, i = Len(q) + j
            PROVE  s \in Names(o, n)
        <5>1. i \in 1 .. n /\ j \in 1 .. Len(r)
          BY <1>1, <1>6, <4>1, <4>2
        <5>2. o[i] = r[j]
          BY <1>4, <4>2, <5>1
        <5>3. QED
          BY <3>1, <4>1, <5>1, <5>2 DEF Names
      <4>3. QED
        BY <4>2
    <3>4. QED
      BY <2>2, <3>2, <3>3
  <2>3. QED
    BY <2>1, <2>2
<1>7. Names(o, Len(o)) = Names(q, Len(q)) \cup Names(r, Len(r))
  <2>1. Len(r) \in 0 .. Len(r)
    BY <1>1
  <2>2. QED
    BY <1>1, <1>6, <2>1
<1>8. ASSUME NEW i \in DOMAIN o, o[i].op = "import", o[i].seen # None
      PROVE  1 .. o[i].seen \subseteq G \cup Names(o, i)
  <2>1. CASE i \in 1 .. Len(q)
    BY <1>1, <1>2, <1>5, <1>8, <2>1 DEF Covered
  <2>2. CASE i \notin 1 .. Len(q)
    <3>1. ASSUME NEW k, k = i - Len(q)
          PROVE  1 .. o[i].seen \subseteq G \cup Names(o, i)
      <4>1. k \in 1 .. Len(r) /\ o[i] = r[k] /\ i = Len(q) + k /\ k \in 0 .. Len(r)
        BY <1>1, <1>3, <1>8, <2>2, <3>1
      <4>2. Names(o, i) = Names(q, Len(q)) \cup Names(r, k)
        BY <1>6, <4>1
      <4>3. 1 .. r[k].seen \subseteq G \cup Names(q, Len(q)) \cup Names(r, k)
        BY <1>1, <1>8, <4>1
      <4>4. QED
        BY <4>1, <4>2, <4>3
    <3>2. QED
      BY <3>1
  <2>3. QED
    BY <2>1, <2>2
<1>9. QED
  BY <1>7, <1>8 DEF Covered

\* The step that runs makes way for others, which name what it named but for what H has.
LEMMA CoverReplaced ==
    ASSUME NEW S, NEW q \in Seq(S), q # <<>>, NEW x \in Seq(S), NEW r, r = x \o Tail(q),
           NEW G, NEW H, Covered(q, G), G \subseteq H, Covered(x, H),
           Names(q, 1) \subseteq H \cup Names(x, Len(x))
    PROVE  /\ Covered(r, H) /\ Names(q, Len(q)) \subseteq H \cup Names(r, Len(r))
           /\ Names(x, Len(x)) \subseteq Names(r, Len(r))
<1>1. /\ Len(x) \in Nat /\ Len(q) \in Nat \ {0}
      /\ DOMAIN x = 1 .. Len(x) /\ DOMAIN q = 1 .. Len(q)
      /\ Len(r) = Len(x) + Len(q) - 1 /\ DOMAIN r = 1 .. Len(r)
      /\ \A i \in 1 .. Len(x) : r[i] = x[i]
      /\ \A i \in 2 .. Len(q) : r[Len(x) + i - 1] = q[i]
  BY Replaced
<1>2. ASSUME NEW n \in 1 .. Len(x)
      PROVE  Names(x, n) \subseteq Names(r, n)
  <2>1. \A i \in 1 .. n : i \in 1 .. Len(x)
    BY <1>1
  <2>2. QED
    BY <1>1, <2>1 DEF Names
<1>3. ASSUME NEW n \in Nat, Len(x) <= n
      PROVE  Names(x, Len(x)) \subseteq Names(r, n)
  <2>1. \A i \in 1 .. Len(x) : i \in 1 .. n
    BY <1>1, <1>3
  <2>2. QED
    BY <1>1, <2>1 DEF Names
<1>4. ASSUME NEW k \in 1 .. Len(q), NEW n, n = Len(x) + k - 1
      PROVE  Names(q, k) \subseteq H \cup Names(r, n)
  <2>1. n \in Nat /\ Len(x) <= n
    BY <1>1, <1>4
  <2>2. SUFFICES ASSUME NEW s \in Names(q, k)
                 PROVE  s \in H \cup Names(r, n)
    OBVIOUS
  <2>3. s \in Nat /\ \E i \in 1 .. k : q[i].op = "import" /\ s \in Range(q[i].seqs)
    BY <2>2 DEF Names
  <2>4. PICK i \in 1 .. k : q[i].op = "import" /\ s \in Range(q[i].seqs)
    BY <2>3
  <2>5. CASE i = 1
    <3>1. 1 \in 1 .. 1
      OBVIOUS
    <3>2. s \in Names(q, 1)
      BY <2>3, <2>4, <2>5, <3>1 DEF Names
    <3>3. QED
      BY <1>3, <2>1, <3>2
  <2>6. CASE i # 1
    <3>1. ASSUME NEW j, j = Len(x) + i - 1
          PROVE  s \in Names(r, n)
      <4>1. j \in 1 .. n /\ i \in 2 .. Len(q)
        BY <1>1, <1>4, <2>4, <2>6, <3>1
      <4>2. r[j] = q[i]
        BY <1>1, <3>1, <4>1
      <4>3. QED
        BY <2>3, <2>4, <4>1, <4>2 DEF Names
    <3>2. QED
      BY <3>1
  <2>7. QED
    BY <2>5, <2>6
<1>5. ASSUME NEW j \in DOMAIN r, r[j].op = "import", r[j].seen # None
      PROVE  1 .. r[j].seen \subseteq H \cup Names(r, j)
  <2>1. CASE j \in 1 .. Len(x)
    <3>1. r[j] = x[j] /\ j \in DOMAIN x
      BY <1>1, <2>1
    <3>2. 1 .. x[j].seen \subseteq H \cup Names(x, j)
      BY <1>5, <3>1 DEF Covered
    <3>3. QED
      BY <1>2, <2>1, <3>1, <3>2
  <2>2. CASE j \notin 1 .. Len(x)
    <3>1. ASSUME NEW k, k = j - Len(x) + 1
          PROVE  1 .. r[j].seen \subseteq H \cup Names(r, j)
      <4>1. k \in 2 .. Len(q) /\ k \in 1 .. Len(q) /\ j = Len(x) + k - 1
        BY <1>1, <1>5, <2>2, <3>1
      <4>2. r[j] = q[k]
        BY <1>1, <4>1
      <4>3. 1 .. q[k].seen \subseteq G \cup Names(q, k)
        BY <1>1, <1>5, <4>1, <4>2 DEF Covered
      <4>4. Names(q, k) \subseteq H \cup Names(r, j)
        BY <1>4, <4>1
      <4>5. QED
        BY <4>2, <4>3, <4>4
    <3>2. QED
      BY <3>1
  <2>3. QED
    BY <2>1, <2>2
<1>6. Names(q, Len(q)) \subseteq H \cup Names(r, Len(r))
  <2>1. Len(q) \in 1 .. Len(q) /\ Len(r) = Len(x) + Len(q) - 1
    BY <1>1
  <2>2. QED
    BY <1>4, <2>1
<1>7. Names(x, Len(x)) \subseteq Names(r, Len(r))
  <2>1. Len(r) \in Nat /\ Len(x) <= Len(r)
    BY <1>1
  <2>2. QED
    BY <1>3, <2>1
<1>8. QED
  BY <1>5, <1>6, <1>7 DEF Covered

\* A sending put behind the others.
LEMMA CoverSending ==
    ASSUME NEW S, SendStep \in S, NEW q \in Seq(S), NEW G, Covered(q, G)
    PROVE  Covered(Sending(q), G) /\ Names(Sending(q), Len(Sending(q))) = Names(q, Len(q))
<1>1. CASE Sending(q) = q
  BY <1>1
<1>2. CASE Sending(q) = Append(q, SendStep)
  <2>1. PICK r \in Seq(S) : r = <<SendStep>> /\ Len(r) = 1 /\ r[1] = SendStep
    BY OneStep
  <2>2. q \o r = Append(q, SendStep)
    <3>1. Append(q, SendStep) = q \o <<SendStep>>
      BY AppendIsConcat
    <3>2. QED
      BY <2>1, <3>1
  <2>3. DOMAIN r = 1 .. 1 /\ \A i \in 1 .. 1 : r[i].op # "import"
    BY <2>1, LenProperties DEF SendStep
  <2>4. Names(r, Len(r)) = {}
    BY <2>1, <2>3 DEF Names
  <2>5. ASSUME NEW o, o = q \o r
        PROVE  Covered(o, G) /\ Names(o, Len(o)) = Names(q, Len(q)) \cup Names(r, Len(r))
    BY <2>3, <2>5, CoverAppend
  <2>6. QED
    BY <1>2, <2>2, <2>4, <2>5
<1>3. QED
  BY <1>1, <1>2, SendingLemma

\* A step that brings nothing of the room makes way for others that do not.
LEMMA CoverDone ==
    ASSUME NEW S, NEW q \in Seq(S), q # <<>>, NEW x \in Seq(S), NEW r, r = x \o Tail(q),
           Head(q).op # "import", \A i \in DOMAIN x : x[i].op # "import",
           NEW G, NEW H, Covered(q, G), G \subseteq H
    PROVE  Covered(r, H) /\ Names(q, Len(q)) \subseteq H \cup Names(r, Len(r))
<1>1. Head(q) = q[1]
  BY HeadTailProperties, EmptySeq
<1>2. \A i \in 1 .. 1 : i = 1
  OBVIOUS
<1>3. Names(q, 1) = {}
  BY <1>1, <1>2 DEF Names
<1>4. Covered(x, H)
  BY DEF Covered
<1>5. Names(q, 1) \subseteq H \cup Names(x, Len(x))
  BY <1>3
<1>6. QED
  BY <1>4, <1>5, CoverReplaced

\* One change of the step that runs is dealt with.
LEMMA CoverImported ==
    ASSUME todo \in Seq(KnownSteps), Running("import"), NEW G, NEW H, Covered(todo, G),
           G \subseteq H, Head(todo).seqs # <<>> => Head(Head(todo).seqs) \in H
    PROVE  /\ Covered(Imported(Head(todo)), H)
           /\ Imported(Head(todo)) \in Seq(KnownSteps)
           /\ Names(todo, Len(todo))
              \subseteq H \cup Names(Imported(Head(todo)), Len(Imported(Head(todo))))
           /\ Len(Head(todo).seqs) <= 1 /\ Head(todo).seen # None => 1 .. Head(todo).seen \subseteq H
<1> DEFINE step == Head(todo)
           x == Remainder(step)
<1>1. todo # <<>> /\ step \in KnownSteps /\ step.op = "import" /\ Tail(todo) \in Seq(KnownSteps)
      /\ step = todo[1] /\ 1 \in DOMAIN todo
  BY TailLemma, HeadTailProperties, LenProperties, EmptySeq DEF Running
<1>2. /\ step.seqs \in Seq(DOMAIN room) /\ step.seen \in (0 .. Len(room)) \cup {None}
      /\ step.rest \in Seq({WaitingStep}) /\ Len(step.seqs) \in Nat
      /\ DOMAIN step.seqs = 1 .. Len(step.seqs)
  BY <1>1, StepLemma, LenProperties
<1>3. /\ x \in Seq(FreshSteps)
      /\ Imported(step) = x \o Tail(todo)
      /\ IF Len(step.seqs) > 1
         THEN /\ x = <<ImportStep(Tail(step.seqs), step.seen, step.rest)>>
              /\ Tail(step.seqs) \in Seq(DOMAIN room)
         ELSE x = step.rest /\ x \in Seq({WaitingStep})
  BY <1>1, RemainderLemma
<1>4. x \in Seq(KnownSteps)
  BY <1>3, StepLemma, SeqGrows
<1> HIDE DEF x, step
<1>5. Names(todo, 1) \subseteq Range(step.seqs)
  <2>1. \A i \in 1 .. 1 : i = 1
    OBVIOUS
  <2>2. QED
    BY <1>1, <2>1 DEF Names
<1>6. step.seen # None => 1 .. step.seen \subseteq G \cup Names(todo, 1)
  BY <1>1 DEF Covered
<1>7. step.seqs # <<>> => Head(step.seqs) \in H
  BY DEF step
<1>8. CASE Len(step.seqs) > 1
  <2>1. step.seqs # <<>>
    BY <1>8
  <2>2. Range(step.seqs) = {Head(step.seqs)} \cup Range(Tail(step.seqs))
    BY <1>2, <2>1, TailLemma
  <2>3. ASSUME NEW t, t = ImportStep(Tail(step.seqs), step.seen, step.rest)
        PROVE  /\ t.op = "import" /\ t.seqs = Tail(step.seqs) /\ t.seen = step.seen
               /\ x = <<t>>
    BY <1>3, <1>8, <2>3 DEF ImportStep
  <2>4. PICK t : /\ t.op = "import" /\ t.seqs = Tail(step.seqs) /\ t.seen = step.seen
                 /\ x = <<t>>
    BY <2>3
  <2>5. Len(x) = 1 /\ DOMAIN x = 1 .. 1 /\ x[1] = t
    BY <2>4
  <2>6. ASSUME NEW s \in Names(todo, 1)
        PROVE  s \in H \cup Names(x, 1)
    <3>1. s \in Nat
      BY <2>6 DEF Names
    <3>2. CASE s \in Range(Tail(step.seqs))
      <4>1. 1 \in 1 .. 1 /\ x[1].op = "import" /\ x[1].seqs = Tail(step.seqs)
        BY <2>4, <2>5
      <4>2. QED
        BY <3>1, <3>2, <4>1, Zenon DEF Names
    <3>3. QED
      BY <1>5, <1>7, <2>1, <2>2, <2>6, <3>2
  <2>7. step.seen # None => 1 .. step.seen \subseteq H \cup Names(x, 1)
    BY <1>6, <2>6
  <2>8. Covered(x, H)
    <3>1. \A i \in 1 .. 1 : i = 1
      OBVIOUS
    <3>2. QED
      BY <2>4, <2>5, <2>7, <3>1 DEF Covered
  <2>9. Names(todo, 1) \subseteq H \cup Names(x, Len(x))
    BY <2>5, <2>6
  <2>10. Covered(x \o Tail(todo), H) /\ Names(todo, Len(todo)) \subseteq H \cup Names(x \o Tail(todo), Len(x \o Tail(todo)))
    BY <1>1, <1>4, <2>8, <2>9, CoverReplaced
  <2>11. x \o Tail(todo) \in Seq(KnownSteps)
    BY <1>1, <1>4, ConcatProperties
  <2>12. ~(Len(step.seqs) <= 1)
    BY <1>2, <1>8
  <2>13. Covered(Imported(step), H) /\ Imported(step) \in Seq(KnownSteps)
    BY <1>3, <2>10, <2>11
  <2>14. Names(todo, Len(todo)) \subseteq H \cup Names(Imported(step), Len(Imported(step)))
    BY <1>3, <2>10
  <2>15. QED
    BY <2>12, <2>13, <2>14 DEF step
<1>9. CASE ~(Len(step.seqs) > 1)
  <2>1. Range(step.seqs) \subseteq H
    <3>1. CASE step.seqs = <<>>
      BY <3>1 DEF Range
    <3>2. CASE step.seqs # <<>>
      <4>1. Head(step.seqs) = step.seqs[1]
        BY <1>2, <3>2, HeadTailProperties, EmptySeq
      <4>2. \A i \in DOMAIN step.seqs : i = 1
        BY <1>2, <1>9
      <4>3. QED
        BY <1>7, <3>2, <4>1, <4>2 DEF Range
    <3>3. QED
      BY <3>1, <3>2
  <2>2. \A i \in DOMAIN x : x[i].op # "import"
    <3>1. \A i \in DOMAIN x : x[i] = WaitingStep
      BY <1>3, <1>9, ElementOfSeq, LenProperties
    <3>2. QED
      BY <3>1 DEF WaitingStep
  <2>3. Covered(x, H)
    BY <2>2 DEF Covered
  <2>4. Names(todo, 1) \subseteq H
    BY <1>5, <2>1
  <2>5. Covered(x \o Tail(todo), H) /\ Names(todo, Len(todo)) \subseteq H \cup Names(x \o Tail(todo), Len(x \o Tail(todo)))
    BY <1>1, <1>4, <2>3, <2>4, CoverReplaced
  <2>6. x \o Tail(todo) \in Seq(KnownSteps)
    BY <1>1, <1>4, ConcatProperties
  <2>7. step.seen # None => 1 .. step.seen \subseteq H
    BY <1>6, <2>4
  <2>8. QED
    BY <1>3, <2>5, <2>6, <2>7 DEF step
<1>10. QED
  BY <1>8, <1>9

\* The changes of the room that the replica holds, and with those that wait for their blobs.
HeldSeqs == {s \in DOMAIN room : Entry(s) \subseteq replica}
Accounted == HeldSeqs \cup waiting \cup dropped

\* What is kept is held; and of what was heard of the room, all is held, waits, was lost to an
\* import that failed, or comes with a step.
HoldOK ==
    /\ \A p \in Push : fate[p] = "open" => content[p] \subseteq replica
    /\ JoinsForWhatItLacks
    /\ SeenIsHeld
    /\ ~blocked => heard \subseteq Accounted \cup Names(todo, Len(todo))
    /\ ~blocked => Covered(todo, Accounted)

LEMMA DroppedStays == RelayNext => dropped \subseteq dropped' /\ (dropped' = dropped \/ ImportFails)
<1>1. ImportFails => dropped \subseteq dropped'
  BY DEF ImportFails
<1>2. Edit \/ SaveReplica \/ TakeVersion \/ (\E p \in Push : PushLocal(p)) \/ PushNothing \/ Crash
      => dropped' = dropped
  BY DEF Edit, SaveReplica, TakeVersion, PushLocal, PushNothing, Crash, failed
<1>3. ImportRemote \/ ImportLater \/ ImportWaiting \/ BackOnline \/ ImportRefused => dropped' = dropped
  BY DEF ImportRemote, ImportLater, ImportWaiting, BackOnline, ImportRefused, failed
<1>4. Connecting \/ Greeted \/ Dropped \/ JoinedRoom \/ Pulled => dropped' = dropped
  BY DEF Connecting, Greeted, Dropped, JoinedRoom, Pulled, Told, Unheard, relayVars, failed
<1>5. PushSettled \/ Serving \/ OthersChange => dropped' = dropped
  BY DEF PushSettled, Serving, OthersChange, Unheard, relayVars, failed
<1>6. QED
  BY <1>1, <1>2, <1>3, <1>4, <1>5 DEF RelayNext, RelayStep

LEMMA HeldGrows ==
    ASSUME RelayOK, RelayNext, replica \subseteq replica'
    PROVE  HeldSeqs \subseteq HeldSeqs'
<1>1. RoomGrows /\ TypeOK /\ PushesOK
  BY RelayStays DEF RelayOK
<1>2. DOMAIN room \subseteq DOMAIN room' /\ \A s \in DOMAIN room : Entry(s)' = Entry(s)
  BY <1>1, EntriesStay
<1>3. QED
  BY <1>2 DEF HeldSeqs

LEMMA HeldStays ==
    ASSUME RelayOK, RelayNext, ~Crash
    PROVE  HeldSeqs \subseteq HeldSeqs' /\ replica \subseteq replica'
<1>1. replica \subseteq replica'
  BY RelayStays, ReplicaGrows DEF RelayOK
<1>2. QED
  BY <1>1, HeldGrows

\* A change whose entry the replica is given is held.
LEMMA HeldNow ==
    ASSUME RelayOK, RelayNext, NEW s \in DOMAIN room, Entry(s) \subseteq replica'
    PROVE  s \in HeldSeqs'
<1>1. RoomGrows /\ TypeOK /\ PushesOK
  BY RelayStays DEF RelayOK
<1>2. s \in DOMAIN room' /\ Entry(s)' = Entry(s)
  BY <1>1, EntriesStay
<1>3. QED
  BY <1>2 DEF HeldSeqs

LEMMA AccountedStays ==
    ASSUME RelayOK, RelayNext,
           Edit \/ SaveReplica \/ RelayStep \/ ImportFails \/ UNCHANGED <<replica, waiting>>
    PROVE  Accounted \subseteq Accounted'
<1> USE DroppedStays
<1>1. CASE Edit \/ SaveReplica
  <2>1. replica \subseteq replica' /\ waiting' = waiting
    BY <1>1 DEF Edit, SaveReplica, relayState
  <2>2. QED
    BY <2>1, HeldGrows DEF Accounted
<1>2. CASE TakeVersion \/ (\E p \in Push : PushLocal(p)) \/ PushNothing \/ ImportRemote
  <2>1. replica \subseteq replica' /\ waiting' = waiting
    BY <1>2 DEF TakeVersion, PushLocal, PushNothing, ImportRemote
  <2>2. QED
    BY <2>1, HeldGrows DEF Accounted
<1>3. CASE ImportLater \/ BackOnline
  <2>1. replica \subseteq replica' /\ waiting \subseteq waiting'
    BY <1>3 DEF ImportLater, BackOnline
  <2>2. QED
    BY <2>1, HeldGrows DEF Accounted
<1>4. CASE ImportWaiting
  <2>1. replica \subseteq replica'
    BY <1>4 DEF ImportWaiting
  <2>2. HeldSeqs \subseteq HeldSeqs'
    BY <2>1, HeldGrows
  <2>3. waiting \subseteq Accounted'
    <3>1. CASE UNCHANGED waiting
      BY <3>1 DEF Accounted
    <3>2. CASE \E seq \in waiting : waiting' = waiting \ {seq} /\ replica' = replica \cup Entry(seq)
      <4>1. PICK seq \in waiting : waiting' = waiting \ {seq} /\ replica' = replica \cup Entry(seq)
        BY <3>2
      <4>2. seq \in DOMAIN room
        BY DEF RelayOK, Known
      <4>3. seq \in HeldSeqs'
        BY <4>1, <4>2, HeldNow
      <4>4. QED
        BY <4>1, <4>3 DEF Accounted
    <3>3. QED
      BY <1>4, <3>1, <3>2 DEF ImportWaiting
  <2>4. QED
    BY <2>2, <2>3 DEF Accounted
<1>5. CASE UNCHANGED <<replica, waiting>>
  <2>1. replica \subseteq replica' /\ waiting' = waiting
    BY <1>5
  <2>2. QED
    BY <2>1, HeldGrows DEF Accounted
<1>6. CASE ImportFails
  <2>1. replica \subseteq replica' /\ waiting \subseteq waiting' \cup dropped'
    BY <1>6 DEF ImportFails
  <2>2. QED
    BY <2>1, HeldGrows DEF Accounted
<1>7. QED
  BY <1>1, <1>2, <1>3, <1>4, <1>5, <1>6 DEF RelayStep

\* A push that is open carries what the replica holds.
LEMMA OpenHeld ==
    ASSUME RelayOK, RelayNext, \A p \in Push : fate[p] = "open" => content[p] \subseteq replica
    PROVE  \A p \in Push : fate'[p] = "open" => content'[p] \subseteq replica'
<1>1. SUFFICES ASSUME NEW p \in Push, fate'[p] = "open"
               PROVE  content'[p] \subseteq replica'
  OBVIOUS
<1>2. ~Crash
  <2>1. SUFFICES ASSUME Crash
                 PROVE  FALSE
    OBVIOUS
  <2>2. fate' = [q \in Push |-> IF fate[q] = "open" THEN "closed" ELSE fate[q]]
    BY <2>1 DEF Crash
  <2>3. QED
    BY <1>1, <2>2
<1>3. replica \subseteq replica' /\ RoomGrows
  BY <1>2, HeldStays, RelayStays
<1>4. CASE fate[p] = "open"
  BY <1>3, <1>4 DEF RoomGrows
<1>5. CASE PushLocal(p)
  <2>1. content' = [content EXCEPT ![p] = Exported] /\ UNCHANGED replica
    BY <1>5 DEF PushLocal
  <2>2. QED
    BY <2>1 DEF Exported, RelayOK, Known
<1>6. QED
  BY <1>1, <1>4, <1>5, FatesMove DEF RelayOK

LEMMA JoinsHeld ==
    ASSUME RelayOK, RelayNext, JoinsForWhatItLacks, SeenIsHeld
    PROVE  JoinsForWhatItLacks'
<1>1. RoomGrows /\ TypeOK /\ PushesOK /\ since \in 0 .. Len(room) /\ Len(room) \in Nat
      /\ DOMAIN room = 1 .. Len(room)
  BY RelayStays DEF RelayOK, Known, RoomGrows
<1>2. \A s \in DOMAIN room : Entry(s)' = Entry(s)
  BY <1>1, EntriesStay
<1>3. CASE Crash
  <2>1. since' = ResumeSeq /\ replica' = saved
    BY <1>3 DEF Crash
  <2>2. CASE kept.seen # None /\ kept.seen.version \subseteq saved
    <3>1. since' = kept.seen.seq /\ kept.seen.seq \in 0 .. Len(room)
      BY <2>1, <2>2 DEF ResumeSeq, RelayOK, Known
    <3>2. \A s \in (1 .. since') \ dropped : s \in DOMAIN room /\ Entry(s) \subseteq saved
      BY <1>1, <2>2, <3>1 DEF SeenIsHeld
    <3>3. dropped \subseteq dropped'
      BY DroppedStays
    <3>4. QED
      BY <1>2, <2>1, <3>2, <3>3 DEF JoinsForWhatItLacks
  <2>3. CASE ~(kept.seen # None /\ kept.seen.version \subseteq saved)
    <3>1. since' = 0
      BY <2>1, <2>3 DEF ResumeSeq
    <3>2. 1 .. since' = {}
      BY <3>1
    <3>3. QED
      BY <3>2 DEF JoinsForWhatItLacks
  <2>4. QED
    BY <2>2, <2>3
<1>4. CASE ~Crash
  <2>1. since' = since /\ replica \subseteq replica' /\ dropped \subseteq dropped'
    BY <1>4, SinceStays, HeldStays, DroppedStays
  <2>2. \A s \in 1 .. since : s \in DOMAIN room
    BY <1>1
  <2>3. QED
    BY <1>2, <2>1, <2>2 DEF JoinsForWhatItLacks
<1>5. QED
  BY <1>3, <1>4

\* The change that the running step is at is held once it is imported.
LEMMA ImportHeld ==
    ASSUME RelayOK, RelayNext, ImportRemote
    PROVE  /\ todo \in Seq(KnownSteps) /\ Running("import")
           /\ Head(todo).seqs # <<>> => Head(Head(todo).seqs) \in Accounted'
           /\ waiting' = waiting
           /\ \A G : 1 .. G \subseteq Accounted' /\ waiting = {}
                     => \A s \in (1 .. G) \ dropped' : Entry(s)' \subseteq replica'
<1>1. todo \in Seq(KnownSteps) /\ Running("import") /\ waiting' = waiting
  BY DEF ImportRemote, RelayOK, Known
<1>2. ASSUME Head(todo).seqs # <<>>
      PROVE  Head(Head(todo).seqs) \in Accounted'
  <2>1. Head(todo) \in KnownSteps /\ Head(todo).op = "import"
    BY <1>1, TailLemma DEF Running
  <2>2. Head(Head(todo).seqs) \in DOMAIN room
    BY <1>2, <2>1, StepLemma, TailLemma
  <2>3. Entry(Head(Head(todo).seqs)) \subseteq replica'
    BY <1>2 DEF ImportRemote
  <2>4. QED
    BY <2>2, <2>3, HeldNow DEF Accounted
<1>3. \A G : 1 .. G \subseteq Accounted' /\ waiting = {}
               => \A s \in (1 .. G) \ dropped' : Entry(s)' \subseteq replica'
  BY <1>1 DEF Accounted, HeldSeqs
<1>4. QED
  BY <1>1, <1>2, <1>3

LEMMA SeenHeld ==
    ASSUME RelayOK, HoldOK, RelayNext
    PROVE  SeenIsHeld'
<1>1. RoomGrows /\ TypeOK /\ PushesOK /\ Len(room) \in Nat /\ DOMAIN room = 1 .. Len(room)
  BY RelayStays DEF RelayOK, Known, RoomGrows
<1>2. \A s \in DOMAIN room : Entry(s)' = Entry(s)
  BY <1>1, EntriesStay
<1>3. CASE kept'.seen = kept.seen
  <2>1. kept.seen # None => kept.seen.seq \in 0 .. Len(room)
    BY DEF RelayOK, Known
  <2>2. kept.seen # None
        => \A s \in (1 .. kept.seen.seq) \ dropped :
              s \in DOMAIN room /\ Entry(s) \subseteq kept.seen.version
    BY <1>1, <2>1 DEF HoldOK, SeenIsHeld
  <2>3. dropped \subseteq dropped'
    BY DroppedStays
  <2>4. QED
    BY <1>2, <1>3, <2>2, <2>3 DEF SeenIsHeld
<1>4. CASE ImportRemote
  <2>1. kept' = Seen(Head(todo), replica', waiting)
    BY <1>4 DEF ImportRemote
  <2>2. CASE kept' = kept
    BY <1>3, <2>2
  <2>3. CASE Len(Head(todo).seqs) <= 1 /\ Head(todo).seen # None /\ waiting = {} /\ ~blocked
    <3>1. kept' = [kept EXCEPT !.seen = [seq |-> Head(todo).seen, version |-> replica']]
      BY <2>1, <2>3 DEF Seen
    <3>2. kept'.seen.seq = Head(todo).seen /\ kept'.seen.version = replica'
      BY <3>1 DEF RelayOK, Known
    <3>3. /\ todo \in Seq(KnownSteps) /\ Running("import")
          /\ Head(todo).seqs # <<>> => Head(Head(todo).seqs) \in Accounted'
      BY <1>4, ImportHeld
    <3>4. Accounted \subseteq Accounted' /\ Covered(todo, Accounted)
      <4>1. replica \subseteq replica'
        BY <1>4 DEF ImportRemote
      <4>2. HeldSeqs \subseteq HeldSeqs' /\ waiting' = waiting
        BY <1>4, <4>1, HeldGrows DEF ImportRemote
      <4>3. QED
        BY <2>3, <4>2, DroppedStays DEF HoldOK, Accounted
    <3>5. 1 .. Head(todo).seen \subseteq Accounted'
      BY <2>3, <3>3, <3>4, CoverImported
    <3>6. \A s \in (1 .. Head(todo).seen) \ dropped' : Entry(s)' \subseteq replica'
      BY <1>4, <2>3, <3>5, ImportHeld
    <3>7. QED
      BY <3>2, <3>6 DEF SeenIsHeld
  <2>4. QED
    BY <2>1, <2>2, <2>3 DEF Seen
<1>5. CASE ImportRefused
  <2>1. kept'.seen = None
    BY <1>5 DEF ImportRefused, RelayOK, Known
  <2>2. QED
    BY <2>1 DEF SeenIsHeld
<1>6. CASE PushSettled
  <2>1. kept'.seen = kept.seen
    BY <1>6 DEF PushSettled, RelayOK, Known
  <2>2. QED
    BY <1>3, <2>1
<1>7. QED
  BY <1>3, <1>4, <1>5, <1>6, KeptStays

LEMMA CoverTail ==
    ASSUME NEW S, NEW q \in Seq(S), q # <<>>, NEW G, NEW H, Covered(q, G), G \subseteq H,
           Head(q).op = "import" => Range(Head(q).seqs) \subseteq H
    PROVE  Covered(Tail(q), H) /\ Names(q, Len(q)) \subseteq H \cup Names(Tail(q), Len(Tail(q)))
<1>1. \A x \in Seq(S) : Covered(x, H) /\ Names(q, 1) \subseteq H \cup Names(x, Len(x))
         => /\ Covered(x \o Tail(q), H)
            /\ Names(q, Len(q)) \subseteq H \cup Names(x \o Tail(q), Len(x \o Tail(q)))
  BY CoverReplaced
<1>2. Names(q, 1) \subseteq H
  <2>1. Head(q) = q[1] /\ \A i \in 1 .. 1 : i = 1
    BY HeadTailProperties, EmptySeq
  <2>2. QED
    BY <2>1 DEF Names
<1>3. <<>> \in Seq(S) /\ Covered(<<>>, H)
  BY EmptySeq, CoverNone
<1>4. <<>> \o Tail(q) = Tail(q)
  BY TailLemma, ConcatEmptySeq
<1>5. QED
  BY <1>1, <1>2, <1>3, <1>4, Zenon

\* What is heard, and what the steps name of it: of the relay's own steps.
LEMMA CoverSteps ==
    ASSUME RelayOK, RelayNext, Covered(todo, Accounted),
           Edit \/ SaveReplica \/ RelayStep \/ ImportFails
    PROVE  /\ Covered(todo', Accounted')
           /\ Names(todo, Len(todo)) \subseteq Accounted' \cup Names(todo', Len(todo'))
<1>1. /\ todo \in Seq(KnownSteps) /\ SendStep \in KnownSteps /\ WaitingStep \in KnownSteps
      /\ [op |-> "joining"] \in KnownSteps /\ <<>> \in Seq(KnownSteps)
  BY StepLemma, EmptySeq DEF RelayOK, Known
<1>2. Accounted \subseteq Accounted'
  BY AccountedStays
<1>3. Covered(todo, Accounted')
  BY <1>1, <1>2, CoverMore
<1>4. CASE todo' = todo
  BY <1>3, <1>4
<1>5. CASE todo' = Sending(todo)
  BY <1>1, <1>3, <1>5, CoverSending
<1>6. ASSUME todo # <<>>, todo' = Tail(todo),
             Head(todo).op = "import" => Range(Head(todo).seqs) \subseteq Accounted'
      PROVE  /\ Covered(todo', Accounted')
             /\ Names(todo, Len(todo)) \subseteq Accounted' \cup Names(todo', Len(todo'))
  <2>1. ASSUME NEW r, r = Tail(todo)
        PROVE  Covered(r, Accounted') /\ Names(todo, Len(todo)) \subseteq Accounted' \cup Names(r, Len(r))
    BY <1>1, <1>2, <1>6, <2>1, CoverTail
  <2>2. QED
    BY <1>6, <2>1
<1>7. ASSUME todo # <<>>, Head(todo).op # "import",
             NEW t \in KnownSteps, t.op # "import", todo' = <<t>> \o Tail(todo)
      PROVE  /\ Covered(todo', Accounted')
             /\ Names(todo, Len(todo)) \subseteq Accounted' \cup Names(todo', Len(todo'))
  <2>1. PICK x \in Seq(KnownSteps) : x = <<t>> /\ Len(x) = 1 /\ x[1] = t
    BY OneStep
  <2>2. \A i \in DOMAIN x : x[i].op # "import"
    <3>1. \A i \in 1 .. 1 : i = 1
      OBVIOUS
    <3>2. DOMAIN x = 1 .. 1
      BY <2>1, LenProperties
    <3>3. QED
      BY <1>7, <2>1, <3>1, <3>2
  <2>3. todo' = x \o Tail(todo)
    BY <1>7, <2>1
  <2>4. QED
    BY <1>1, <1>2, <1>7, <2>2, <2>3, CoverDone
<1>8. CASE Edit
  BY <1>5, <1>8 DEF Edit
<1>9. CASE SaveReplica
  BY <1>4, <1>9 DEF SaveReplica, relayState
<1>10. CASE TakeVersion
  <2>1. todo # <<>> /\ Head(todo).op # "import"
    BY <1>10 DEF TakeVersion, Running
  <2>2. [op |-> "export", version |-> replica] \in KnownSteps
    BY StepLemma
  <2>3. todo' = Tail(todo) \/ todo' = <<[op |-> "export", version |-> replica]>> \o Tail(todo)
    BY <1>10 DEF TakeVersion
  <2>4. QED
    BY <1>6, <1>7, <2>1, <2>2, <2>3
<1>11. CASE (\E p \in Push : PushLocal(p)) \/ PushNothing
  <2>1. todo # <<>> /\ Head(todo).op # "import" /\ todo' = Tail(todo)
    BY <1>11 DEF PushLocal, PushNothing, Running
  <2>2. QED
    BY <1>6, <2>1
<1>12. CASE ImportRemote
  <2>1. /\ Running("import")
        /\ Head(todo).seqs # <<>> => Head(Head(todo).seqs) \in Accounted'
        /\ todo' = Imported(Head(todo)) \/ todo' = Sending(Imported(Head(todo)))
    BY <1>12, ImportHeld DEF ImportRemote
  <2>2. /\ Covered(Imported(Head(todo)), Accounted') /\ Imported(Head(todo)) \in Seq(KnownSteps)
        /\ Names(todo, Len(todo)) \subseteq Accounted' \cup Names(Imported(Head(todo)), Len(Imported(Head(todo))))
    BY <1>1, <1>2, <2>1, CoverImported
  <2>3. CASE todo' = Imported(Head(todo))
    BY <2>2, <2>3
  <2>4. CASE todo' = Sending(Imported(Head(todo)))
    <3>1. Covered(todo', Accounted')
      BY <1>1, <2>2, <2>4, CoverSending
    <3>2. Names(todo', Len(todo')) = Names(Imported(Head(todo)), Len(Imported(Head(todo))))
      BY <1>1, <2>2, <2>4, CoverSending
    <3>3. QED
      BY <2>2, <3>1, <3>2
  <2>5. QED
    BY <2>1, <2>3, <2>4
<1>13. CASE ImportLater
  <2>1. /\ Running("import") /\ todo' = Imported(Head(todo))
        /\ Head(todo).seqs # <<>> => Head(Head(todo).seqs) \in Accounted'
    BY <1>13 DEF ImportLater, Accounted
  <2>2. QED
    BY <1>1, <1>2, <2>1, CoverImported
<1>14. CASE ImportWaiting
  <2>1. /\ todo # <<>> /\ Head(todo).op # "import"
        /\ todo' = <<SendStep>> \o Tail(todo) \/ todo' \in {todo, Sending(todo)}
    BY <1>14 DEF ImportWaiting, Running
  <2>2. SendStep.op # "import"
    BY DEF SendStep
  <2>3. QED
    BY <1>1, <1>4, <1>5, <1>7, <2>1, <2>2
<1>15. CASE BackOnline
  <2>1. /\ todo # <<>> /\ Head(todo).op # "import"
        /\ \/ todo' = <<WaitingStep>> \o Tail(todo)
           \/ todo' = <<[op |-> "joining"]>> \o Tail(todo)
           \/ todo' = Tail(todo)
    BY <1>15 DEF BackOnline, Running
  <2>2. WaitingStep.op # "import"
    BY DEF WaitingStep
  <2>3. QED
    BY <1>1, <1>6, <1>7, <2>1, <2>2
<1>16. CASE ImportFails
  <2>1. /\ todo # <<>> /\ todo' = Tail(todo)
        /\ Head(todo).op = "import" => Range(Head(todo).seqs) \subseteq dropped'
    BY <1>16 DEF ImportFails, Running
  <2>2. QED
    BY <1>6, <2>1 DEF Accounted
<1>17. QED
  BY <1>8, <1>9, <1>10, <1>11, <1>12, <1>13, <1>14, <1>15, <1>16 DEF RelayStep

\* A step put behind the others.
LEMMA CoverAdded ==
    ASSUME NEW S, NEW q \in Seq(S), NEW t \in S, NEW o, o = Append(q, t), NEW G, Covered(q, G),
           t.op = "import" => Range(t.seqs) \subseteq Nat,
           t.op = "import" /\ t.seen # None
           => 1 .. t.seen \subseteq G \cup Names(q, Len(q)) \cup Range(t.seqs)
    PROVE  /\ Covered(o, G)
           /\ Names(o, Len(o)) = Names(q, Len(q)) \cup IF t.op = "import" THEN Range(t.seqs) ELSE {}
<1>1. PICK r \in Seq(S) : r = <<t>> /\ Len(r) = 1 /\ r[1] = t
  BY OneStep
<1>2. DOMAIN r = 1 .. 1 /\ \A i \in 1 .. 1 : i = 1
  BY <1>1, LenProperties
<1>3. Names(r, 1) = IF t.op = "import" THEN Range(t.seqs) ELSE {}
  <2>1. CASE t.op = "import"
    <3>1. \A s : s \in Names(r, 1) <=> s \in Range(t.seqs)
      BY <1>1, <1>2, <2>1 DEF Names
    <3>2. QED
      BY <2>1, <3>1
  <2>2. CASE t.op # "import"
    BY <1>1, <1>2, <2>2 DEF Names
  <2>3. QED
    BY <2>1, <2>2
<1>4. q \o r = Append(q, t)
  <2>1. Append(q, t) = q \o <<t>>
    BY AppendIsConcat
  <2>2. QED
    BY <1>1, <2>1
<1>5. ASSUME NEW i \in DOMAIN r, r[i].op = "import", r[i].seen # None
      PROVE  1 .. r[i].seen \subseteq G \cup Names(q, Len(q)) \cup Names(r, i)
  <2>1. i = 1 /\ t.op = "import" /\ t.seen # None
    BY <1>1, <1>2, <1>5
  <2>2. QED
    BY <1>1, <1>3, <2>1
<1>6. o = q \o r
  BY <1>4
<1>7. Covered(o, G) /\ Names(o, Len(o)) = Names(q, Len(q)) \cup Names(r, Len(r))
  BY <1>5, <1>6, CoverAppend
<1>8. QED
  BY <1>1, <1>3, <1>7

\* What the next answer speaks of was heard, was held when the window came, or comes with it.
LEMMA HeadTold ==
    ASSUME RelayOK, HearsSince, down # <<>>, relaying \/ Head(down).op = "join"
    PROVE  1 .. Reach(Head(down)) \subseteq heard \cup 1 .. since \cup Handed(Head(down))
<1>1. since \in Nat /\ down \in Seq(Answers)
  BY DEF RelayOK, Known, TypeOK
<1>2. PICK b \in Nat : b = since
  BY <1>1
<1>3. Tells(b)
  BY <1>2 DEF HearsSince, HearsOK
<1>4. 1 \in DOMAIN down /\ Head(down) = down[1]
  BY <1>1, HeadTailProperties, LenProperties, EmptySeq
<1>5. \A i \in 1 .. 1 : i = 1
  OBVIOUS
<1>6. relaying \/ Joins(down, 1)
  BY <1>4 DEF Joins
<1>7. 1 .. Reach(down[1]) \subseteq ToldBy(down, Heard(b), 1)
  BY <1>3, <1>4, <1>6 DEF Tells
<1>8. ToldBy(down, Heard(b), 1) = Heard(b) \cup Handed(down[1])
  BY <1>5 DEF ToldBy
<1>9. QED
  BY <1>2, <1>4, <1>7, <1>8 DEF Heard

\* And of what the client tells it.
LEMMA CoverTold ==
    ASSUME RelayOK, HearsSince, FollowOK, HoldOK, ~blocked, RelayNext,
           Connecting \/ Greeted \/ Dropped \/ JoinedRoom \/ Pulled \/ PushSettled \/ Serving
           \/ OthersChange
    PROVE  /\ Covered(todo', Accounted')
           /\ heard' \subseteq Accounted' \cup Names(todo', Len(todo'))
<1>1. /\ todo \in Seq(KnownSteps) /\ down \in Seq(Answers) /\ TypeOK /\ PushesOK /\ AsksOK /\ Waits
      /\ Known
  BY DEF RelayOK, Known, TypeOK
<1>2. UNCHANGED <<replica, waiting>>
  <2>1. CASE Connecting \/ Greeted \/ Dropped \/ JoinedRoom \/ Pulled
    BY <2>1 DEF Connecting, Greeted, Dropped, JoinedRoom, Pulled, Told, Unheard, relayVars, relayState
  <2>2. CASE PushSettled \/ Serving \/ OthersChange
    BY <2>2 DEF PushSettled, Serving, OthersChange, Unheard, relayVars, relayState
  <2>3. QED
    BY <2>1, <2>2
<1>3. Accounted \subseteq Accounted'
  BY <1>2, AccountedStays
<1>4. Covered(todo, Accounted') /\ heard \subseteq Accounted' \cup Names(todo, Len(todo))
  BY <1>1, <1>3, CoverMore DEF HoldOK
<1>5. 1 .. since \subseteq Accounted'
  <2>1. since \in 0 .. Len(room) /\ DOMAIN room = 1 .. Len(room) /\ Len(room) \in Nat
    BY <1>1, LenProperties DEF TypeOK, Known
  <2>2. 1 .. since \subseteq HeldSeqs \cup dropped
    BY <2>1 DEF HoldOK, JoinsForWhatItLacks, HeldSeqs
  <2>3. QED
    BY <1>3, <2>2 DEF Accounted
<1>6. CASE Connecting \/ Serving \/ OthersChange
  <2>1. todo' = todo
    BY <1>6 DEF Connecting, Serving, OthersChange, Unheard, relayVars, relayState
  <2>2. heard' = heard
    BY <1>6 DEF Connecting, OpenConnection, Serving, ServerTakes, ServerRefuses, ServerJoins,
                OthersChange, OtherChanges, following
  <2>3. QED
    BY <1>4, <2>1, <2>2
<1>7. CASE Greeted
  <2>1. todo' = Append(todo, Online) /\ heard' = heard
    BY <1>7 DEF Greeted, SendHello, Told, following
  <2>2. Online \in KnownSteps /\ Online.op # "import"
    BY StepLemma DEF Online
  <2>3. ASSUME NEW o, o = Append(todo, Online)
        PROVE  Covered(o, Accounted') /\ Names(o, Len(o)) = Names(todo, Len(todo)) \cup {}
    BY <1>1, <1>4, <2>2, <2>3, CoverAdded
  <2>4. QED
    BY <1>4, <2>1, <2>3
<1>8. CASE Dropped
  <2>1. heard' = heard /\ todo' = IF Running("joining") THEN Tail(todo) ELSE todo
    BY <1>8 DEF Dropped, HandleDisconnect, Told
  <2>2. CASE Running("joining")
    <3>1. todo # <<>> /\ Head(todo).op # "import"
      BY <2>2 DEF Running
    <3>2. /\ Covered(Tail(todo), Accounted')
          /\ Names(todo, Len(todo)) \subseteq Accounted' \cup Names(Tail(todo), Len(Tail(todo)))
      BY <1>1, <1>4, <3>1, CoverTail
    <3>3. QED
      BY <1>4, <2>1, <2>2, <3>2
  <2>3. QED
    BY <1>4, <2>1, <2>2
<1>9. CASE JoinedRoom
  <2>1. down # <<>> /\ Head(down).op \in {"join", "rejoin"} /\ HandleJoined
        /\ heard' = heard \cup (Head(down).since + 1 .. Head(down).seq)
    BY <1>9 DEF JoinedRoom, HandleJoined
  <2>2. /\ Head(down).seq \in 0 .. Len(room) /\ Head(down).since \in Nat
        /\ Len(room) \in Nat /\ DOMAIN room = 1 .. Len(room) /\ Head(down).seq \in Nat
    BY <1>1, <2>1, JoinKnown
  <2>3. ASSUME NEW seqs, seqs = Brought(Head(down).since, Head(down).seq)
        PROVE  seqs \in Seq(DOMAIN room) /\ Range(seqs) = Head(down).since + 1 .. Head(down).seq
    <3>1. seqs \in Seq(DOMAIN room)
      BY <1>1, <2>1, <2>3, JoinedSeqs
    <3>2. \A a, z \in Nat : Range(Brought(a, z)) = a + 1 .. z
      BY BroughtLemma
    <3>3. Range(seqs) = Head(down).since + 1 .. Head(down).seq
      BY <2>2, <2>3, <3>2, Zenon
    <3>4. QED
      BY <3>1, <3>3
  <2>4. PICK seqs \in Seq(DOMAIN room) :
           /\ Range(seqs) = Head(down).since + 1 .. Head(down).seq
           /\ todo' = IF Head(down).op = "join"
                      THEN <<ImportStep(seqs, Head(down).seq, <<WaitingStep>>)>> \o Tail(todo)
                      ELSE todo \o [n \in DOMAIN seqs |-> ImportStep(<<seqs[n]>>, None, <<>>)]
    BY <1>9, <2>3, JoinedSteps, Zenon
  <2>5. Range(seqs) \subseteq Nat
    BY <2>2, <2>4
  <2>6. CASE Head(down).op = "join"
    <3>1. joining /\ Running("joining") /\ todo # <<>> /\ Head(todo).op = "joining"
      BY <1>1, <2>1, <2>6, TailMessage DEF AsksOK, Waits, Running
    <3>2. heard = {}
      BY <1>1, <3>1 DEF AsksOK, FollowOK
    <3>3. PICK w \in Seq({WaitingStep}) : w = <<WaitingStep>>
      BY OneStep
    <3>4. ImportStep(seqs, Head(down).seq, w) \in KnownSteps
      BY <2>2, <2>4, <3>3, StepLemma
    <3>5. PICK t \in KnownSteps : t = ImportStep(seqs, Head(down).seq, w) /\ t.op = "import"
                                  /\ t.seqs = seqs /\ t.seen = Head(down).seq
      BY <3>4 DEF ImportStep
    <3>6. PICK x \in Seq(KnownSteps) : x = <<t>> /\ Len(x) = 1 /\ x[1] = t
      BY OneStep
    <3>7. DOMAIN x = 1 .. 1 /\ \A i \in 1 .. 1 : i = 1
      BY <3>6, LenProperties
    <3>8. Names(x, 1) = Range(seqs)
      <4>1. \A s : s \in Names(x, 1) <=> s \in Range(seqs)
        BY <2>5, <3>5, <3>6, <3>7 DEF Names
      <4>2. QED
        BY <4>1
    <3>9. 1 .. Head(down).seq \subseteq Accounted' \cup Range(seqs)
      <4>1. Head(down) \in Answers
        BY <1>1, <2>1, TailLemma
      <4>2. Reach(Head(down)) = Head(down).seq /\ Handed(Head(down)) = Range(seqs)
        BY <2>4, <2>6 DEF Reach, Handed
      <4>3. QED
        BY <1>5, <2>1, <2>6, <3>2, <4>2, HeadTold
    <3>10. Covered(x, Accounted')
      BY <3>5, <3>6, <3>7, <3>8, <3>9 DEF Covered
    <3>11. Names(todo, 1) = {}
      <4>1. Head(todo) = todo[1]
        BY <1>1, <3>1, HeadTailProperties, EmptySeq
      <4>2. QED
        BY <3>1, <3>7, <4>1 DEF Names
    <3>12. todo' = x \o Tail(todo)
      BY <2>4, <2>6, <3>3, <3>5, <3>6
    <3>13. Names(todo, 1) \subseteq Accounted' \cup Names(x, Len(x))
      BY <3>11
    <3>14. \A r : r = x \o Tail(todo)
                  => Covered(r, Accounted') /\ Names(x, Len(x)) \subseteq Names(r, Len(r))
      BY <1>1, <1>4, <3>1, <3>10, <3>13, CoverReplaced
    <3>15. heard' = Names(x, Len(x))
      BY <2>1, <2>4, <3>2, <3>6, <3>8
    <3>16. QED
      BY <3>12, <3>14, <3>15
  <2>7. CASE Head(down).op = "rejoin"
    <3>1. PICK r \in Seq(FreshSteps) :
             /\ r = [n \in DOMAIN seqs |-> ImportStep(<<seqs[n]>>, None, <<>>)]
             /\ Len(r) = Len(seqs) /\ Len(seqs) \in Nat
             /\ DOMAIN r = 1 .. Len(r) /\ DOMAIN seqs = 1 .. Len(seqs)
             /\ \A n \in DOMAIN seqs : r[n] = ImportStep(<<seqs[n]>>, None, <<>>)
      BY <2>4, OneByOne
    <3>2. r \in Seq(KnownSteps) /\ todo' = todo \o r
      BY <2>4, <2>7, <3>1, StepLemma, SeqGrows
    <3>3. \A n \in DOMAIN seqs : r[n].op = "import" /\ r[n].seqs = <<seqs[n]>> /\ r[n].seen = None
      BY <3>1 DEF ImportStep
    <3>4. \A s \in Range(seqs) : s \in Names(r, Len(r))
      <4>1. SUFFICES ASSUME NEW n \in DOMAIN seqs
                     PROVE  seqs[n] \in Names(r, Len(r))
        BY DEF Range
      <4>2. seqs[n] \in Range(<<seqs[n]>>) /\ seqs[n] \in Nat
        BY <2>5 DEF Range
      <4>3. n \in 1 .. Len(r) /\ r[n].op = "import" /\ r[n].seqs = <<seqs[n]>>
        BY <3>1, <3>3
      <4>4. QED
        BY <4>2, <4>3, Zenon DEF Names
    <3>5. \A i \in DOMAIN r : r[i].op = "import" /\ r[i].seen # None
             => 1 .. r[i].seen \subseteq Accounted' \cup Names(todo, Len(todo)) \cup Names(r, i)
      BY <3>1, <3>3
    <3>6. ASSUME NEW o, o = todo \o r
          PROVE  Covered(o, Accounted') /\ Names(o, Len(o)) = Names(todo, Len(todo)) \cup Names(r, Len(r))
      <4>1. r \in Seq(KnownSteps) /\ Covered(todo, Accounted')
        BY <1>4, <3>2
      <4>2. Covered(o, Accounted')
        <5>1. \A G : Covered(todo, G) /\ (\A i \in DOMAIN r : r[i].op = "import" /\ r[i].seen # None
                        => 1 .. r[i].seen \subseteq G \cup Names(todo, Len(todo)) \cup Names(r, i))
                     => Covered(o, G)
          BY <1>1, <3>6, <4>1, CoverAppend
        <5>2. QED
          BY <3>5, <4>1, <5>1
      <4>3. Names(o, Len(o)) = Names(todo, Len(todo)) \cup Names(r, Len(r))
        BY <1>1, <3>5, <3>6, <4>1, CoverAppend, Zenon
      <4>4. QED
        BY <4>2, <4>3
    <3>7. heard' \subseteq Accounted' \cup Names(todo, Len(todo)) \cup Names(r, Len(r))
      BY <1>4, <2>1, <2>4, <3>4
    <3>8. QED
      BY <3>2, <3>6, <3>7
  <2>8. QED
    BY <2>1, <2>6, <2>7
<1>10. CASE Pulled
  <2>1. /\ down # <<>> /\ Head(down).op = "pull" /\ heard' = heard \cup {Head(down).seq}
        /\ todo' = Append(todo, ImportStep(<<Head(down).seq>>, Head(down).seq, <<>>))
    BY <1>10 DEF Pulled, HandlePull, Told
  <2>2. PICK t \in KnownSteps : /\ t = ImportStep(<<Head(down).seq>>, Head(down).seq, <<>>)
                                /\ t.op = "import" /\ t.seen = Head(down).seq
                                /\ Range(t.seqs) = {Head(down).seq}
    <3>1. ImportStep(<<Head(down).seq>>, Head(down).seq, <<>>) \in KnownSteps
      BY <1>1, <2>1, PulledStep, StepLemma
    <3>2. \A n : Range(<<n>>) = {n}
      BY DEF Range
    <3>3. QED
      BY <3>1, <3>2 DEF ImportStep
  <2>3. relaying
    <3>1. 1 \in DOMAIN down /\ down[1] = Head(down)
      BY <1>1, <2>1, HeadTailProperties, LenProperties, EmptySeq
    <3>2. \A i \in 1 .. 1 : i = 1
      OBVIOUS
    <3>3. QED
      BY <2>1, <3>1, <3>2 DEF FollowOK, Joins
  <2>4. Reach(Head(down)) = Head(down).seq /\ Handed(Head(down)) = {Head(down).seq}
    BY <2>1 DEF Reach, Handed
  <2>5. 1 .. t.seen \subseteq Accounted' \cup Names(todo, Len(todo)) \cup Range(t.seqs)
    BY <1>4, <1>5, <2>1, <2>2, <2>3, <2>4, HeadTold
  <2>6. Range(t.seqs) \subseteq Nat
    <3>1. Head(down).seq \in 0 .. Len(room) /\ Len(room) \in Nat
      BY <1>1, <2>1, JoinKnown
    <3>2. QED
      BY <2>2, <3>1
  <2>7. ASSUME NEW o, o = Append(todo, t)
        PROVE  Covered(o, Accounted') /\ Names(o, Len(o)) = Names(todo, Len(todo)) \cup Range(t.seqs)
    <3>1. t.op = "import" /\ Covered(todo, Accounted')
      BY <1>4, <2>2
    <3>2. /\ Covered(o, Accounted')
          /\ Names(o, Len(o)) = Names(todo, Len(todo)) \cup IF t.op = "import" THEN Range(t.seqs) ELSE {}
      BY <1>1, <2>5, <2>6, <2>7, <3>1, CoverAdded
    <3>3. QED
      BY <3>1, <3>2
  <2>8. QED
    BY <1>4, <2>1, <2>2, <2>7
<1>11. CASE PushSettled
  <2>1. todo' = todo /\ down # <<>> /\ Head(down).op \in {"pushed", "refused"}
    BY <1>11 DEF PushSettled, HandlePushed, relayState
  <2>2. CASE heard' = heard
    BY <1>4, <2>1, <2>2
  <2>3. CASE Head(down).op = "pushed" /\ heard' = heard \cup {Head(down).seq}
    <3>1. Head(down).seq \in DOMAIN room /\ room[Head(down).seq] = Head(down).push
      BY <1>1, <2>1, <2>3, JoinKnown
    <3>2. Answered \in Open
      BY <1>1, <2>1, AnswerTaken DEF PushesOK, Kept
    <3>3. Head(down).push \in Push /\ content[Head(down).push] \subseteq replica
      BY <3>2 DEF Open, Answered, HoldOK
    <3>4. Head(down).push # None
      BY <3>3, PushNumbers
    <3>5. Entry(Head(down).seq) = content[Head(down).push]
      BY <3>1, <3>4 DEF Entry
    <3>6. Head(down).seq \in Accounted
      BY <3>1, <3>3, <3>5 DEF Accounted, HeldSeqs
    <3>7. QED
      BY <1>3, <1>4, <2>1, <2>3, <3>6
  <2>4. QED
    BY <1>11, <2>1, <2>2, <2>3 DEF PushSettled, HandlePushed
<1>12. QED
  BY <1>6, <1>7, <1>8, <1>9, <1>10, <1>11

LEMMA HoldStep ==
    ASSUME RelayOK, HearsSince, FollowOK, HoldOK, RelayNext
    PROVE  HoldOK'
<1>1. \A p \in Push : fate'[p] = "open" => content'[p] \subseteq replica'
  BY OpenHeld DEF HoldOK
<1>2. JoinsForWhatItLacks' /\ SeenIsHeld'
  BY JoinsHeld, SeenHeld DEF HoldOK
<1>3. ASSUME ~blocked'
      PROVE  Covered(todo', Accounted') /\ heard' \subseteq Accounted' \cup Names(todo', Len(todo'))
  <2>1. CASE Crash
    <3>1. todo' = <<>> /\ heard' = {}
      BY <2>1 DEF Crash
    <3>2. QED
      BY <3>1, CoverNone
  <2>2. CASE Edit \/ SaveReplica \/ RelayStep \/ ImportFails
    <3>1. UNCHANGED blocked
      <4>1. CASE Edit \/ SaveReplica \/ ImportFails
        BY <4>1 DEF Edit, SaveReplica, ImportFails, session
      <4>2. CASE RelayStep
        BY <4>2 DEF RelayStep, TakeVersion, PushLocal, PushNothing, ImportRemote, ImportLater,
                    ImportWaiting, BackOnline, session
      <4>3. QED
        BY <2>2, <4>1, <4>2
    <3>2. heard' = heard
      <4>1. CASE Edit \/ SaveReplica \/ ImportFails
        BY <4>1 DEF Edit, SaveReplica, ImportFails, vars, following
      <4>2. CASE RelayStep
        BY <4>2 DEF RelayStep, TakeVersion, PushLocal, MakePush, PushNothing, ImportRemote,
                    ImportLater, ImportWaiting, BackOnline, Join, vars, following
      <4>3. QED
        BY <2>2, <4>1, <4>2
    <3>3. Covered(todo, Accounted) /\ heard \subseteq Accounted \cup Names(todo, Len(todo))
      BY <1>3, <3>1 DEF HoldOK
    <3>4. Accounted \subseteq Accounted'
      BY <2>2, AccountedStays
    <3>5. /\ Covered(todo', Accounted')
          /\ Names(todo, Len(todo)) \subseteq Accounted' \cup Names(todo', Len(todo'))
      BY <2>2, <3>3, CoverSteps
    <3>6. QED
      BY <3>2, <3>3, <3>4, <3>5
  <2>3. CASE Connecting \/ Greeted \/ Dropped \/ JoinedRoom \/ Pulled \/ PushSettled \/ Serving \/ OthersChange
    <3>1. UNCHANGED blocked
      <4>1. CASE Connecting \/ Greeted \/ Dropped \/ JoinedRoom \/ Pulled
        BY <4>1 DEF Connecting, Greeted, Dropped, JoinedRoom, Pulled, Told, Unheard, relayVars, session
      <4>2. CASE PushSettled \/ Serving \/ OthersChange
        BY <4>2 DEF PushSettled, Serving, OthersChange, Unheard, relayVars, session
      <4>3. QED
        BY <2>3, <4>1, <4>2
    <3>2. QED
      BY <1>3, <2>3, <3>1, CoverTold
  <2>4. ~ImportRefused
    BY <1>3 DEF ImportRefused
  <2>5. QED
    BY <2>1, <2>2, <2>3, <2>4 DEF RelayNext
<1>4. QED
  BY <1>1, <1>2, <1>3 DEF HoldOK

LEMMA HoldBegins == RelayInit => HearsSince /\ FollowOK /\ HoldOK
<1>1. SUFFICES ASSUME RelayInit
               PROVE  HearsSince /\ FollowOK /\ HoldOK
  OBVIOUS
<1>2. /\ Init /\ RelayOK /\ todo = <<>> /\ since = 0 /\ kept.seen = None
  BY <1>1, RelayBegins DEF RelayInit
<1>3. /\ up = <<>> /\ down = <<>> /\ lastSeq = 0 /\ ~relaying /\ ~member /\ ~joined
      /\ state = "offline" /\ greeting = "none" /\ heard = {}
      /\ \A p \in Push : fate[p] = "unmade"
  BY <1>2 DEF Init
<1>4. HearsSince
  <2>1. \A b \in Nat : SeqsOK /\ HearsOK(b)
    BY <1>2, <1>3, HearsNothing DEF RelayOK
  <2>2. 0 \in Nat
    OBVIOUS
  <2>3. QED
    BY <2>1, <2>2 DEF HearsSince
<1>5. FollowOK
  <2>1. Open = {} /\ DOMAIN down = {}
    BY <1>3 DEF Open
  <2>2. todo \in Seq(FreshSteps)
    BY <1>2, NoStep, Zenon
  <2>3. QED
    BY <1>3, <2>1, <2>2 DEF FollowOK
<1>6. HoldOK
  <2>1. 1 .. since = {}
    BY <1>2
  <2>2. JoinsForWhatItLacks /\ SeenIsHeld
    BY <1>2, <2>1 DEF JoinsForWhatItLacks, SeenIsHeld
  <2>3. Covered(todo, Accounted)
    BY <1>2, CoverNone
  <2>4. QED
    BY <1>3, <2>2, <2>3 DEF HoldOK
<1>7. QED
  BY <1>4, <1>5, <1>6

LEMMA HoldStutters ==
    ASSUME UNCHANGED <<vars, relayVars>>
    PROVE  /\ HearsSince => HearsSince'
           /\ FollowOK => FollowOK'
           /\ HoldOK => HoldOK'
<1>1. UNCHANGED <<state, transport, greeting, closed, drops, joined, lastSeq,
             joining, relaying, heard, queue, pending, flushing, stray, ready, fate, waited, up,
             down, member, room, refusals>>
  BY DEF vars, connection, following, pushing, server
<1>2. UNCHANGED <<replica, edits, lastSent, todo, waiting, saved, content, sentBy, kept, since,
                  blocked, blocks, crashes, overtaken, heldBack, dropped>>
  BY DEF relayVars, relayState, session, failed
<1>3. HearsSince => HearsSince'
  BY <1>1, <1>2, Zenon DEF HearsSince, SeqsOK, HearsOK, Follows, Tells, TellsAll, Rejoins, Heard
<1>4. FollowOK => FollowOK'
  BY <1>1, <1>2, Zenon DEF FollowOK, Open, FreshSteps, KnownSteps
<1>5. HoldOK => HoldOK'
  BY <1>1, <1>2, Zenon DEF HoldOK, JoinsForWhatItLacks, SeenIsHeld, Accounted, HeldSeqs, Entry
<1>6. QED
  BY <1>3, <1>4, <1>5

LEMMA HoldAlways == RelaySpec => [](RelayOK /\ HearsSince /\ FollowOK /\ HoldOK)
<1> DEFINE Inv == RelayOK /\ HearsSince /\ FollowOK /\ HoldOK
<1>1. Inv /\ [RelayNext]_<<vars, relayVars>> => Inv'
  <2>1. Inv /\ RelayNext => Inv'
    BY RelayStays, RelayHears, FollowStep, HoldStep
  <2>2. Inv /\ UNCHANGED <<vars, relayVars>> => Inv'
    BY RelayStutters, HoldStutters
  <2>3. QED
    BY <2>1, <2>2
<1>2. RelayInit => Inv
  BY RelayBegins, HoldBegins
<1>3. QED
  BY <1>1, <1>2, PTL DEF RelaySpec

\* The position that is kept (`onSeen` of collabRelays.ts) is true: what the replica held then is
\* every change of the room up to its seq. Nothing that waited for its blobs, was refused by the
\* kit, was told after a re-join without a seq or came while the connection dropped is passed over;
\* but a change whose import failed otherwise, and what its step had left, is.
THEOREM KeptPositionIsTrue == RelaySpec => []SeenIsHeld
<1>1. HoldOK => SeenIsHeld
  BY DEF HoldOK
<1>2. QED
  BY <1>1, HoldAlways, PTL

\* The next window joins from there only if its file still holds what the replica did (`resumeSeq`),
\* and so misses nothing more than those: what else it does not ask the room for, it has.
THEOREM WhatIsNotAskedForIsHeld == RelaySpec => []JoinsForWhatItLacks
<1>1. HoldOK => JoinsForWhatItLacks
  BY DEF HoldOK
<1>2. QED
  BY <1>1, HoldAlways, PTL

-----------------------------------------------------------------------------
(* What is left to do.                                                     *)

\* What a step goes on to do, and the version it exports; and what steps do, one after another.
Leads(t) == IF t.op = "import" THEN IF t.rest = <<>> THEN {} ELSE {"waiting"} ELSE {t.op}
ExportOf(t) == IF t.op = "export" THEN t.version ELSE {}
Will(q) == UNION {Leads(t) : t \in Range(q)}
Exports(q) == UNION {ExportOf(t) : t \in Range(q)}

LEMMA WillOf ==
    /\ \A q, z : z \in Will(q) <=> \E t \in Range(q) : z \in Leads(t)
    /\ \A q, z : z \in Exports(q) <=> \E t \in Range(q) : z \in ExportOf(t)
BY DEF Will, Exports

LEMMA WillBoth ==
    ASSUME NEW q, NEW r, NEW o, Range(o) = Range(q) \cup Range(r)
    PROVE  /\ \A z : z \in Will(o) <=> z \in Will(q) \/ z \in Will(r)
           /\ \A z : z \in Exports(o) <=> z \in Exports(q) \/ z \in Exports(r)
BY WillOf, Zenon

LEMMA WillUnion ==
    ASSUME NEW q, NEW r, NEW o, Range(o) = Range(q) \cup Range(r)
    PROVE  Will(o) = Will(q) \cup Will(r) /\ Exports(o) = Exports(q) \cup Exports(r)
BY WillBoth

LEMMA WillOne ==
    ASSUME NEW t, NEW o, Range(o) = {t}
    PROVE  Will(o) = Leads(t) /\ Exports(o) = ExportOf(t)
<1>1. \A z : z \in Will(o) <=> z \in Leads(t)
  BY WillOf
<1>2. \A z : z \in Exports(o) <=> z \in ExportOf(t)
  BY WillOf
<1>3. QED
  BY <1>1, <1>2

LEMMA WillNone == Will(<<>>) = {} /\ Exports(<<>>) = {}
<1>1. Range(<<>>) = {}
  BY EmptyLemma
<1>2. QED
  BY <1>1, WillOf

LEMMA WillAdded ==
    ASSUME NEW S, NEW q \in Seq(S), NEW t \in S
    PROVE  /\ Will(Append(q, t)) = Will(q) \cup Leads(t)
           /\ Exports(Append(q, t)) = Exports(q) \cup ExportOf(t)
<1>1. Range(Append(q, t)) = Range(q) \cup {t}
  BY AppendLemma
<1>2. PICK r \in Seq(S) : Range(r) = {t}
  BY OneStep
<1>3. Will(Append(q, t)) = Will(q) \cup Will(r) /\ Exports(Append(q, t)) = Exports(q) \cup Exports(r)
  BY <1>1, <1>2, WillUnion
<1>4. QED
  BY <1>2, <1>3, WillOne

\* The step that runs, and the steps after it; and those that others are put in front of.
LEMMA WillReplaced ==
    ASSUME NEW S, NEW q \in Seq(S), q # <<>>, NEW x \in Seq(S)
    PROVE  /\ Will(q) = Leads(Head(q)) \cup Will(Tail(q))
           /\ Exports(q) = ExportOf(Head(q)) \cup Exports(Tail(q))
           /\ Will(x \o Tail(q)) = Will(x) \cup Will(Tail(q))
           /\ Exports(x \o Tail(q)) = Exports(x) \cup Exports(Tail(q))
           /\ Tail(q) \in Seq(S) /\ Head(q) \in S
<1>1. Tail(q) \in Seq(S) /\ Head(q) \in S /\ Range(q) = Range(Tail(q)) \cup {Head(q)}
  BY TailLemma
<1>2. PICK h \in Seq(S) : Range(h) = {Head(q)}
  BY <1>1, OneStep
<1>3. Will(h) = Leads(Head(q)) /\ Exports(h) = ExportOf(Head(q))
  BY <1>2, WillOne
<1>4. Range(q) = Range(Tail(q)) \cup Range(h)
  BY <1>1, <1>2
<1>5. Will(q) = Will(Tail(q)) \cup Will(h) /\ Exports(q) = Exports(Tail(q)) \cup Exports(h)
  BY <1>4, WillUnion
<1>6. Range(x \o Tail(q)) = Range(x) \cup Range(Tail(q))
  <2>1. \A r \in Seq(S) : Range(x \o r) = Range(x) \cup Range(r)
    BY ConcatLemma
  <2>2. QED
    BY <1>1, <2>1
<1>7. /\ Will(x \o Tail(q)) = Will(x) \cup Will(Tail(q))
      /\ Exports(x \o Tail(q)) = Exports(x) \cup Exports(Tail(q))
  BY <1>6, WillUnion
<1>8. QED
  BY <1>1, <1>3, <1>5, <1>7

LEMMA WillSending ==
    ASSUME NEW S, SendStep \in S, NEW q \in Seq(S)
    PROVE  Will(Sending(q)) = Will(q) \cup {"send"} /\ Exports(Sending(q)) = Exports(q)
<1>1. Leads(SendStep) = {"send"} /\ ExportOf(SendStep) = {}
  BY DEF Leads, ExportOf, SendStep
<1>2. CASE q # <<>> /\ q[Len(q)] = SendStep
  <2>1. Sending(q) = q
    BY <1>2 DEF Sending
  <2>2. SendStep \in Range(q)
    BY <1>2, LenProperties, EmptySeq DEF Range
  <2>3. "send" \in Will(q)
    BY <1>1, <2>2, WillOf
  <2>4. QED
    BY <2>1, <2>3
<1>3. CASE ~(q # <<>> /\ q[Len(q)] = SendStep)
  <2>1. Sending(q) = Append(q, SendStep)
    BY <1>3 DEF Sending
  <2>2. /\ Will(Append(q, SendStep)) = Will(q) \cup Leads(SendStep)
        /\ Exports(Append(q, SendStep)) = Exports(q) \cup ExportOf(SendStep)
    BY WillAdded
  <2>3. QED
    BY <1>1, <2>1, <2>2
<1>4. QED
  BY <1>2, <1>3

\* Dealing with one change leaves what its step leads to.
LEMMA WillImported ==
    ASSUME todo \in Seq(KnownSteps), Running("import")
    PROVE  /\ Imported(Head(todo)) \in Seq(KnownSteps)
           /\ Will(Imported(Head(todo))) = Will(todo)
           /\ Exports(Imported(Head(todo))) = Exports(todo)
<1> DEFINE step == Head(todo)
           x == Remainder(step)
<1>1. todo # <<>> /\ step \in KnownSteps /\ step.op = "import"
  BY TailLemma DEF Running
<1>2. /\ x \in Seq(FreshSteps)
      /\ Imported(step) = x \o Tail(todo)
      /\ IF Len(step.seqs) > 1
         THEN /\ x = <<ImportStep(Tail(step.seqs), step.seen, step.rest)>>
              /\ Tail(step.seqs) \in Seq(DOMAIN room)
         ELSE x = step.rest /\ x \in Seq({WaitingStep})
  BY <1>1, RemainderLemma
<1>3. x \in Seq(KnownSteps)
  BY <1>2, StepLemma, SeqGrows
<1>4. step.seen \in (0 .. Len(room)) \cup {None} /\ step.rest \in Seq({WaitingStep})
  BY <1>1, StepLemma
<1> HIDE DEF x, step
<1>5. Leads(step) = (IF step.rest = <<>> THEN {} ELSE {"waiting"}) /\ ExportOf(step) = {}
  BY <1>1 DEF Leads, ExportOf
<1>6. Will(x) = Leads(step) /\ Exports(x) = {}
  <2>1. CASE Len(step.seqs) > 1
    <3>1. ASSUME NEW t, t = ImportStep(Tail(step.seqs), step.seen, step.rest)
          PROVE  t.op = "import" /\ t.rest = step.rest /\ x = <<t>>
      BY <1>2, <2>1, <3>1 DEF ImportStep
    <3>2. PICK t : t.op = "import" /\ t.rest = step.rest /\ x = <<t>>
      BY <3>1
    <3>3. Will(x) = Leads(t) /\ Exports(x) = ExportOf(t)
      <4>1. t \in {t}
        OBVIOUS
      <4>2. Range(x) = {t}
        BY <3>2, <4>1, OneStep
      <4>3. QED
        BY <4>2, WillOne
    <3>4. QED
      BY <1>5, <3>2, <3>3 DEF Leads, ExportOf
  <2>2. CASE ~(Len(step.seqs) > 1)
    <3>1. x = step.rest /\ x \in Seq({WaitingStep})
      BY <1>2, <2>2
    <3>2. Range(x) \subseteq {WaitingStep}
      BY <3>1, ElementOfSeq, LenProperties DEF Range
    <3>3. Leads(WaitingStep) = {"waiting"} /\ ExportOf(WaitingStep) = {}
      BY DEF Leads, ExportOf, WaitingStep
    <3>5. CASE x = <<>>
      BY <1>5, <3>1, <3>5, WillNone
    <3>6. CASE x # <<>>
      <4>1. x[1] \in Range(x)
        BY <3>1, <3>6, LenProperties, EmptySeq DEF Range
      <4>2. Range(x) = {WaitingStep}
        BY <3>2, <4>1
      <4>3. QED
        BY <1>5, <3>1, <3>3, <3>6, <4>2, WillOne
    <3>7. QED
      BY <3>5, <3>6
  <2>3. QED
    BY <2>1, <2>2
<1>7. /\ Will(todo) = Leads(Head(todo)) \cup Will(Tail(todo))
      /\ Exports(todo) = ExportOf(Head(todo)) \cup Exports(Tail(todo))
      /\ Will(x \o Tail(todo)) = Will(x) \cup Will(Tail(todo))
      /\ Exports(x \o Tail(todo)) = Exports(x) \cup Exports(Tail(todo))
      /\ Tail(todo) \in Seq(KnownSteps)
  BY <1>1, <1>3, WillReplaced
<1>8. x \o Tail(todo) \in Seq(KnownSteps)
  BY <1>3, <1>7, ConcatProperties
<1>9. Will(Imported(step)) = Will(todo) /\ Exports(Imported(step)) = Exports(todo)
  BY <1>2, <1>5, <1>6, <1>7 DEF step
<1>10. QED
  BY <1>2, <1>8, <1>9 DEF step

\* No step of a sequence exports; and none but the first.
NoExports(q) == \A i \in DOMAIN q : q[i].op # "export"
ExportsFirst(q) == \A i \in DOMAIN q : q[i].op = "export" => i = 1

LEMMA NoneExported ==
    ASSUME NEW q, NoExports(q)
    PROVE  "export" \notin Will(q)
<1>1. \A x \in Range(q) : x.op # "export"
  BY DEF NoExports, Range
<1>2. \A x \in Range(q) : "export" \notin Leads(x)
  BY <1>1 DEF Leads
<1>3. QED
  BY <1>2, WillOf

LEMMA FreshExports ==
    ASSUME NEW q \in Seq(FreshSteps)
    PROVE  NoExports(q)
<1>1. \A i \in DOMAIN q : q[i] \in FreshSteps
  BY ElementOfSeq, LenProperties
<1>2. QED
  BY <1>1 DEF NoExports, FreshSteps

LEMMA ExportsOf ==
    ASSUME NEW S, NEW q \in Seq(S), NEW r \in Seq(S), NoExports(r), NEW o, o = q \o r
    PROVE  /\ ExportsFirst(q) => ExportsFirst(o)
           /\ NoExports(q) => ExportsFirst(o)
           /\ Len(q) = 1 => ExportsFirst(o)
<1>1. /\ Len(q) \in Nat /\ DOMAIN q = 1 .. Len(q) /\ Len(r) \in Nat /\ DOMAIN r = 1 .. Len(r)
      /\ DOMAIN o = 1 .. Len(q) + Len(r)
      /\ \A i \in 1 .. Len(q) + Len(r) : o[i] = IF i <= Len(q) THEN q[i] ELSE r[i - Len(q)]
  <2>1. o \in Seq(S) /\ Len(o) = Len(q) + Len(r)
        /\ \A i \in 1 .. Len(q) + Len(r) : o[i] = IF i <= Len(q) THEN q[i] ELSE r[i - Len(q)]
    BY ConcatProperties
  <2>2. QED
    BY <2>1, LenProperties
<1>2. ASSUME NEW i \in DOMAIN o, o[i].op = "export"
      PROVE  i \in DOMAIN q /\ q[i].op = "export"
  <2>1. CASE i <= Len(q)
    BY <1>1, <1>2, <2>1
  <2>2. CASE ~(i <= Len(q))
    <3>1. i - Len(q) \in DOMAIN r /\ o[i] = r[i - Len(q)]
      BY <1>1, <2>2
    <3>2. QED
      BY <1>2, <3>1 DEF NoExports
  <2>3. QED
    BY <2>1, <2>2
<1>3. Len(q) = 1 => \A i \in DOMAIN q : i = 1
  BY <1>1
<1>4. QED
  BY <1>2, <1>3 DEF ExportsFirst, NoExports

LEMMA ExportsAdded ==
    ASSUME NEW S, NEW q \in Seq(S), ExportsFirst(q), NEW x \in S, x.op # "export",
           NEW o, o = Append(q, x)
    PROVE  ExportsFirst(o)
<1>1. PICK r \in Seq(S) : r = <<x>> /\ Len(r) = 1 /\ r[1] = x
  BY OneStep
<1>2. NoExports(r)
  <2>1. DOMAIN r = 1 .. 1 /\ \A i \in 1 .. 1 : i = 1
    BY <1>1, LenProperties
  <2>2. QED
    BY <1>1, <2>1 DEF NoExports
<1>3. o = q \o r
  <2>1. Append(q, x) = q \o <<x>>
    BY AppendIsConcat
  <2>2. QED
    BY <1>1, <2>1
<1>4. QED
  BY <1>2, <1>3, ExportsOf

LEMMA ExportsTail ==
    ASSUME NEW S, NEW q \in Seq(S), ExportsFirst(q), q # <<>>
    PROVE  NoExports(Tail(q)) /\ Tail(q) \in Seq(S)
<1>1. /\ Tail(q) \in Seq(S) /\ DOMAIN q = 1 .. Len(q) /\ Len(q) \in Nat
      /\ DOMAIN Tail(q) = 1 .. Len(q) - 1
      /\ \A i \in 1 .. Len(q) - 1 : Tail(q)[i] = q[i + 1]
  BY HeadTailProperties, LenProperties, EmptySeq
<1>2. ASSUME NEW i \in 1 .. Len(q) - 1
      PROVE  q[i + 1].op # "export"
  <2>1. i + 1 \in DOMAIN q /\ i + 1 # 1
    BY <1>1, <1>2
  <2>2. QED
    BY <2>1 DEF ExportsFirst
<1>3. QED
  BY <1>1, <1>2 DEF NoExports

\* An export runs as soon as its version is taken: no other step comes before it.
LEMMA ExportsStep ==
    ASSUME RelayOK, RelayNext, ExportsFirst(todo)
    PROVE  ExportsFirst(todo')
<1>1. /\ todo \in Seq(KnownSteps) /\ TypeOK /\ PushesOK /\ AsksOK /\ Waits /\ Known
      /\ SendStep \in KnownSteps /\ WaitingStep \in KnownSteps /\ Online \in KnownSteps
      /\ [op |-> "joining"] \in KnownSteps
  BY StepLemma DEF RelayOK, Known
<1>2. SendStep.op # "export" /\ WaitingStep.op # "export" /\ Online.op # "export"
  BY DEF SendStep, WaitingStep, Online
<1>3. \A q \in Seq(KnownSteps) : ExportsFirst(q) => ExportsFirst(Sending(q))
  <2>1. SUFFICES ASSUME NEW q \in Seq(KnownSteps), ExportsFirst(q)
                 PROVE  ExportsFirst(Sending(q))
    OBVIOUS
  <2>2. \A o : o = Append(q, SendStep) => ExportsFirst(o)
    BY <1>1, <1>2, <2>1, ExportsAdded
  <2>3. QED
    BY <2>1, <2>2 DEF Sending
<1>4. todo # <<>> => NoExports(Tail(todo)) /\ Tail(todo) \in Seq(KnownSteps)
  BY <1>1, ExportsTail
<1>5. ASSUME todo # <<>>, todo' = Tail(todo)
      PROVE  ExportsFirst(todo')
  BY <1>4, <1>5 DEF NoExports, ExportsFirst
<1>6. ASSUME todo # <<>>, NEW x \in KnownSteps, NEW o, o = <<x>> \o Tail(todo)
      PROVE  ExportsFirst(o)
  <2>1. PICK a \in Seq(KnownSteps) : a = <<x>> /\ Len(a) = 1
    BY OneStep
  <2>2. o = a \o Tail(todo)
    BY <1>6, <2>1
  <2>3. QED
    BY <1>4, <1>6, <2>1, <2>2, ExportsOf
<1>7. ASSUME Running("import")
      PROVE  Imported(Head(todo)) \in Seq(KnownSteps) /\ ExportsFirst(Imported(Head(todo)))
  <2>1. todo # <<>> /\ Head(todo) \in KnownSteps /\ Head(todo).op = "import"
    BY <1>1, <1>7, TailLemma DEF Running
  <2>2. /\ Remainder(Head(todo)) \in Seq(FreshSteps)
        /\ Imported(Head(todo)) = Remainder(Head(todo)) \o Tail(todo)
    BY <2>1, RemainderLemma
  <2>3. PICK r \in Seq(FreshSteps) : r = Remainder(Head(todo))
    BY <2>2
  <2>4. r \in Seq(KnownSteps) /\ NoExports(r)
    BY StepLemma, SeqGrows, FreshExports
  <2>5. ASSUME NEW o, o = r \o Tail(todo)
        PROVE  ExportsFirst(o)
    BY <1>4, <2>1, <2>4, <2>5, ExportsOf
  <2>6. ExportsFirst(Imported(Head(todo)))
    BY <2>2, <2>3, <2>5
  <2>7. QED
    BY <1>1, <1>7, <2>6, WillImported
<1>8. CASE Edit
  BY <1>1, <1>3, <1>8 DEF Edit
<1>9. CASE SaveReplica \/ Connecting \/ PushSettled \/ Serving \/ OthersChange
  BY <1>9 DEF SaveReplica, Connecting, PushSettled, Serving, OthersChange, Unheard, relayVars,
              relayState
<1>10. CASE TakeVersion
  <2>1. [op |-> "export", version |-> replica] \in KnownSteps
    BY StepLemma
  <2>2. QED
    BY <1>5, <1>6, <1>10, <2>1 DEF TakeVersion, Running
<1>11. CASE (\E p \in Push : PushLocal(p)) \/ PushNothing \/ ImportRefused \/ ImportFails
  <2>1. todo # <<>> /\ todo' = Tail(todo)
    BY <1>11 DEF PushLocal, PushNothing, ImportRefused, ImportFails, Running
  <2>2. QED
    BY <1>5, <2>1
<1>12. CASE ImportRemote \/ ImportLater
  <2>1. Running("import")
        /\ (todo' = Imported(Head(todo)) \/ todo' = Sending(Imported(Head(todo))))
    BY <1>12 DEF ImportRemote, ImportLater
  <2>2. QED
    BY <1>3, <1>7, <2>1
<1>13. CASE ImportWaiting
  <2>1. todo # <<>> /\ (todo' = <<SendStep>> \o Tail(todo) \/ todo' \in {todo, Sending(todo)})
    BY <1>13 DEF ImportWaiting, Running
  <2>2. QED
    BY <1>1, <1>3, <1>6, <2>1
<1>14. CASE BackOnline
  <2>1. /\ todo # <<>>
        /\ \/ todo' = <<WaitingStep>> \o Tail(todo)
           \/ todo' = <<[op |-> "joining"]>> \o Tail(todo)
           \/ todo' = Tail(todo)
    BY <1>14 DEF BackOnline, Running
  <2>2. QED
    BY <1>1, <1>5, <1>6, <2>1
<1>15. CASE Greeted
  BY <1>1, <1>2, <1>15, ExportsAdded DEF Greeted, Told
<1>16. CASE Dropped
  BY <1>5, <1>16 DEF Dropped, Told, Running
<1>17. CASE JoinedRoom
  <2>1. down # <<>> /\ Head(down).op \in {"join", "rejoin"} /\ HandleJoined
    BY <1>17 DEF JoinedRoom, HandleJoined
  <2>2. PICK seqs \in Seq(DOMAIN room) :
           todo' = IF Head(down).op = "join"
                   THEN <<ImportStep(seqs, Head(down).seq, <<WaitingStep>>)>> \o Tail(todo)
                   ELSE todo \o [n \in DOMAIN seqs |-> ImportStep(<<seqs[n]>>, None, <<>>)]
    <3>1. ASSUME NEW q, q = Brought(Head(down).since, Head(down).seq)
          PROVE  q \in Seq(DOMAIN room)
      BY <1>1, <2>1, <3>1, JoinedSeqs
    <3>2. QED
      BY <1>17, <3>1, JoinedSteps, Zenon
  <2>3. CASE Head(down).op = "join"
    <3>1. Running("joining") /\ Head(down).seq \in 0 .. Len(room)
      BY <1>1, <2>1, <2>3, TailMessage, JoinKnown DEF TypeOK, AsksOK, Waits
    <3>2. PICK r \in Seq({WaitingStep}) : r = <<WaitingStep>>
      BY OneStep
    <3>3. PICK x \in KnownSteps : x = ImportStep(seqs, Head(down).seq, r)
      BY <3>1, StepLemma
    <3>4. todo # <<>> /\ todo' = <<x>> \o Tail(todo)
      BY <2>2, <2>3, <3>1, <3>2, <3>3 DEF Running
    <3>5. QED
      BY <1>6, <3>4
  <2>4. CASE Head(down).op = "rejoin"
    <3>1. PICK r \in Seq(FreshSteps) : r = [n \in DOMAIN seqs |-> ImportStep(<<seqs[n]>>, None, <<>>)]
      BY OneByOne
    <3>2. r \in Seq(KnownSteps) /\ NoExports(r) /\ todo' = todo \o r
      BY <2>2, <2>4, <3>1, StepLemma, SeqGrows, FreshExports
    <3>3. QED
      BY <1>1, <3>2, ExportsOf
  <2>5. QED
    BY <2>1, <2>3, <2>4
<1>18. CASE Pulled
  <2>1. down # <<>> /\ Head(down).op = "pull"
        /\ todo' = Append(todo, ImportStep(<<Head(down).seq>>, Head(down).seq, <<>>))
    BY <1>18 DEF Pulled, HandlePull, Told
  <2>2. PICK x \in KnownSteps : x.op # "export" /\ todo' = Append(todo, x)
    BY <1>1, <2>1, PulledStep, StepLemma DEF ImportStep
  <2>3. QED
    BY <1>1, <2>2, ExportsAdded
<1>19. CASE Crash
  BY <1>19 DEF Crash, ExportsFirst
<1>20. QED
  BY <1>8, <1>9, <1>10, <1>11, <1>12, <1>13, <1>14, <1>15, <1>16, <1>17, <1>18, <1>19
     DEF RelayNext, RelayStep

\* A push that was sent where one answers stays in flight until it is answered.
LineOK == OnLine(pending, up, down, stray)

LEMMA FlushOnLine ==
    ASSUME NEW queued \in Seq(Push), NEW sent \in Seq(Push), NEW line \in Seq(Requests),
           NEW answers, NEW greeted \in BOOLEAN, OnLine(sent, line, answers, stray),
           Flush(queued, sent, line, greeted)
    PROVE  OnLine(pending', up', answers, stray')
<1>1. InOrder(queued, sent, {})
  BY DEF InOrder, Rising
<1>2. \A p \in InFlight(line) \cup InFlight(answers) : p \notin {}
  OBVIOUS
<1>3. QED
  BY <1>1, <1>2, FlushInOrder

LEMMA LineStep ==
    ASSUME RelayOK, LineOK, RelayNext
    PROVE  LineOK'
<1>1. TypeOK /\ PushesOK /\ AsksOK /\ queue \in Seq(Push) /\ pending \in Seq(Push)
      /\ up \in Seq(Requests) /\ down \in Seq(Answers) /\ Len(room) \in Nat
  BY LenProperties DEF RelayOK, TypeOK
<1>2. ASSUME UNCHANGED <<pending, stray>>,
             InFlight(up) \cup InFlight(down) \subseteq InFlight(up') \cup InFlight(down')
      PROVE  LineOK'
  BY <1>2 DEF LineOK, OnLine
<1>3. CASE UNCHANGED vars
  BY <1>2, <1>3 DEF vars, pushing
<1>4. CASE Crash
  <2>1. pending' = <<>>
    BY <1>4 DEF Crash
  <2>2. QED
    BY <2>1, EmptyLemma DEF LineOK, OnLine
<1>5. ASSUME NEW p \in Push, MakePush(p)
      PROVE  LineOK'
  <2>1. down' = down
    BY <1>5 DEF MakePush
  <2>2. CASE Send(p, pending, up, state = "online")
    <3>1. /\ InFlight(up') = InFlight(up) \cup (IF state = "online" THEN {p} ELSE {})
          /\ Range(pending') = Range(pending) \cup {p}
          /\ stray' = stray \cup (IF state = "online" THEN {} ELSE {p})
      BY <1>1, <2>2, SendAdds
    <3>2. QED
      BY <2>1, <3>1 DEF LineOK, OnLine
  <2>3. CASE UNCHANGED <<pending, up, stray>>
    BY <1>2, <2>1, <2>3
  <2>4. QED
    BY <1>5, <2>2, <2>3 DEF MakePush
<1>6. CASE OpenConnection \/ Join(since)
  <2>1. UNCHANGED <<pending, stray, down>>
    BY <1>6 DEF OpenConnection, Join, pushing
  <2>2. InFlight(up') = InFlight(up)
    <3>1. CASE OpenConnection
      BY <3>1 DEF OpenConnection
    <3>2. CASE Join(since)
      <4>1. since \in Nat
        BY DEF RelayOK, Known
      <4>2. QED
        BY <1>1, <3>2, <4>1, AskLemma DEF Join
    <3>3. QED
      BY <1>6, <3>1, <3>2
  <2>3. QED
    BY <1>2, <2>1, <2>2
<1>7. CASE SendHello
  <2>1. down' = down
    BY <1>7 DEF SendHello
  <2>2. CASE up' = Append(up, [op |-> "rejoin", since |-> lastSeq]) /\ UNCHANGED pushing
    <3>1. InFlight(up') = InFlight(up)
      BY <1>1, <2>2, AskLemma DEF TypeOK
    <3>2. QED
      BY <1>2, <2>1, <2>2, <3>1 DEF pushing
  <2>3. CASE Flush(queue, pending, up, TRUE)
    <3>1. OnLine(pending', up', down, stray')
      BY <1>1, <2>3, FlushOnLine DEF LineOK
    <3>2. QED
      BY <2>1, <3>1 DEF LineOK
  <2>4. QED
    BY <1>7, <2>2, <2>3 DEF SendHello
<1>8. CASE HandleDisconnect
  <2>1. CASE Flush(Requeued, <<>>, <<>>, FALSE)
    <3>1. Requeued \in Seq(Push) /\ <<>> \in Seq(Push) /\ <<>> \in Seq(Requests)
      BY <1>1, ConcatProperties, EmptySeq DEF Requeued
    <3>2. OnLine(<<>>, <<>>, <<>>, stray)
      BY EmptyLemma DEF OnLine
    <3>3. OnLine(pending', up', <<>>, stray')
      BY <2>1, <3>1, <3>2, FlushOnLine
    <3>4. QED
      BY <1>8, <3>3 DEF LineOK, HandleDisconnect
  <2>2. CASE pending' = <<>>
    BY <2>2, EmptyLemma DEF LineOK, OnLine
  <2>3. QED
    BY <1>8, <2>1, <2>2 DEF HandleDisconnect
<1>9. CASE HandleJoined \/ HandlePull
  <2>1. /\ down # <<>> /\ Head(down).op \notin {"pushed", "refused"} /\ down' = Tail(down)
        /\ (UNCHANGED pushing /\ UNCHANGED up) \/ Flush(queue, pending, up, TRUE)
    BY <1>9 DEF HandleJoined, HandlePull
  <2>2. InFlight(Tail(down)) = InFlight(down)
    BY <1>1, <2>1, AnswerTaken
  <2>3. CASE UNCHANGED pushing /\ UNCHANGED up
    BY <1>2, <2>1, <2>2, <2>3 DEF pushing
  <2>4. CASE Flush(queue, pending, up, TRUE)
    <3>1. OnLine(pending, up, Tail(down), stray)
      BY <2>2 DEF LineOK, OnLine
    <3>2. \A a \in Seq(Answers) : OnLine(pending, up, a, stray) => OnLine(pending', up', a, stray')
      BY <1>1, <2>4, FlushOnLine
    <3>3. Tail(down) \in Seq(Answers)
      BY <1>1, <2>1, TailLemma
    <3>4. QED
      BY <2>1, <3>1, <3>2, <3>3 DEF LineOK
  <2>5. QED
    BY <2>1, <2>3, <2>4
<1>10. CASE HandlePushed
  <2>1. /\ down # <<>> /\ Head(down).op \in {"pushed", "refused"} /\ down' = Tail(down)
        /\ \/ Flush(queue, RemoveFirst(pending, Answered), up, TRUE)
           \/ pending' = RemoveFirst(pending, Answered) /\ UNCHANGED <<up, stray>>
    BY <1>10 DEF HandlePushed
  <2>2. /\ InFlight(down) = InFlight(Tail(down)) \cup {Answered}
        /\ Tail(down) \in Seq(Answers)
    BY <1>1, <2>1, AnswerTaken
  <2>3. PICK rest \in Seq(Push) : /\ rest = RemoveFirst(pending, Answered)
                                 /\ Range(rest) = Range(pending) \ {Answered}
    BY <1>1, RemoveLemma DEF PushesOK, Kept
  <2>4. OnLine(rest, up, Tail(down), stray)
    BY <2>2, <2>3 DEF LineOK, OnLine
  <2>5. CASE Flush(queue, rest, up, TRUE)
    <3>1. \A a \in Seq(Answers) : OnLine(rest, up, a, stray) => OnLine(pending', up', a, stray')
      BY <1>1, <2>5, FlushOnLine
    <3>2. QED
      BY <2>1, <2>2, <2>4, <3>1 DEF LineOK
  <2>6. CASE pending' = rest /\ UNCHANGED <<up, stray>>
    BY <2>1, <2>4, <2>6 DEF LineOK
  <2>7. QED
    BY <2>1, <2>3, <2>5, <2>6
<1>11. CASE ServerTakes \/ ServerRefuses \/ ServerJoins
  <2>1. up # <<>> /\ up' = Tail(up) /\ UNCHANGED <<pending, stray>>
    BY <1>11 DEF ServerTakes, ServerRefuses, ServerJoins, pushing
  <2>2. Head(up) \in Requests /\ Len(room') \in Nat
    <3>1. Len(room') \in Nat
      BY RelayStays DEF RoomGrows
    <3>2. QED
      BY <1>1, <2>1, <3>1, TailLemma
  <2>3. PICK m \in Answers : /\ m.op \in PushOps <=> Head(up).op = "push"
                             /\ Head(up).op = "push" => m.push = Head(up).push
                             /\ down' = Append(down, m)
    <3>1. CASE ServerTakes \/ ServerRefuses
      <4>1. Head(up).op = "push" /\ Head(up).push \in Push
        BY <2>2, <3>1, RequestLemma DEF ServerTakes, ServerRefuses
      <4>2. \E m \in Answers : /\ m.op \in {"pushed", "refused"} /\ m.push = Head(up).push
                              /\ down' = Append(down, m)
        BY <2>2, <3>1, <4>1, AnswerLemma DEF ServerTakes, ServerRefuses
      <4>3. QED
        BY <4>1, <4>2 DEF PushOps
    <3>2. CASE ServerJoins
      <4>1. Head(up).op \in {"join", "rejoin"} /\ Head(up).since \in Nat
        BY <2>2, <3>2, RequestLemma DEF ServerJoins
      <4>2. \E m \in Answers : m.op = Head(up).op /\ down' = Append(down, m)
        BY <1>1, <3>2, <4>1, AnswerLemma DEF ServerJoins
      <4>3. QED
        BY <4>1, <4>2 DEF PushOps
    <3>3. QED
      BY <1>11, <3>1, <3>2
  <2>4. InFlight(Tail(up)) \cup InFlight(Append(down, m)) = InFlight(up) \cup InFlight(down)
    BY <1>1, <2>1, <2>3, RequestServed
  <2>5. QED
    BY <1>2, <2>1, <2>3, <2>4
<1>12. CASE OtherChanges
  <2>1. UNCHANGED <<pending, stray, up>>
    BY <1>12 DEF OtherChanges, pushing
  <2>2. InFlight(down) \subseteq InFlight(down')
    <3>1. CASE ~member
      BY <1>12, <3>1 DEF OtherChanges
    <3>2. CASE member
      <4>1. Len(room') \in Nat
        BY RelayStays DEF RoomGrows
      <4>2. PICK m \in Answers : m.op = "pull" /\ down' = Append(down, m)
        BY <1>12, <3>2, <4>1, AnswerLemma DEF OtherChanges
      <4>3. QED
        BY <1>1, <4>2, AppendMessage
    <3>3. QED
      BY <3>1, <3>2
  <2>3. QED
    BY <1>2, <2>1, <2>2
<1>13. QED
  BY <1>3, <1>4, <1>5, <1>6, <1>7, <1>8, <1>9, <1>10, <1>11, <1>12, RelayMoves DEF RelayedNext

\* What brings the relay into the room, what fetches what waits, and what sends what is new.
Joining == {"online", "joining"}
Fetching == Joining \cup {"waiting"}
Telling == Fetching \cup {"send"}

\* What is unsent and no edit or import led to: an export that is under way has it, or it is what
\* the last sending held back.
Left == IF "export" \in Will(todo) THEN Exports(todo) ELSE Exports(todo) \cup heldBack

\* What is still missing, some step leads to.
LeadsOK ==
    /\ state = "online" /\ ~relaying => Will(todo) \cap Joining # {}
    /\ state = "online" /\ ~blocked /\ Will(todo) \cap Telling = {}
       => replica \subseteq lastSent \cup Left

LEMMA LeadsMore ==
    ASSUME LeadsOK, state' = state, relaying => relaying', blocked' = blocked,
           Will(todo) \subseteq Will(todo'),
           replica \subseteq lastSent \cup Left => replica' \subseteq lastSent' \cup Left'
    PROVE  LeadsOK'
BY DEF LeadsOK, Joining, Fetching, Telling

\* More steps that do not export leave what they leave.
LEMMA LeftMore ==
    ASSUME heldBack' = heldBack, "export" \in Will(todo') => "export" \in Will(todo),
           Exports(todo) \subseteq Exports(todo')
    PROVE  Left \subseteq Left'
BY DEF Left

LEMMA LeadsAgain ==
    ASSUME Will(todo') \cap Joining # {}
    PROVE  LeadsOK'
BY DEF LeadsOK, Joining, Fetching, Telling

LEMMA LeadsOn ==
    ASSUME "waiting" \in Will(todo'), relaying' \/ Will(todo') \cap Joining # {}
    PROVE  LeadsOK'
BY DEF LeadsOK, Joining, Fetching, Telling

\* The first of the steps makes way for others.
LEMMA LeadsReplaced ==
    ASSUME RelayOK, todo # <<>>
    PROVE  /\ Will(todo) = Leads(Head(todo)) \cup Will(Tail(todo))
           /\ Exports(todo) = ExportOf(Head(todo)) \cup Exports(Tail(todo))
           /\ \A t \in KnownSteps :
                 /\ Will(<<t>> \o Tail(todo)) = Leads(t) \cup Will(Tail(todo))
                 /\ Exports(<<t>> \o Tail(todo)) = ExportOf(t) \cup Exports(Tail(todo))
<1>1. todo \in Seq(KnownSteps)
  BY DEF RelayOK, Known
<1>2. \A x \in Seq(KnownSteps) :
         /\ Will(todo) = Leads(Head(todo)) \cup Will(Tail(todo))
         /\ Exports(todo) = ExportOf(Head(todo)) \cup Exports(Tail(todo))
         /\ Will(x \o Tail(todo)) = Will(x) \cup Will(Tail(todo))
         /\ Exports(x \o Tail(todo)) = Exports(x) \cup Exports(Tail(todo))
  BY <1>1, WillReplaced
<1>3. ASSUME NEW t \in KnownSteps
      PROVE  /\ Will(<<t>> \o Tail(todo)) = Leads(t) \cup Will(Tail(todo))
             /\ Exports(<<t>> \o Tail(todo)) = ExportOf(t) \cup Exports(Tail(todo))
  <2>1. PICK a \in Seq(KnownSteps) : a = <<t>> /\ Range(a) = {t}
    BY OneStep
  <2>2. Will(a) = Leads(t) /\ Exports(a) = ExportOf(t)
    BY <2>1, WillOne
  <2>3. QED
    BY <1>2, <2>1, <2>2
<1>4. PICK a \in Seq(KnownSteps) : a = <<>>
  BY NoStep
<1>5. QED
  BY <1>2, <1>3

LEMMA LeadsOfSteps ==
    /\ Leads(Online) = {"online"} /\ ExportOf(Online) = {}
    /\ Leads(WaitingStep) = {"waiting"} /\ ExportOf(WaitingStep) = {}
    /\ Leads(SendStep) = {"send"} /\ ExportOf(SendStep) = {}
    /\ Leads([op |-> "joining"]) = {"joining"} /\ ExportOf([op |-> "joining"]) = {}
    /\ \A v : Leads([op |-> "export", version |-> v]) = {"export"}
             /\ ExportOf([op |-> "export", version |-> v]) = v
BY DEF Leads, ExportOf, Online, WaitingStep, SendStep

LEMMA LeadsOfHead ==
    /\ \A o \in {"online", "joining", "waiting", "send"} :
          Running(o) => todo # <<>> /\ Leads(Head(todo)) = {o} /\ ExportOf(Head(todo)) = {}
    /\ Running("export") => todo # <<>> /\ Leads(Head(todo)) = {"export"}
                            /\ ExportOf(Head(todo)) = Head(todo).version
    /\ Running("import") => todo # <<>> /\ Leads(Head(todo)) \subseteq {"waiting"}
                            /\ ExportOf(Head(todo)) = {}
BY DEF Leads, ExportOf, Running

\* The relay's own steps.
LEMMA LeadsRun ==
    ASSUME RelayOK, LeadsOK, ExportsFirst(todo),
           Edit \/ SaveReplica \/ RelayStep \/ ImportRefused \/ ImportFails
    PROVE  LeadsOK'
<1>1. /\ todo \in Seq(KnownSteps) /\ SendStep \in KnownSteps
      /\ todo # <<>> => "export" \notin Will(Tail(todo))
  BY StepLemma, ExportsTail, NoneExported DEF RelayOK, Known
<1>2. CASE Edit
  <2>1. /\ UNCHANGED <<state, relaying, blocked>>
        /\ todo' = Sending(todo)
    BY <1>2 DEF Edit, vars, connection, following, session
  <2>2. Will(Sending(todo)) = Will(todo) \cup {"send"} /\ Exports(Sending(todo)) = Exports(todo)
    BY <1>1, WillSending
  <2>3. QED
    BY <2>1, <2>2 DEF LeadsOK, Joining, Fetching, Telling
<1>3. CASE SaveReplica
  <2>1. UNCHANGED <<state, relaying, blocked, todo, replica, lastSent, heldBack>>
    BY <1>3 DEF SaveReplica, vars, connection, following, session, relayState, failed
  <2>2. QED
    BY <2>1 DEF LeadsOK, Left, Joining, Fetching, Telling
<1>4. CASE TakeVersion
  <2>1. /\ UNCHANGED <<state, relaying, blocked, replica, lastSent>>
        /\ Running("send")
        /\ todo' = IF relaying THEN <<[op |-> "export", version |-> replica]>> \o Tail(todo)
                   ELSE Tail(todo)
    BY <1>4 DEF TakeVersion, vars, connection, following, session
  <2>2. todo # <<>> /\ Will(todo) = {"send"} \cup Will(Tail(todo))
    BY <2>1, LeadsOfHead, LeadsReplaced
  <2>3. CASE relaying
    <3>1. PICK t \in KnownSteps : /\ t = [op |-> "export", version |-> replica]
                                  /\ Leads(t) = {"export"} /\ ExportOf(t) = replica
      BY StepLemma, LeadsOfSteps
    <3>2. Will(todo') = {"export"} \cup Will(Tail(todo)) /\ replica \subseteq Exports(todo')
      BY <2>1, <2>2, <2>3, <3>1, LeadsReplaced
    <3>3. replica \subseteq Left'
      BY <3>2 DEF Left
    <3>4. QED
      BY <2>1, <2>2, <2>3, <3>2, <3>3 DEF LeadsOK, Joining, Fetching, Telling
  <2>4. CASE ~relaying
    <3>1. todo' = Tail(todo)
      BY <2>1, <2>4
    <3>2. state = "online" => Will(todo') \cap Joining # {}
      BY <2>2, <2>4, <3>1 DEF LeadsOK, Joining
    <3>3. QED
      BY <2>1, <3>2, LeadsAgain DEF LeadsOK
  <2>5. QED
    BY <2>3, <2>4
<1>5. CASE (\E p \in Push : PushLocal(p)) \/ PushNothing
  <2>1. /\ UNCHANGED <<state, relaying, blocked, replica>>
        /\ Running("export") /\ todo' = Tail(todo)
        /\ \/ lastSent' = lastSent \cup Head(todo).version
           \/ lastSent' = lastSent /\ heldBack' = replica \ lastSent
    <3>1. CASE \E p \in Push : PushLocal(p)
      BY <3>1 DEF PushLocal, MakePush, connection, following, session
    <3>2. CASE PushNothing
      BY <3>2 DEF PushNothing, vars, connection, following, Exported
    <3>3. QED
      BY <1>5, <3>1, <3>2
  <2>2. /\ Will(todo) = {"export"} \cup Will(todo')
        /\ Exports(todo) = Head(todo).version \cup Exports(todo')
        /\ "export" \notin Will(todo')
    BY <1>1, <2>1, LeadsOfHead, LeadsReplaced
  <2>3. Left = Exports(todo) /\ Left' = Exports(todo') \cup heldBack'
    BY <2>2 DEF Left
  <2>4. QED
    BY <2>1, <2>2, <2>3 DEF LeadsOK, Joining, Fetching, Telling
<1>6. CASE ImportRemote
  <2>1. /\ UNCHANGED <<state, relaying, blocked, heldBack>>
        /\ Running("import")
        /\ \E c : replica' = replica \cup c /\ lastSent' = lastSent \cup c
        /\ todo' \in {Imported(Head(todo)), Sending(Imported(Head(todo)))}
    BY <1>6 DEF ImportRemote, vars, connection, following, failed
  <2>2. /\ Imported(Head(todo)) \in Seq(KnownSteps)
        /\ Will(Imported(Head(todo))) = Will(todo) /\ Exports(Imported(Head(todo))) = Exports(todo)
    BY <1>1, <2>1, WillImported
  <2>3. \A q \in Seq(KnownSteps) :
           Will(Sending(q)) = Will(q) \cup {"send"} /\ Exports(Sending(q)) = Exports(q)
    BY <1>1, WillSending
  <2>4. /\ Will(todo) \subseteq Will(todo') /\ Will(todo') \subseteq Will(todo) \cup {"send"}
        /\ Exports(todo') = Exports(todo)
    BY <2>1, <2>2, <2>3
  <2>5. Left \subseteq Left'
    BY <2>1, <2>4, LeftMore
  <2>6. QED
    BY <2>1, <2>4, <2>5, LeadsMore
<1>7. CASE ImportLater
  <2>1. /\ UNCHANGED <<state, relaying, blocked, replica, lastSent, heldBack>>
        /\ Running("import") /\ todo' = Imported(Head(todo))
    BY <1>7 DEF ImportLater, vars, connection, following, failed
  <2>2. Will(todo') = Will(todo) /\ Exports(todo') = Exports(todo)
    BY <1>1, <2>1, WillImported
  <2>3. Left \subseteq Left'
    BY <2>1, <2>2, LeftMore
  <2>4. QED
    BY <2>1, <2>2, <2>3, LeadsMore
<1>8. CASE ImportWaiting
  <2>1. UNCHANGED <<state, relaying, blocked>> /\ Running("waiting")
    BY <1>8 DEF ImportWaiting, vars, connection, following
  <2>2. todo # <<>> /\ Will(todo) = {"waiting"} \cup Will(Tail(todo))
    BY <2>1, LeadsOfHead, LeadsReplaced
  <2>3. CASE todo' = <<SendStep>> \o Tail(todo)
    <3>1. Will(todo') = {"send"} \cup Will(Tail(todo))
      BY <1>1, <2>2, <2>3, LeadsOfSteps, LeadsReplaced
    <3>2. QED
      BY <2>1, <2>2, <3>1 DEF LeadsOK, Joining, Fetching, Telling
  <2>4. CASE todo' = todo \/ todo' = Sending(todo)
    <3>1. Will(todo) \subseteq Will(todo')
      BY <1>1, <2>4, WillSending
    <3>2. "waiting" \in Will(todo')
      BY <2>2, <3>1
    <3>3. state = "online" => relaying' \/ Will(todo') \cap Joining # {}
      BY <2>1, <3>1 DEF LeadsOK
    <3>4. QED
      BY <2>1, <3>2, <3>3, LeadsOn DEF LeadsOK
  <2>5. QED
    BY <1>8, <2>3, <2>4 DEF ImportWaiting
<1>9. CASE BackOnline
  <2>1. todo # <<>> /\ WaitingStep \in KnownSteps /\ [op |-> "joining"] \in KnownSteps
    BY <1>9, StepLemma DEF BackOnline, Running
  <2>2. CASE relaying /\ todo' = <<WaitingStep>> \o Tail(todo) /\ UNCHANGED vars
    <3>1. "waiting" \in Will(todo')
      BY <2>1, <2>2, LeadsOfSteps, LeadsReplaced
    <3>2. relaying'
      BY <2>2 DEF vars, following
    <3>3. QED
      BY <3>1, <3>2, LeadsOn
  <2>3. CASE todo' = <<[op |-> "joining"]>> \o Tail(todo)
    <3>1. "joining" \in Will(todo')
      BY <2>1, <2>3, LeadsOfSteps, LeadsReplaced
    <3>2. QED
      BY <3>1, LeadsAgain DEF Joining
  <2>4. CASE state # "online" /\ UNCHANGED vars
    <3>1. state' # "online"
      BY <2>4 DEF vars, connection
    <3>2. QED
      BY <3>1 DEF LeadsOK
  <2>5. QED
    BY <1>9, <2>2, <2>3, <2>4 DEF BackOnline
<1>10. CASE ImportRefused
  <2>1. UNCHANGED <<state, relaying>> /\ blocked' /\ todo' = Tail(todo)
        /\ (Running("import") \/ Running("waiting"))
    BY <1>10 DEF ImportRefused, vars, connection, following
  <2>2. Will(todo) \subseteq {"waiting"} \cup Will(todo')
    BY <2>1, LeadsOfHead, LeadsReplaced
  <2>3. QED
    BY <2>1, <2>2 DEF LeadsOK, Joining
<1>11. CASE ImportFails
  <2>1. /\ UNCHANGED <<state, relaying, blocked, replica, lastSent>> /\ todo' = Tail(todo)
        /\ Running("import") \/ Running("waiting")
        /\ \/ heldBack' = replica \ lastSent
           \/ heldBack' = heldBack /\ Leads(Head(todo)) = {}
    BY <1>11 DEF ImportFails, vars, connection, following, Exported, Leads, Running
  <2>2. /\ Will(todo) = Leads(Head(todo)) \cup Will(todo') /\ Leads(Head(todo)) \subseteq {"waiting"}
        /\ Exports(todo) = Exports(todo') /\ "export" \notin Will(todo')
    BY <1>1, <2>1, LeadsOfHead, LeadsReplaced
  <2>3. state = "online" /\ ~relaying => Will(todo') \cap Joining # {}
    BY <2>2 DEF LeadsOK, Joining
  <2>4. Left' = Exports(todo') \cup heldBack'
    BY <2>2 DEF Left
  <2>5. CASE heldBack' = replica \ lastSent
    BY <2>1, <2>3, <2>4, <2>5 DEF LeadsOK
  <2>6. CASE heldBack' = heldBack /\ Leads(Head(todo)) = {}
    <3>1. Will(todo') = Will(todo)
      BY <2>2, <2>6
    <3>2. Left' = Left
      BY <2>2, <2>4, <2>6, <3>1 DEF Left
    <3>3. QED
      BY <2>1, <3>1, <3>2 DEF LeadsOK
  <2>7. QED
    BY <2>1, <2>5, <2>6
<1>12. QED
  BY <1>2, <1>3, <1>4, <1>5, <1>6, <1>7, <1>8, <1>9, <1>10, <1>11 DEF RelayStep

\* And what the client tells it.
LEMMA LeadsTold ==
    ASSUME RelayOK, LeadsOK,
           Connecting \/ Greeted \/ Dropped \/ JoinedRoom \/ Pulled \/ PushSettled \/ Serving
           \/ OthersChange \/ Crash
    PROVE  LeadsOK'
<1>1. todo \in Seq(KnownSteps) /\ TypeOK /\ AsksOK /\ Waits /\ Known
  BY DEF RelayOK, Known
<1>2. ASSUME state' = state, relaying => relaying', UNCHANGED <<blocked, replica, lastSent, heldBack>>,
             Will(todo) \subseteq Will(todo'), Exports(todo) \subseteq Exports(todo'),
             "export" \in Will(todo') => "export" \in Will(todo)
      PROVE  LeadsOK'
  <2>1. Left \subseteq Left'
    BY <1>2, LeftMore
  <2>2. QED
    BY <1>2, <2>1, LeadsMore
<1>3. CASE Connecting \/ Dropped \/ Crash
  <2>1. state' # "online"
    BY <1>3 DEF Connecting, OpenConnection, Dropped, HandleDisconnect, Crash
  <2>2. QED
    BY <2>1 DEF LeadsOK
<1>4. CASE Greeted
  <2>1. todo' = Append(todo, Online) /\ Online \in KnownSteps
    BY <1>4, StepLemma DEF Greeted, Told
  <2>2. "online" \in Will(todo')
    BY <1>1, <2>1, WillAdded, LeadsOfSteps
  <2>3. QED
    BY <2>2, LeadsAgain DEF Joining
<1>5. CASE JoinedRoom
  <2>1. /\ UNCHANGED <<state, blocked, replica, lastSent, heldBack>>
        /\ down # <<>> /\ Head(down).op \in {"join", "rejoin"}
        /\ IF Head(down).op = "join" THEN relaying' ELSE relaying' = relaying
    BY <1>5 DEF JoinedRoom, HandleJoined, Told, session, failed
  <2>2. PICK seqs \in Seq(DOMAIN room) :
           todo' = IF Head(down).op = "join"
                   THEN <<ImportStep(seqs, Head(down).seq, <<WaitingStep>>)>> \o Tail(todo)
                   ELSE todo \o [n \in DOMAIN seqs |-> ImportStep(<<seqs[n]>>, None, <<>>)]
    <3>1. ASSUME NEW q, q = Brought(Head(down).since, Head(down).seq)
          PROVE  q \in Seq(DOMAIN room)
      BY <1>1, <2>1, <3>1, JoinedSeqs
    <3>2. QED
      BY <1>5, <3>1, JoinedSteps, Zenon
  <2>3. CASE Head(down).op = "join"
    <3>1. Running("joining") /\ Head(down).seq \in 0 .. Len(room)
      BY <1>1, <2>1, <2>3, TailMessage, JoinKnown DEF TypeOK, AsksOK, Waits
    <3>2. PICK r \in Seq({WaitingStep}) : r = <<WaitingStep>> /\ r # <<>>
      BY OneStep
    <3>3. PICK t \in KnownSteps : t = ImportStep(seqs, Head(down).seq, r)
      BY <3>1, StepLemma
    <3>4. Leads(t) = {"waiting"}
      BY <3>2, <3>3 DEF Leads, ImportStep
    <3>5. todo' = <<t>> \o Tail(todo)
      BY <2>2, <2>3, <3>2, <3>3
    <3>6. "waiting" \in Will(todo')
      BY <3>1, <3>4, <3>5, LeadsOfHead, LeadsReplaced
    <3>7. QED
      BY <2>1, <2>3, <3>6, LeadsOn
  <2>4. CASE Head(down).op = "rejoin"
    <3>1. PICK r \in Seq(FreshSteps) : r = [n \in DOMAIN seqs |-> ImportStep(<<seqs[n]>>, None, <<>>)]
      BY OneByOne
    <3>2. r \in Seq(KnownSteps) /\ todo' = todo \o r /\ "export" \notin Will(r)
      BY <2>2, <2>4, <3>1, StepLemma, SeqGrows, FreshExports, NoneExported
    <3>3. Range(todo') = Range(todo) \cup Range(r)
      BY <1>1, <3>2, ConcatLemma
    <3>4. Will(todo') = Will(todo) \cup Will(r) /\ Exports(todo') = Exports(todo) \cup Exports(r)
      BY <3>3, WillUnion
    <3>5. QED
      BY <1>2, <2>1, <2>4, <3>2, <3>4
  <2>5. QED
    BY <2>1, <2>3, <2>4
<1>6. CASE Pulled
  <2>1. /\ UNCHANGED <<state, relaying, blocked, replica, lastSent, heldBack>>
        /\ down # <<>> /\ Head(down).op = "pull"
        /\ todo' = Append(todo, ImportStep(<<Head(down).seq>>, Head(down).seq, <<>>))
    BY <1>6 DEF Pulled, HandlePull, Told, session, connection, failed
  <2>2. PICK t \in KnownSteps : todo' = Append(todo, t) /\ "export" \notin Leads(t)
    <3>1. ImportStep(<<Head(down).seq>>, Head(down).seq, <<>>).op = "import"
      BY DEF ImportStep
    <3>2. QED
      BY <1>1, <2>1, <3>1, PulledStep, StepLemma DEF Leads
  <2>3. Will(todo') = Will(todo) \cup Leads(t) /\ Exports(todo') = Exports(todo) \cup ExportOf(t)
    BY <1>1, <2>2, WillAdded
  <2>4. QED
    BY <1>2, <2>1, <2>2, <2>3
<1>7. CASE PushSettled \/ Serving \/ OthersChange
  <2>1. UNCHANGED <<state, relaying, blocked, replica, lastSent, todo, heldBack>>
    <3>1. CASE PushSettled
      BY <3>1 DEF PushSettled, HandlePushed, connection, relayState, failed
    <3>2. CASE Serving
      BY <3>2 DEF Serving, ServerTakes, ServerRefuses, ServerJoins, connection, following, Unheard,
                  relayVars, relayState, session, failed
    <3>3. CASE OthersChange
      BY <3>3 DEF OthersChange, OtherChanges, connection, following, Unheard, relayVars, relayState,
                  session, failed
    <3>4. QED
      BY <1>7, <3>1, <3>2, <3>3
  <2>2. QED
    BY <1>2, <2>1
<1>8. QED
  BY <1>3, <1>4, <1>5, <1>6, <1>7

LEMMA LeadsStep ==
    ASSUME RelayOK, LeadsOK, ExportsFirst(todo), RelayNext
    PROVE  LeadsOK'
BY LeadsRun, LeadsTold DEF RelayNext

AgreeOK == LineOK /\ LeadsOK /\ ExportsFirst(todo)

LEMMA AgreeBegins == RelayInit => AgreeOK
<1>1. SUFFICES ASSUME RelayInit
               PROVE  AgreeOK
  OBVIOUS
<1>2. pending = <<>> /\ state = "offline" /\ todo = <<>>
  BY <1>1 DEF RelayInit, Init
<1>3. LineOK
  BY <1>2, EmptyLemma DEF LineOK, OnLine
<1>4. LeadsOK
  BY <1>2 DEF LeadsOK
<1>5. ExportsFirst(todo)
  BY <1>2 DEF ExportsFirst
<1>6. QED
  BY <1>3, <1>4, <1>5 DEF AgreeOK

LEMMA AgreeStutters ==
    ASSUME UNCHANGED <<vars, relayVars>>, AgreeOK
    PROVE  AgreeOK'
<1>1. UNCHANGED <<state, relaying, pending, up, down, stray>>
  BY DEF vars, connection, following, pushing
<1>2. UNCHANGED <<replica, lastSent, todo, blocked, heldBack>>
  BY DEF relayVars, relayState, session, failed
<1>3. QED
  BY <1>1, <1>2, Zenon DEF AgreeOK, LineOK, OnLine, LeadsOK, Left, ExportsFirst

LEMMA AgreeAlways ==
    RelaySpec => [](RelayOK /\ SentOK /\ HearsSince /\ FollowOK /\ HoldOK /\ AgreeOK)
<1> DEFINE Inv == RelayOK /\ SentOK /\ HearsSince /\ FollowOK /\ HoldOK
<1>1. Inv /\ AgreeOK /\ [RelayNext]_<<vars, relayVars>> => AgreeOK'
  <2>1. Inv /\ AgreeOK /\ RelayNext => AgreeOK'
    BY LineStep, LeadsStep, ExportsStep DEF AgreeOK
  <2>2. AgreeOK /\ UNCHANGED <<vars, relayVars>> => AgreeOK'
    BY AgreeStutters
  <2>3. QED
    BY <2>1, <2>2
<1>2. RelaySpec => []Inv
  BY SentAlways, HoldAlways, PTL
<1>3. QED
  BY <1>1, <1>2, AgreeBegins, PTL DEF RelaySpec

LEMMA RestAgrees ==
    ASSUME RelayOK, SentOK, HearsSince, FollowOK, HoldOK, AgreeOK, AtRest
    PROVE  replica \subseteq InRoom \cup Lost \cup heldBack /\ InRoom \subseteq replica \cup Missed
<1>1. /\ state = "online" /\ greeting = "none" /\ ~blocked
      /\ todo = <<>> /\ queue = <<>> /\ up = <<>> /\ down = <<>>
  BY DEF AtRest
<1>2. TypeOK /\ PushesOK /\ since \in Nat /\ Len(room) \in Nat /\ DOMAIN room = 1 .. Len(room)
  BY LenProperties DEF RelayOK, Known, TypeOK
<1>3. Will(todo) = {} /\ Exports(todo) = {}
  BY <1>1, WillNone
<1>4. relaying /\ replica \subseteq lastSent \cup heldBack
  BY <1>1, <1>3 DEF AgreeOK, LeadsOK, Left
<1>5. InRoom \subseteq replica \cup Missed
  <2>1. PICK b \in Nat : b = since
    BY <1>2
  <2>2. TellsAll(b) /\ Rejoins
    BY <2>1 DEF HearsSince, HearsOK
  <2>3. member
    <3>1. ~Has(up, "rejoin")
      BY <1>1, NoJoins
    <3>2. QED
      BY <1>1, <1>4, <2>2, <3>1 DEF Rejoins
  <2>4. 1 .. Len(room) \subseteq ToldBy(down, Heard(b), Len(down))
    BY <1>4, <2>2, <2>3 DEF TellsAll
  <2>5. ToldBy(down, Heard(b), Len(down)) = heard \cup 1 .. since
    <3>1. 1 .. Len(down) = {}
      BY <1>1
    <3>2. QED
      BY <2>1, <3>1 DEF ToldBy, Heard
  <2>6. heard \subseteq Accounted
    <3>1. Names(todo, Len(todo)) = {}
      <4>1. 1 .. Len(todo) = {}
        BY <1>1
      <4>2. QED
        BY <4>1 DEF Names
    <3>2. QED
      BY <1>1, <3>1 DEF HoldOK
  <2>7. \A s \in DOMAIN room : Entry(s) \subseteq replica \/ s \in waiting \cup dropped
    BY <1>2, <2>4, <2>5, <2>6 DEF Accounted, HeldSeqs, HoldOK, JoinsForWhatItLacks
  <2>8. \A s \in waiting \cup dropped : Entry(s) \subseteq Missed
    BY DEF Missed
  <2>9. QED
    BY <2>7, <2>8 DEF InRoom
<1>6. replica \subseteq InRoom \cup Lost \cup heldBack
  <2>1. lastSent \subseteq InRoom \cup Carries(content, overtaken \cup {q \in Push : Unsettled(q)})
    BY DEF SentOK
  <2>2. Open \subseteq stray
    <3>1. Range(queue) = {}
      BY <1>1, EmptyLemma
    <3>2. Open = Range(pending)
      BY <1>2, <3>1 DEF PushesOK, Kept
    <3>3. InFlight(up) \cup InFlight(down) = {}
      BY <1>1, EmptyMessages
    <3>4. QED
      BY <3>2, <3>3 DEF AgreeOK, LineOK, OnLine
  <2>3. \A q \in Push : Unsettled(q) => q \in stray \/ fate[q] = "refused"
    BY <2>2 DEF Unsettled, Open
  <2>4. overtaken \cup {q \in Push : Unsettled(q)}
        \subseteq overtaken \cup stray \cup {q \in Push : fate[q] = "refused"}
    BY <2>3
  <2>5. \A x : x \in Carries(content, overtaken \cup {q \in Push : Unsettled(q)}) => x \in Lost
    BY <2>4, CarriesLemma DEF Lost
  <2>6. QED
    BY <1>4, <2>1, <2>5
<1>7. QED
  BY <1>5, <1>6

\* At rest the two hold the same: once the relay (relay.ts) has no step left and nothing is on its
\* way, every change of the room is in the replica, and every change of the replica in the room,
\* but for the pushes that were refused, overtaken or sent where no one answers, what the last step
\* to send could not, the changes that wait for their blobs and those whose import failed.
THEOREM AtRestTheRelayAgrees == RelaySpec => []AtRestTheyAgree
<1>1. RelayOK /\ SentOK /\ HearsSince /\ FollowOK /\ HoldOK /\ AgreeOK => AtRestTheyAgree
  BY RestAgrees DEF AtRestTheyAgree
<1>2. QED
  BY <1>1, AgreeAlways, PTL

=============================================================================
