-------------------------- MODULE TurnQueueLemmas ---------------------------
(***************************************************************************)
(* What the operations of the turn queue preserve and return, for every    *)
(* queue: they keep sequences of turns sequences of turns, a turn is never *)
(* queued twice, and editing a turn and restoring it is the identity.      *)
(***************************************************************************)
EXTENDS TurnQueueOps, SequenceTheorems, TLAPS

(* No turn is in the queue twice: IsInjective, of sequences. *)
Distinct(s) == \A i, j \in 1 .. Len(s) : s[i] = s[j] => i = j

LEMMA DistinctIsInjective ==
  ASSUME NEW S, NEW s \in Seq(S)
  PROVE  Distinct(s) <=> IsInjective(s)
BY LenProperties DEF Distinct, IsInjective

(* Where a queued turn is. *)
LEMMA IndexOfQueued ==
  ASSUME NEW S, NEW s \in Seq(S), NEW t \in Range(s)
  PROVE  /\ IndexOf(s, t) \in 1 .. Len(s)
         /\ s[IndexOf(s, t)] = t
         /\ t \in S
<1>1. PICK i \in DOMAIN s : s[i] = t
  BY DEF Range
<1>2. IndexOf(s, t) \in DOMAIN s /\ s[IndexOf(s, t)] = t
  BY <1>1 DEF IndexOf
<1> QED
  BY <1>2, LenProperties, ElementOfSeq

(* Removing an entry closes the gap. *)
LEMMA RemoveAtShifts ==
  ASSUME NEW S, NEW s \in Seq(S), NEW n \in 1 .. Len(s)
  PROVE  /\ RemoveAt(s, n) \in Seq(S)
         /\ Len(RemoveAt(s, n)) = Len(s) - 1
         /\ \A k \in 1 .. Len(s) - 1 :
              RemoveAt(s, n)[k] = IF k < n THEN s[k] ELSE s[k + 1]
<1> DEFINE l == SubSeq(s, 1, n - 1)
           r == SubSeq(s, n + 1, Len(s))
<1>1. Len(s) \in Nat
  BY LenProperties
<1>2. /\ l \in Seq(S) /\ Len(l) = n - 1
      /\ \A k \in 1 .. n - 1 : l[k] = s[k]
  BY <1>1
<1>3. /\ r \in Seq(S) /\ Len(r) = Len(s) - n
      /\ \A k \in 1 .. Len(s) - n : r[k] = s[n + k]
  BY <1>1
<1>4. RemoveAt(s, n) = l \o r
  BY DEF RemoveAt
<1> HIDE DEF l, r
<1>5. \A k \in 1 .. Len(s) - 1 : (l \o r)[k] = IF k < n THEN s[k] ELSE s[k + 1]
  <2> TAKE k \in 1 .. Len(s) - 1
  <2>1. CASE k < n
    BY <2>1, <1>1, <1>2, <1>3, ConcatProperties
  <2>2. CASE k >= n
    <3>1. (l \o r)[k] = r[k - (n - 1)]
      BY <2>2, <1>1, <1>2, <1>3, ConcatProperties
    <3>2. r[k - (n - 1)] = s[n + (k - (n - 1))]
      BY <2>2, <1>1, <1>3
    <3>3. n + (k - (n - 1)) = k + 1 /\ ~(k < n)
      BY <2>2, <1>1
    <3> QED
      BY <3>1, <3>2, <3>3
  <2>3. k < n \/ k >= n
    BY <1>1
  <2> QED
    BY <2>1, <2>2, <2>3
<1>6. l \o r \in Seq(S) /\ Len(l \o r) = Len(s) - 1
  <2>1. l \o r \in Seq(S) /\ Len(l \o r) = Len(l) + Len(r)
    BY <1>2, <1>3, ConcatProperties
  <2>2. Len(l) + Len(r) = Len(s) - 1
    BY <1>1, <1>2, <1>3
  <2> QED
    BY <2>1, <2>2
<1> QED
  BY <1>4, <1>5, <1>6

(* Inserting an entry moves the ones from its place on by one. *)
LEMMA InsertAtShifts ==
  ASSUME NEW S, NEW s \in Seq(S), NEW n \in 1 .. Len(s) + 1, NEW t \in S
  PROVE  /\ InsertAt(s, n, t) \in Seq(S)
         /\ Len(InsertAt(s, n, t)) = Len(s) + 1
         /\ \A k \in 1 .. Len(s) + 1 :
              InsertAt(s, n, t)[k] =
                IF k < n THEN s[k] ELSE IF k = n THEN t ELSE s[k - 1]
<1> DEFINE l == SubSeq(s, 1, n - 1)
           r == SubSeq(s, n, Len(s))
<1>1. Len(s) \in Nat
  BY LenProperties
<1>2. /\ l \in Seq(S) /\ Len(l) = n - 1
      /\ \A k \in 1 .. n - 1 : l[k] = s[k]
  BY <1>1
<1>3. /\ r \in Seq(S) /\ Len(r) = Len(s) - n + 1
      /\ \A k \in 1 .. Len(s) - n + 1 : r[k] = s[n - 1 + k]
  BY <1>1
<1>4. InsertAt(s, n, t) = l \o <<t>> \o r
  BY DEF InsertAt
<1> HIDE DEF l, r
<1>5. /\ l \o <<t>> \in Seq(S) /\ Len(l \o <<t>>) = n
      /\ \A k \in 1 .. n : (l \o <<t>>)[k] = IF k < n THEN s[k] ELSE t
  BY <1>1, <1>2
<1>6. \A k \in 1 .. Len(s) + 1 :
        ((l \o <<t>>) \o r)[k] = IF k < n THEN s[k] ELSE IF k = n THEN t ELSE s[k - 1]
  <2> TAKE k \in 1 .. Len(s) + 1
  <2>1. CASE k <= n
    BY <2>1, <1>1, <1>3, <1>5
  <2>2. CASE k > n
    <3>1. ((l \o <<t>>) \o r)[k] = r[k - n]
      BY <2>2, <1>1, <1>3, <1>5
    <3>2. r[k - n] = s[n - 1 + (k - n)]
      BY <2>2, <1>1, <1>3
    <3>3. n - 1 + (k - n) = k - 1 /\ ~(k < n) /\ k # n
      BY <2>2, <1>1
    <3> QED
      BY <3>1, <3>2, <3>3
  <2>3. k <= n \/ k > n
    BY <1>1
  <2> QED
    BY <2>1, <2>2, <2>3
<1>7. (l \o <<t>>) \o r \in Seq(S) /\ Len((l \o <<t>>) \o r) = Len(s) + 1
  <2> DEFINE m == l \o <<t>>
  <2>1. m \in Seq(S) /\ Len(m) = n
    BY <1>5
  <2> HIDE DEF m
  <2>2. m \o r \in Seq(S) /\ Len(m \o r) = Len(m) + Len(r)
    BY <2>1, <1>3, ConcatProperties
  <2>3. Len(m) + Len(r) = Len(s) + 1
    BY <1>1, <1>3, <2>1
  <2> QED
    BY <2>2, <2>3 DEF m
<1> QED
  BY <1>4, <1>6, <1>7

-----------------------------------------------------------------------------
(* withoutTurn: the turn is gone, the others are still there once each. *)
LEMMA WithoutQueue ==
  ASSUME NEW S, NEW s \in Seq(S), NEW t, Distinct(s)
  PROVE  /\ Without(s, t) \in Seq(S)
         /\ Distinct(Without(s, t))
         /\ \A k \in 1 .. Len(Without(s, t)) : Without(s, t)[k] # t
<1>1. CASE t \notin Range(s)
  <2>1. Without(s, t) = s
    BY <1>1 DEF Without
  <2>2. \A k \in 1 .. Len(s) : s[k] # t
    BY <1>1, LenProperties DEF Range
  <2> QED
    BY <2>1, <2>2
<1>2. CASE t \in Range(s)
  <2> DEFINE i == IndexOf(s, t)
             w == RemoveAt(s, i)
  <2>1. i \in 1 .. Len(s) /\ s[i] = t /\ Len(s) \in Nat
    BY <1>2, IndexOfQueued, LenProperties
  <2> HIDE DEF i
  <2>2. /\ w \in Seq(S) /\ Len(w) = Len(s) - 1
        /\ \A k \in 1 .. Len(s) - 1 : w[k] = IF k < i THEN s[k] ELSE s[k + 1]
    BY <2>1, RemoveAtShifts
  <2>3. Without(s, t) = w
    BY <1>2 DEF Without, i
  <2> HIDE DEF w
  <2>4. Distinct(w)
    BY <2>1, <2>2 DEF Distinct
  <2>5. \A k \in 1 .. Len(w) : w[k] # t
    BY <2>1, <2>2 DEF Distinct
  <2> QED
    BY <2>2, <2>3, <2>4, <2>5
<1> QED
  BY <1>1, <1>2

(* appendQueuedChatTurn *)
LEMMA EnqueueQueue ==
  ASSUME NEW S, NEW s \in Seq(S), NEW t \in S, Distinct(s)
  PROVE  Enqueue(s, t) \in Seq(S) /\ Distinct(Enqueue(s, t))
<1> DEFINE w == Without(s, t)
           e == Append(w, t)
<1>1. w \in Seq(S) /\ Distinct(w) /\ (\A k \in 1 .. Len(w) : w[k] # t) /\ Len(w) \in Nat
  BY WithoutQueue, LenProperties
<1> HIDE DEF w
<1>2. /\ e \in Seq(S) /\ Len(e) = Len(w) + 1
      /\ \A k \in 1 .. Len(w) : e[k] = w[k]
      /\ e[Len(w) + 1] = t
  BY <1>1, AppendProperties
<1> HIDE DEF e
<1>3. Distinct(e)
  BY <1>1, <1>2 DEF Distinct
<1> QED
  BY <1>2, <1>3 DEF Enqueue, e, w

(* promoteQueuedChatTurn *)
LEMMA PromoteQueue ==
  ASSUME NEW S, NEW s \in Seq(S), NEW t, Distinct(s)
  PROVE  Promote(s, t) \in Seq(S) /\ Distinct(Promote(s, t))
<1>1. CASE t \notin Range(s)
  BY <1>1 DEF Promote
<1>2. CASE t \in Range(s)
  <2> DEFINE w == Without(s, t)
             p == <<t>> \o w
  <2>1. w \in Seq(S) /\ Distinct(w) /\ (\A k \in 1 .. Len(w) : w[k] # t) /\ Len(w) \in Nat
    BY WithoutQueue, LenProperties
  <2>2. t \in S /\ <<t>> \in Seq(S) /\ Len(<<t>>) = 1 /\ <<t>>[1] = t
    BY <1>2, IndexOfQueued
  <2> HIDE DEF w
  <2>3. /\ p \in Seq(S) /\ Len(p) = 1 + Len(w)
        /\ \A k \in 1 .. 1 + Len(w) : p[k] = IF k <= 1 THEN <<t>>[k] ELSE w[k - 1]
    BY <2>1, <2>2, ConcatProperties
  <2>4. p[1] = t /\ \A k \in 2 .. 1 + Len(w) : p[k] = w[k - 1]
    BY <2>1, <2>2, <2>3
  <2> HIDE DEF p
  <2>5. \A k \in 1 .. 1 + Len(w) :
          /\ k = 1 => p[k] = t
          /\ k # 1 => k - 1 \in 1 .. Len(w) /\ p[k] = w[k - 1]
    BY <2>1, <2>4
  <2>6. Distinct(p)
    <3> SUFFICES ASSUME NEW k \in 1 .. 1 + Len(w), NEW l \in 1 .. 1 + Len(w), p[k] = p[l]
                 PROVE  k = l
      BY <2>3 DEF Distinct
    <3>1. CASE k = 1 \/ l = 1
      BY <3>1, <2>1, <2>5
    <3>2. CASE k # 1 /\ l # 1
      <4>1. k - 1 \in 1 .. Len(w) /\ l - 1 \in 1 .. Len(w) /\ w[k - 1] = w[l - 1]
        BY <3>2, <2>5
      <4>2. k - 1 = l - 1
        BY <4>1, <2>1 DEF Distinct
      <4> QED
        BY <4>2, <2>1
    <3> QED
      BY <3>1, <3>2
  <2> QED
    BY <1>2, <2>3, <2>6 DEF Promote, p, w
<1> QED
  BY <1>1, <1>2

(* What a turn that was not accepted goes through. *)
LEMMA RequeueQueue ==
  ASSUME NEW S, NEW s \in Seq(S), NEW t \in S, Distinct(s)
  PROVE  Requeue(s, t) \in Seq(S) /\ Distinct(Requeue(s, t))
BY EnqueueQueue, PromoteQueue DEF Requeue

(* Exchanging two entries. *)
LEMMA ExchangeQueue ==
  ASSUME NEW S, NEW s \in Seq(S), NEW i \in 1 .. Len(s), NEW j \in 1 .. Len(s), i # j, Distinct(s)
  PROVE  LET x == [s EXCEPT ![i] = s[j], ![j] = s[i]]
         IN x \in Seq(S) /\ Distinct(x)
<1> DEFINE y == [s EXCEPT ![i] = s[j]]
           x == [y EXCEPT ![j] = s[i]]
<1>1. s[i] \in S /\ s[j] \in S /\ Len(s) \in Nat
  BY ElementOfSeq, LenProperties
<1>2. y \in Seq(S) /\ Len(y) = Len(s)
      /\ \A k \in 1 .. Len(s) : y[k] = IF k = i THEN s[j] ELSE s[k]
  BY <1>1, ExceptSeq
<1> HIDE DEF y
<1>3. x \in Seq(S) /\ Len(x) = Len(s)
      /\ \A k \in 1 .. Len(s) : x[k] = IF k = j THEN s[i] ELSE y[k]
  BY <1>1, <1>2, ExceptSeq
<1> HIDE DEF x
<1>4. Distinct(x)
  BY <1>1, <1>2, <1>3 DEF Distinct
<1> QED
  BY <1>3, <1>4 DEF x, y

(* moveQueuedChatTurn *)
LEMMA MoveQueue ==
  ASSUME NEW S, NEW s \in Seq(S), NEW t, Distinct(s)
  PROVE  /\ MoveUp(s, t) \in Seq(S) /\ Distinct(MoveUp(s, t))
         /\ MoveDown(s, t) \in Seq(S) /\ Distinct(MoveDown(s, t))
<1>1. ASSUME t \in Range(s)
      PROVE  IndexOf(s, t) \in 1 .. Len(s) /\ s[IndexOf(s, t)] = t /\ Len(s) \in Nat
  BY <1>1, IndexOfQueued, LenProperties
<1>2. MoveUp(s, t) \in Seq(S) /\ Distinct(MoveUp(s, t))
  <2>1. CASE t \in Range(s) /\ IndexOf(s, t) > 1
    <3> DEFINE i == IndexOf(s, t)
    <3> DEFINE j == i - 1
    <3>1. i \in 1 .. Len(s) /\ j \in 1 .. Len(s) /\ i # j
      BY <1>1, <2>1
    <3>2. MoveUp(s, t) = [s EXCEPT ![i] = s[j], ![j] = s[i]]
      BY <1>1, <2>1 DEF MoveUp
    <3> HIDE DEF i, j
    <3>3. /\ [s EXCEPT ![i] = s[j], ![j] = s[i]] \in Seq(S)
          /\ Distinct([s EXCEPT ![i] = s[j], ![j] = s[i]])
      BY <3>1, ExchangeQueue
    <3> QED
      BY <3>2, <3>3
  <2> QED
    BY <2>1 DEF MoveUp
<1>3. MoveDown(s, t) \in Seq(S) /\ Distinct(MoveDown(s, t))
  <2>1. CASE t \in Range(s) /\ IndexOf(s, t) < Len(s)
    <3> DEFINE i == IndexOf(s, t)
    <3> DEFINE j == i + 1
    <3>1. i \in 1 .. Len(s) /\ j \in 1 .. Len(s) /\ i # j
      BY <1>1, <2>1
    <3>2. MoveDown(s, t) = [s EXCEPT ![i] = s[j], ![j] = s[i]]
      BY <1>1, <2>1 DEF MoveDown
    <3> HIDE DEF i, j
    <3>3. /\ [s EXCEPT ![i] = s[j], ![j] = s[i]] \in Seq(S)
          /\ Distinct([s EXCEPT ![i] = s[j], ![j] = s[i]])
      BY <3>1, ExchangeQueue
    <3> QED
      BY <3>2, <3>3
  <2> QED
    BY <2>1 DEF MoveDown
<1> QED
  BY <1>2, <1>3

(* takeNextQueuedChatTurn *)
LEMMA TailDistinct ==
  ASSUME NEW S, NEW s \in Seq(S), s # <<>>, Distinct(s)
  PROVE  Tail(s) \in Seq(S) /\ Distinct(Tail(s))
BY HeadTailProperties, LenProperties DEF Distinct

-----------------------------------------------------------------------------
(* A turn that occurs once is found where it is. *)
LEMMA IndexOfDistinct ==
  ASSUME NEW S, NEW s \in Seq(S), NEW i \in 1 .. Len(s), Distinct(s)
  PROVE  s[i] \in Range(s) /\ IndexOf(s, s[i]) = i
<1>1. DOMAIN s = 1 .. Len(s)
  BY LenProperties
<1>2. s[i] \in Range(s)
  BY <1>1 DEF Range
<1>3. IndexOf(s, s[i]) \in 1 .. Len(s) /\ s[IndexOf(s, s[i])] = s[i]
  BY <1>2, IndexOfQueued
<1> QED
  BY <1>2, <1>3 DEF Distinct

(* The slot resolves to a place inside or just after the queue. *)
LEMMA SlotPositionRange ==
  ASSUME NEW S, NEW s \in Seq(S), NEW slot, slot.index \in Nat
  PROVE  SlotPosition(s, slot) \in 1 .. Len(s) + 1
<1>1. Len(s) \in Nat
  BY LenProperties
<1>2. \A u \in Range(s) : IndexOf(s, u) \in 1 .. Len(s)
  BY IndexOfQueued
<1> QED
  BY <1>1, <1>2 DEF SlotPosition

(* A turn that is not in the queue can be inserted anywhere. *)
LEMMA InsertAtQueue ==
  ASSUME NEW S, NEW w \in Seq(S), NEW n \in 1 .. Len(w) + 1, NEW t \in S, Distinct(w),
         \A k \in 1 .. Len(w) : w[k] # t
  PROVE  InsertAt(w, n, t) \in Seq(S) /\ Distinct(InsertAt(w, n, t))
<1> DEFINE x == InsertAt(w, n, t)
<1>1. Len(w) \in Nat
  BY LenProperties
<1>2. /\ x \in Seq(S) /\ Len(x) = Len(w) + 1
      /\ \A k \in 1 .. Len(w) + 1 : x[k] = IF k < n THEN w[k] ELSE IF k = n THEN t ELSE w[k - 1]
  BY InsertAtShifts
<1> HIDE DEF x
<1> DEFINE back(k) == IF k < n THEN k ELSE k - 1
<1>3. \A k \in 1 .. Len(w) + 1 :
        /\ k = n => x[k] = t
        /\ k # n => back(k) \in 1 .. Len(w) /\ x[k] = w[back(k)]
  BY <1>1, <1>2
<1>4. \A k, l \in 1 .. Len(w) + 1 : k # n /\ l # n /\ back(k) = back(l) => k = l
  BY <1>1
<1> HIDE DEF back
<1>5. ASSUME NEW k \in 1 .. Len(w) + 1, NEW l \in 1 .. Len(w) + 1, x[k] = x[l]
      PROVE  k = l
  <2>1. CASE k = n \/ l = n
    BY <2>1, <1>3, <1>5
  <2>2. CASE k # n /\ l # n
    <3>1. w[back(k)] = w[back(l)] /\ back(k) \in 1 .. Len(w) /\ back(l) \in 1 .. Len(w)
      BY <1>3, <1>5, <2>2
    <3>2. back(k) = back(l)
      BY <3>1 DEF Distinct
    <3> QED
      BY <3>2, <1>4, <2>2
  <2> QED
    BY <2>1, <2>2
<1> QED
  BY <1>2, <1>5 DEF Distinct, x

(* insertQueuedChatTurnAtSlot *)
LEMMA InsertAtSlotQueue ==
  ASSUME NEW S, NEW s \in Seq(S), NEW t \in S, NEW slot, slot.index \in Nat, Distinct(s)
  PROVE  InsertAtSlot(s, t, slot) \in Seq(S) /\ Distinct(InsertAtSlot(s, t, slot))
<1> DEFINE w == Without(s, t)
           n == SlotPosition(w, slot)
<1>1. w \in Seq(S) /\ Distinct(w) /\ (\A k \in 1 .. Len(w) : w[k] # t)
  BY WithoutQueue
<1>2. n \in 1 .. Len(w) + 1
  BY <1>1, SlotPositionRange
<1> HIDE DEF w, n
<1>3. InsertAt(w, n, t) \in Seq(S) /\ Distinct(InsertAt(w, n, t))
  BY <1>1, <1>2, InsertAtQueue
<1> QED
  BY <1>3 DEF InsertAtSlot, w, n

(* Another turn that is queued stays queued. *)
LEMMA WithoutKeeps ==
  ASSUME NEW S, NEW s \in Seq(S), NEW t, NEW u \in Range(s), u # t
  PROVE  u \in Range(Without(s, t))
<1>1. CASE t \notin Range(s)
  BY <1>1 DEF Without
<1>2. CASE t \in Range(s)
  <2> DEFINE i == IndexOf(s, t)
             w == RemoveAt(s, i)
  <2>1. i \in 1 .. Len(s) /\ s[i] = t /\ Len(s) \in Nat
    BY <1>2, IndexOfQueued, LenProperties
  <2>2. PICK j \in 1 .. Len(s) : s[j] = u
    BY LenProperties DEF Range
  <2> HIDE DEF i
  <2>3. /\ w \in Seq(S) /\ Len(w) = Len(s) - 1
        /\ \A k \in 1 .. Len(s) - 1 : w[k] = IF k < i THEN s[k] ELSE s[k + 1]
    BY <2>1, RemoveAtShifts
  <2>4. DOMAIN w = 1 .. Len(s) - 1
    BY <2>3, LenProperties
  <2> HIDE DEF w
  <2>5. CASE j < i
    <3>1. j \in DOMAIN w /\ w[j] = u
      BY <2>1, <2>2, <2>3, <2>4, <2>5
    <3> QED
      BY <3>1, <1>2 DEF Range, Without, w, i
  <2>6. CASE j > i
    <3>1. j - 1 \in DOMAIN w /\ ~(j - 1 < i) /\ (j - 1) + 1 = j
      BY <2>1, <2>2, <2>4, <2>6
    <3>2. w[j - 1] = u
      BY <3>1, <2>2, <2>3, <2>4
    <3> QED
      BY <3>1, <3>2, <1>2 DEF Range, Without, w, i
  <2> QED
    BY <2>1, <2>2, <2>5, <2>6
<1> QED
  BY <1>1, <1>2

(* What an operation leaves in the queue, as a set. *)
LEMMA InRange ==
  ASSUME NEW S, NEW s \in Seq(S), NEW t
  PROVE  t \in Range(s) <=> \E i \in 1 .. Len(s) : s[i] = t
<1>1. DOMAIN s = 1 .. Len(s)
  BY LenProperties
<1> QED
  BY <1>1 DEF Range

LEMMA WithoutRange ==
  ASSUME NEW S, NEW s \in Seq(S), NEW t, Distinct(s)
  PROVE  Range(Without(s, t)) = Range(s) \ {t}
<1> DEFINE w == Without(s, t)
<1>1. w \in Seq(S) /\ \A k \in 1 .. Len(w) : w[k] # t
  BY WithoutQueue
<1>2. t \notin Range(w)
  BY <1>1, InRange
<1>3. \A u \in Range(s) : u # t => u \in Range(w)
  BY WithoutKeeps
<1>4. ASSUME NEW u \in Range(w) PROVE u \in Range(s)
  <2>1. CASE t \notin Range(s)
    BY <1>4, <2>1 DEF Without
  <2>2. CASE t \in Range(s)
    <3> DEFINE i == IndexOf(s, t)
    <3>1. i \in 1 .. Len(s) /\ Len(s) \in Nat
      BY <2>2, IndexOfQueued, LenProperties
    <3>2. w = RemoveAt(s, i)
      BY <2>2 DEF Without
    <3> HIDE DEF i
    <3>3. /\ Len(w) = Len(s) - 1
          /\ \A k \in 1 .. Len(s) - 1 : w[k] = IF k < i THEN s[k] ELSE s[k + 1]
      BY <3>1, <3>2, RemoveAtShifts
    <3> HIDE DEF w
    <3>4. PICK k \in 1 .. Len(w) : w[k] = u
      BY <1>1, <1>4, InRange
    <3>5. k \in 1 .. Len(s) /\ k + 1 \in 1 .. Len(s) /\ (u = s[k] \/ u = s[k + 1])
      BY <3>1, <3>3, <3>4
    <3> QED
      BY <3>5, InRange
  <2> QED
    BY <2>1, <2>2
<1> QED
  BY <1>2, <1>3, <1>4

LEMMA AppendRange ==
  ASSUME NEW S, NEW s \in Seq(S), NEW t \in S
  PROVE  Range(Append(s, t)) = Range(s) \cup {t}
<1> DEFINE e == Append(s, t)
<1>1. Len(s) \in Nat
  BY LenProperties
<1>2. /\ e \in Seq(S) /\ Len(e) = Len(s) + 1
      /\ \A k \in 1 .. Len(s) : e[k] = s[k]
      /\ e[Len(s) + 1] = t
  BY AppendProperties
<1> HIDE DEF e
<1>3. \A u : u \in Range(e) <=> u \in Range(s) \/ u = t
  <2>1. \A k \in 1 .. Len(s) + 1 : k \in 1 .. Len(s) \/ k = Len(s) + 1
    BY <1>1
  <2>2. \A k \in 1 .. Len(s) : k \in 1 .. Len(e)
    BY <1>1, <1>2
  <2>3. Len(s) + 1 \in 1 .. Len(e)
    BY <1>1, <1>2
  <2> QED
    BY <1>2, <2>1, <2>2, <2>3, InRange
<1> QED
  BY <1>3 DEF e

LEMMA EnqueueRange ==
  ASSUME NEW S, NEW s \in Seq(S), NEW t \in S, Distinct(s)
  PROVE  Range(Enqueue(s, t)) = Range(s) \cup {t}
BY WithoutQueue, WithoutRange, AppendRange DEF Enqueue

LEMMA PromoteRange ==
  ASSUME NEW S, NEW s \in Seq(S), NEW t, Distinct(s)
  PROVE  Range(Promote(s, t)) = Range(s)
<1>1. CASE t \in Range(s)
  <2> DEFINE w == Without(s, t)
             h == <<t>>
  <2>1. t \in S /\ w \in Seq(S) /\ Range(w) = Range(s) \ {t}
    BY <1>1, IndexOfQueued, WithoutQueue, WithoutRange
  <2>2. h \in Seq(S) /\ Range(h) = {t}
    BY <2>1 DEF Range
  <2> HIDE DEF w, h
  <2>3. Range(h \o w) = {t} \cup (Range(s) \ {t})
    BY <2>1, <2>2, RangeConcatenation
  <2> QED
    BY <1>1, <2>3 DEF Promote, w, h
<1>2. CASE t \notin Range(s)
  BY <1>2 DEF Promote
<1> QED
  BY <1>1, <1>2

LEMMA InsertAtRange ==
  ASSUME NEW S, NEW s \in Seq(S), NEW n \in 1 .. Len(s) + 1, NEW t \in S
  PROVE  Range(InsertAt(s, n, t)) = Range(s) \cup {t}
<1> DEFINE x == InsertAt(s, n, t)
<1>1. Len(s) \in Nat
  BY LenProperties
<1>2. /\ x \in Seq(S) /\ Len(x) = Len(s) + 1
      /\ \A k \in 1 .. Len(s) + 1 : x[k] = IF k < n THEN s[k] ELSE IF k = n THEN t ELSE s[k - 1]
  BY InsertAtShifts
<1> HIDE DEF x
<1>3. ASSUME NEW u \in Range(x) PROVE u \in Range(s) \cup {t}
  <2>1. PICK k \in 1 .. Len(x) : x[k] = u
    BY <1>2, <1>3, InRange
  <2>2. u = t \/ (k \in 1 .. Len(s) /\ s[k] = u) \/ (k - 1 \in 1 .. Len(s) /\ s[k - 1] = u)
    BY <1>1, <1>2, <2>1
  <2> QED
    BY <2>2, InRange
<1>4. ASSUME NEW u \in Range(s) PROVE u \in Range(x)
  <2>1. PICK k \in 1 .. Len(s) : s[k] = u
    BY <1>4, InRange
  <2>2. CASE k < n
    <3>1. k \in 1 .. Len(x) /\ x[k] = u
      BY <1>1, <1>2, <2>1, <2>2
    <3> QED
      BY <1>2, <3>1, InRange
  <2>3. CASE ~(k < n)
    <3>1. k + 1 \in 1 .. Len(x) /\ ~(k + 1 < n) /\ k + 1 # n /\ (k + 1) - 1 = k
      BY <1>1, <1>2, <2>1, <2>3
    <3>2. x[k + 1] = u
      BY <1>2, <2>1, <3>1
    <3> QED
      BY <1>2, <3>1, <3>2, InRange
  <2> QED
    BY <2>2, <2>3
<1>5. t \in Range(x)
  <2>1. n \in 1 .. Len(x) /\ x[n] = t
    BY <1>1, <1>2
  <2> QED
    BY <1>2, <2>1, InRange
<1> QED
  BY <1>3, <1>4, <1>5 DEF x

LEMMA InsertAtSlotRange ==
  ASSUME NEW S, NEW s \in Seq(S), NEW t \in S, NEW slot, slot.index \in Nat, Distinct(s)
  PROVE  Range(InsertAtSlot(s, t, slot)) = Range(s) \cup {t}
<1> DEFINE w == Without(s, t)
<1>1. w \in Seq(S) /\ Range(w) = Range(s) \ {t}
  BY WithoutQueue, WithoutRange
<1> HIDE DEF w
<1>2. SlotPosition(w, slot) \in 1 .. Len(w) + 1
  BY <1>1, SlotPositionRange
<1>3. Range(InsertAt(w, SlotPosition(w, slot), t)) = Range(w) \cup {t}
  BY <1>1, <1>2, InsertAtRange
<1> QED
  BY <1>1, <1>3 DEF InsertAtSlot, w

LEMMA ExchangeRange ==
  ASSUME NEW S, NEW s \in Seq(S), NEW i \in 1 .. Len(s), NEW j \in 1 .. Len(s)
  PROVE  Range([s EXCEPT ![i] = s[j], ![j] = s[i]]) = Range(s)
<1> DEFINE x == [s EXCEPT ![i] = s[j], ![j] = s[i]]
<1>1. DOMAIN s = 1 .. Len(s)
  BY LenProperties
<1>2. DOMAIN x = DOMAIN s /\ \A k \in DOMAIN s : x[k] = IF k = j THEN s[i] ELSE IF k = i THEN s[j] ELSE s[k]
  OBVIOUS
<1> HIDE DEF x
<1>3. \A u : u \in Range(x) => u \in Range(s)
  BY <1>1, <1>2 DEF Range
<1>4. \A u : u \in Range(s) => u \in Range(x)
  BY <1>1, <1>2 DEF Range
<1> QED
  BY <1>3, <1>4 DEF x

LEMMA MoveRange ==
  ASSUME NEW S, NEW s \in Seq(S), NEW t
  PROVE  Range(MoveUp(s, t)) = Range(s) /\ Range(MoveDown(s, t)) = Range(s)
<1> DEFINE i == IndexOf(s, t)
<1>1. ASSUME t \in Range(s)
      PROVE  i \in 1 .. Len(s) /\ s[i] = t /\ Len(s) \in Nat
  BY <1>1, IndexOfQueued, LenProperties
<1>2. Range(MoveUp(s, t)) = Range(s)
  <2>1. CASE t \in Range(s) /\ i > 1
    <3> DEFINE j == i - 1
    <3>1. i \in 1 .. Len(s) /\ j \in 1 .. Len(s)
      BY <1>1, <2>1
    <3>2. MoveUp(s, t) = [s EXCEPT ![i] = s[j], ![j] = s[i]]
      BY <1>1, <2>1 DEF MoveUp
    <3> HIDE DEF i, j
    <3>3. Range([s EXCEPT ![i] = s[j], ![j] = s[i]]) = Range(s)
      BY <3>1, ExchangeRange
    <3> QED
      BY <3>2, <3>3
  <2> QED
    BY <2>1 DEF MoveUp
<1>3. Range(MoveDown(s, t)) = Range(s)
  <2>1. CASE t \in Range(s) /\ i < Len(s)
    <3> DEFINE j == i + 1
    <3>1. i \in 1 .. Len(s) /\ j \in 1 .. Len(s)
      BY <1>1, <2>1
    <3>2. MoveDown(s, t) = [s EXCEPT ![i] = s[j], ![j] = s[i]]
      BY <1>1, <2>1 DEF MoveDown
    <3> HIDE DEF i, j
    <3>3. Range([s EXCEPT ![i] = s[j], ![j] = s[i]]) = Range(s)
      BY <3>1, ExchangeRange
    <3> QED
      BY <3>2, <3>3
  <2> QED
    BY <2>1 DEF MoveDown
<1> QED
  BY <1>2, <1>3

LEMMA TailRange ==
  ASSUME NEW S, NEW s \in Seq(S), s # <<>>, Distinct(s)
  PROVE  Range(Tail(s)) = Range(s) \ {Head(s)} /\ Head(s) \in Range(s)
<1> DEFINE r == Tail(s)
<1>1. Len(s) \in Nat /\ Len(s) # 0
  BY LenProperties, EmptySeq
<1>2. /\ r \in Seq(S) /\ Len(r) = Len(s) - 1 /\ Head(s) = s[1]
      /\ \A k \in 1 .. Len(r) : r[k] = s[k + 1]
  BY HeadTailProperties
<1> HIDE DEF r
<1>3. ASSUME NEW u \in Range(r) PROVE u \in Range(s) \ {s[1]}
  <2>1. PICK k \in 1 .. Len(r) : r[k] = u
    BY <1>2, <1>3, InRange
  <2>2. k + 1 \in 1 .. Len(s) /\ s[k + 1] = u /\ k + 1 # 1
    BY <1>1, <1>2, <2>1
  <2>3. 1 \in 1 .. Len(s)
    BY <1>1
  <2> QED
    BY <2>2, <2>3, InRange DEF Distinct
<1>4. ASSUME NEW u \in Range(s), u # s[1] PROVE u \in Range(r)
  <2>1. PICK k \in 1 .. Len(s) : s[k] = u
    BY <1>4, InRange
  <2>2. k - 1 \in 1 .. Len(r) /\ (k - 1) + 1 = k
    BY <1>1, <1>2, <1>4, <2>1
  <2>3. r[k - 1] = u
    BY <1>2, <2>1, <2>2
  <2> QED
    BY <1>2, <2>2, <2>3, InRange
<1>5. s[1] \in Range(s)
  BY <1>1, InRange
<1> QED
  BY <1>2, <1>3, <1>4, <1>5 DEF r

(* Putting an entry back where it was removed *)
LEMMA InsertedBack ==
  ASSUME NEW S, NEW s \in Seq(S), NEW w \in Seq(S), NEW i \in 1 .. Len(s), NEW t \in S,
         s[i] = t, Len(w) = Len(s) - 1,
         \A k \in 1 .. Len(s) - 1 : w[k] = IF k < i THEN s[k] ELSE s[k + 1]
  PROVE  InsertAt(w, i, t) = s
<1> DEFINE x == InsertAt(w, i, t)
<1>1. Len(s) \in Nat /\ Len(w) \in Nat
  BY LenProperties
<1>2. i \in 1 .. Len(w) + 1
  BY <1>1
<1>3. /\ x \in Seq(S) /\ Len(x) = Len(w) + 1
      /\ \A k \in 1 .. Len(w) + 1 : x[k] = IF k < i THEN w[k] ELSE IF k = i THEN t ELSE w[k - 1]
  BY <1>2, InsertAtShifts
<1> HIDE DEF x
<1>4. Len(x) = Len(s)
  BY <1>1, <1>3
<1>5. ASSUME NEW k \in 1 .. Len(x) PROVE x[k] = s[k]
  <2>1. CASE k < i
    <3>1. x[k] = w[k] /\ k \in 1 .. Len(s) - 1
      BY <2>1, <1>1, <1>3, <1>4
    <3> QED
      BY <2>1, <3>1
  <2>2. CASE k = i
    BY <2>2, <1>1, <1>3, <1>4
  <2>3. CASE k > i
    <3>1. x[k] = w[k - 1] /\ k - 1 \in 1 .. Len(s) - 1 /\ ~(k - 1 < i)
      BY <2>3, <1>1, <1>3, <1>4
    <3>2. w[k - 1] = s[(k - 1) + 1] /\ (k - 1) + 1 = k
      BY <3>1
    <3> QED
      BY <3>1, <3>2
  <2> QED
    BY <2>1, <2>2, <2>3, <1>1, <1>4
<1> QED
  BY <1>3, <1>4, <1>5, SeqEqual DEF x

(* Taking a turn out for editing and restoring it at once leaves the queue as *)
(* it was, wherever the turn stood.                                           *)
THEOREM EditThenRestore ==
  ASSUME NEW S, NEW s \in Seq(S), NEW t \in Range(s), NEW c, Distinct(s), None \notin S
  PROVE  InsertAtSlot(Without(s, t), t, SlotFor(c, s, t)) = s
<1> DEFINE i == IndexOf(s, t)
           w == RemoveAt(s, i)
           slot == SlotFor(c, s, t)
<1>1. i \in 1 .. Len(s) /\ s[i] = t /\ t \in S /\ Len(s) \in Nat
  BY IndexOfQueued, LenProperties
<1>2. /\ slot.prev = IF i > 1 THEN s[i - 1] ELSE None
      /\ slot.next = IF i < Len(s) THEN s[i + 1] ELSE None
      /\ slot.index = i - 1
  BY DEF SlotFor
<1>3. Without(s, t) = w
  BY DEF Without
<1> HIDE DEF i, slot
<1>4. /\ w \in Seq(S) /\ Len(w) = Len(s) - 1 /\ Len(w) \in Nat
      /\ \A k \in 1 .. Len(s) - 1 : w[k] = IF k < i THEN s[k] ELSE s[k + 1]
  BY <1>1, RemoveAtShifts, LenProperties
<1>5. Distinct(w) /\ \A k \in 1 .. Len(w) : w[k] # t
  BY <1>3, WithoutQueue
<1> HIDE DEF w
<1>6. Without(w, t) = w
  <2>1. t \notin Range(w)
    BY <1>4, <1>5, LenProperties DEF Range
  <2> QED
    BY <2>1 DEF Without
<1>7. None \notin Range(w)
  BY <1>4, LenProperties, ElementOfSeq DEF Range
<1>8. SlotPosition(w, slot) = i
  <2>1. CASE i < Len(s)
    <3>1. i \in 1 .. Len(w) /\ w[i] = s[i + 1] /\ slot.next = w[i]
      BY <2>1, <1>1, <1>2, <1>4
    <3>2. slot.next \in Range(w) /\ IndexOf(w, slot.next) = i
      BY <3>1, <1>4, <1>5, IndexOfDistinct
    <3> QED
      BY <3>2 DEF SlotPosition
  <2>2. CASE i = Len(s) /\ i > 1
    <3>1. i - 1 \in 1 .. Len(w) /\ w[i - 1] = s[i - 1] /\ slot.prev = w[i - 1] /\ slot.next = None
      BY <2>2, <1>1, <1>2, <1>4
    <3>2. slot.prev \in Range(w) /\ IndexOf(w, slot.prev) = i - 1
      BY <3>1, <1>4, <1>5, IndexOfDistinct
    <3>3. SlotPosition(w, slot) = (i - 1) + 1
      BY <3>1, <3>2, <1>7 DEF SlotPosition
    <3> QED
      BY <3>3, <1>1
  <2>3. CASE i = Len(s) /\ i = 1
    <3>0. ~(i > 1) /\ ~(i < Len(s)) /\ i - 1 = 0 /\ Len(s) - 1 = 0
      BY <2>3
    <3>1. Len(w) = 0 /\ slot.next = None /\ slot.prev = None /\ slot.index = 0
      BY <3>0, <1>2, <1>4
    <3>2. SlotPosition(w, slot) = 0 + 1
      BY <3>1, <1>7 DEF SlotPosition
    <3> QED
      BY <3>2, <2>3
  <2> QED
    BY <2>1, <2>2, <2>3, <1>1
<1>9. InsertAt(w, i, t) = s
  BY <1>1, <1>4, InsertedBack
<1> QED
  BY <1>3, <1>6, <1>8, <1>9 DEF InsertAtSlot, slot
=============================================================================
