--------------------------- MODULE TerminalProofs ---------------------------
(***************************************************************************)
(* What holds of a terminal: of its output on the way to the screen, for any *)
(* number of producers, any length of the output and any sizes of the ring   *)
(* and the tail; and of the SSH session behind it, for any number of          *)
(* connections and attempts and any kinds of tab.                            *)
(***************************************************************************)
EXTENDS TerminalStream, SshSession, SequenceTheorems, WellFoundedInduction, TLAPS

Chunk == {c \in [start : Nat, end : Nat] : c.start < c.end}
Snapshot == {s \in [start : Nat, end : Nat, truncated : BOOLEAN] : s.start <= s.end}
Screen == [screen : Seq(Nat), last : Nat, rendered : BOOLEAN]

(* What a view shows is a run of the output that ends at its offset. *)
IsRun(v) ==
  /\ v \in Screen
  /\ v.rendered \/ v.screen = <<>>
  /\ Len(v.screen) <= v.last
  /\ v.screen = Bytes(v.last - Len(v.screen), v.last)

(* The first byte it shows. *)
Back(v) == v.last - Len(v.screen)

(* Where a chain of chunks begins that ends at e, and that it is one. *)
First(s, e) == IF s = <<>> THEN e ELSE s[1].start
Chain(s, e) == \A i \in 1 .. Len(s) : s[i].end = IF i = Len(s) THEN e ELSE s[i + 1].start

-----------------------------------------------------------------------------
(* Runs of bytes. *)

LEMMA BytesProperties ==
  ASSUME NEW a \in Nat, NEW b \in Nat, a <= b
  PROVE  /\ Bytes(a, b) \in Seq(Nat) /\ Len(Bytes(a, b)) = b - a
         /\ \A i \in 1 .. b - a : Bytes(a, b)[i] = a + i - 1
<1> DEFINE n == b - a
<1>1. n \in Nat
  OBVIOUS
<1>2. Bytes(a, b) \in [1 .. n -> Nat]
  BY DEF Bytes
<1>3. Bytes(a, b) \in Seq(Nat)
  BY <1>1, <1>2, SeqDef
<1>4. Len(Bytes(a, b)) = n
  <2>1. DOMAIN Bytes(a, b) = 1 .. Len(Bytes(a, b)) /\ Len(Bytes(a, b)) \in Nat
    BY <1>3, LenProperties
  <2>2. DOMAIN Bytes(a, b) = 1 .. n
    BY <1>2
  <2>3. QED BY <1>1, <2>1, <2>2
<1>5. QED BY <1>3, <1>4 DEF Bytes

(* Two runs that meet are one. *)
LEMMA BytesJoin ==
  ASSUME NEW a \in Nat, NEW b \in Nat, NEW c \in Nat, a <= b, b <= c
  PROVE  Bytes(a, b) \o Bytes(b, c) = Bytes(a, c)
<1> DEFINE s == Bytes(a, b)
           t == Bytes(b, c)
           u == Bytes(a, c)
<1>1. /\ s \in Seq(Nat) /\ Len(s) = b - a /\ \A i \in 1 .. b - a : s[i] = a + i - 1
      /\ t \in Seq(Nat) /\ Len(t) = c - b /\ \A i \in 1 .. c - b : t[i] = b + i - 1
      /\ u \in Seq(Nat) /\ Len(u) = c - a /\ \A i \in 1 .. c - a : u[i] = a + i - 1
  <2>1. a <= c
    OBVIOUS
  <2>2. s \in Seq(Nat) /\ Len(s) = b - a /\ \A i \in 1 .. b - a : s[i] = a + i - 1
    BY BytesProperties
  <2>3. t \in Seq(Nat) /\ Len(t) = c - b /\ \A i \in 1 .. c - b : t[i] = b + i - 1
    BY BytesProperties
  <2>4. u \in Seq(Nat) /\ Len(u) = c - a /\ \A i \in 1 .. c - a : u[i] = a + i - 1
    BY <2>1, BytesProperties
  <2>5. QED BY <2>2, <2>3, <2>4
<1> HIDE DEF s, t, u
<1>2. /\ s \o t \in Seq(Nat) /\ Len(s \o t) = Len(s) + Len(t)
      /\ \A i \in 1 .. Len(s) + Len(t) :
           (s \o t)[i] = IF i <= Len(s) THEN s[i] ELSE t[i - Len(s)]
  BY <1>1, ConcatProperties
<1>3. Len(s \o t) = Len(u)
  BY <1>1, <1>2
<1>4. \A i \in 1 .. Len(s \o t) : (s \o t)[i] = u[i]
  <2> TAKE i \in 1 .. Len(s \o t)
  <2>1. CASE i <= Len(s)
    BY <1>1, <1>2, <2>1
  <2>2. CASE ~(i <= Len(s))
    BY <1>1, <1>2, <2>2
  <2>3. QED BY <2>1, <2>2
<1>5. s \o t = u
  BY <1>1, <1>2, <1>3, <1>4, SeqEqual
<1>6. QED BY <1>5 DEF s, t, u

(* A run that is what a screen shows. *)
LEMMA WholeIsRun ==
  ASSUME NEW a \in Nat, NEW b \in Nat, a <= b, NEW v \in Screen,
         v.screen = Bytes(a, b), v.last = b, v.rendered \/ v.screen = <<>>
  PROVE  IsRun(v) /\ Back(v) = a
<1>1. Len(v.screen) = b - a
  BY BytesProperties
<1>2. b - Len(v.screen) = a
  BY <1>1
<1>3. QED BY <1>1, <1>2 DEF IsRun, Back

(* What is new goes behind what the screen shows. *)
LEMMA ExtendedIsRun ==
  ASSUME NEW v, IsRun(v), NEW b \in Nat, v.last <= b,
         NEW w \in Screen, w.screen = v.screen \o Bytes(v.last, b), w.last = b, w.rendered
  PROVE  IsRun(w) /\ Back(w) = Back(v)
<1> DEFINE a == Back(v)
           l == v.last
<1>1. a \in Nat /\ l \in Nat /\ a <= l /\ v.screen = Bytes(a, l) /\ l <= b
  BY LenProperties DEF IsRun, Screen, Back
<1> HIDE DEF a, l
<1>2. Bytes(a, l) \o Bytes(l, b) = Bytes(a, b)
  BY <1>1, BytesJoin
<1>3. v.screen \o Bytes(v.last, b) = Bytes(a, b)
  BY <1>1, <1>2 DEF l
<1>4. a <= b
  BY <1>1
<1>5. IsRun(w) /\ Back(w) = a
  BY <1>1, <1>3, <1>4, WholeIsRun
<1>6. QED BY <1>5 DEF a

(* writeTerminalChunk keeps a run; a chunk that leaves no hole moves the end *)
(* of the screen to its own and never its beginning.                         *)
LEMMA WrittenRun ==
  ASSUME NEW v, IsRun(v), NEW c \in Chunk
  PROVE  /\ IsRun(Written(v, c)) /\ c.end <= Written(v, c).last
         /\ c.start <= v.last => Back(Written(v, c)) = Back(v)
<1> DEFINE w == Written(v, c)
<1>0. /\ c.start \in Nat /\ c.end \in Nat /\ c.start <= c.end /\ c.start < c.end
      /\ v.last \in Nat /\ v.screen \in Seq(Nat)
  BY DEF Chunk, IsRun, Screen
<1>1. CASE c.end <= v.last
  BY <1>1 DEF Written
<1>2. CASE ~(c.end <= v.last) /\ c.start > v.last
  <2>1. /\ w \in Screen /\ w.screen = Bytes(c.start, c.end) /\ w.last = c.end
        /\ w.rendered
    <3>1. Bytes(c.start, c.end) \in Seq(Nat)
      BY <1>0, BytesProperties
    <3>2. QED BY <1>0, <1>2, <3>1 DEF Written, Screen
  <2> HIDE DEF w
  <2>2. IsRun(w)
    BY <1>0, <2>1, WholeIsRun
  <2>3. QED BY <1>0, <1>2, <2>1, <2>2 DEF w
<1>3. CASE ~(c.end <= v.last) /\ ~(c.start > v.last)
  <2>0. v.last <= c.end
    BY <1>0, <1>3
  <2>1. /\ w \in Screen /\ w.screen = v.screen \o Bytes(v.last, c.end) /\ w.last = c.end
        /\ w.rendered
    <3>1. v.screen \o Bytes(v.last, c.end) \in Seq(Nat)
      <4>1. Bytes(v.last, c.end) \in Seq(Nat)
        BY <1>0, <2>0, BytesProperties
      <4>2. QED BY <1>0, <4>1, ConcatProperties
    <3>2. QED BY <1>0, <1>3, <3>1 DEF Written, Screen
  <2> HIDE DEF w
  <2>2. IsRun(w) /\ Back(w) = Back(v)
    BY <1>0, <2>0, <2>1, ExtendedIsRun
  <2>3. QED BY <1>0, <2>1, <2>2 DEF w
<1>4. QED BY <1>1, <1>2, <1>3

(* applySnapshot keeps a run: it ends no earlier than the snapshot and       *)
(* begins where the snapshot or the screen before it began.                  *)
LEMMA AppliedRun ==
  ASSUME NEW v, IsRun(v), NEW s \in Snapshot
  PROVE  /\ IsRun(Applied(v, s)) /\ s.end <= Applied(v, s).last
         /\ Back(Applied(v, s)) \in {Back(v), s.start}
<1> DEFINE w == Applied(v, s)
           whole == Bytes(s.start, s.end)
           joined == v.screen \o Bytes(v.last, s.end)
<1>0. /\ s.start \in Nat /\ s.end \in Nat /\ s.start <= s.end /\ v.last \in Nat
      /\ v.rendered \in BOOLEAN /\ whole \in Seq(Nat) /\ v.screen \in Seq(Nat)
      /\ v = [screen |-> v.screen, last |-> v.last, rendered |-> v.rendered]
  BY BytesProperties DEF Snapshot, IsRun, Screen
<1>1. CASE ~v.rendered
  <2>1. w = [screen |-> v.screen \o whole, last |-> s.end, rendered |-> whole # <<>>]
    BY <1>1 DEF Applied
  <2>2. v.screen \o whole = whole
    BY <1>0, <1>1, ConcatEmptySeq DEF IsRun
  <2>3. w = [screen |-> whole, last |-> s.end, rendered |-> whole # <<>>]
    BY <2>1, <2>2
  <2> HIDE DEF w
  <2>4. /\ w \in Screen /\ w.screen = whole /\ w.last = s.end
        /\ w.rendered \/ w.screen = <<>>
    BY <1>0, <2>3 DEF Screen
  <2>5. IsRun(w) /\ Back(w) = s.start
    BY <1>0, <2>4, WholeIsRun
  <2>6. QED BY <1>0, <2>4, <2>5 DEF w
<1>2. CASE v.rendered /\ (s.start > v.last \/ s.truncated)
  <2>1. w = [v EXCEPT !.screen = whole, !.last = s.end]
    BY <1>2 DEF Applied
  <2> HIDE DEF w, whole
  <2>2. w \in Screen /\ w.screen = whole /\ w.last = s.end /\ w.rendered
    BY <1>0, <1>2, <2>1 DEF Screen
  <2>3. IsRun(w) /\ Back(w) = s.start
    BY <1>0, <2>2, WholeIsRun DEF whole
  <2>4. QED BY <1>0, <2>2, <2>3 DEF w
<1>3. CASE v.rendered /\ ~(s.start > v.last \/ s.truncated) /\ s.end > v.last
  <2>0. v.last <= s.end
    BY <1>0, <1>3
  <2>1. w = [v EXCEPT !.screen = joined, !.last = s.end]
    BY <1>3 DEF Applied
  <2> HIDE DEF w, joined
  <2>2. w \in Screen /\ w.screen = joined /\ w.last = s.end /\ w.rendered
    <3>1. joined \in Seq(Nat)
      <4>1. Bytes(v.last, s.end) \in Seq(Nat)
        BY <1>0, <2>0, BytesProperties
      <4>2. QED BY <1>0, <4>1, ConcatProperties DEF joined
    <3>2. QED BY <1>0, <1>3, <2>1, <3>1 DEF Screen
  <2>3. IsRun(w) /\ Back(w) = Back(v)
    BY <1>0, <2>0, <2>2, ExtendedIsRun DEF joined
  <2>4. QED BY <1>0, <2>2, <2>3 DEF w
<1>4. CASE v.rendered /\ ~(s.start > v.last \/ s.truncated) /\ ~(s.end > v.last)
  BY <1>0, <1>4 DEF Applied
<1>5. QED BY <1>1, <1>2, <1>3, <1>4

-----------------------------------------------------------------------------
(* The replay of the queue. *)

(* A set of natural numbers that is not empty has a least element. *)
LEMMA LeastNumber ==
  ASSUME NEW T, T \subseteq Nat, T # {} PROVE \E x \in T : \A y \in T : x <= y
<1>1. \E x \in T : \A y \in T : <<y, x>> \notin OpToRel(<, Nat)
  BY NatLessThanWellFounded, WFMin
<1>2. \A x, y \in Nat : <<y, x>> \notin OpToRel(<, Nat) => x <= y
  BY DEF OpToRel
<1>3. QED BY <1>1, <1>2

(* f is the first m steps of the replay. *)
Replays(v, q, m, f) == f = [n \in 0 .. m |-> IF n = 0 THEN v ELSE Written(f[n - 1], q[n])]

(* The replay is defined for every queue. *)
LEMMA ReplayExists ==
  ASSUME NEW v, NEW q, NEW k \in Nat PROVE \E f : Replays(v, q, k, f)
<1> DEFINE T == {m \in Nat : ~ \E f : Replays(v, q, m, f)}
<1> SUFFICES ASSUME T # {} PROVE FALSE
  OBVIOUS
<1>1. PICK m \in T : \A y \in T : m <= y
  BY LeastNumber
<1>2. m # 0
  <2> DEFINE f == [n \in 0 .. 0 |-> v]
  <2>1. Replays(v, q, 0, f)
    BY DEF Replays
  <2>2. QED BY <2>1
<1>3. m - 1 \in Nat /\ m - 1 \notin T
  BY <1>1, <1>2
<1>4. PICK f : Replays(v, q, m - 1, f)
  BY <1>3
<1> DEFINE g == [n \in 0 .. m |-> IF n = m THEN Written(f[m - 1], q[m]) ELSE f[n]]
           h == [n \in 0 .. m |-> IF n = 0 THEN v ELSE Written(g[n - 1], q[n])]
<1>5. \A n \in 0 .. m - 1 : f[n] = IF n = 0 THEN v ELSE Written(f[n - 1], q[n])
  BY <1>3, <1>4 DEF Replays
<1>6. \A n \in 0 .. m : g[n] = h[n]
  <2> TAKE n \in 0 .. m
  <2>1. CASE n = m
    <3>1. m - 1 \in 0 .. m /\ m - 1 # m
      BY <1>2
    <3>2. g[m - 1] = f[m - 1]
      BY <3>1
    <3>3. g[n] = Written(f[m - 1], q[m])
      BY <2>1
    <3>4. h[n] = Written(g[m - 1], q[m])
      BY <1>2, <2>1
    <3>5. QED BY <3>2, <3>3, <3>4
  <2>2. CASE n # m
    <3>1. n \in 0 .. m - 1 /\ g[n] = f[n]
      BY <2>2
    <3>2. CASE n = 0
      BY <1>5, <3>1, <3>2
    <3>3. CASE n # 0
      <4>1. n - 1 \in 0 .. m /\ n - 1 # m
        BY <3>3
      <4>2. g[n - 1] = f[n - 1]
        BY <4>1
      <4>3. h[n] = Written(g[n - 1], q[n])
        BY <3>3
      <4>4. f[n] = Written(f[n - 1], q[n])
        BY <1>5, <3>1, <3>3
      <4>5. QED BY <3>1, <4>2, <4>3, <4>4
    <3>4. QED BY <3>2, <3>3
  <2>3. QED BY <2>1, <2>2
<1>7. g = h
  BY <1>6
<1>8. Replays(v, q, m, g)
  BY <1>7 DEF Replays
<1>9. QED BY <1>8, <1>1

(* What replayBufferedChunks does, chunk by chunk. *)
LEMMA ReplayedSteps ==
  ASSUME NEW v, NEW S, NEW q \in Seq(S)
  PROVE  \E f : /\ f[0] = v /\ Replayed(v, q) = f[Len(q)]
                /\ \A n \in 1 .. Len(q) : f[n] = Written(f[n - 1], q[n])
<1> DEFINE f == CHOOSE f : f = [n \in 0 .. Len(q) |-> IF n = 0 THEN v ELSE Written(f[n - 1], q[n])]
<1>1. Len(q) \in Nat
  BY LenProperties
<1>2. f = [n \in 0 .. Len(q) |-> IF n = 0 THEN v ELSE Written(f[n - 1], q[n])]
  BY <1>1, ReplayExists DEF Replays
<1>3. Replayed(v, q) = f[Len(q)]
  BY DEF Replayed
<1> HIDE DEF f
<1>4. f[0] = v /\ \A n \in 1 .. Len(q) : f[n] = Written(f[n - 1], q[n])
  BY <1>1, <1>2
<1>5. QED BY <1>3, <1>4

(* Whatever chunks it replays, the screen stays a run; chunks that follow on *)
(* one another from an offset the screen has reached leave its beginning      *)
(* alone and take it to where they end.                                      *)
LEMMA ReplayedRun ==
  ASSUME NEW v, IsRun(v), NEW q \in Seq(Chunk)
  PROVE  IsRun(Replayed(v, q))
<1>1. PICK f : /\ f[0] = v /\ Replayed(v, q) = f[Len(q)]
               /\ \A n \in 1 .. Len(q) : f[n] = Written(f[n - 1], q[n])
  BY ReplayedSteps
<1>2. Len(q) \in Nat
  BY LenProperties
<1> DEFINE T == {n \in 0 .. Len(q) : ~IsRun(f[n])}
<1>3. T = {}
  <2> SUFFICES ASSUME T # {} PROVE FALSE
    OBVIOUS
  <2>1. T \subseteq Nat
    BY <1>2
  <2> HIDE DEF T
  <2>2. PICK m \in T : \A y \in T : m <= y
    BY <2>1, LeastNumber
  <2>3. m # 0 /\ m \in 1 .. Len(q) /\ m - 1 \in 0 .. Len(q) /\ m - 1 \notin T
    BY <1>1, <1>2, <2>1, <2>2 DEF T
  <2>4. IsRun(f[m - 1]) /\ q[m] \in Chunk
    BY <1>2, <2>3, ElementOfSeq DEF T
  <2>5. IsRun(f[m])
    BY <1>1, <2>3, <2>4, WrittenRun
  <2>6. QED BY <2>2, <2>5 DEF T
<1>4. QED BY <1>1, <1>2, <1>3

LEMMA ReplayedReaches ==
  ASSUME NEW v, IsRun(v), NEW q \in Seq(Chunk), NEW e \in Nat,
         Chain(q, e), First(q, e) <= v.last
  PROVE  e <= Replayed(v, q).last /\ Back(Replayed(v, q)) = Back(v)
<1>1. PICK f : /\ f[0] = v /\ Replayed(v, q) = f[Len(q)]
               /\ \A n \in 1 .. Len(q) : f[n] = Written(f[n - 1], q[n])
  BY ReplayedSteps
<1>2. Len(q) \in Nat /\ (q = <<>> <=> Len(q) = 0)
  BY EmptySeq, LenProperties
<1> DEFINE Up(n) == IF n = Len(q) THEN e ELSE q[n + 1].start
           Good(n) == IsRun(f[n]) /\ Up(n) <= f[n].last /\ Back(f[n]) = Back(v)
           T == {n \in 0 .. Len(q) : ~Good(n)}
<1>3. T = {}
  <2> SUFFICES ASSUME T # {} PROVE FALSE
    OBVIOUS
  <2>1. T \subseteq Nat
    BY <1>2
  <2> HIDE DEF T
  <2>2. PICK m \in T : \A y \in T : m <= y
    BY <2>1, LeastNumber
  <2>3. Good(0)
    <3>1. CASE q = <<>>
      BY <1>1, <1>2, <3>1 DEF First
    <3>2. CASE q # <<>>
      BY <1>1, <1>2, <3>2 DEF First
    <3>3. QED BY <3>1, <3>2
  <2>4. m # 0 /\ m \in 1 .. Len(q) /\ m - 1 \in 0 .. Len(q) /\ m - 1 \notin T
    BY <1>2, <2>1, <2>2, <2>3 DEF T
  <2>5. Good(m - 1) /\ q[m] \in Chunk
    BY <1>2, <2>4, ElementOfSeq DEF T
  <2>6. q[m].start <= f[m - 1].last
    <3>1. m - 1 # Len(q) /\ (m - 1) + 1 = m
      BY <1>2, <2>4
    <3>2. Up(m - 1) = q[m].start
      BY <3>1
    <3>3. QED BY <2>5, <3>2
  <2>7. IsRun(f[m]) /\ q[m].end <= f[m].last /\ Back(f[m]) = Back(v)
    BY <1>1, <2>4, <2>5, <2>6, WrittenRun
  <2>8. q[m].end = Up(m)
    BY <2>4 DEF Chain
  <2>9. QED BY <2>2, <2>7, <2>8 DEF T
<1>4. Good(Len(q))
  BY <1>2, <1>3
<1>5. QED BY <1>1, <1>2, <1>4

-----------------------------------------------------------------------------
(* The invariant. *)

(* The ring holds chunks in order, none beyond the end of the output.        *)
BackendOK ==
  /\ next \in Nat /\ chunks \in Seq(Chunk)
  /\ \A i \in 1 .. Len(chunks) : chunks[i].end <= next
  /\ \A i, j \in 1 .. Len(chunks) : i <= j => chunks[i].start <= chunks[j].start
  /\ chunks = <<>> => next = 0
  /\ emitting \in [Producer -> Chunk \cup {None}]
  /\ \A p \in Producer : emitting[p] # None => emitting[p].end <= next

ViewportOK ==
  /\ wire \in Seq(Chunk) /\ queued \in Seq(Chunk)
  /\ answer \in Snapshot \cup {None} /\ cached \in Snapshot \cup {None}
  /\ overtaken \in BOOLEAN /\ missed \in BOOLEAN
  /\ IsRun(View)

(* Who does not listen receives nothing, and only an attach in flight has a  *)
(* queue or an answer.                                                       *)
AttachOK ==
  /\ listening \in {"no", "asked", "yes"} /\ handle \in {"none", "attaching", "attached"}
  /\ listening # "yes" => wire = <<>> /\ queued = <<>>
  /\ listening = "no" => handle = "none"
  /\ handle # "attaching" => queued = <<>> /\ answer = None

(* A snapshot that was taken begins no later than one taken now.             *)
SnapshotsReachBack ==
  /\ answer # None => answer.start <= TailStart
  /\ cached # None => cached.start <= TailStart

(* The chunks still to be emitted tile the output from e to its end.         *)
Front(e) ==
  /\ \A p \in Producer : emitting[p] # None => e <= emitting[p].start
  /\ e = next \/ \E p \in Producer : emitting[p] # None /\ emitting[p].start = e
Tiled ==
  \A p \in Producer : emitting[p] # None =>
    /\ \/ emitting[p].end = next
       \/ \E q \in Producer : emitting[q] # None /\ emitting[q].start = emitting[p].end
    /\ \A q \in Producer \ {p} : emitting[q] # None =>
         emitting[p].end <= emitting[q].start \/ emitting[q].end <= emitting[p].start

(* The chunks on their way are one chain up to e, and what the viewport has  *)
(* or is about to be given reaches to where that chain begins.               *)
Pending == queued \o wire
InStep(e) ==
  /\ Front(e) /\ Chain(Pending, e)
  /\ \A i \in 1 .. Len(Pending) : Pending[i].end <= next
  /\ answer # None => First(Pending, e) <= answer.end
  /\ handle = "attached" => First(Pending, e) <= last

InOrder == Tiled /\ (\E e \in 0 .. next : InStep(e)) /\ Back(View) <= TailStart

StreamInv == BackendOK /\ ViewportOK /\ AttachOK /\ SnapshotsReachBack
ReachInv == StreamInv /\ (~overtaken /\ ~missed => InOrder)

-----------------------------------------------------------------------------
(* Chains of chunks. *)

LEMMA ChainAppend ==
  ASSUME NEW s \in Seq(Chunk), NEW c \in Chunk, Chain(s, c.start)
  PROVE  /\ Chain(Append(s, c), c.end)
         /\ First(Append(s, c), c.end) = First(s, c.start)
<1> DEFINE t == Append(s, c)
<1>1. /\ Len(s) \in Nat /\ Len(t) = Len(s) + 1 /\ t # <<>> /\ (s = <<>> <=> Len(s) = 0)
      /\ \A i \in 1 .. Len(s) : t[i] = s[i]
      /\ t[Len(s) + 1] = c
  BY AppendProperties, EmptySeq, LenProperties
<1> HIDE DEF t
<1>2. ASSUME NEW i \in 1 .. Len(t)
      PROVE  t[i].end = IF i = Len(t) THEN c.end ELSE t[i + 1].start
  <2>1. CASE i = Len(t)
    BY <1>1, <2>1
  <2>2. CASE i # Len(t) /\ i = Len(s)
    <3>1. t[i].end = c.start
      BY <1>1, <2>2 DEF Chain
    <3>2. QED BY <1>1, <2>2, <3>1
  <2>3. CASE i # Len(t) /\ i # Len(s)
    <3>1. i \in 1 .. Len(s) /\ i + 1 \in 1 .. Len(s)
      BY <1>1, <2>3
    <3>2. s[i].end = s[i + 1].start
      BY <2>3, <3>1 DEF Chain
    <3>3. QED BY <1>1, <2>3, <3>1, <3>2
  <2>4. QED BY <2>1, <2>2, <2>3
<1>3. Chain(t, c.end)
  BY <1>2 DEF Chain
<1>4. First(t, c.end) = First(s, c.start)
  <2>1. CASE s = <<>>
    BY <1>1, <2>1 DEF First
  <2>2. CASE s # <<>>
    BY <1>1, <2>2 DEF First
  <2>3. QED BY <2>1, <2>2
<1>5. QED BY <1>3, <1>4 DEF t

LEMMA ChainTail ==
  ASSUME NEW s \in Seq(Chunk), s # <<>>, NEW e, Chain(s, e)
  PROVE  /\ Chain(Tail(s), e) /\ First(Tail(s), e) = Head(s).end
         /\ First(s, e) = Head(s).start
<1> DEFINE t == Tail(s)
<1>1. /\ Len(s) \in Nat /\ Len(s) # 0 /\ Len(t) = Len(s) - 1 /\ t \in Seq(Chunk)
      /\ \A i \in 1 .. Len(t) : t[i] = s[i + 1]
      /\ (t = <<>> <=> Len(t) = 0)
  BY HeadTailProperties, EmptySeq, LenProperties
<1>2. Head(s) = s[1]
  OBVIOUS
<1> HIDE DEF t
<1>3. ASSUME NEW i \in 1 .. Len(t)
      PROVE  t[i].end = IF i = Len(t) THEN e ELSE t[i + 1].start
  <2>1. i + 1 \in 1 .. Len(s) /\ t[i] = s[i + 1] /\ (i = Len(t) <=> i + 1 = Len(s))
    BY <1>1
  <2>2. CASE i = Len(t)
    BY <2>1, <2>2 DEF Chain
  <2>3. CASE i # Len(t)
    <3>1. i + 1 \in 1 .. Len(t)
      BY <1>1, <2>3
    <3>2. t[i + 1] = s[(i + 1) + 1]
      BY <1>1, <3>1
    <3>3. QED BY <2>1, <2>3, <3>2 DEF Chain
  <2>4. QED BY <2>2, <2>3
<1>4. Chain(t, e)
  BY <1>3 DEF Chain
<1>5. 1 \in 1 .. Len(s)
  BY <1>1
<1>6. First(t, e) = s[1].end
  <2>1. CASE t = <<>>
    BY <1>1, <1>5, <2>1 DEF First, Chain
  <2>2. CASE t # <<>>
    <3>1. 1 \in 1 .. Len(t) /\ 1 # Len(s)
      BY <1>1, <2>2
    <3>2. s[1].end = s[1 + 1].start
      BY <1>5, <3>1 DEF Chain
    <3>3. t[1] = s[1 + 1]
      BY <1>1, <3>1
    <3>4. QED BY <2>2, <3>2, <3>3 DEF First
  <2>3. QED BY <2>1, <2>2
<1>7. QED BY <1>2, <1>4, <1>6 DEF t, First

(* A chain is cut where its second part begins. *)
LEMMA ChainSplit ==
  ASSUME NEW s \in Seq(Chunk), NEW t \in Seq(Chunk), NEW e, Chain(s \o t, e)
  PROVE  /\ Chain(t, e) /\ Chain(s, First(t, e))
         /\ First(s \o t, e) = First(s, First(t, e))
<1> DEFINE u == s \o t
<1>1. /\ Len(s) \in Nat /\ Len(t) \in Nat /\ Len(u) = Len(s) + Len(t) /\ u \in Seq(Chunk)
      /\ \A i \in 1 .. Len(s) + Len(t) : u[i] = IF i <= Len(s) THEN s[i] ELSE t[i - Len(s)]
      /\ (s = <<>> <=> Len(s) = 0) /\ (t = <<>> <=> Len(t) = 0) /\ (u = <<>> <=> Len(u) = 0)
  BY ConcatProperties, EmptySeq, LenProperties
<1>2. \A i \in 1 .. Len(u) : u[i].end = IF i = Len(u) THEN e ELSE u[i + 1].start
  BY DEF Chain
<1> HIDE DEF u
<1>3. \A i \in 1 .. Len(s) : i \in 1 .. Len(u) /\ u[i] = s[i]
  BY <1>1
<1>4. \A i \in 1 .. Len(t) : i + Len(s) \in 1 .. Len(u) /\ u[i + Len(s)] = t[i]
  <2> TAKE i \in 1 .. Len(t)
  <2>1. i + Len(s) \in 1 .. Len(u) /\ ~(i + Len(s) <= Len(s)) /\ (i + Len(s)) - Len(s) = i
    BY <1>1
  <2>2. QED BY <1>1, <2>1
<1>5. ASSUME NEW i \in 1 .. Len(t)
      PROVE  t[i].end = IF i = Len(t) THEN e ELSE t[i + 1].start
  <2>1. i + Len(s) \in 1 .. Len(u) /\ u[i + Len(s)] = t[i]
    BY <1>1, <1>4
  <2>2. CASE i = Len(t)
    <3>1. i + Len(s) = Len(u)
      BY <1>1, <2>2
    <3>2. QED BY <1>2, <2>1, <2>2, <3>1
  <2>3. CASE i # Len(t)
    <3>1. i + 1 \in 1 .. Len(t) /\ (i + 1) + Len(s) = (i + Len(s)) + 1 /\ i + Len(s) # Len(u)
      BY <1>1, <2>3
    <3>2. u[(i + Len(s)) + 1] = t[i + 1]
      BY <1>4, <3>1
    <3>3. QED BY <1>2, <2>1, <2>3, <3>1, <3>2
  <2>4. QED BY <2>2, <2>3
<1>6. CASE t = <<>>
  <2>1. Len(u) = Len(s) /\ First(t, e) = e
    BY <1>1, <1>6 DEF First
  <2>2. \A i \in 1 .. Len(s) : s[i].end = IF i = Len(s) THEN e ELSE s[i + 1].start
    BY <1>1, <1>2, <1>3, <2>1
  <2>3. First(u, e) = First(s, e)
    BY <1>1, <1>3, <2>1 DEF First
  <2>4. QED BY <1>5, <2>1, <2>2, <2>3 DEF Chain, u
<1>7. CASE t # <<>>
  <2>1. First(t, e) = t[1].start /\ 1 \in 1 .. Len(t)
    BY <1>1, <1>7 DEF First
  <2>2. u[1 + Len(s)] = t[1]
    BY <1>4, <2>1
  <2>3. ASSUME NEW i \in 1 .. Len(s)
        PROVE  s[i].end = IF i = Len(s) THEN t[1].start ELSE s[i + 1].start
    <3>1. i # Len(u) /\ i \in 1 .. Len(u) /\ u[i] = s[i]
      BY <1>1, <1>3, <2>1
    <3>2. s[i].end = u[i + 1].start
      BY <1>2, <3>1
    <3>3. CASE i = Len(s)
      BY <1>1, <2>2, <3>2, <3>3
    <3>4. CASE i # Len(s)
      <4>1. i + 1 \in 1 .. Len(s)
        BY <1>1, <3>4
      <4>2. u[i + 1] = s[i + 1]
        BY <1>3, <4>1
      <4>3. QED BY <3>2, <3>4, <4>2
    <3>5. QED BY <3>3, <3>4
  <2>4. First(u, e) = First(s, t[1].start)
    <3>1. CASE s = <<>>
      BY <1>1, <2>1, <2>2, <3>1 DEF First
    <3>2. CASE s # <<>>
      <4>1. 1 \in 1 .. Len(s) /\ u # <<>>
        BY <1>1, <3>2
      <4>2. QED BY <1>3, <3>2, <4>1 DEF First
    <3>3. QED BY <3>1, <3>2
  <2>5. QED BY <1>5, <2>1, <2>3, <2>4 DEF Chain, u
<1>8. QED BY <1>6, <1>7

(* Events move from the wire to the queue and a new one to the end. *)
LEMMA PendingMoves ==
  ASSUME NEW s \in Seq(Chunk), NEW t \in Seq(Chunk), NEW c \in Chunk
  PROVE  /\ s \o Append(t, c) = Append(s \o t, c)
         /\ t # <<>> => Append(s, Head(t)) \o Tail(t) = s \o t
<1>1. <<c>> \in Seq(Chunk) /\ s \o t \in Seq(Chunk)
  BY ConcatProperties
<1>2. s \o Append(t, c) = Append(s \o t, c)
  <2>1. Append(t, c) = t \o <<c>> /\ Append(s \o t, c) = (s \o t) \o <<c>>
    BY <1>1, AppendIsConcat
  <2>2. (s \o t) \o <<c>> = s \o (t \o <<c>>)
    BY <1>1, ConcatAssociative
  <2>3. QED BY <2>1, <2>2
<1>3. ASSUME t # <<>> PROVE Append(s, Head(t)) \o Tail(t) = s \o t
  <2> DEFINE h == Head(t)
             r == Tail(t)
  <2>1. h \in Chunk /\ r \in Seq(Chunk)
    BY <1>3, HeadTailProperties
  <2>2. <<h>> \o r = t
    <3>1. 1 \in 1 .. Len(t) /\ Len(t) \in 1 .. Len(t)
      BY <1>3, EmptySeq
    <3>2. SubSeq(t, 1, Len(t)) = <<t[1]>> \o SubSeq(t, 1 + 1, Len(t))
      BY <3>1, SubSeqRecursiveFirst
    <3>3. SubSeq(t, 1, Len(t)) = t /\ r = SubSeq(t, 2, Len(t)) /\ h = t[1]
      BY <1>3, SubSeqFull, TailIsSubSeq
    <3>4. QED BY <3>2, <3>3
  <2> HIDE DEF h, r
  <2>3. <<h>> \in Seq(Chunk) /\ Append(s, h) = s \o <<h>>
    BY <2>1, AppendIsConcat
  <2>4. (s \o <<h>>) \o r = s \o (<<h>> \o r)
    BY <2>1, <2>3, ConcatAssociative
  <2>5. QED BY <2>2, <2>3, <2>4 DEF h, r
<1>4. QED BY <1>2, <1>3

-----------------------------------------------------------------------------
(* The backend keeps its invariant, and the tail never moves backwards. *)

LEMMA TailBounds == BackendOK => TailStart \in Nat /\ TailStart <= next
<1> SUFFICES ASSUME BackendOK PROVE TailStart \in Nat /\ TailStart <= next
  OBVIOUS
<1> USE StreamAssumption DEF StreamAssumption
<1>1. CASE chunks = <<>>
  BY <1>1 DEF BackendOK, TailStart
<1>2. CASE chunks # <<>>
  <2>1. 1 \in 1 .. Len(chunks)
    BY <1>2, EmptySeq DEF BackendOK
  <2>2. chunks[1] \in Chunk
    BY <2>1, ElementOfSeq DEF BackendOK
  <2>3. chunks[1].start \in Nat /\ chunks[1].start <= next
    BY <2>1, <2>2 DEF BackendOK, Chunk
  <2>4. QED BY <1>2, <2>3 DEF BackendOK, TailStart, MaxOf
<1>3. QED BY <1>1, <1>2

LEMMA OutputTailTyped == BackendOK => OutputTail \in Snapshot
<1> SUFFICES ASSUME BackendOK PROVE OutputTail \in Snapshot
  OBVIOUS
<1>1. TailStart \in Nat /\ TailStart <= next /\ next \in Nat
  BY TailBounds DEF BackendOK
<1>2. (TailStart > 0) \in BOOLEAN
  OBVIOUS
<1>3. QED BY <1>1, <1>2 DEF OutputTail, Snapshot

LEMMA MaxOfMonotone ==
  ASSUME NEW a \in Int, NEW b \in Int, NEW c \in Int, NEW d \in Int, a <= c, b <= d
  PROVE  MaxOf(a, b) <= MaxOf(c, d)
  BY DEF MaxOf

LEMMA AppendKeepsBackend ==
  ASSUME BackendOK, NEW p \in Producer, NEW n \in 1 .. MaxChunk, AppendOutput(p, n)
  PROVE  /\ BackendOK' /\ next' = next + n /\ next' \in Nat
         /\ TailStart' \in Nat /\ TailStart <= TailStart'
         /\ [start |-> next, end |-> next + n] \in Chunk
         /\ emitting' = [emitting EXCEPT ![p] = [start |-> next, end |-> next + n]]
<1> DEFINE chunk == [start |-> next, end |-> next + n]
           all == Append(chunks, chunk)
           m == MaxOf(1, Len(all) - RingChunks + 1)
<1>1. /\ next \in Nat /\ n \in Nat \ {0} /\ next + n \in Nat /\ next < next + n
      /\ chunks \in Seq(Chunk) /\ RingChunks \in Nat \ {0} /\ TailBytes \in Nat \ {0}
  BY StreamAssumption DEF StreamAssumption, BackendOK
<1>2. chunk \in Chunk /\ chunk.start = next /\ chunk.end = next + n
  BY <1>1 DEF Chunk
<1>3. /\ chunks' = SubSeq(all, m, Len(all)) /\ next' = next + n
      /\ emitting' = [emitting EXCEPT ![p] = chunk]
  BY DEF AppendOutput
<1> HIDE DEF chunk
<1>4. /\ all \in Seq(Chunk) /\ Len(all) = Len(chunks) + 1 /\ Len(chunks) \in Nat
      /\ \A i \in 1 .. Len(chunks) : all[i] = chunks[i]
      /\ all[Len(chunks) + 1] = chunk
  BY <1>1, <1>2, AppendProperties, LenProperties
<1> HIDE DEF all
<1>5. /\ \A i \in 1 .. Len(all) : all[i] \in Chunk /\ all[i].end <= next'
      /\ \A i, j \in 1 .. Len(all) : i <= j => all[i].start <= all[j].start
  <2>1. \A i \in 1 .. Len(all) : all[i] \in Chunk
    BY <1>4, ElementOfSeq
  <2>2. \A i \in 1 .. Len(chunks) : chunks[i] \in Chunk /\ chunks[i].end <= next
    BY <1>1, ElementOfSeq DEF BackendOK
  <2>3. /\ \A i \in 1 .. Len(all) : all[i].end <= next'
        /\ \A i \in 1 .. Len(all) : all[i].start <= next
    <3> SUFFICES ASSUME NEW i \in 1 .. Len(all) PROVE all[i].end <= next' /\ all[i].start <= next
      OBVIOUS
    <3>1. CASE i \in 1 .. Len(chunks)
      <4>1. all[i] = chunks[i]
        BY <1>4, <3>1
      <4>2. all[i].start \in Nat /\ all[i].end \in Nat /\ all[i].start < all[i].end
            /\ all[i].end <= next
        BY <2>2, <3>1, <4>1 DEF Chunk
      <4>3. QED BY <1>1, <1>3, <4>2
    <3>2. CASE i \notin 1 .. Len(chunks)
      <4>1. all[i] = chunk
        <5>1. i = Len(chunks) + 1
          BY <1>4, <3>2
        <5>2. QED BY <1>4, <5>1
      <4>2. QED BY <1>1, <1>2, <1>3, <4>1
    <3>3. QED BY <3>1, <3>2
  <2>4. ASSUME NEW i \in 1 .. Len(all), NEW j \in 1 .. Len(all), i <= j
        PROVE  all[i].start <= all[j].start
    <3>1. CASE j \in 1 .. Len(chunks)
      <4>1. i \in 1 .. Len(chunks)
        BY <1>4, <2>4, <3>1
      <4>2. QED BY <1>4, <2>4, <3>1, <4>1 DEF BackendOK
    <3>2. CASE j \notin 1 .. Len(chunks)
      <4>1. all[j].start = next
        BY <1>2, <1>4, <3>2
      <4>2. all[i].start <= next
        BY <2>3
      <4>3. QED BY <4>1, <4>2
    <3>3. QED BY <3>1, <3>2
  <2>5. QED BY <2>1, <2>3, <2>4
<1>6. m \in 1 .. Len(all) /\ Len(all) \in Nat
  BY <1>1, <1>4 DEF MaxOf
<1> HIDE DEF m
<1>7. /\ chunks' \in Seq(Chunk) /\ Len(chunks') = Len(all) - m + 1
      /\ \A i \in 1 .. Len(all) - m + 1 : chunks'[i] = all[m + i - 1]
  <2>1. m \in Int /\ Len(all) \in Int /\ m <= Len(all)
    BY <1>6
  <2>2. \A i \in m .. Len(all) : all[i] \in Chunk
    BY <1>5, <1>6
  <2>3. /\ SubSeq(all, m, Len(all)) \in Seq(Chunk)
        /\ Len(SubSeq(all, m, Len(all))) = IF m <= Len(all) THEN Len(all) - m + 1 ELSE 0
        /\ \A i \in 1 .. Len(all) - m + 1 : SubSeq(all, m, Len(all))[i] = all[m + i - 1]
    BY <2>1, <2>2, SubSeqProperties
  <2>4. QED BY <1>3, <2>1, <2>3
<1>8. /\ Len(chunks') \in Nat /\ 1 \in 1 .. Len(chunks') /\ chunks' # <<>>
      /\ \A i \in 1 .. Len(chunks') : m + i - 1 \in 1 .. Len(all) /\ chunks'[i] = all[m + i - 1]
  <2>1. Len(all) - m + 1 >= 1
    BY <1>6
  <2>2. 1 \in 1 .. Len(chunks') /\ Len(chunks') \in Nat
    BY <1>6, <1>7, <2>1
  <2>3. \A i \in 1 .. Len(chunks') : m + i - 1 \in 1 .. Len(all)
    BY <1>6, <1>7
  <2>4. QED BY <1>7, <2>2, <2>3, EmptySeq
<1>9. \A i \in 1 .. Len(chunks') : chunks'[i].end <= next'
  BY <1>5, <1>8
<1>10. ASSUME NEW i \in 1 .. Len(chunks'), NEW j \in 1 .. Len(chunks'), i <= j
       PROVE  chunks'[i].start <= chunks'[j].start
  <2>1. m + i - 1 <= m + j - 1
    BY <1>6, <1>8, <1>10
  <2>2. QED BY <1>5, <1>8, <2>1
<1>11. /\ emitting' \in [Producer -> Chunk \cup {None}]
       /\ \A q \in Producer : emitting'[q] # None => emitting'[q].end <= next'
  <2>1. emitting' \in [Producer -> Chunk \cup {None}]
    BY <1>2, <1>3 DEF BackendOK
  <2>2. ASSUME NEW q \in Producer, emitting'[q] # None PROVE emitting'[q].end <= next'
    <3>1. CASE q = p
      <4>1. emitting'[q] = chunk
        BY <1>3, <3>1 DEF BackendOK
      <4>2. QED BY <1>1, <1>2, <1>3, <4>1
    <3>2. CASE q # p
      <4>1. emitting'[q] = emitting[q]
        BY <1>3, <3>2 DEF BackendOK
      <4>2. emitting[q] \in Chunk /\ emitting[q].end <= next
        BY <2>2, <4>1 DEF BackendOK
      <4>3. emitting[q].end \in Nat
        BY <4>2 DEF Chunk
      <4>4. QED BY <1>1, <1>3, <4>1, <4>2, <4>3
    <3>3. QED BY <3>1, <3>2
  <2>3. QED BY <2>1, <2>2
<1>12. BackendOK'
  BY <1>1, <1>3, <1>7, <1>8, <1>9, <1>10, <1>11 DEF BackendOK
<1>13. TailStart' \in Nat /\ TailStart <= TailStart'
  <2>1. TailStart' = MaxOf(chunks'[1].start, next' - TailBytes)
    BY <1>8 DEF TailStart
  <2>2. chunks'[1] \in Chunk /\ chunks'[1].start \in Nat
    BY <1>7, <1>8, ElementOfSeq DEF Chunk
  <2>0. TailStart' \in Nat
    <3>1. next' - TailBytes \in Int
      BY <1>1, <1>3
    <3>2. QED BY <2>1, <2>2, <3>1 DEF MaxOf
  <2>3. CASE chunks = <<>>
    <3>1. TailStart = 0
      BY <2>3 DEF TailStart, BackendOK
    <3>2. next' - TailBytes \in Int
      BY <1>1, <1>3
    <3>3. 0 <= MaxOf(chunks'[1].start, next' - TailBytes)
      BY <2>2, <3>2 DEF MaxOf
    <3>4. QED BY <2>0, <2>1, <3>1, <3>3
  <2>4. CASE chunks # <<>>
    <3>1. 1 \in 1 .. Len(chunks)
      BY <1>1, <2>4, EmptySeq
    <3>2. chunks[1] \in Chunk /\ chunks[1].start \in Nat
      BY <1>1, <3>1, ElementOfSeq DEF Chunk
    <3>3. TailStart = MaxOf(chunks[1].start, next - TailBytes)
      BY <2>4 DEF TailStart
    <3>4. chunks[1].start <= chunks'[1].start
      <4>1. all[1] = chunks[1] /\ 1 \in 1 .. Len(all)
        BY <1>4, <3>1
      <4>2. m + 1 - 1 \in 1 .. Len(all) /\ chunks'[1] = all[m + 1 - 1]
        BY <1>8
      <4>3. 1 <= m + 1 - 1
        BY <1>6
      <4>4. QED BY <1>5, <4>1, <4>2, <4>3
    <3>5. next - TailBytes \in Int /\ next' - TailBytes \in Int
          /\ next - TailBytes <= next' - TailBytes
      BY <1>1, <1>3
    <3>6. MaxOf(chunks[1].start, next - TailBytes) <= MaxOf(chunks'[1].start, next' - TailBytes)
      BY <2>2, <3>2, <3>4, <3>5, MaxOfMonotone
    <3>7. QED BY <2>0, <2>1, <3>3, <3>6
  <2>5. QED BY <2>3, <2>4
<1>14. QED BY <1>1, <1>2, <1>3, <1>12, <1>13 DEF chunk

LEMMA EmitKeepsBackend ==
  ASSUME BackendOK, NEW p \in Producer, Emit(p)
  PROVE  BackendOK' /\ TailStart' = TailStart /\ emitting[p] \in Chunk
<1>1. UNCHANGED <<chunks, next>> /\ emitting' = [emitting EXCEPT ![p] = None] /\ emitting[p] # None
  BY DEF Emit
<1>2. emitting[p] \in Chunk
  BY <1>1 DEF BackendOK
<1>3. emitting' \in [Producer -> Chunk \cup {None}]
  BY <1>1 DEF BackendOK
<1>4. \A q \in Producer : emitting'[q] # None => emitting'[q] = emitting[q]
  BY <1>1 DEF BackendOK
<1>5. QED BY <1>1, <1>2, <1>3, <1>4 DEF BackendOK, TailStart

-----------------------------------------------------------------------------
(* What the viewport shows after a step. *)

LEMMA ShowIsView == ASSUME NEW v \in Screen, Show(v) PROVE View' = v
  BY DEF Show, View, Screen

LEMMA SameView == ASSUME UNCHANGED view PROVE View' = View
  BY DEF view, View

LEMMA MountedView ==
  ASSUME StreamInv, Mount
  PROVE  /\ View' = IF cached = None THEN View ELSE Applied(View, cached)
         /\ IsRun(View') /\ (Back(View') = Back(View) \/ (cached # None /\ Back(View') = cached.start))
<1> DEFINE v == IF cached = None THEN View ELSE Applied(View, cached)
<1>1. IsRun(View) /\ cached \in Snapshot \cup {None} /\ Show(v)
  BY DEF StreamInv, ViewportOK, Mount
<1>2. IsRun(v) /\ (Back(v) = Back(View) \/ (cached # None /\ Back(v) = cached.start))
  <2>1. CASE cached = None
    BY <1>1, <2>1
  <2>2. CASE cached # None
    <3>1. IsRun(Applied(View, cached)) /\ Back(Applied(View, cached)) \in {Back(View), cached.start}
      BY <1>1, <2>2, AppliedRun
    <3>2. QED BY <2>2, <3>1
  <2>3. QED BY <2>1, <2>2
<1> HIDE DEF v
<1>3. View' = v
  BY <1>1, <1>2, ShowIsView DEF IsRun
<1>4. QED BY <1>2, <1>3 DEF v

LEMMA AttachedView ==
  ASSUME StreamInv, Attached
  PROVE  /\ View' = Replayed(Applied(View, answer), queued) /\ IsRun(View')
         /\ answer \in Snapshot /\ IsRun(Applied(View, answer))
         /\ answer.end <= Applied(View, answer).last
         /\ Back(Applied(View, answer)) \in {Back(View), answer.start}
<1>1. IsRun(View) /\ answer \in Snapshot /\ queued \in Seq(Chunk)
  BY DEF StreamInv, ViewportOK, Attached
<1> DEFINE v == Applied(View, answer)
           w == Replayed(v, queued)
<1>2. IsRun(v) /\ answer.end <= v.last /\ Back(v) \in {Back(View), answer.start}
  BY <1>1, AppliedRun
<1>3. Show(w)
  BY DEF Attached
<1> HIDE DEF v
<1>4. IsRun(w)
  BY <1>1, <1>2, ReplayedRun
<1> HIDE DEF w
<1>5. View' = w
  BY <1>3, <1>4, ShowIsView DEF IsRun
<1>6. QED BY <1>1, <1>2, <1>4, <1>5 DEF v, w

LEMMA DeliveredView ==
  ASSUME StreamInv, Deliver
  PROVE  /\ IsRun(View') /\ wire \in Seq(Chunk) /\ wire # <<>> /\ Head(wire) \in Chunk
         /\ View' = IF handle = "attached" THEN Written(View, Head(wire)) ELSE View
<1>1. IsRun(View) /\ wire \in Seq(Chunk) /\ wire # <<>>
  BY DEF StreamInv, ViewportOK, Deliver
<1>2. Head(wire) \in Chunk
  BY <1>1, HeadTailProperties
<1>3. CASE handle = "attached"
  <2> DEFINE w == Written(View, Head(wire))
  <2>1. IsRun(w)
    BY <1>1, <1>2, WrittenRun
  <2>2. Show(w)
    BY <1>3 DEF Deliver
  <2> HIDE DEF w
  <2>3. View' = w
    BY <2>1, <2>2, ShowIsView DEF IsRun
  <2>4. QED BY <1>1, <1>2, <1>3, <2>1, <2>3 DEF w
<1>4. CASE handle # "attached"
  <2>1. UNCHANGED view
    BY <1>4 DEF Deliver
  <2>2. QED BY <1>1, <1>2, <1>4, <2>1, SameView
<1>5. QED BY <1>3, <1>4

-----------------------------------------------------------------------------
(* The initial states. *)

LEMMA EmptyRun == IsRun([screen |-> <<>>, last |-> 0, rendered |-> FALSE])
<1> DEFINE v == [screen |-> <<>>, last |-> 0, rendered |-> FALSE]
<1>1. v \in Screen /\ v.screen = <<>> /\ v.last = 0
  BY EmptySeq DEF Screen
<1>2. Bytes(0, 0) \in Seq(Nat) /\ Len(Bytes(0, 0)) = 0
  BY BytesProperties
<1>3. Bytes(0, 0) = <<>>
  BY <1>2, EmptySeq
<1> HIDE DEF v
<1>4. IsRun(v)
  BY <1>1, <1>3, EmptySeq DEF IsRun
<1>5. QED BY <1>4 DEF v

LEMMA InitStream == Init => ReachInv
<1> SUFFICES ASSUME Init PROVE ReachInv
  OBVIOUS
<1>1. IsRun(View) /\ Back(View) = 0
  <2>1. View = [screen |-> <<>>, last |-> 0, rendered |-> FALSE]
    BY DEF Init, View
  <2>2. View.last = 0 /\ View.screen = <<>> /\ Len(<<>>) = 0
    BY <2>1, EmptySeq
  <2>3. QED BY <2>1, <2>2, EmptyRun DEF Back
<1>2. BackendOK
  BY EmptySeq DEF Init, BackendOK
<1>3. ViewportOK
  BY <1>1, EmptySeq DEF Init, ViewportOK
<1>4. AttachOK /\ SnapshotsReachBack
  BY DEF Init, AttachOK, SnapshotsReachBack
<1>5. Tiled
  BY DEF Init, Tiled
<1>6. InStep(0)
  <2>1. Pending = <<>> /\ Len(<<>>) = 0
    BY EmptySeq, ConcatEmptySeq DEF Init, Pending
  <2>2. QED BY <2>1 DEF Init, InStep, Front, Chain
<1>7. Back(View) <= TailStart /\ 0 \in 0 .. next
  BY <1>1 DEF Init, TailStart
<1>8. QED BY <1>2, <1>3, <1>4, <1>5, <1>6, <1>7 DEF ReachInv, StreamInv, InOrder

-----------------------------------------------------------------------------
(* Every step keeps what holds whatever is overtaken or missed. *)

LEMMA StepKeepsStream == StreamInv /\ [Next]_vars => StreamInv'
<1> SUFFICES ASSUME StreamInv, [Next]_vars PROVE StreamInv'
  OBVIOUS
<1>0. BackendOK /\ ViewportOK /\ AttachOK /\ SnapshotsReachBack
  BY DEF StreamInv
<1>1. ASSUME UNCHANGED backend PROVE BackendOK' /\ TailStart' = TailStart
  BY <1>0, <1>1 DEF backend, BackendOK, TailStart
<1>2. ASSUME UNCHANGED view PROVE IsRun(View)'
  BY <1>0, <1>2, SameView DEF ViewportOK
<1>3. ASSUME NEW p \in Producer, NEW n \in 1 .. MaxChunk, AppendOutput(p, n) PROVE StreamInv'
  <2>1. BackendOK' /\ TailStart' \in Nat /\ TailStart <= TailStart'
    BY <1>0, <1>3, AppendKeepsBackend
  <2>2. ViewportOK' /\ AttachOK'
    BY <1>0, <1>2, <1>3 DEF AppendOutput, ViewportOK, AttachOK, history
  <2>3. SnapshotsReachBack'
    <3>1. TailStart \in Nat
      BY <1>0, TailBounds
    <3>2. UNCHANGED <<answer, cached>>
      BY <1>3 DEF AppendOutput
    <3>3. (answer # None => answer.start \in Nat) /\ (cached # None => cached.start \in Nat)
      BY <1>0 DEF ViewportOK, Snapshot
    <3>4. QED BY <1>0, <2>1, <3>1, <3>2, <3>3 DEF SnapshotsReachBack
  <2>4. QED BY <2>1, <2>2, <2>3 DEF StreamInv
<1>4. ASSUME NEW p \in Producer, Emit(p) PROVE StreamInv'
  <2>1. BackendOK' /\ TailStart' = TailStart /\ emitting[p] \in Chunk
    BY <1>0, <1>4, EmitKeepsBackend
  <2>2. wire' \in Seq(Chunk)
    BY <1>0, <1>4, <2>1, AppendProperties DEF Emit, ViewportOK
  <2>3. overtaken' \in BOOLEAN /\ missed' \in BOOLEAN
    BY <1>0, <1>4 DEF Emit, ViewportOK
  <2>4. ViewportOK'
    BY <1>0, <1>2, <1>4, <2>2, <2>3 DEF Emit, ViewportOK
  <2>5. AttachOK' /\ SnapshotsReachBack'
    BY <1>0, <1>4, <2>1 DEF Emit, AttachOK, SnapshotsReachBack
  <2>6. QED BY <2>1, <2>4, <2>5 DEF StreamInv
<1>5. CASE TakeSnapshot \/ Cache
  <2>1. OutputTail \in Snapshot /\ OutputTail.start = TailStart /\ TailStart \in Nat
    BY <1>0, OutputTailTyped, TailBounds DEF OutputTail
  <2>2. BackendOK' /\ TailStart' = TailStart
    BY <1>1, <1>5 DEF TakeSnapshot, Cache
  <2>3. ViewportOK' /\ AttachOK'
    BY <1>0, <1>2, <1>5, <2>1 DEF TakeSnapshot, Cache, ViewportOK, AttachOK, history
  <2>4. SnapshotsReachBack'
    BY <1>0, <1>5, <2>1, <2>2 DEF TakeSnapshot, Cache, SnapshotsReachBack
  <2>5. QED BY <2>2, <2>3, <2>4 DEF StreamInv
<1>6. CASE Mount
  <2>1. IsRun(View')
    BY <1>6, MountedView
  <2>2. BackendOK' /\ TailStart' = TailStart
    BY <1>1, <1>6 DEF Mount
  <2>3. QED
    BY <1>0, <1>6, <2>1, <2>2
    DEF Mount, LoadSnapshot, ViewportOK, AttachOK, SnapshotsReachBack, StreamInv, history
<1>7. CASE AttachFails \/ Retry \/ Listen
  <2>1. BackendOK' /\ TailStart' = TailStart
    BY <1>1, <1>7 DEF AttachFails, Retry, Listen
  <2>2. IsRun(View)'
    BY <1>2, <1>7 DEF AttachFails, Retry, Listen
  <2>3. QED
    BY <1>0, <1>7, <2>1, <2>2, EmptySeq
    DEF AttachFails, Retry, Listen, LoadSnapshot, ViewportOK, AttachOK, SnapshotsReachBack,
        StreamInv, history
<1>8. CASE Attached
  <2>1. IsRun(View')
    BY <1>8, AttachedView
  <2>2. BackendOK' /\ TailStart' = TailStart
    BY <1>1, <1>8 DEF Attached
  <2>3. QED
    BY <1>0, <1>8, <2>1, <2>2, EmptySeq
    DEF Attached, ViewportOK, AttachOK, SnapshotsReachBack, StreamInv, history
<1>9. CASE Deliver
  <2>1. IsRun(View') /\ Head(wire) \in Chunk
    BY <1>9, DeliveredView
  <2>2. BackendOK' /\ TailStart' = TailStart
    BY <1>1, <1>9 DEF Deliver
  <2>3. wire' \in Seq(Chunk) /\ queued' \in Seq(Chunk)
    BY <1>0, <1>9, <2>1, HeadTailProperties, AppendProperties DEF Deliver, ViewportOK
  <2>4. ViewportOK' /\ SnapshotsReachBack'
    BY <1>0, <1>9, <2>1, <2>2, <2>3 DEF Deliver, ViewportOK, SnapshotsReachBack, history
  <2>5. AttachOK'
    BY <1>0, <1>9 DEF Deliver, AttachOK
  <2>6. QED BY <2>2, <2>4, <2>5 DEF StreamInv
<1>10. CASE UNCHANGED vars
  <2>1. BackendOK' /\ TailStart' = TailStart /\ IsRun(View)'
    BY <1>1, <1>2, <1>10 DEF vars
  <2>2. QED
    BY <1>0, <1>10, <2>1 DEF vars, ViewportOK, AttachOK, SnapshotsReachBack, StreamInv, history
<1>11. QED BY <1>3, <1>4, <1>5, <1>6, <1>7, <1>8, <1>9, <1>10 DEF Next

(* ScreenIsARun: whatever mixture of cached snapshot, failed attach, queued  *)
(* and late chunks the viewport has seen, its screen is one run of the       *)
(* output that ends at its offset: XTermViewport writes no byte twice and     *)
(* none out of its place.                                                    *)
THEOREM ScreenAlwaysARun == Spec => []ScreenIsARun
<1>1. Init => StreamInv
  BY InitStream DEF ReachInv
<1>2. StreamInv => ScreenIsARun
  BY DEF StreamInv, ViewportOK, IsRun, View, ScreenIsARun
<1>3. QED BY <1>1, <1>2, StepKeepsStream, PTL DEF Spec

-----------------------------------------------------------------------------
(* How far the screen reaches back, as long as no chunk overtook another and *)
(* none was missed.                                                          *)

LEMMA PendingTyped == StreamInv => Pending \in Seq(Chunk) /\ Len(Pending) \in Nat
  BY ConcatProperties, LenProperties DEF StreamInv, ViewportOK, Pending

(* Nothing on its way begins after the end of the output. *)
LEMMA FirstBounds ==
  ASSUME NEW s \in Seq(Chunk), NEW e \in Nat, NEW n \in Nat, e <= n,
         \A i \in 1 .. Len(s) : s[i].end <= n
  PROVE  First(s, e) \in Nat /\ First(s, e) <= n
<1>1. CASE s = <<>>
  BY <1>1 DEF First
<1>2. CASE s # <<>>
  <2>1. 1 \in 1 .. Len(s)
    BY <1>2, EmptySeq
  <2>2. s[1] \in Chunk
    BY <2>1, ElementOfSeq
  <2>3. s[1].start \in Nat /\ s[1].end \in Nat /\ s[1].start < s[1].end /\ s[1].end <= n
    BY <2>1, <2>2 DEF Chunk
  <2>4. QED BY <1>2, <2>3 DEF First
<1>3. QED BY <1>1, <1>2

(* An append puts its chunk behind all that is to be emitted. *)
LEMMA AppendKeepsOrder ==
  ASSUME StreamInv, StreamInv', InOrder,
         NEW p \in Producer, NEW n \in 1 .. MaxChunk, AppendOutput(p, n)
  PROVE  InOrder'
<1> DEFINE c == [start |-> next, end |-> next + n]
<1>0. BackendOK /\ next \in Nat /\ n \in Nat \ {0} /\ emitting[p] = None
  BY StreamAssumption DEF StreamAssumption, StreamInv, BackendOK, AppendOutput
<1>1. /\ next' = next + n /\ next' \in Nat /\ c \in Chunk
      /\ emitting' = [emitting EXCEPT ![p] = c]
      /\ TailStart' \in Nat /\ TailStart <= TailStart'
  BY <1>0, AppendKeepsBackend
<1>2. TailStart \in Nat /\ c.start = next /\ c.end = next'
  BY <1>0, <1>1, TailBounds
<1> HIDE DEF c
<1>3. /\ emitting'[p] = c /\ \A q \in Producer \ {p} : emitting'[q] = emitting[q]
      /\ \A q \in Producer : emitting[q] # None =>
           emitting[q] \in Chunk /\ emitting[q].start \in Nat /\ emitting[q].end \in Nat
           /\ emitting[q].start < emitting[q].end /\ emitting[q].end <= next
  BY <1>0, <1>1 DEF BackendOK, Chunk
<1>4. c # None
  BY <1>1, StreamAssumption DEF Chunk, StreamAssumption
<1>5. Tiled'
  <2> SUFFICES ASSUME NEW r \in Producer, emitting'[r] # None
               PROVE  /\ \/ emitting'[r].end = next'
                         \/ \E q \in Producer : emitting'[q] # None
                                                /\ emitting'[q].start = emitting'[r].end
                      /\ \A q \in Producer \ {r} : emitting'[q] # None =>
                           \/ emitting'[r].end <= emitting'[q].start
                           \/ emitting'[q].end <= emitting'[r].start
    BY DEF Tiled
  <2>1. CASE r = p
    <3>1. emitting'[r].end = next' /\ emitting'[r].start = next
      BY <1>2, <1>3, <2>1
    <3>2. \A q \in Producer \ {r} : emitting'[q] # None => emitting'[q].end <= emitting'[r].start
      BY <1>3, <2>1, <3>1
    <3>3. QED BY <3>1, <3>2
  <2>2. CASE r # p
    <3>1. emitting'[r] = emitting[r] /\ emitting[r] # None /\ emitting[r].end <= next
      BY <1>3, <2>2
    <3>2. emitting'[r].end = next \/
          \E q \in Producer : emitting[q] # None /\ emitting[q].start = emitting'[r].end
      BY <3>1 DEF InOrder, Tiled
    <3>3. \E q \in Producer : emitting'[q] # None /\ emitting'[q].start = emitting'[r].end
      <4>1. CASE emitting'[r].end = next
        BY <1>2, <1>3, <1>4, <4>1
      <4>2. CASE \E q \in Producer : emitting[q] # None /\ emitting[q].start = emitting'[r].end
        <5>1. PICK q \in Producer : emitting[q] # None /\ emitting[q].start = emitting'[r].end
          BY <4>2
        <5>2. q # p
          BY <1>0, <5>1
        <5>3. QED BY <1>3, <5>1, <5>2
      <4>3. QED BY <3>2, <4>1, <4>2
    <3>4. ASSUME NEW q \in Producer \ {r}, emitting'[q] # None
          PROVE  emitting'[r].end <= emitting'[q].start \/ emitting'[q].end <= emitting'[r].start
      <4>1. CASE q = p
        BY <1>2, <1>3, <3>1, <4>1
      <4>2. CASE q # p
        BY <1>3, <3>1, <3>4, <4>2 DEF InOrder, Tiled
      <4>3. QED BY <4>1, <4>2
    <3>5. QED BY <3>3, <3>4
  <2>3. QED BY <2>1, <2>2
<1>6. PICK e \in 0 .. next : InStep(e)
  BY DEF InOrder
<1>7. Front(e)'
  <2>1. \A q \in Producer : emitting'[q] # None => e <= emitting'[q].start
    <3> SUFFICES ASSUME NEW q \in Producer, emitting'[q] # None PROVE e <= emitting'[q].start
      OBVIOUS
    <3>1. CASE q = p
      BY <1>0, <1>2, <1>3, <3>1
    <3>2. CASE q # p
      BY <1>3, <1>6, <3>2 DEF InStep, Front
    <3>3. QED BY <3>1, <3>2
  <2>2. \E q \in Producer : emitting'[q] # None /\ emitting'[q].start = e
    <3>1. CASE e = next
      BY <1>2, <1>3, <1>4, <3>1
    <3>2. CASE e # next
      <4>1. PICK q \in Producer : emitting[q] # None /\ emitting[q].start = e
        BY <1>6, <3>2 DEF InStep, Front
      <4>2. q # p
        BY <1>0, <4>1
      <4>3. QED BY <1>3, <4>1, <4>2
    <3>3. QED BY <3>1, <3>2
  <2>3. QED BY <2>1, <2>2 DEF Front
<1>8. UNCHANGED <<wire, queued, answer, handle, view>>
  BY DEF AppendOutput
<1>9. Pending' = Pending /\ View' = View /\ UNCHANGED last
  BY <1>8, SameView DEF Pending, view
<1>10. \A i \in 1 .. Len(Pending) : Pending[i].end <= next'
  <2> SUFFICES ASSUME NEW i \in 1 .. Len(Pending) PROVE Pending[i].end <= next'
    OBVIOUS
  <2>1. Pending[i] \in Chunk
    BY PendingTyped, ElementOfSeq
  <2>2. Pending[i].end \in Nat /\ Pending[i].end <= next
    BY <1>6, <2>1 DEF Chunk, InStep
  <2>3. QED BY <1>0, <1>1, <2>2
<1>11. InStep(e)'
  BY <1>6, <1>7, <1>8, <1>9, <1>10 DEF InStep
<1>12. e \in 0 .. next'
  BY <1>0, <1>1
<1>13. Back(View) <= TailStart'
  <2>1. Back(View) \in Int
    BY LenProperties DEF StreamInv, ViewportOK, IsRun, Screen, Back
  <2>2. QED BY <1>1, <1>2, <2>1 DEF InOrder
<1>14. QED BY <1>5, <1>9, <1>11, <1>12, <1>13 DEF InOrder, Back

(* The chunk that is emitted in its turn follows on those on their way; one  *)
(* that nobody hears is in the snapshot, or on the screen, already.           *)
LEMMA EmitKeepsOrder ==
  ASSUME StreamInv, StreamInv', InOrder, NEW p \in Producer, Emit(p),
         ~overtaken', ~missed'
  PROVE  InOrder'
<1>0. PICK c : c = emitting[p]
  OBVIOUS
<1>1. /\ c # None /\ ~Overtakes(p) /\ ~Missed(p)
      /\ emitting' = [emitting EXCEPT ![p] = None]
      /\ wire' = IF listening = "yes" THEN Append(wire, c) ELSE wire
      /\ UNCHANGED <<chunks, next, listening, handle, answer, queued, view>>
  BY <1>0 DEF Emit
<1>2. /\ BackendOK /\ next \in Nat /\ TailStart' = TailStart /\ c \in Chunk
      /\ c.start \in Nat /\ c.end \in Nat /\ c.start < c.end /\ c.end <= next
  BY <1>0, <1>1, EmitKeepsBackend DEF StreamInv, BackendOK, Chunk
<1>3. /\ emitting'[p] = None /\ \A q \in Producer \ {p} : emitting'[q] = emitting[q]
      /\ \A q \in Producer : emitting[q] # None =>
           emitting[q].start \in Nat /\ emitting[q].end \in Nat
           /\ emitting[q].start < emitting[q].end /\ emitting[q].end <= next
           /\ c.start <= emitting[q].start
  <2>1. \A q \in Producer : emitting[q] # None =>
           emitting[q].start \in Nat /\ emitting[q].end \in Nat
           /\ emitting[q].start < emitting[q].end /\ emitting[q].end <= next
    BY <1>2 DEF BackendOK, Chunk
  <2>2. emitting'[p] = None /\ \A q \in Producer \ {p} : emitting'[q] = emitting[q]
    BY <1>1, <1>2 DEF BackendOK
  <2>3. \A q \in Producer : emitting[q] # None => ~(emitting[q].start < c.start)
    BY <1>0, <1>1 DEF Overtakes
  <2>4. QED BY <1>2, <2>1, <2>2, <2>3
<1>4. PICK e \in 0 .. next : InStep(e)
  BY DEF InOrder
<1>5. e = c.start
  <2>1. e <= c.start
    BY <1>0, <1>1, <1>4 DEF InStep, Front
  <2>2. e # next
    BY <1>2, <2>1
  <2>3. PICK q \in Producer : emitting[q] # None /\ emitting[q].start = e
    BY <1>4, <2>2 DEF InStep, Front
  <2>4. c.start <= e
    BY <1>3, <2>3
  <2>5. QED BY <1>2, <2>1, <2>4
<1>6. \A q \in Producer \ {p} : emitting[q] # None => c.end <= emitting[q].start
  <2> SUFFICES ASSUME NEW q \in Producer \ {p}, emitting[q] # None
               PROVE  c.end <= emitting[q].start
    OBVIOUS
  <2>1. c.end <= emitting[q].start \/ emitting[q].end <= c.start
    BY <1>0, <1>1 DEF InOrder, Tiled
  <2>2. ~(emitting[q].end <= c.start)
    BY <1>2, <1>3
  <2>3. QED BY <2>1, <2>2
<1>7. Front(c.end)'
  <2>1. \A q \in Producer : emitting'[q] # None => c.end <= emitting'[q].start
    BY <1>3, <1>6
  <2>2. c.end = next \/ \E q \in Producer : emitting[q] # None /\ emitting[q].start = c.end
    BY <1>0, <1>1 DEF InOrder, Tiled
  <2>3. c.end = next' \/ \E q \in Producer : emitting'[q] # None /\ emitting'[q].start = c.end
    <3>1. CASE c.end = next
      BY <1>1, <3>1
    <3>2. ASSUME NEW q \in Producer, emitting[q] # None, emitting[q].start = c.end
          PROVE  emitting'[q] # None /\ emitting'[q].start = c.end
      <4>1. q # p
        BY <1>0, <1>2, <3>2
      <4>2. QED BY <1>3, <3>2, <4>1
    <3>3. QED BY <2>2, <3>1, <3>2
  <2>4. QED BY <2>1, <2>3 DEF Front
<1>8. Tiled'
  <2> SUFFICES ASSUME NEW r \in Producer, emitting'[r] # None
               PROVE  /\ \/ emitting'[r].end = next'
                         \/ \E q \in Producer : emitting'[q] # None
                                                /\ emitting'[q].start = emitting'[r].end
                      /\ \A q \in Producer \ {r} : emitting'[q] # None =>
                           \/ emitting'[r].end <= emitting'[q].start
                           \/ emitting'[q].end <= emitting'[r].start
    BY DEF Tiled
  <2>1. r # p /\ emitting'[r] = emitting[r] /\ emitting[r] # None
    BY <1>3
  <2>2. \/ emitting[r].end = next
        \/ \E q \in Producer : emitting[q] # None /\ emitting[q].start = emitting[r].end
    BY <2>1 DEF InOrder, Tiled
  <2>3. ASSUME NEW q \in Producer, emitting[q] # None, emitting[q].start = emitting[r].end
        PROVE  emitting'[q] # None /\ emitting'[q].start = emitting'[r].end
    <3>1. c.end <= emitting[r].start /\ emitting[r].start < emitting[r].end
          /\ emitting[r].start \in Nat /\ emitting[r].end \in Nat
      BY <1>3, <1>6, <2>1
    <3>2. q # p
      BY <1>0, <1>2, <2>3, <3>1
    <3>3. QED BY <1>3, <2>1, <2>3, <3>2
  <2>4. \A q \in Producer \ {r} : emitting'[q] # None =>
          emitting'[r].end <= emitting'[q].start \/ emitting'[q].end <= emitting'[r].start
    BY <1>3, <2>1 DEF InOrder, Tiled
  <2>5. QED BY <1>1, <2>1, <2>2, <2>3, <2>4
<1>9. View' = View /\ UNCHANGED last
  BY <1>1, SameView DEF view
<1>10. ASSUME listening = "yes" PROVE InStep(c.end)'
  <2>1. queued \in Seq(Chunk) /\ wire \in Seq(Chunk) /\ Pending \in Seq(Chunk)
    BY PendingTyped DEF StreamInv, ViewportOK
  <2>2. Pending' = Append(Pending, c)
    BY <1>1, <1>2, <1>10, <2>1, PendingMoves DEF Pending
  <2>3. Chain(Pending', c.end) /\ First(Pending', c.end) = First(Pending, c.start)
    BY <1>2, <1>4, <1>5, <2>1, <2>2, ChainAppend DEF InStep
  <2>4. \A i \in 1 .. Len(Pending') : Pending'[i].end <= next
    <3>1. /\ Len(Pending') = Len(Pending) + 1 /\ Len(Pending) \in Nat
          /\ \A i \in 1 .. Len(Pending) : Pending'[i] = Pending[i]
          /\ Pending'[Len(Pending) + 1] = c
      BY <1>2, <2>1, <2>2, AppendProperties, LenProperties
    <3> SUFFICES ASSUME NEW i \in 1 .. Len(Pending') PROVE Pending'[i].end <= next
      OBVIOUS
    <3>2. CASE i \in 1 .. Len(Pending)
      BY <1>4, <3>1, <3>2 DEF InStep
    <3>3. CASE i \notin 1 .. Len(Pending)
      <4>1. i = Len(Pending) + 1
        BY <3>1, <3>3
      <4>2. QED BY <1>2, <3>1, <4>1
    <3>4. QED BY <3>2, <3>3
  <2>5. QED BY <1>1, <1>4, <1>5, <1>7, <1>9, <2>3, <2>4 DEF InStep
<1>11. ASSUME listening # "yes" PROVE InStep(c.end)'
  <2>1. Pending = <<>> /\ Pending' = Pending /\ Len(<<>>) = 0
    BY <1>1, <1>11, EmptySeq, ConcatEmptySeq DEF StreamInv, AttachOK, Pending
  <2>2. First(Pending', c.end) = c.end /\ Chain(Pending', c.end)
    BY <2>1 DEF First, Chain
  <2>3. \A i \in 1 .. Len(Pending') : Pending'[i].end <= next'
    BY <2>1
  <2>4. (answer # None => c.end <= answer.end) /\ (handle = "attached" => c.end <= last)
    <3>1. answer # None \/ handle = "attached" => listening = "asked"
      BY <1>11 DEF StreamInv, AttachOK
    <3>2. answer # None => answer.end \in Nat
      BY DEF StreamInv, ViewportOK, Snapshot
    <3>3. last \in Nat
      BY DEF StreamInv, ViewportOK, IsRun, Screen, View
    <3>4. QED BY <1>0, <1>1, <1>2, <3>1, <3>2, <3>3 DEF Missed
  <2>5. QED BY <1>1, <1>7, <1>9, <2>2, <2>3, <2>4 DEF InStep
<1>12. InStep(c.end)' /\ c.end \in 0 .. next'
  <2>1. InStep(c.end)'
    BY <1>10, <1>11
  <2>2. QED BY <1>1, <1>2, <2>1
<1>13. (Back(View) <= TailStart)'
  BY <1>2, <1>9 DEF InOrder, Back
<1>14. QED BY <1>8, <1>12, <1>13 DEF InOrder

(* The steps that leave the backend alone: what is to be emitted is the same. *)
LEMMA BackendSame ==
  ASSUME InOrder, UNCHANGED backend
  PROVE  /\ Tiled' /\ TailStart' = TailStart /\ next' = next
         /\ \A e : InStep(e) => Front(e)'
<1>1. UNCHANGED <<chunks, next, emitting>>
  BY DEF backend
<1>2. \A e : Front(e) => Front(e)'
  BY <1>1 DEF Front
<1>3. Tiled'
  BY <1>1 DEF Tiled, InOrder
<1>4. QED BY <1>1, <1>2, <1>3 DEF InStep, TailStart

(* Those that touch neither the chunks on their way nor the screen. *)
LEMMA QuietKeepsOrder ==
  ASSUME StreamInv, InOrder, TakeSnapshot \/ Cache \/ Retry \/ Listen \/ UNCHANGED vars
  PROVE  InOrder'
<1>1. UNCHANGED <<backend, wire, queued, view>> /\ (handle' = "attached" => handle = "attached")
  BY DEF TakeSnapshot, Cache, Retry, Listen, LoadSnapshot, vars
<1>2. Pending' = Pending /\ View' = View /\ UNCHANGED last
  BY <1>1, SameView DEF Pending, view
<1>3. PICK e \in 0 .. next : InStep(e)
  BY DEF InOrder
<1>4. /\ Tiled' /\ TailStart' = TailStart /\ next' = next /\ Front(e)'
  BY <1>1, <1>3, BackendSame
<1>5. answer' # None => First(Pending, e) <= answer'.end
  <2>1. CASE TakeSnapshot
    <3>1. answer'.end = next /\ next \in Nat
      BY <2>1 DEF TakeSnapshot, OutputTail, StreamInv, BackendOK
    <3>2. e \in Nat /\ e <= next
      BY <3>1
    <3>3. First(Pending, e) <= next
      BY <1>3, <3>1, <3>2, PendingTyped, FirstBounds DEF InStep
    <3>4. QED BY <3>1, <3>3
  <2>2. CASE UNCHANGED answer
    BY <1>3, <2>2 DEF InStep
  <2>3. QED BY <2>1, <2>2 DEF Cache, Retry, Listen, vars
<1>6. InStep(e)'
  BY <1>1, <1>2, <1>3, <1>4, <1>5 DEF InStep
<1>7. (Back(View) <= TailStart)'
  BY <1>2, <1>4 DEF InOrder, Back
<1>8. QED BY <1>4, <1>6, <1>7 DEF InOrder

LEMMA MountKeepsOrder == ASSUME StreamInv, InOrder, Mount PROVE InOrder'
<1>1. /\ UNCHANGED <<backend, wire, queued, answer>> /\ handle' = "attaching"
  BY DEF Mount, LoadSnapshot
<1>2. PICK e \in 0 .. next : InStep(e)
  BY DEF InOrder
<1>3. /\ Tiled' /\ TailStart' = TailStart /\ next' = next /\ Front(e)'
  BY <1>1, <1>2, BackendSame
<1>4. Pending' = Pending
  BY <1>1 DEF Pending
<1>5. InStep(e)'
  BY <1>1, <1>2, <1>3, <1>4 DEF InStep
<1>6. Back(View') <= TailStart
  BY MountedView DEF InOrder, StreamInv, SnapshotsReachBack
<1>7. QED BY <1>3, <1>5, <1>6 DEF InOrder, Back

(* What is left on the wire is still a chain. *)
LEMMA WireLeft ==
  ASSUME StreamInv, NEW e, InStep(e)
  PROVE  /\ Chain(wire, e) /\ Chain(queued, First(wire, e))
         /\ First(Pending, e) = First(queued, First(wire, e))
         /\ \A i \in 1 .. Len(wire) : wire[i].end <= next
<1>1. queued \in Seq(Chunk) /\ wire \in Seq(Chunk)
  BY DEF StreamInv, ViewportOK
<1>2. Chain(queued \o wire, e)
  BY DEF InStep, Pending
<1>3. \A i \in 1 .. Len(wire) : wire[i].end <= next
  <2> SUFFICES ASSUME NEW i \in 1 .. Len(wire) PROVE wire[i].end <= next
    OBVIOUS
  <2>1. /\ Len(Pending) = Len(queued) + Len(wire) /\ Len(queued) \in Nat /\ Len(wire) \in Nat
        /\ \A j \in 1 .. Len(queued) + Len(wire) :
             Pending[j] = IF j <= Len(queued) THEN queued[j] ELSE wire[j - Len(queued)]
    BY <1>1, ConcatProperties, LenProperties DEF Pending
  <2>2. /\ i + Len(queued) \in 1 .. Len(Pending) /\ ~(i + Len(queued) <= Len(queued))
        /\ (i + Len(queued)) - Len(queued) = i
    BY <2>1
  <2>3. Pending[i + Len(queued)] = wire[i]
    BY <2>1, <2>2
  <2>4. QED BY <2>2, <2>3 DEF InStep
<1>4. QED BY <1>1, <1>2, <1>3, ChainSplit DEF Pending

LEMMA FailKeepsOrder == ASSUME StreamInv, InOrder, AttachFails PROVE InOrder'
<1>1. /\ UNCHANGED <<backend, wire, view>> /\ handle' = "none" /\ answer' = None /\ queued' = <<>>
  BY DEF AttachFails
<1>2. PICK e \in 0 .. next : InStep(e)
  BY DEF InOrder
<1>3. /\ Tiled' /\ TailStart' = TailStart /\ next' = next /\ Front(e)'
  BY <1>1, <1>2, BackendSame
<1>4. Pending' = wire
  BY <1>1, ConcatEmptySeq DEF StreamInv, ViewportOK, Pending
<1>5. InStep(e)'
  BY <1>1, <1>2, <1>3, <1>4, WireLeft DEF InStep
<1>6. View' = View
  BY <1>1, SameView
<1>7. QED BY <1>3, <1>5, <1>6 DEF InOrder, Back

LEMMA AttachedKeepsOrder == ASSUME StreamInv, InOrder, Attached PROVE InOrder'
<1>1. /\ UNCHANGED <<backend, wire>> /\ answer' = None /\ queued' = <<>>
      /\ wire \in Seq(Chunk) /\ queued \in Seq(Chunk) /\ answer # None
  BY DEF Attached, StreamInv, ViewportOK
<1>2. PICK e \in 0 .. next : InStep(e)
  BY DEF InOrder
<1>3. /\ Tiled' /\ TailStart' = TailStart /\ next' = next /\ Front(e)'
  BY <1>1, <1>2, BackendSame
<1>4. Pending' = wire
  BY <1>1, ConcatEmptySeq DEF Pending
<1> DEFINE v == Applied(View, answer)
           w == Replayed(v, queued)
<1>5. /\ IsRun(v) /\ answer.end <= v.last /\ Back(v) \in {Back(View), answer.start}
      /\ View' = w /\ answer \in Snapshot
  BY AttachedView
<1> HIDE DEF v
<1>6. PICK d : d = First(wire, e)
  OBVIOUS
<1>7. d \in Nat
  <2>1. next \in Nat /\ e \in Nat /\ e <= next
    BY DEF StreamInv, BackendOK
  <2>2. QED BY <1>1, <1>2, <1>6, <2>1, WireLeft, FirstBounds
<1>8. Chain(queued, d) /\ First(queued, d) <= v.last
  <2>1. Chain(queued, d) /\ First(queued, d) = First(Pending, e)
    BY <1>2, <1>6, WireLeft
  <2>2. First(queued, d) <= answer.end
    BY <1>1, <1>2, <2>1 DEF InStep
  <2>3. answer.end \in Nat /\ v.last \in Nat
    BY <1>5 DEF Snapshot, IsRun, Screen
  <2>4. First(queued, d) \in Nat
    <3>1. CASE queued = <<>>
      BY <1>7, <3>1 DEF First
    <3>2. CASE queued # <<>>
      <4>1. 1 \in 1 .. Len(queued)
        BY <1>1, <3>2, EmptySeq
      <4>2. queued[1] \in Chunk
        BY <1>1, <4>1, ElementOfSeq
      <4>3. QED BY <3>2, <4>2 DEF First, Chunk
    <3>3. QED BY <3>1, <3>2
  <2>5. QED BY <1>5, <2>1, <2>2, <2>3, <2>4
<1>9. d <= w.last /\ Back(w) = Back(v)
  BY <1>1, <1>5, <1>7, <1>8, ReplayedReaches
<1> HIDE DEF w
<1>10. last' = w.last
  BY <1>5 DEF View
<1>11. InStep(e)'
  BY <1>1, <1>2, <1>3, <1>4, <1>6, <1>9, <1>10, WireLeft DEF InStep
<1>12. Back(View') <= TailStart
  BY <1>1, <1>5, <1>9 DEF InOrder, StreamInv, SnapshotsReachBack
<1>13. QED BY <1>3, <1>11, <1>12 DEF InOrder, Back

LEMMA DeliverKeepsOrder == ASSUME StreamInv, InOrder, Deliver PROVE InOrder'
<1>1. /\ UNCHANGED <<backend, handle, answer>> /\ wire' = Tail(wire)
      /\ queued' = IF handle = "attaching" THEN Append(queued, Head(wire)) ELSE queued
      /\ wire \in Seq(Chunk) /\ queued \in Seq(Chunk) /\ wire # <<>> /\ Head(wire) \in Chunk
  BY DeliveredView DEF Deliver, StreamInv, ViewportOK
<1>2. PICK e \in 0 .. next : InStep(e)
  BY DEF InOrder
<1>3. /\ Tiled' /\ TailStart' = TailStart /\ next' = next /\ Front(e)'
  BY <1>1, <1>2, BackendSame
<1>4. CASE handle = "attaching"
  <2>1. Pending' = Pending
    BY <1>1, <1>4, PendingMoves DEF Pending
  <2>2. View' = View
    BY <1>4, DeliveredView
  <2>3. InStep(e)'
    BY <1>1, <1>2, <1>3, <1>4, <2>1 DEF InStep
  <2>4. QED BY <1>3, <2>2, <2>3 DEF InOrder, Back
<1>5. CASE handle # "attaching"
  <2>1. Pending = wire /\ Pending' = Tail(wire) /\ answer = None
    <3>1. queued = <<>> /\ queued' = <<>> /\ answer = None
      BY <1>1, <1>5 DEF StreamInv, AttachOK
    <3>2. Tail(wire) \in Seq(Chunk)
      BY <1>1, HeadTailProperties
    <3>3. QED BY <1>1, <3>1, <3>2, ConcatEmptySeq DEF Pending
  <2>2. /\ Chain(Tail(wire), e) /\ First(Tail(wire), e) = Head(wire).end
        /\ First(wire, e) = Head(wire).start
    BY <1>1, <1>2, <2>1, ChainTail DEF InStep
  <2>3. \A i \in 1 .. Len(Tail(wire)) : Tail(wire)[i].end <= next
    <3>1. /\ Len(Tail(wire)) = Len(wire) - 1 /\ Len(wire) \in Nat
          /\ \A i \in 1 .. Len(Tail(wire)) : Tail(wire)[i] = wire[i + 1]
      BY <1>1, HeadTailProperties, LenProperties
    <3>2. \A i \in 1 .. Len(Tail(wire)) : i + 1 \in 1 .. Len(wire)
      BY <3>1
    <3>3. QED BY <1>2, <2>1, <3>1, <3>2 DEF InStep
  <2>4. handle = "attached" => Head(wire).end <= last' /\ Back(View') = Back(View)
    <3> SUFFICES ASSUME handle = "attached"
                 PROVE  Head(wire).end <= last' /\ Back(View') = Back(View)
      OBVIOUS
    <3>1. View' = Written(View, Head(wire)) /\ IsRun(View)
      BY DeliveredView DEF StreamInv, ViewportOK
    <3>2. Head(wire).start <= View.last
      BY <1>2, <2>1, <2>2 DEF InStep, View
    <3>3. Head(wire).end <= Written(View, Head(wire)).last
          /\ Back(Written(View, Head(wire))) = Back(View)
      BY <1>1, <3>1, <3>2, WrittenRun
    <3>4. last' = View'.last
      BY DEF View
    <3>5. QED BY <3>1, <3>3, <3>4
  <2>5. InStep(e)'
    BY <1>1, <1>2, <1>3, <2>1, <2>2, <2>3, <2>4 DEF InStep
  <2>6. Back(View') <= TailStart
    <3>1. CASE handle = "attached"
      BY <2>4, <3>1 DEF InOrder
    <3>2. CASE handle # "attached"
      BY <3>2, DeliveredView DEF InOrder
    <3>3. QED BY <3>1, <3>2
  <2>7. QED BY <1>3, <2>5, <2>6 DEF InOrder, Back
<1>6. QED BY <1>4, <1>5

(* What was overtaken or missed stays so. *)
LEMMA HistoryGrows ==
  ASSUME [Next]_vars, ~overtaken', ~missed', overtaken \in BOOLEAN, missed \in BOOLEAN
  PROVE  ~overtaken /\ ~missed
<1>1. ASSUME NEW p \in Producer, Emit(p) PROVE ~overtaken /\ ~missed
  BY <1>1 DEF Emit
<1>2. CASE UNCHANGED history
  BY <1>2 DEF history
<1>3. ASSUME NEW p \in Producer, NEW n \in 1 .. MaxChunk, AppendOutput(p, n)
      PROVE  UNCHANGED history
  BY <1>3 DEF AppendOutput
<1>4. CASE TakeSnapshot \/ Cache \/ Mount \/ AttachFails \/ Retry \/ Attached \/ Listen \/ Deliver
  BY <1>2, <1>4 DEF TakeSnapshot, Cache, Mount, AttachFails, Retry, Attached, Listen, Deliver
<1>5. CASE UNCHANGED vars
  BY <1>2, <1>5 DEF vars
<1>6. QED BY <1>1, <1>2, <1>3, <1>4, <1>5 DEF Next

LEMMA StepKeepsReach == ReachInv /\ [Next]_vars => ReachInv'
<1> SUFFICES ASSUME ReachInv, [Next]_vars PROVE ReachInv'
  OBVIOUS
<1>1. StreamInv /\ StreamInv'
  BY StepKeepsStream DEF ReachInv
<1> SUFFICES ASSUME ~overtaken', ~missed' PROVE InOrder'
  BY <1>1 DEF ReachInv
<1>2. InOrder
  BY <1>1, HistoryGrows DEF ReachInv, StreamInv, ViewportOK
<1>3. ASSUME NEW p \in Producer, Emit(p) \/ \E n \in 1 .. MaxChunk : AppendOutput(p, n)
      PROVE  InOrder'
  BY <1>1, <1>2, <1>3, EmitKeepsOrder, AppendKeepsOrder
<1>4. CASE TakeSnapshot \/ Cache \/ Retry \/ Listen \/ UNCHANGED vars
  BY <1>1, <1>2, <1>4, QuietKeepsOrder
<1>5. CASE Mount
  BY <1>1, <1>2, <1>5, MountKeepsOrder
<1>6. CASE AttachFails
  BY <1>1, <1>2, <1>6, FailKeepsOrder
<1>7. CASE Attached
  BY <1>1, <1>2, <1>7, AttachedKeepsOrder
<1>8. CASE Deliver
  BY <1>1, <1>2, <1>8, DeliverKeepsOrder
<1>9. QED BY <1>3, <1>4, <1>5, <1>6, <1>7, <1>8 DEF Next

(* ScreenReachesBack: an attached viewport shows at least what a fresh       *)
(* attach would bring, however snapshots, failed attaches and events          *)
(* interleave, as long as the producers emit in the order they append in and  *)
(* the listener was there: writeTerminalChunk never clears the screen for a   *)
(* hole.                                                                      *)
THEOREM ScreenAlwaysReachesBack == Spec => []ScreenReachesBack
<1>1. ReachInv => ScreenReachesBack
  BY DEF ReachInv, InOrder, Back, View, ScreenReachesBack
<1>2. QED BY <1>1, InitStream, StepKeepsReach, PTL DEF Spec

-----------------------------------------------------------------------------
(* The session behind the output, when it is one of SSH: SshSession, which   *)
(* the stream knows nothing of.                                              *)
USE SshAssumption

(* The three marks write a record of the type. *)
LEMMA MarkTyped ==
  ASSUME NEW status \in Status, NEW running \in BOOLEAN
  PROVE  [status |-> status, running |-> running] \in [status : Status, running : BOOLEAN]
  BY Zenon

(* The session as it is created has the type. *)
LEMMA InitTyped == SshInit => TypeOK
<1> SUFFICES ASSUME SshInit PROVE TypeOK
  OBVIOUS
<1>1. record \in [status : Status, running : BOOLEAN] /\ row \in Status
  BY MarkTyped DEF SshInit, Status
<1>2. 1 \in Connection
  BY DEF Connection
<1>3. /\ link \in [Connection -> {"none", "open", "down"}]
      /\ io \in [Connection -> Io] /\ writer \in [Connection -> Writer]
  BY DEF SshInit, Io, Writer
<1>4. /\ registered \in BOOLEAN /\ closing \in BOOLEAN /\ raced \in BOOLEAN
      /\ tabs \subseteq Kind /\ waiting \subseteq Connection /\ signal \subseteq Connection
      /\ current \in Connection /\ sshHandle \in Connection /\ senders \in Connection
      /\ closeAt = "open"
  BY <1>2 DEF SshInit
<1>5. runner = None /\ step \in Step /\ attempt \in 0 .. MaxAttempts
  BY DEF SshInit, Step
<1>6. QED
  BY <1>1, <1>3, <1>4, <1>5 DEF TypeOK

(* Tabs, close() and the network keep the type. *)
LEMMA SurroundingsTyped ==
  ASSUME TypeOK, User \/ Network \/ Close
  PROVE  TypeOK'
<1>1. ASSUME NEW kind \in Kind, OpenTab(kind) \/ CloseTab(kind) PROVE TypeOK'
  BY <1>1 DEF OpenTab, CloseTab, TypeOK, runtime, reconnect, tasks
<1>2. CASE CloseBegin
  BY <1>2 DEF CloseBegin, TypeOK, shared, reconnect, tasks
<1>3. CASE ReconnectCall
  BY <1>3 DEF ReconnectCall, TypeOK, shared, runtime, tasks, Step,
      Manual
<1>4. ASSUME NEW c \in Connection, Lose(c) PROVE TypeOK'
  BY <1>4 DEF Lose, TypeOK, shared, runtime, reconnect
<1>5. ASSUME NEW c \in Connection, ShellExits(c) PROVE TypeOK'
  BY <1>5 DEF ShellExits, IoEnds, TypeOK, shared, runtime,
      reconnect, Io
<1>6. CASE CloseSignal
  BY <1>6 DEF CloseSignal, TypeOK, shared, runtime, reconnect
<1>7. CASE CloseRemove
  BY <1>7 DEF CloseRemove, Broadcast, TypeOK, runtime, reconnect,
      tasks
<1>8. CASE CloseAnnounce
  BY <1>8 DEF CloseAnnounce, TypeOK, runtime, reconnect, tasks
<1>9. QED BY <1>1, <1>2, <1>3, <1>4, <1>5, <1>6, <1>7, <1>8
  DEF User, Network, Close

(* The writer and the I/O task of a connection keep the type. *)
LEMMA TasksTyped ==
  ASSUME TypeOK, NEW c \in Connection,
         Dropped(c) \/ WriterTask(c) \/ IoTask(c)
  PROVE  TypeOK'
<1>1. CASE Dropped(c)
  BY <1>1 DEF Dropped, TypeOK, shared, runtime, reconnect
<1>2. CASE WriterWakes(c)
  BY <1>2 DEF WriterWakes, TypeOK, shared, runtime, reconnect,
      Writer
<1>3. CASE WriterDisconnects(c)
  BY <1>3 DEF WriterDisconnects, TypeOK, shared, runtime, reconnect,
      Writer
<1>4. CASE WriterEnds(c)
  BY <1>4 DEF WriterEnds, TypeOK, shared, runtime, reconnect, Writer
<1>5. CASE ConnectionLost(c)
  BY <1>5 DEF ConnectionLost, IoEnds, SpawnRunner, TypeOK, shared,
      runtime, reconnect, Io
<1>6. CASE WriterStopped(c)
  BY <1>6 DEF WriterStopped, IoEnds, TypeOK, shared, runtime,
      reconnect, Io
<1>7. CASE ShellEnded(c)
  BY <1>7 DEF ShellEnded, TypeOK, shared, runtime, reconnect, Io
<1>8. CASE ShellEndedClears(c)
  BY <1>8 DEF ShellEndedClears, ClearConnection, TypeOK, shared,
      reconnect, Io
<1>9. CASE ShellEndedMarks(c)
  BY <1>9, MarkTyped DEF ShellEndedMarks, MarkDisconnected, Broadcast,
      TypeOK, shared, runtime, reconnect, Io, Status
<1>10. QED BY <1>1, <1>2, <1>3, <1>4, <1>5, <1>6, <1>7, <1>8, <1>9
  DEF WriterTask, IoTask

(* Whoever holds the reconnect flag keeps the type: an attempt begins only   *)
(* below the last, a connection is made only below the bound.                *)
LEMMA HolderTyped ==
  ASSUME TypeOK, Holder
  PROVE  TypeOK'
<1> USE DEF TypeOK, To, Release, Step
<1>1. CASE Check BY <1>1 DEF Check, shared, runtime, tasks
<1>2. CASE Clear BY <1>2 DEF Clear, ClearConnection, shared, tasks
<1>3. CASE Teardown BY <1>3 DEF Teardown, ClearConnection, shared
<1>4. CASE Proceed BY <1>4 DEF Proceed, shared, runtime, tasks
<1>5. CASE MarkReconnecting
  BY <1>5, MarkTyped DEF MarkReconnecting, Broadcast, Status, runtime,
      tasks
<1>6. CASE ReconnectStart BY <1>6
  DEF ReconnectStart, shared, runtime, tasks
<1>7. CASE ConnectFails BY <1>7 DEF ConnectFails, shared, runtime, tasks
<1>8. CASE Connect BY <1>8 DEF Connect, shared, Connection
<1>9. CASE InstallInterrupted BY <1>9
  DEF InstallInterrupted, shared, tasks, Connection
<1>10. CASE Recheck BY <1>10 DEF Recheck, ClearConnection, shared
<1>11. CASE Revive
  BY <1>11, MarkTyped DEF Revive, Broadcast, Status, Io, Writer,
      runtime
<1>12. CASE AttemptFailed
  <2>1. CASE runner # Manual /\ attempt < MaxAttempts
    BY <1>12, <2>1 DEF AttemptFailed, shared, runtime, tasks
  <2>2. CASE ~(runner # Manual /\ attempt < MaxAttempts)
    <3>1. MarkDisconnected /\ To("release")
      BY <1>12, <2>2 DEF AttemptFailed
    <3>2. record' \in [status : Status, running : BOOLEAN] /\ row' \in Status
      BY <3>1, MarkTyped DEF MarkDisconnected, Broadcast, Status
    <3>3. QED
      BY <1>12, <3>1, <3>2 DEF AttemptFailed, MarkDisconnected, runtime,
          tasks
  <2>3. QED BY <2>1, <2>2
<1>13. CASE FinishRunner BY <1>13
  DEF FinishRunner, shared, runtime, tasks
<1>14. QED
  BY <1>1, <1>2, <1>3, <1>4, <1>5, <1>6, <1>7, <1>8, <1>9, <1>10, <1>11, <1>12, <1>13
  DEF Holder

(* Every step keeps the type. *)
LEMMA StepTyped == TypeOK /\ [SshNext]_sshVars => TypeOK'
<1> SUFFICES ASSUME TypeOK, [SshNext]_sshVars PROVE TypeOK'
  OBVIOUS
<1>1. ASSUME NEW c \in Connection, Begin(c) PROVE TypeOK'
  <2>1. CASE runner = None
    BY <1>1, <2>1 DEF Begin, TypeOK, shared, runtime, tasks, Step
  <2>2. CASE runner # None
    BY <1>1, <2>2 DEF Begin, TypeOK, shared, runtime, reconnect,
        tasks
  <2>3. QED BY <2>1, <2>2
<1>2. CASE UNCHANGED sshVars
  BY <1>2 DEF sshVars, shared, runtime, reconnect, tasks, TypeOK
<1>3. QED BY <1>1, <1>2, SurroundingsTyped, TasksTyped, HolderTyped DEF SshNext

(* TypeOK: whatever the network, the user and the tasks of old connections   *)
(* do, the slots hold a connection that was made and no attempt exceeds       *)
(* SSH_RECONNECT_MAX_ATTEMPTS.                                               *)
THEOREM SshTypeCorrect == SshSpec => []TypeOK
<1>1. TypeOK /\ [SshNext]_sshVars => TypeOK'
  BY StepTyped
<1>2. QED BY InitTyped, <1>1, PTL DEF SshSpec

-----------------------------------------------------------------------------
(* What concerns the tabs: a step that neither ends the session nor opens a  *)
(* tab leaves them with a session that is there.                             *)
LEMMA TabsKept == TabsLive /\ [SshNext]_sshVars => TabsLive'
<1> SUFFICES ASSUME TabsLive, [SshNext]_sshVars PROVE TabsLive'
  OBVIOUS
<1> USE DEF TabsLive
<1>1. ASSUME NEW kind \in Kind, OpenTab(kind) \/ CloseTab(kind) PROVE TabsLive'
  BY <1>1 DEF OpenTab, CloseTab
<1>2. CASE CloseRemove BY <1>2 DEF CloseRemove
<1>3. CASE CloseAnnounce BY <1>3 DEF CloseAnnounce
<1>4. ASSUME NEW c \in Connection, ShellEndedMarks(c) PROVE TabsLive'
  BY <1>4 DEF ShellEndedMarks, MarkDisconnected, shared
<1>5. CASE MarkReconnecting BY <1>5 DEF MarkReconnecting
<1>6. CASE Revive BY <1>6 DEF Revive
<1>7. CASE AttemptFailed BY <1>7 DEF AttemptFailed, MarkDisconnected, shared
<1>8. ASSUME UNCHANGED shared PROVE TabsLive'
  BY <1>8 DEF shared
<1>9. CASE CloseBegin \/ ReconnectCall \/ Network \/ CloseSignal
  BY <1>8, <1>9 DEF CloseBegin, ReconnectCall, Network, Lose,
      ShellExits, IoEnds, CloseSignal
<1>10. CASE Check \/ Clear \/ Teardown \/ Proceed \/ ReconnectStart \/ ConnectFails
            \/ Connect \/ InstallInterrupted \/ Recheck \/ FinishRunner
  BY <1>8, <1>10 DEF Check, Clear, Teardown, Proceed, ReconnectStart,
      ConnectFails, Connect, InstallInterrupted, Recheck, FinishRunner
<1>11. ASSUME NEW c \in Connection, Dropped(c) \/ WriterTask(c) \/ Begin(c)
       PROVE TabsLive'
  BY <1>8, <1>11 DEF Dropped, WriterTask, WriterWakes, WriterDisconnects,
      WriterEnds, Begin
<1>12. ASSUME NEW c \in Connection,
              ConnectionLost(c) \/ WriterStopped(c) \/ ShellEnded(c) \/ ShellEndedClears(c)
       PROVE TabsLive'
  BY <1>8, <1>12 DEF ConnectionLost, WriterStopped, IoEnds, ShellEnded,
      ShellEndedClears
<1>13. CASE UNCHANGED sshVars
  BY <1>8, <1>13 DEF sshVars
<1>14. QED
  BY <1>1, <1>2, <1>3, <1>4, <1>5, <1>6, <1>7, <1>9, <1>10, <1>11, <1>12, <1>13
  DEF SshNext, User, Close, Holder, IoTask

(* TabsLive: a tab belongs to a session that is registered and not           *)
(* disconnected, so the prune of ssh_terminal_tabs_list has nothing to do,    *)
(* however closes, failed reconnects and late ends of a shell interleave.     *)
THEOREM TabsStayLive == SshSpec => []TabsLive
<1>1. SshInit => TabsLive
  BY DEF SshInit, TabsLive
<1>2. QED BY <1>1, TabsKept, PTL DEF SshSpec
=============================================================================
