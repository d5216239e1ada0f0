------------------------ MODULE FlatTurnQueueProofs -------------------------
(***************************************************************************)
(* The list of all queued turns gives every conversation a queue of its    *)
(* own: what a filter keeps of a list put together from parts is what it    *)
(* keeps of the parts, so every splice of the list is the operation on the  *)
(* conversation's own turns, and the list implements TurnQueue.             *)
(***************************************************************************)
EXTENDS FlatTurnQueue, TurnQueueLemmas, WellFoundedInduction

(* A set of natural numbers that is not empty has a least element. *)
LEMMA LeastNumber ==
  ASSUME NEW T, T \subseteq Nat, T # {} PROVE \E x \in T : \A y \in T : x <= y
<1>1. \E x \in T : \A y \in T : <<y, x>> \notin OpToRel(<, Nat)
  BY NatLessThanWellFounded, WFMin
<1>2. \A x, y \in Nat : <<y, x>> \notin OpToRel(<, Nat) => x <= y
  BY DEF OpToRel
<1>3. QED BY <1>1, <1>2

(* Induction up to N, of the numbers in a set. *)
LEMMA UpTo ==
  ASSUME NEW N \in Nat, NEW T, 0 \in T, \A n \in 1 .. N : n - 1 \in T => n \in T
  PROVE  \A n \in 0 .. N : n \in T
<1> DEFINE R == {n \in 0 .. N : n \notin T}
<1>1. SUFFICES ASSUME R # {} PROVE FALSE
  OBVIOUS
<1>2. R \subseteq Nat
  OBVIOUS
<1> HIDE DEF R
<1>3. PICK m \in R : \A y \in R : m <= y
  BY <1>1, <1>2, LeastNumber
<1>4. m \in 1 .. N /\ m - 1 \in 0 .. N /\ ~(m <= m - 1)
  BY <1>2, <1>3 DEF R
<1>5. m - 1 \in T
  BY <1>3, <1>4 DEF R
<1>6. QED BY <1>3, <1>4, <1>5 DEF R

-----------------------------------------------------------------------------
(* What a filter keeps. *)

LEMMA KeptSeq ==
  ASSUME NEW T, NEW S, NEW r \in Seq(T \cap S), NEW t \in T
  PROVE  Kept(r, t, S) \in Seq(T \cap S)
<1>1. CASE t \in S
  BY <1>1, AppendProperties DEF Kept
<1>2. CASE t \notin S
  BY <1>2 DEF Kept
<1>3. QED BY <1>1, <1>2

LEMMA KeptConcat ==
  ASSUME NEW T, NEW S, NEW k, NEW r, NEW t, k \in Seq(T), r \in Seq(T), t \in T
  PROVE  Kept(k \o r, t, S) = k \o Kept(r, t, S)
<1>1. CASE t \in S
  <2>1. Kept(k \o r, t, S) = Append(k \o r, t) /\ Kept(r, t, S) = Append(r, t)
    BY <1>1 DEF Kept
  <2>2. <<t>> \in Seq(T) /\ k \o r \in Seq(T)
    BY ConcatProperties
  <2>3. Append(r, t) = r \o <<t>> /\ Append(k \o r, t) = (k \o r) \o <<t>>
    BY <2>2, AppendIsConcat
  <2>4. (k \o r) \o <<t>> = k \o (r \o <<t>>)
    BY <2>2, ConcatAssociative
  <2>5. QED BY <2>1, <2>3, <2>4
<1>2. CASE t \notin S
  BY <1>2 DEF Kept
<1>3. QED BY <1>1, <1>2

(* f is what the filter has kept after each of the first m turns. *)
Picks(q, S, m, f) ==
  f = [n \in 0 .. m |->
         IF n = 0 THEN <<>> ELSE Kept(f[n - 1], q[n], S)]

LEMMA PicksExists ==
  ASSUME NEW q, NEW S, NEW k \in Nat PROVE \E f : Picks(q, S, k, f)
<1> DEFINE T == {m \in Nat : \E f : Picks(q, S, m, f)}
<1>1. 0 \in T
  <2> DEFINE f == [n \in 0 .. 0 |-> <<>>]
  <2>1. Picks(q, S, 0, f)
    BY DEF Picks
  <2>2. QED BY <2>1
<1>2. ASSUME NEW m \in 1 .. k, m - 1 \in T PROVE m \in T
  <2>1. PICK f : Picks(q, S, m - 1, f)
    BY <1>2
  <2> DEFINE g == [n \in 0 .. m |-> IF n = m THEN Kept(f[m - 1], q[m], S) ELSE f[n]]
             h == [n \in 0 .. m |-> IF n = 0 THEN <<>> ELSE Kept(g[n - 1], q[n], S)]
  <2>2. \A n \in 0 .. m - 1 : f[n] = IF n = 0 THEN <<>> ELSE Kept(f[n - 1], q[n], S)
    BY <2>1 DEF Picks
  <2>3. \A n \in 0 .. m : g[n] = h[n]
    <3> TAKE n \in 0 .. m
    <3>1. CASE n = m
      <4>1. m - 1 \in 0 .. m /\ m - 1 # m /\ n # 0
        BY <3>1
      <4>2. g[m - 1] = f[m - 1]
        BY <4>1
      <4>3. g[n] = Kept(f[m - 1], q[m], S)
        BY <3>1
      <4>4. h[n] = Kept(g[m - 1], q[m], S)
        BY <3>1, <4>1
      <4>5. QED BY <4>2, <4>3, <4>4
    <3>2. CASE n # m
      <4>1. n \in 0 .. m - 1 /\ g[n] = f[n]
        BY <3>2
      <4>2. CASE n = 0
        BY <2>2, <4>1, <4>2
      <4>3. CASE n # 0
        <5>1. n - 1 \in 0 .. m /\ n - 1 # m
          BY <4>3
        <5>2. g[n - 1] = f[n - 1]
          BY <5>1
        <5>3. h[n] = Kept(g[n - 1], q[n], S)
          BY <4>3
        <5>4. f[n] = Kept(f[n - 1], q[n], S)
          BY <2>2, <4>1, <4>3
        <5>5. QED BY <4>1, <5>2, <5>3, <5>4
      <4>4. QED BY <4>2, <4>3
    <3>3. QED BY <3>1, <3>2
  <2>4. g = h
    BY <2>3
  <2>5. Picks(q, S, m, g)
    BY <2>4 DEF Picks
  <2>6. QED BY <2>5
<1> HIDE DEF T
<1>3. k \in T
  BY <1>1, <1>2, UpTo
<1>4. QED BY <1>3 DEF T

(* The filter, turn by turn. *)
LEMMA PickSteps ==
  ASSUME NEW T, NEW q \in Seq(T), NEW S
  PROVE  \E f : /\ f[0] = <<>> /\ Pick(q, S) = f[Len(q)]
                /\ \A n \in 1 .. Len(q) :
                     f[n] = Kept(f[n - 1], q[n], S)
                /\ \A n \in 0 .. Len(q) : f[n] \in Seq(T \cap S)
<1> DEFINE f == CHOOSE f : f = [n \in 0 .. Len(q) |->
                  IF n = 0 THEN <<>> ELSE Kept(f[n - 1], q[n], S)]
<1>1. Len(q) \in Nat
  BY LenProperties
<1>2. f = [n \in 0 .. Len(q) |->
             IF n = 0 THEN <<>> ELSE Kept(f[n - 1], q[n], S)]
  <2>1. \E g : Picks(q, S, Len(q), g)
    BY <1>1, PicksExists
  <2>2. \E g : g = [n \in 0 .. Len(q) |->
                      IF n = 0 THEN <<>> ELSE Kept(g[n - 1], q[n], S)]
    BY <2>1 DEF Picks
  <2>3. QED BY <2>2, Zenon
<1>3. Pick(q, S) = f[Len(q)]
  BY DEF Pick
<1> HIDE DEF f
<1>4. f[0] = <<>>
  BY <1>1, <1>2
<1>5. ASSUME NEW n \in 1 .. Len(q)
      PROVE  f[n] = Kept(f[n - 1], q[n], S)
  BY <1>1, <1>2
<1> DEFINE G == {n \in 0 .. Len(q) : f[n] \in Seq(T \cap S)}
<1>6. 0 \in G
  <2>1. <<>> \in Seq(T \cap S) /\ 0 \in 0 .. Len(q)
    BY <1>1, EmptySeq
  <2>2. QED BY <1>4, <2>1
<1>7. ASSUME NEW n \in 1 .. Len(q), n - 1 \in G PROVE n \in G
  <2>1. n \in 0 .. Len(q) /\ q[n] \in T /\ f[n - 1] \in Seq(T \cap S)
    BY <1>1, <1>7, ElementOfSeq
  <2>2. QED BY <1>5, <2>1, KeptSeq
<1> HIDE DEF G
<1>8. \A n \in 0 .. Len(q) : n \in G
  BY <1>1, <1>6, <1>7, UpTo
<1>9. QED BY <1>3, <1>4, <1>5, <1>8 DEF G

LEMMA PickSeq ==
  ASSUME NEW T, NEW q \in Seq(T), NEW S
  PROVE  Pick(q, S) \in Seq(T \cap S) /\ Pick(q, S) \in Seq(T)
<1>1. Pick(q, S) \in Seq(T \cap S)
  <2>1. Len(q) \in 0 .. Len(q)
    BY LenProperties
  <2>2. QED BY <2>1, PickSteps
<1>2. QED BY <1>1

(* What is kept of a list put together from two is what is kept of each. *)
LEMMA PickConcat ==
  ASSUME NEW T, NEW p \in Seq(T), NEW r \in Seq(T), NEW S
  PROVE  Pick(p \o r, S) = Pick(p, S) \o Pick(r, S)
<1> DEFINE q == p \o r
<1>1. /\ q \in Seq(T) /\ Len(q) = Len(p) + Len(r) /\ Len(p) \in Nat /\ Len(r) \in Nat
      /\ \A i \in 1 .. Len(q) : q[i] = IF i <= Len(p) THEN p[i] ELSE r[i - Len(p)]
  BY ConcatProperties, LenProperties
<1> HIDE DEF q
<1>2. PICK f : /\ f[0] = <<>> /\ Pick(q, S) = f[Len(q)]
               /\ \A n \in 1 .. Len(q) : f[n] = Kept(f[n - 1], q[n], S)
               /\ \A n \in 0 .. Len(q) : f[n] \in Seq(T \cap S)
  BY <1>1, PickSteps
<1>3. PICK g : /\ g[0] = <<>> /\ Pick(p, S) = g[Len(p)]
               /\ \A n \in 1 .. Len(p) :
                    g[n] = Kept(g[n - 1], p[n], S)
               /\ \A n \in 0 .. Len(p) : g[n] \in Seq(T \cap S)
  BY PickSteps
<1>4. PICK h : /\ h[0] = <<>> /\ Pick(r, S) = h[Len(r)]
               /\ \A n \in 1 .. Len(r) :
                    h[n] = Kept(h[n - 1], r[n], S)
               /\ \A n \in 0 .. Len(r) : h[n] \in Seq(T \cap S)
  BY PickSteps
<1>5. f[Len(p)] = g[Len(p)]
  <2> DEFINE G == {n \in 0 .. Len(p) : f[n] = g[n]}
  <2>1. 0 \in G
    BY <1>1, <1>2, <1>3
  <2>2. ASSUME NEW n \in 1 .. Len(p), n - 1 \in G PROVE n \in G
    <3>1. n \in 1 .. Len(q) /\ n \in 0 .. Len(p) /\ q[n] = p[n]
      BY <1>1
    <3>2. QED BY <1>2, <1>3, <2>2, <3>1
  <2> HIDE DEF G
  <2>3. \A n \in 0 .. Len(p) : n \in G
    BY <1>1, <2>1, <2>2, UpTo
  <2>4. Len(p) \in 0 .. Len(p)
    BY <1>1
  <2>5. QED BY <2>3, <2>4 DEF G
<1>0. PICK k : k = g[Len(p)]
  OBVIOUS
<1> DEFINE G == {n \in 0 .. Len(r) : f[Len(p) + n] = k \o h[n]}
<1>6. k \in Seq(T) /\ f[Len(p)] = k
  BY <1>0, <1>1, <1>3, <1>5
<1>7. 0 \in G
  <2>1. Len(p) + 0 = Len(p) /\ 0 \in 0 .. Len(r) /\ k \o <<>> = k
    BY <1>1, <1>6, ConcatEmptySeq
  <2>2. QED BY <1>4, <1>6, <2>1
<1>8. ASSUME NEW n \in 1 .. Len(r), n - 1 \in G PROVE n \in G
  <2>1. /\ Len(p) + n \in 1 .. Len(q) /\ n \in 0 .. Len(r) /\ n - 1 \in 0 .. Len(r)
        /\ ~(Len(p) + n <= Len(p)) /\ (Len(p) + n) - Len(p) = n /\ (Len(p) + n) - 1 = Len(p) + (n - 1)
    BY <1>1
  <2>2. q[Len(p) + n] = r[n] /\ r[n] \in T
    BY <1>1, <2>1, ElementOfSeq
  <2>3. h[n - 1] \in Seq(T)
    BY <1>4, <2>1
  <2>4. f[Len(p) + (n - 1)] = k \o h[n - 1]
    BY <1>8
  <2>5. f[Len(p) + n] = Kept(k \o h[n - 1], r[n], S)
    BY <1>2, <2>1, <2>2, <2>4
  <2>6. Kept(k \o h[n - 1], r[n], S) = k \o Kept(h[n - 1], r[n], S)
    BY <1>6, <2>2, <2>3, KeptConcat
  <2>7. QED BY <1>4, <2>1, <2>5, <2>6
<1> HIDE DEF G
<1>9. \A n \in 0 .. Len(r) : n \in G
  BY <1>1, <1>7, <1>8, UpTo
<1>10. Len(r) \in 0 .. Len(r)
  BY <1>1
<1>11. Pick(q, S) = k \o Pick(r, S)
  BY <1>1, <1>2, <1>4, <1>9, <1>10 DEF G
<1>12. QED BY <1>0, <1>3, <1>11 DEF q

(* Of no turn, and of one. *)
LEMMA PickOne ==
  ASSUME NEW T, NEW t \in T, NEW S
  PROVE  /\ Pick(<<>>, S) = <<>>
         /\ Pick(<<t>>, S) = IF t \in S THEN <<t>> ELSE <<>>
<1>1. Pick(<<>>, S) = <<>>
  <2> DEFINE q == <<>>
  <2>1. q \in Seq(T) /\ Len(q) = 0
    OBVIOUS
  <2> HIDE DEF q
  <2>2. PICK f : /\ f[0] = <<>> /\ Pick(q, S) = f[Len(q)]
                 /\ \A n \in 1 .. Len(q) : f[n] = Kept(f[n - 1], q[n], S)
                 /\ \A n \in 0 .. Len(q) : f[n] \in Seq(T \cap S)
    BY <2>1, PickSteps
  <2>3. QED BY <2>1, <2>2 DEF q
<1>2. Pick(<<t>>, S) = IF t \in S THEN <<t>> ELSE <<>>
  <2> DEFINE q == <<t>>
  <2>1. q \in Seq(T) /\ Len(q) = 1 /\ q[1] = t /\ 1 \in 1 .. 1 /\ 1 - 1 = 0
    OBVIOUS
  <2> HIDE DEF q
  <2>2. PICK f : /\ f[0] = <<>> /\ Pick(q, S) = f[Len(q)]
                 /\ \A n \in 1 .. Len(q) : f[n] = Kept(f[n - 1], q[n], S)
                 /\ \A n \in 0 .. Len(q) : f[n] \in Seq(T \cap S)
    BY <2>1, PickSteps
  <2>3. Pick(q, S) = Kept(<<>>, t, S)
    BY <2>1, <2>2
  <2>4. Append(<<>>, t) = <<t>>
    OBVIOUS
  <2>5. QED BY <2>3, <2>4 DEF Kept, q
<1>3. QED BY <1>1, <1>2

LEMMA PickAppend ==
  ASSUME NEW T, NEW r, NEW t, NEW S, r \in Seq(T), t \in T
  PROVE  Pick(Append(r, t), S) = Kept(Pick(r, S), t, S)
<1>0. PICK u : u = <<t>>
  OBVIOUS
<1>1. u \in Seq(T)
  BY <1>0
<1>2. Append(r, t) = r \o u
  BY <1>0, AppendIsConcat
<1>3. Pick(r \o u, S) = Pick(r, S) \o Pick(u, S)
  BY <1>1, PickConcat
<1>4. Pick(u, S) = IF t \in S THEN u ELSE <<>>
  BY <1>0, PickOne
<1>5. PICK p : p = Pick(r, S)
  OBVIOUS
<1>6. p \in Seq(T)
  BY <1>5, PickSeq
<1>7. p \o u = Append(p, t) /\ p \o <<>> = p
  BY <1>0, <1>6, AppendIsConcat, ConcatEmptySeq
<1>8. CASE t \in S
  BY <1>2, <1>3, <1>4, <1>5, <1>7, <1>8 DEF Kept
<1>9. CASE t \notin S
  BY <1>2, <1>3, <1>4, <1>5, <1>7, <1>9 DEF Kept
<1>10. QED BY <1>8, <1>9

(* The filter keeps the turns of the set, each as often as it is there. *)
LEMMA AppendDistinct ==
  ASSUME NEW T, NEW r \in Seq(T), NEW t \in T, Distinct(r), t \notin Range(r)
  PROVE  Distinct(Append(r, t))
<1> DEFINE e == Append(r, t)
<1>1. /\ e \in Seq(T) /\ Len(e) = Len(r) + 1 /\ Len(r) \in Nat
      /\ \A i \in 1 .. Len(r) : e[i] = r[i]
      /\ e[Len(r) + 1] = t
  BY AppendProperties, LenProperties
<1>2. \A i \in 1 .. Len(r) : r[i] # t
  BY InRange
<1> HIDE DEF e
<1>3. QED BY <1>1, <1>2 DEF Distinct, e

LEMMA PickContents ==
  ASSUME NEW T, NEW q \in Seq(T), NEW S
  PROVE  /\ Range(Pick(q, S)) = Range(q) \cap S
         /\ Distinct(q) => Distinct(Pick(q, S))
<1>1. PICK f : /\ f[0] = <<>> /\ Pick(q, S) = f[Len(q)]
               /\ \A n \in 1 .. Len(q) : f[n] = Kept(f[n - 1], q[n], S)
               /\ \A n \in 0 .. Len(q) : f[n] \in Seq(T \cap S)
  BY PickSteps
<1>2. Len(q) \in Nat /\ Len(q) \in 0 .. Len(q)
  BY LenProperties
<1> DEFINE Upto(n) == {q[k] : k \in 1 .. n}
           G == {n \in 0 .. Len(q) : /\ Range(f[n]) = Upto(n) \cap S
                                     /\ Distinct(q) => Distinct(f[n])}
<1>3. 0 \in G
  <2>1. Range(<<>>) = {} /\ Distinct(<<>>) /\ Upto(0) = {} /\ 0 \in 0 .. Len(q)
    BY <1>2 DEF Range, Distinct
  <2>2. QED BY <1>1, <2>1
<1>4. ASSUME NEW n \in 1 .. Len(q), n - 1 \in G PROVE n \in G
  <2>1. /\ n \in 0 .. Len(q) /\ n - 1 \in 0 .. Len(q) /\ q[n] \in T
        /\ f[n - 1] \in Seq(T \cap S) /\ f[n - 1] \in Seq(T)
    BY <1>1, <1>2, ElementOfSeq
  <2>2. Upto(n) = Upto(n - 1) \cup {q[n]}
    BY <1>2
  <2>3. Range(f[n - 1]) = Upto(n - 1) \cap S /\ (Distinct(q) => Distinct(f[n - 1]))
    BY <1>4
  <2>4. Distinct(q) => q[n] \notin Upto(n - 1)
    BY <1>2 DEF Distinct
  <2> HIDE DEF Upto
  <2>5. CASE q[n] \in S
    <3>1. f[n] = Append(f[n - 1], q[n])
      BY <1>1, <2>1, <2>5 DEF Kept
    <3>2. Range(f[n]) = Range(f[n - 1]) \cup {q[n]}
      BY <2>1, <3>1, AppendRange
    <3>3. Distinct(q) => Distinct(f[n])
      BY <2>1, <2>3, <2>4, <3>1, AppendDistinct
    <3>4. QED BY <2>1, <2>2, <2>3, <2>5, <3>2, <3>3
  <2>6. CASE q[n] \notin S
    BY <1>1, <2>1, <2>2, <2>3, <2>6 DEF Kept
  <2>7. QED BY <2>5, <2>6
<1> HIDE DEF G
<1>5. Len(q) \in G
  BY <1>2, <1>3, <1>4, UpTo
<1>6. Range(q) = Upto(Len(q))
  BY LenProperties DEF Range
<1>7. QED BY <1>1, <1>5, <1>6 DEF G

LEMMA PickNone ==
  ASSUME NEW T, NEW q \in Seq(T), NEW S, Range(q) \cap S = {}
  PROVE  Pick(q, S) = <<>>
<1> DEFINE p == Pick(q, S)
<1>1. p \in Seq(T) /\ Range(p) = {}
  BY PickSeq, PickContents
<1> HIDE DEF p
<1>2. Len(p) \in Nat /\ DOMAIN p = 1 .. Len(p)
  BY <1>1, LenProperties
<1>3. Len(p) = 0
  <2>1. 1 \notin DOMAIN p
    BY <1>1 DEF Range
  <2>2. QED BY <1>2, <2>1
<1>4. QED BY <1>1, <1>3, EmptySeq DEF p

LEMMA PickAll ==
  ASSUME NEW T, NEW q \in Seq(T), NEW S, Range(q) \subseteq S
  PROVE  Pick(q, S) = q
<1>1. PICK f : /\ f[0] = <<>> /\ Pick(q, S) = f[Len(q)]
               /\ \A n \in 1 .. Len(q) : f[n] = Kept(f[n - 1], q[n], S)
               /\ \A n \in 0 .. Len(q) : f[n] \in Seq(T \cap S)
  BY PickSteps
<1>2. Len(q) \in Nat /\ Len(q) \in 0 .. Len(q) /\ DOMAIN q = 1 .. Len(q)
  BY LenProperties
<1> DEFINE G == {n \in 0 .. Len(q) : f[n] = SubSeq(q, 1, n)}
<1>3. 0 \in G
  BY <1>1, <1>2, SubSeqEmpty
<1>4. ASSUME NEW n \in 1 .. Len(q), n - 1 \in G PROVE n \in G
  <2>0. q[n] \in S
    BY <1>2 DEF Range
  <2>1. /\ n \in 0 .. Len(q) /\ n - 1 \in 0 .. Len(q) /\ q[n] \in T /\ q[n] \in S
        /\ f[n - 1] \in Seq(T) /\ 1 \in 1 .. Len(q) /\ n \in 1 .. n
    BY <1>1, <1>2, <2>0, ElementOfSeq
  <2>2. f[n] = Append(f[n - 1], q[n])
    BY <1>1, <2>1 DEF Kept
  <2>3. Append(f[n - 1], q[n]) = f[n - 1] \o <<q[n]>>
    BY <2>1, AppendIsConcat
  <2>4. SubSeq(q, 1, n) = SubSeq(q, 1, n - 1) \o <<q[n]>>
    BY <1>2, <2>1, SubSeqRecursiveSecond
  <2>5. f[n - 1] = SubSeq(q, 1, n - 1)
    BY <1>4
  <2>6. QED BY <2>1, <2>2, <2>3, <2>4, <2>5
<1> HIDE DEF G
<1>5. Len(q) \in G
  BY <1>2, <1>3, <1>4, UpTo
<1>6. SubSeq(q, 1, Len(q)) = q
  BY SubSeqFull
<1>7. QED BY <1>1, <1>5, <1>6 DEF G

(* Filtering twice is filtering once. *)
LEMMA PickPick ==
  ASSUME NEW T, NEW q \in Seq(T), NEW S, NEW R
  PROVE  Pick(Pick(q, S), R) = Pick(q, S \cap R)
<1>1. PICK f : /\ f[0] = <<>> /\ Pick(q, S) = f[Len(q)]
               /\ \A n \in 1 .. Len(q) : f[n] = Kept(f[n - 1], q[n], S)
               /\ \A n \in 0 .. Len(q) : f[n] \in Seq(T \cap S)
  BY PickSteps
<1>2. PICK g : /\ g[0] = <<>> /\ Pick(q, S \cap R) = g[Len(q)]
               /\ \A n \in 1 .. Len(q) : g[n] = Kept(g[n - 1], q[n], S \cap R)
               /\ \A n \in 0 .. Len(q) : g[n] \in Seq(T \cap (S \cap R))
  BY PickSteps
<1>3. Len(q) \in Nat /\ Len(q) \in 0 .. Len(q)
  BY LenProperties
<1> DEFINE G == {n \in 0 .. Len(q) : Pick(f[n], R) = g[n]}
<1>4. 0 \in G
  <2>1. Pick(<<>>, R) = <<>>
    <3>1. \E x : x \in {R}
      OBVIOUS
    <3>2. QED BY <3>1, PickOne
  <2>2. QED BY <1>1, <1>2, <1>3, <2>1
<1>5. ASSUME NEW n \in 1 .. Len(q), n - 1 \in G PROVE n \in G
  <2>1. /\ n \in 0 .. Len(q) /\ n - 1 \in 0 .. Len(q) /\ q[n] \in T
        /\ f[n - 1] \in Seq(T)
    BY <1>1, <1>3, ElementOfSeq
  <2>2. Pick(f[n - 1], R) = g[n - 1]
    BY <1>5
  <2>3. f[n] = Kept(f[n - 1], q[n], S) /\ g[n] = Kept(g[n - 1], q[n], S \cap R)
    BY <1>1, <1>2
  <2>4. CASE q[n] \in S
    <3>1. f[n] = Append(f[n - 1], q[n])
      BY <2>3, <2>4 DEF Kept
    <3>2. Pick(Append(f[n - 1], q[n]), R) = Kept(Pick(f[n - 1], R), q[n], R)
      BY <2>1, PickAppend
    <3>3. g[n] = Kept(g[n - 1], q[n], R)
      BY <2>3, <2>4 DEF Kept
    <3>4. QED BY <2>1, <2>2, <3>1, <3>2, <3>3
  <2>5. CASE q[n] \notin S
    BY <2>1, <2>2, <2>3, <2>5 DEF Kept
  <2>6. QED BY <2>4, <2>5
<1> HIDE DEF G
<1>6. Len(q) \in G
  BY <1>3, <1>4, <1>5, UpTo
<1>7. QED BY <1>1, <1>2, <1>6 DEF G

-----------------------------------------------------------------------------
(* A list of turns in two parts, and in two parts around a turn. *)
Joined(s, l, r) == l \in Seq(Turn) /\ r \in Seq(Turn) /\ s = l \o r
Around(s, l, t, r) ==
  l \in Seq(Turn) /\ t \in Turn /\ r \in Seq(Turn) /\ s = (l \o <<t>>) \o r

LEMMA SplitAt ==
  ASSUME NEW q \in Seq(Turn), NEW n \in 1 .. Len(q) + 1, NEW l, NEW r,
         l = SubSeq(q, 1, n - 1), r = SubSeq(q, n, Len(q))
  PROVE  Joined(q, l, r) /\ Len(l) = n - 1
<1>1. Len(q) \in Nat /\ \A i \in 1 .. Len(q) : q[i] \in Turn
  BY LenProperties, ElementOfSeq
<1>2. l \in Seq(Turn) /\ Len(l) = n - 1
  BY <1>1, SubSeqProperties
<1>3. r \in Seq(Turn)
  BY <1>1, SubSeqProperties
<1>4. /\ 1 \in 1 .. Len(q) + 1 /\ n - 1 \in 1 - 1 .. Len(q) /\ Len(q) \in n - 1 .. Len(q)
      /\ (n - 1) + 1 = n
  BY <1>1
<1>5. SubSeq(q, 1, n - 1) \o SubSeq(q, (n - 1) + 1, Len(q)) = SubSeq(q, 1, Len(q))
  BY <1>4, ConcatAdjacentSubSeq
<1>6. SubSeq(q, 1, Len(q)) = q
  BY SubSeqFull
<1>7. QED BY <1>2, <1>3, <1>4, <1>5, <1>6 DEF Joined

LEMMA SplitAround ==
  ASSUME NEW q \in Seq(Turn), NEW n \in 1 .. Len(q), NEW l, NEW r, NEW t,
         l = SubSeq(q, 1, n - 1), r = SubSeq(q, n + 1, Len(q)), t = q[n]
  PROVE  Around(q, l, t, r) /\ Len(l) = n - 1
<1>1. Len(q) \in Nat /\ q[n] \in Turn /\ n \in 1 .. Len(q) + 1 /\ n + 1 \in 1 .. Len(q) + 1
  BY LenProperties, ElementOfSeq
<1>2. PICK m : m = SubSeq(q, n, Len(q))
  OBVIOUS
<1>3. Joined(q, l, m) /\ Len(l) = n - 1
  BY <1>1, <1>2, SplitAt
<1>4. PICK k : k = SubSeq(q, 1, (n + 1) - 1)
  OBVIOUS
<1>5. Joined(q, k, r)
  BY <1>1, <1>4, SplitAt
<1>6. 1 \in 1 .. Len(q) /\ n \in 1 .. Len(q) /\ (n + 1) - 1 = n
  BY <1>1
<1>7. SubSeq(q, 1, n) = SubSeq(q, 1, n - 1) \o <<q[n]>>
  BY <1>6, SubSeqRecursiveSecond
<1>8. k = l \o <<t>>
  BY <1>4, <1>6, <1>7
<1>9. QED BY <1>1, <1>3, <1>5, <1>8 DEF Joined, Around

(* What a filter keeps of the parts. *)
LEMMA PickJoined ==
  ASSUME NEW q, NEW l, NEW r, NEW S, Joined(q, l, r)
  PROVE  Joined(Pick(q, S), Pick(l, S), Pick(r, S))
<1>1. l \in Seq(Turn) /\ r \in Seq(Turn) /\ q = l \o r
  BY DEF Joined
<1>2. Pick(l \o r, S) = Pick(l, S) \o Pick(r, S)
  BY <1>1, PickConcat
<1>3. Pick(l, S) \in Seq(Turn)
  BY <1>1, PickSeq
<1>4. Pick(r, S) \in Seq(Turn)
  BY <1>1, PickSeq
<1>5. QED BY <1>1, <1>2, <1>3, <1>4 DEF Joined

LEMMA PickAround ==
  ASSUME NEW q, NEW l, NEW t, NEW r, NEW S, Around(q, l, t, r)
  PROVE  /\ t \in S => Around(Pick(q, S), Pick(l, S), t, Pick(r, S))
         /\ t \notin S => Joined(Pick(q, S), Pick(l, S), Pick(r, S))
<1>1. PICK u, k, p : u = <<t>> /\ k = l \o u /\ p = Pick(l, S)
  OBVIOUS
<1>2. l \in Seq(Turn) /\ t \in Turn /\ r \in Seq(Turn) /\ q = k \o r /\ u \in Seq(Turn)
  BY <1>1 DEF Around
<1>3. k \in Seq(Turn)
  BY <1>1, <1>2, ConcatProperties
<1>4. Pick(k \o r, S) = Pick(k, S) \o Pick(r, S)
  BY <1>2, <1>3, PickConcat
<1>5. Pick(l \o u, S) = Pick(l, S) \o Pick(u, S)
  BY <1>2, PickConcat
<1>6. Pick(u, S) = IF t \in S THEN u ELSE <<>>
  BY <1>1, <1>2, PickOne
<1>7. p \in Seq(Turn)
  BY <1>1, <1>2, PickSeq
<1>8. Pick(r, S) \in Seq(Turn)
  BY <1>2, PickSeq
<1>9. p \o <<>> = p
  BY <1>7, ConcatEmptySeq
<1>10. ASSUME t \in S PROVE Around(Pick(q, S), Pick(l, S), t, Pick(r, S))
  BY <1>1, <1>2, <1>4, <1>5, <1>6, <1>7, <1>8, <1>10 DEF Around
<1>11. ASSUME t \notin S PROVE Joined(Pick(q, S), Pick(l, S), Pick(r, S))
  BY <1>1, <1>2, <1>4, <1>5, <1>6, <1>7, <1>8, <1>9, <1>11 DEF Joined
<1>12. QED BY <1>10, <1>11

(* The places of a list put together around a turn. *)
LEMMA AroundPlaces ==
  ASSUME NEW s, NEW l, NEW t, NEW r, Around(s, l, t, r)
  PROVE  /\ l \in Seq(Turn) /\ t \in Turn /\ r \in Seq(Turn)
         /\ s \in Seq(Turn) /\ Len(s) = Len(l) + 1 + Len(r)
         /\ Len(l) \in Nat /\ Len(r) \in Nat /\ Len(l) + 1 \in 1 .. Len(s)
         /\ s[Len(l) + 1] = t
         /\ \A k \in 1 .. Len(l) : s[k] = l[k]
         /\ \A k \in 1 .. Len(r) : s[Len(l) + 1 + k] = r[k]
<1>0. l \in Seq(Turn) /\ t \in Turn /\ r \in Seq(Turn) /\ s = (l \o <<t>>) \o r
  BY DEF Around
<1>1. PICK u, k : u = <<t>> /\ k = l \o u
  OBVIOUS
<1>2. u \in Seq(Turn) /\ Len(u) = 1 /\ u[1] = t
  BY <1>0, <1>1
<1>3. Len(l) \in Nat /\ Len(r) \in Nat
  BY <1>0, LenProperties
<1>4. /\ k \in Seq(Turn) /\ Len(k) = Len(l) + 1
      /\ \A i \in 1 .. Len(l) + Len(u) : k[i] = IF i <= Len(l) THEN l[i] ELSE u[i - Len(l)]
  BY <1>0, <1>1, <1>2, ConcatProperties
<1>5. k[Len(l) + 1] = t /\ \A i \in 1 .. Len(l) : k[i] = l[i]
  BY <1>2, <1>3, <1>4
<1>6. s = k \o r
  BY <1>0, <1>1
<1>7. /\ s \in Seq(Turn) /\ Len(s) = Len(k) + Len(r)
      /\ \A i \in 1 .. Len(k) + Len(r) : s[i] = IF i <= Len(k) THEN k[i] ELSE r[i - Len(k)]
  BY <1>0, <1>4, <1>6, ConcatProperties
<1>8. s[Len(l) + 1] = t /\ \A i \in 1 .. Len(l) : s[i] = l[i]
  BY <1>3, <1>4, <1>5, <1>7
<1>9. ASSUME NEW i \in 1 .. Len(r) PROVE s[Len(l) + 1 + i] = r[i]
  <2>1. /\ Len(l) + 1 + i \in 1 .. Len(k) + Len(r)
        /\ ~(Len(l) + 1 + i <= Len(k)) /\ (Len(l) + 1 + i) - Len(k) = i
    BY <1>3, <1>4
  <2>2. QED BY <1>7, <2>1
<1>10. QED BY <1>0, <1>3, <1>4, <1>7, <1>8, <1>9

LEMMA JoinedPlaces ==
  ASSUME NEW x, NEW l, NEW r, Joined(x, l, r)
  PROVE  /\ l \in Seq(Turn) /\ r \in Seq(Turn) /\ x \in Seq(Turn) /\ Len(x) = Len(l) + Len(r)
         /\ Len(l) \in Nat /\ Len(r) \in Nat
         /\ \A i \in 1 .. Len(l) + Len(r) : x[i] = IF i <= Len(l) THEN l[i] ELSE r[i - Len(l)]
<1>1. l \in Seq(Turn) /\ r \in Seq(Turn) /\ x = l \o r
  BY DEF Joined
<1>2. Len(l) \in Nat /\ Len(r) \in Nat
  BY <1>1, LenProperties
<1>3. /\ x \in Seq(Turn) /\ Len(x) = Len(l) + Len(r)
      /\ \A i \in 1 .. Len(l) + Len(r) : x[i] = IF i <= Len(l) THEN l[i] ELSE r[i - Len(l)]
  BY <1>1, ConcatProperties
<1>4. QED BY <1>1, <1>2, <1>3

(* Leaving out the turn in the middle, and putting one in. *)
LEMMA RemoveAround ==
  ASSUME NEW s, NEW l, NEW t, NEW r, Around(s, l, t, r)
  PROVE  Joined(RemoveAt(s, Len(l) + 1), l, r)
<1>1. /\ l \in Seq(Turn) /\ r \in Seq(Turn) /\ s \in Seq(Turn) /\ Len(s) = Len(l) + 1 + Len(r)
      /\ Len(l) \in Nat /\ Len(r) \in Nat /\ Len(l) + 1 \in 1 .. Len(s)
      /\ \A k \in 1 .. Len(l) : s[k] = l[k]
      /\ \A k \in 1 .. Len(r) : s[Len(l) + 1 + k] = r[k]
  BY AroundPlaces
<1>2. PICK w, x : w = RemoveAt(s, Len(l) + 1) /\ x = l \o r
  OBVIOUS
<1>3. /\ w \in Seq(Turn) /\ Len(w) = Len(s) - 1
      /\ \A k \in 1 .. Len(s) - 1 : w[k] = IF k < Len(l) + 1 THEN s[k] ELSE s[k + 1]
  BY <1>1, <1>2, RemoveAtShifts
<1>4. /\ x \in Seq(Turn) /\ Len(x) = Len(l) + Len(r)
      /\ \A i \in 1 .. Len(l) + Len(r) : x[i] = IF i <= Len(l) THEN l[i] ELSE r[i - Len(l)]
  BY <1>1, <1>2, ConcatProperties
<1>5. Len(w) = Len(x)
  BY <1>1, <1>3, <1>4
<1>6. ASSUME NEW k \in 1 .. Len(w) PROVE w[k] = x[k]
  <2>1. CASE k <= Len(l)
    <3>1. /\ k \in 1 .. Len(s) - 1 /\ k \in 1 .. Len(l) + Len(r) /\ k < Len(l) + 1
          /\ k \in 1 .. Len(l)
      BY <1>1, <1>3, <2>1
    <3>2. w[k] = s[k] /\ x[k] = l[k] /\ s[k] = l[k]
      BY <1>1, <1>3, <1>4, <2>1, <3>1
    <3>3. QED BY <3>2
  <2>2. CASE ~(k <= Len(l))
    <3>1. /\ k \in 1 .. Len(s) - 1 /\ k \in 1 .. Len(l) + Len(r) /\ ~(k < Len(l) + 1)
          /\ k - Len(l) \in 1 .. Len(r) /\ Len(l) + 1 + (k - Len(l)) = k + 1
      BY <1>1, <1>3, <2>2
    <3>2. w[k] = s[k + 1] /\ x[k] = r[k - Len(l)]
      BY <1>3, <1>4, <2>2, <3>1
    <3>3. s[Len(l) + 1 + (k - Len(l))] = r[k - Len(l)]
      BY <1>1, <3>1
    <3>4. QED BY <3>1, <3>2, <3>3
  <2>3. QED BY <2>1, <2>2
<1>7. w = x
  BY <1>3, <1>4, <1>5, <1>6, SeqEqual
<1>8. QED BY <1>1, <1>2, <1>7 DEF Joined

LEMMA InsertAround ==
  ASSUME NEW x, NEW l, NEW t, NEW r, Joined(x, l, r), t \in Turn
  PROVE  Around(InsertAt(x, Len(l) + 1, t), l, t, r)
<1>1. PICK s : s = (l \o <<t>>) \o r
  OBVIOUS
<1>2. Around(s, l, t, r)
  BY <1>1 DEF Around, Joined
<1>3. /\ s \in Seq(Turn) /\ Len(s) = Len(l) + 1 + Len(r)
      /\ Len(l) \in Nat /\ Len(r) \in Nat /\ Len(l) + 1 \in 1 .. Len(s) /\ s[Len(l) + 1] = t
  BY <1>2, AroundPlaces
<1>4. x = RemoveAt(s, Len(l) + 1)
  BY <1>2, RemoveAround DEF Joined
<1>5. PICK i : i = Len(l) + 1
  OBVIOUS
<1>6. /\ x \in Seq(Turn) /\ Len(x) = Len(s) - 1
      /\ \A k \in 1 .. Len(s) - 1 : x[k] = IF k < i THEN s[k] ELSE s[k + 1]
  BY <1>3, <1>4, <1>5, RemoveAtShifts
<1>7. InsertAt(x, i, t) = s
  BY <1>3, <1>5, <1>6, InsertedBack
<1>8. QED BY <1>2, <1>5, <1>7

(* Without a turn that is there once. *)
LEMMA WithoutAround ==
  ASSUME NEW s, NEW l, NEW t, NEW r, Distinct(s), Around(s, l, t, r)
  PROVE  /\ t \in Range(s) /\ IndexOf(s, t) = Len(l) + 1
         /\ Joined(Without(s, t), l, r)
         /\ t \notin Range(l) /\ t \notin Range(r)
<1>1. /\ l \in Seq(Turn) /\ r \in Seq(Turn) /\ s \in Seq(Turn) /\ Len(s) = Len(l) + 1 + Len(r)
      /\ Len(l) \in Nat /\ Len(r) \in Nat /\ Len(l) + 1 \in 1 .. Len(s)
      /\ s[Len(l) + 1] = t
      /\ \A k \in 1 .. Len(l) : s[k] = l[k]
      /\ \A k \in 1 .. Len(r) : s[Len(l) + 1 + k] = r[k]
  BY AroundPlaces
<1>2. t \in Range(s) /\ IndexOf(s, t) = Len(l) + 1
  BY <1>1, IndexOfDistinct
<1>3. Joined(Without(s, t), l, r)
  BY <1>2, RemoveAround DEF Without
<1>4. t \notin Range(l)
  <2>1. ASSUME NEW k \in 1 .. Len(l), l[k] = t PROVE FALSE
    <3>1. k \in 1 .. Len(s) /\ s[k] = t /\ k # Len(l) + 1
      BY <1>1, <2>1
    <3>2. QED BY <1>1, <3>1 DEF Distinct
  <2>2. QED BY <1>1, <2>1, InRange
<1>5. t \notin Range(r)
  <2>1. ASSUME NEW k \in 1 .. Len(r), r[k] = t PROVE FALSE
    <3>1. Len(l) + 1 + k \in 1 .. Len(s) /\ Len(l) + 1 + k # Len(l) + 1
      BY <1>1
    <3>2. s[Len(l) + 1 + k] = t
      BY <1>1, <2>1
    <3>3. QED BY <1>1, <3>1, <3>2 DEF Distinct
  <2>2. QED BY <1>1, <2>1, InRange
<1>6. QED BY <1>2, <1>3, <1>4, <1>5

-----------------------------------------------------------------------------
(* withoutTurn is a filter, and the removal of the one entry with the id. *)
LEMMA FilterIsWithout ==
  ASSUME NEW s, NEW t, s \in Seq(Turn), Distinct(s)
  PROVE  FlatWithout(s, t) = Without(s, t)
<1>1. PICK S : S = Turn \ {t}
  OBVIOUS
<1>2. CASE t \notin Range(s)
  <2>1. Range(s) \subseteq S
    BY <1>1, <1>2, RangeOfSeq
  <2>2. Pick(s, S) = s
    BY <2>1, PickAll
  <2>3. QED BY <1>1, <1>2, <2>2 DEF FlatWithout, Without
<1>3. CASE t \in Range(s)
  <2>1. PICK i \in 1 .. Len(s) : s[i] = t
    BY <1>3, InRange
  <2>2. PICK l, r : l = SubSeq(s, 1, i - 1) /\ r = SubSeq(s, i + 1, Len(s))
    OBVIOUS
  <2>3. Around(s, l, t, r)
    BY <2>1, <2>2, SplitAround
  <2>4. Joined(Without(s, t), l, r) /\ t \notin Range(l) /\ t \notin Range(r)
    BY <2>3, WithoutAround
  <2>5. Joined(Pick(s, S), Pick(l, S), Pick(r, S))
    BY <1>1, <2>3, PickAround
  <2>6. l \in Seq(Turn) /\ r \in Seq(Turn) /\ Range(l) \subseteq S /\ Range(r) \subseteq S
    BY <1>1, <2>4, RangeOfSeq DEF Joined
  <2>7. Pick(l, S) = l /\ Pick(r, S) = r
    BY <2>6, PickAll
  <2>8. QED BY <1>1, <2>4, <2>5, <2>7 DEF FlatWithout, Joined
<1>4. QED BY <1>2, <1>3

(* A conversation sees a turn leave its own sequence. *)
LEMMA OwnWithout ==
  ASSUME NEW q, NEW t, NEW S, q \in Seq(Turn), Distinct(q)
  PROVE  Pick(Without(q, t), S) = Without(Pick(q, S), t)
<1>1. PICK R, p : R = Turn \ {t} /\ p = Pick(q, S)
  OBVIOUS
<1>2. p \in Seq(Turn) /\ Distinct(p)
  BY <1>1, PickSeq, PickContents
<1>3. Without(q, t) = Pick(q, R) /\ Without(p, t) = Pick(p, R)
  BY <1>1, <1>2, FilterIsWithout DEF FlatWithout
<1>4. Pick(Pick(q, R), S) = Pick(q, R \cap S) /\ Pick(Pick(q, S), R) = Pick(q, S \cap R)
  BY PickPick
<1>5. R \cap S = S \cap R
  OBVIOUS
<1>6. QED BY <1>1, <1>3, <1>4, <1>5

LEMMA OtherWithout ==
  ASSUME NEW q, NEW t, NEW S, q \in Seq(Turn), Distinct(q), t \notin S
  PROVE  Pick(Without(q, t), S) = Pick(q, S)
<1>1. t \notin Range(Pick(q, S))
  BY PickContents
<1>2. Without(Pick(q, S), t) = Pick(q, S)
  BY <1>1 DEF Without
<1>3. QED BY <1>2, OwnWithout

(* appendQueuedChatTurn *)
LEMMA OwnAppend ==
  ASSUME NEW q, NEW t, NEW S, q \in Seq(Turn), Distinct(q), t \in Turn
  PROVE  Pick(FlatAppend(q, t), S) = IF t \in S THEN Enqueue(Pick(q, S), t) ELSE Pick(q, S)
<1>1. PICK w : w = Without(q, t)
  OBVIOUS
<1>2. w \in Seq(Turn) /\ FlatAppend(q, t) = Append(w, t)
  BY <1>1, FilterIsWithout, WithoutQueue DEF FlatAppend
<1>3. Pick(Append(w, t), S) = Kept(Pick(w, S), t, S)
  BY <1>2, PickAppend
<1>4. CASE t \in S
  <2>1. Pick(w, S) = Without(Pick(q, S), t)
    BY <1>1, OwnWithout
  <2>2. QED BY <1>2, <1>3, <1>4, <2>1 DEF Kept, Enqueue
<1>5. CASE t \notin S
  <2>1. Pick(w, S) = Pick(q, S)
    BY <1>1, <1>5, OtherWithout
  <2>2. QED BY <1>2, <1>3, <1>5, <2>1 DEF Kept
<1>6. QED BY <1>4, <1>5

(* promoteQueuedChatTurn *)
LEMMA OwnPromote ==
  ASSUME NEW q, NEW t, NEW S, q \in Seq(Turn), Distinct(q), t \in Turn
  PROVE  /\ FlatPromote(q, t) = Promote(q, t)
         /\ Pick(FlatPromote(q, t), S) = IF t \in S THEN Promote(Pick(q, S), t) ELSE Pick(q, S)
<1>1. PICK w, u, p : w = Without(q, t) /\ u = <<t>> /\ p = Pick(w, S)
  OBVIOUS
<1>2. w \in Seq(Turn) /\ FlatWithout(q, t) = w
  BY <1>1, FilterIsWithout, WithoutQueue
<1>3. FlatPromote(q, t) = IF t \in Range(q) THEN u \o w ELSE q
  BY <1>1, <1>2 DEF FlatPromote, FlatPrepend
<1>4. FlatPromote(q, t) = Promote(q, t)
  BY <1>1, <1>3 DEF Promote
<1>5. u \in Seq(Turn) /\ p \in Seq(Turn)
  <2>1. u \in Seq(Turn)
    BY <1>1
  <2>2. p \in Seq(Turn)
    BY <1>1, <1>2, PickSeq
  <2>3. QED BY <2>1, <2>2
<1>6. Pick(u \o w, S) = Pick(u, S) \o Pick(w, S)
  BY <1>2, <1>5, PickConcat
<1>7. Pick(u, S) = IF t \in S THEN u ELSE <<>>
  BY <1>1, PickOne
<1>8. <<>> \o p = p
  BY <1>5, ConcatEmptySeq
<1>9. t \in Range(Pick(q, S)) <=> t \in Range(q) /\ t \in S
  BY PickContents
<1>10. CASE t \in S
  <2>1. p = Without(Pick(q, S), t)
    BY <1>1, OwnWithout
  <2>2. QED BY <1>1, <1>3, <1>4, <1>6, <1>7, <1>9, <1>10, <2>1 DEF Promote
<1>11. CASE t \notin S
  <2>1. p = Pick(q, S)
    BY <1>1, <1>11, OtherWithout
  <2>2. QED BY <1>1, <1>3, <1>4, <1>6, <1>7, <1>8, <1>11, <2>1
<1>12. QED BY <1>10, <1>11

(* findIndex: the first place of the set, 0 when there is none. *)
LEMMA FirstInFound ==
  ASSUME NEW T, NEW q, NEW S, q \in Seq(T)
  PROVE  /\ Range(q) \cap S = {} => FirstIn(q, S) = 0
         /\ Range(q) \cap S # {} => /\ FirstIn(q, S) \in 1 .. Len(q)
                                    /\ q[FirstIn(q, S)] \in S
                                    /\ \A k \in 1 .. FirstIn(q, S) - 1 : q[k] \notin S
<1>1. Len(q) \in Nat /\ DOMAIN q = 1 .. Len(q)
  BY LenProperties
<1>2. PICK P : P = Positions(q, S)
  OBVIOUS
<1>3. \A i : i \in P <=> i \in 1 .. Len(q) /\ q[i] \in S
  BY <1>1, <1>2 DEF Positions
<1>4. Range(q) \cap S = {} <=> P = {}
  BY <1>1, <1>3 DEF Range
<1>5. ASSUME P # {}
      PROVE  /\ FirstIn(q, S) \in 1 .. Len(q)
             /\ q[FirstIn(q, S)] \in S
             /\ \A k \in 1 .. FirstIn(q, S) - 1 : q[k] \notin S
  <2>1. P \subseteq Nat
    BY <1>1, <1>3
  <2>2. PICK m \in P : \A y \in P : m <= y
    BY <1>5, <2>1, LeastNumber
  <2>3. Min(P) \in P /\ \A y \in P : Min(P) <= y
    BY <2>2 DEF Min
  <2>4. PICK i : i = FirstIn(q, S)
    OBVIOUS
  <2>5. i \in P /\ \A y \in P : i <= y
    BY <1>2, <1>5, <2>3, <2>4 DEF FirstIn
  <2>6. i \in 1 .. Len(q) /\ q[i] \in S
    BY <1>3, <2>5
  <2>7. ASSUME NEW k \in 1 .. i - 1 PROVE q[k] \notin S
    <3>1. k \in 1 .. Len(q) /\ ~(i <= k)
      BY <1>1, <2>6
    <3>2. QED BY <1>3, <2>5, <3>1
  <2>8. QED BY <2>4, <2>6, <2>7
<1>6. ASSUME P = {} PROVE FirstIn(q, S) = 0
  BY <1>2, <1>6 DEF FirstIn
<1>7. QED BY <1>4, <1>5, <1>6

(* removeQueuedChatTurnsForConversation *)
LEMMA OwnRemoveAll ==
  ASSUME NEW q, NEW S, NEW R, q \in Seq(Turn), Distinct(q), R \subseteq Turn
  PROVE  /\ Pick(q, Turn \ S) \in Seq(Turn) /\ Distinct(Pick(q, Turn \ S))
         /\ R \cap S = {} => Pick(Pick(q, Turn \ S), R) = Pick(q, R)
<1>1. PICK C : C = Turn \ S
  OBVIOUS
<1>2. Pick(q, C) \in Seq(Turn)
  BY PickSeq
<1>3. Distinct(Pick(q, C))
  BY PickContents
<1>4. Pick(Pick(q, C), R) = Pick(q, C \cap R)
  BY PickPick
<1>5. ASSUME R \cap S = {} PROVE C \cap R = R
  BY <1>1, <1>5
<1>6. QED BY <1>1, <1>2, <1>3, <1>4, <1>5

(* takeNextQueuedChatTurn *)
LEMMA TailAround ==
  ASSUME NEW s, NEW t, NEW r, Around(s, <<>>, t, r)
  PROVE  s # <<>> /\ Tail(s) = r
<1>1. PICK e : e = <<>>
  OBVIOUS
<1>2. Around(s, e, t, r) /\ Len(e) = 0
  BY <1>1
<1>3. /\ r \in Seq(Turn) /\ s \in Seq(Turn) /\ Len(s) = 0 + 1 + Len(r) /\ Len(r) \in Nat
      /\ \A k \in 1 .. Len(r) : s[0 + 1 + k] = r[k]
  BY <1>2, AroundPlaces
<1>4. s # <<>>
  <2>1. Len(s) # 0
    BY <1>3
  <2>2. QED BY <2>1
<1>5. /\ Tail(s) \in Seq(Turn) /\ Len(Tail(s)) = Len(s) - 1
      /\ \A i \in 1 .. Len(Tail(s)) : Tail(s)[i] = s[i + 1]
  BY <1>3, <1>4, HeadTailProperties
<1>6. Len(Tail(s)) = Len(r)
  BY <1>3, <1>5
<1>7. ASSUME NEW k \in 1 .. Len(r) PROVE Tail(s)[k] = r[k]
  <2>1. 0 + 1 + k = k + 1
    BY <1>3
  <2>2. s[k + 1] = r[k]
    BY <1>3, <2>1
  <2>3. QED BY <1>5, <1>6, <2>2
<1>8. Tail(s) = r
  BY <1>3, <1>5, <1>6, <1>7, SeqEqual
<1>9. QED BY <1>4, <1>8

LEMMA OwnTake ==
  ASSUME NEW q, NEW S, q \in Seq(Turn), Distinct(q), FirstIn(q, S) > 0
  PROVE  LET w == RemoveAt(q, FirstIn(q, S)) IN
         /\ w \in Seq(Turn) /\ Distinct(w)
         /\ Pick(q, S) # <<>> /\ Pick(w, S) = Tail(Pick(q, S))
         /\ \A R : R \cap S = {} => Pick(w, R) = Pick(q, R)
<1>1. PICK i, w : i = FirstIn(q, S) /\ w = RemoveAt(q, i)
  OBVIOUS
<1>2. i \in 1 .. Len(q) /\ q[i] \in S /\ \A k \in 1 .. i - 1 : q[k] \notin S
  BY <1>1, FirstInFound
<1>3. PICK l, t, r : l = SubSeq(q, 1, i - 1) /\ t = q[i] /\ r = SubSeq(q, i + 1, Len(q))
  OBVIOUS
<1>4. Around(q, l, t, r) /\ Len(l) = i - 1
  BY <1>2, <1>3, SplitAround
<1>5. /\ l \in Seq(Turn) /\ t \in Turn /\ r \in Seq(Turn) /\ Len(q) \in Nat
      /\ \A k \in 1 .. Len(l) : q[k] = l[k]
  BY <1>4, AroundPlaces, LenProperties
<1>6. Joined(w, l, r)
  <2>1. Len(l) + 1 = i
    BY <1>2, <1>4, <1>5
  <2>2. Joined(RemoveAt(q, Len(l) + 1), l, r)
    BY <1>4, RemoveAround
  <2>3. QED BY <1>1, <2>1, <2>2
<1>7. Without(q, t) = w /\ w \in Seq(Turn) /\ Distinct(w)
  <2>1. t \in Range(q) /\ IndexOf(q, t) = i
    BY <1>2, <1>3, IndexOfDistinct
  <2>2. Without(q, t) = w
    BY <1>1, <2>1 DEF Without
  <2>3. QED BY <2>2, WithoutQueue
<1>8. Pick(l, S) = <<>>
  <2>1. \A k \in 1 .. Len(l) : l[k] \notin S
    BY <1>2, <1>4, <1>5
  <2>2. Range(l) \cap S = {}
    BY <1>5, <2>1, InRange
  <2>3. QED BY <1>5, <2>2, PickNone
<1>9. Around(Pick(q, S), <<>>, t, Pick(r, S))
  <2>1. t \in S
    BY <1>2, <1>3
  <2>2. Around(Pick(q, S), Pick(l, S), t, Pick(r, S))
    BY <1>4, <2>1, PickAround
  <2>3. QED BY <1>8, <2>2
<1>10. Pick(q, S) # <<>> /\ Tail(Pick(q, S)) = Pick(r, S)
  BY <1>9, TailAround
<1>11. Pick(w, S) = Pick(r, S)
  <2>1. Joined(Pick(w, S), Pick(l, S), Pick(r, S))
    BY <1>6, PickJoined
  <2>2. PICK p : p = Pick(r, S)
    OBVIOUS
  <2>3. p \in Seq(Turn) /\ Pick(w, S) = <<>> \o p
    BY <1>8, <2>1, <2>2 DEF Joined
  <2>4. <<>> \o p = p
    BY <2>3, ConcatEmptySeq
  <2>5. QED BY <2>2, <2>3, <2>4
<1>12. ASSUME NEW R, R \cap S = {} PROVE Pick(w, R) = Pick(q, R)
  <2>1. t \notin R
    BY <1>2, <1>3, <1>12
  <2>2. Joined(Pick(q, R), Pick(l, R), Pick(r, R))
    BY <1>4, <2>1, PickAround
  <2>3. Joined(Pick(w, R), Pick(l, R), Pick(r, R))
    BY <1>6, PickJoined
  <2>4. QED BY <2>2, <2>3 DEF Joined
<1>13. QED BY <1>1, <1>7, <1>10, <1>11, <1>12

-----------------------------------------------------------------------------
(* Two turns of a list that change places. *)
LEMMA SubSeqSame ==
  ASSUME NEW q, NEW x, NEW m, NEW n, q \in Seq(Turn), x \in Seq(Turn), Len(x) = Len(q),
         m \in 1 .. Len(q) + 1, n \in 0 .. Len(q), \A i \in m .. n : x[i] = q[i]
  PROVE  SubSeq(x, m, n) = SubSeq(q, m, n)
<1>1. Len(q) \in Nat
  BY LenProperties
<1>2. \A i \in m .. n : i \in 1 .. Len(q)
  BY <1>1
<1>3. (\A i \in m .. n : q[i] \in Turn) /\ (\A i \in m .. n : x[i] \in Turn) /\ m \in Int /\ n \in Int
  BY <1>1, <1>2, ElementOfSeq
<1>4. PICK a, b : a = SubSeq(q, m, n) /\ b = SubSeq(x, m, n)
  OBVIOUS
<1>5. /\ a \in Seq(Turn) /\ Len(a) = IF m <= n THEN n - m + 1 ELSE 0
      /\ \A i \in 1 .. n - m + 1 : a[i] = q[m + i - 1]
  BY <1>3, <1>4, SubSeqProperties
<1>6. /\ b \in Seq(Turn) /\ Len(b) = IF m <= n THEN n - m + 1 ELSE 0
      /\ \A i \in 1 .. n - m + 1 : b[i] = x[m + i - 1]
  BY <1>3, <1>4, SubSeqProperties
<1>7. ASSUME NEW i \in 1 .. Len(a) PROVE b[i] = a[i]
  <2>1. i \in 1 .. n - m + 1 /\ m + i - 1 \in m .. n
    BY <1>1, <1>5
  <2>2. QED BY <1>5, <1>6, <2>1
<1>8. b = a
  BY <1>5, <1>6, <1>7, SeqEqual
<1>9. QED BY <1>4, <1>8

(* Two neighbours of one conversation. *)
LEMMA SwapNeighbours ==
  ASSUME NEW s, NEW x, NEW l, NEW t, NEW u, NEW r, NEW k, NEW j, Distinct(s),
         Around(s, k, u, r), Around(k, l, t, <<>>), Around(x, j, t, r), Around(j, l, u, <<>>)
  PROVE  MoveUp(s, u) = x /\ MoveDown(s, t) = x
<1>1. PICK e, n : e = <<>> /\ n = Len(l)
  OBVIOUS
<1>2. Len(e) = 0
  BY <1>1
<1>3. /\ n \in Nat /\ Len(k) = n + 1 + 0 /\ k[n + 1] = t
      /\ \A i \in 1 .. n : k[i] = l[i]
  BY <1>1, <1>2, AroundPlaces
<1>4. /\ Len(j) = n + 1 + 0 /\ j[n + 1] = u
      /\ \A i \in 1 .. n : j[i] = l[i]
  BY <1>1, <1>2, AroundPlaces
<1>5. /\ s \in Seq(Turn) /\ Len(s) = Len(k) + 1 + Len(r) /\ Len(r) \in Nat
      /\ s[Len(k) + 1] = u
      /\ \A i \in 1 .. Len(k) : s[i] = k[i]
      /\ \A i \in 1 .. Len(r) : s[Len(k) + 1 + i] = r[i]
  BY AroundPlaces
<1>6. /\ x \in Seq(Turn) /\ Len(x) = Len(j) + 1 + Len(r)
      /\ x[Len(j) + 1] = t
      /\ \A i \in 1 .. Len(j) : x[i] = j[i]
      /\ \A i \in 1 .. Len(r) : x[Len(j) + 1 + i] = r[i]
  BY AroundPlaces
<1>7. PICK m : m = n + 1
  OBVIOUS
<1>8. /\ m \in Nat /\ m \in 1 .. Len(s) /\ m + 1 \in 1 .. Len(s) /\ Len(k) = m /\ Len(j) = m
      /\ Len(x) = Len(s) /\ m > 0
  BY <1>3, <1>4, <1>5, <1>6, <1>7
<1>9. s[m] = t /\ s[m + 1] = u /\ x[m] = u /\ x[m + 1] = t
  BY <1>3, <1>4, <1>5, <1>6, <1>7, <1>8
<1>10. ASSUME NEW i \in 1 .. Len(s), i # m, i # m + 1 PROVE x[i] = s[i]
  <2>1. CASE i < m
    BY <1>3, <1>4, <1>5, <1>6, <1>7, <1>8, <2>1
  <2>2. CASE i > m + 1
    <3>1. i - (m + 1) \in 1 .. Len(r) /\ m + 1 + (i - (m + 1)) = i
      BY <1>5, <1>8, <2>2
    <3>2. s[m + 1 + (i - (m + 1))] = r[i - (m + 1)] /\ x[m + 1 + (i - (m + 1))] = r[i - (m + 1)]
      BY <1>5, <1>6, <1>8, <3>1
    <3>3. QED BY <3>1, <3>2
  <2>3. QED BY <1>8, <1>10, <2>1, <2>2
<1>11. /\ u \in Range(s) /\ IndexOf(s, u) = m + 1 /\ t \in Range(s) /\ IndexOf(s, t) = m
  BY <1>5, <1>8, <1>9, IndexOfDistinct
<1>12. DOMAIN x = DOMAIN s /\ DOMAIN s = 1 .. Len(s)
  BY <1>5, <1>6, <1>8, LenProperties
<1>13. MoveUp(s, u) = x
  <2>1. m + 1 > 1 /\ (m + 1) - 1 = m
    BY <1>8
  <2>2. MoveUp(s, u) = [s EXCEPT ![m + 1] = s[m], ![m] = u]
    BY <1>11, <2>1 DEF MoveUp
  <2>3. PICK y : y = [s EXCEPT ![m + 1] = s[m], ![m] = u]
    OBVIOUS
  <2>4. DOMAIN y = DOMAIN s /\ \A i \in DOMAIN s : y[i] = IF i = m THEN u ELSE IF i = m + 1 THEN s[m] ELSE s[i]
    BY <2>3
  <2>5. y \in Seq(Turn) /\ Len(y) = Len(s)
    <3>1. s[m] \in Turn /\ u \in Turn
      BY <1>5, <1>8, <1>9, ElementOfSeq
    <3>2. PICK z : z = [s EXCEPT ![m + 1] = s[m]]
      OBVIOUS
    <3>3. z \in Seq(Turn) /\ Len(z) = Len(s)
      BY <1>5, <1>8, <3>1, <3>2, ExceptSeq
    <3>4. y = [z EXCEPT ![m] = u]
      BY <2>3, <3>2
    <3>5. QED BY <1>8, <3>1, <3>3, <3>4, ExceptSeq
  <2>6. \A i \in 1 .. Len(y) : y[i] = x[i]
    BY <1>8, <1>9, <1>10, <1>12, <2>4, <2>5
  <2>7. y = x
    BY <1>6, <1>8, <2>5, <2>6, SeqEqual
  <2>8. QED BY <2>2, <2>3, <2>7
<1>14. MoveDown(s, t) = x
  <2>1. m < Len(s)
    BY <1>8
  <2>2. MoveDown(s, t) = [s EXCEPT ![m] = s[m + 1], ![m + 1] = t]
    BY <1>11, <2>1 DEF MoveDown
  <2>3. PICK y : y = [s EXCEPT ![m] = s[m + 1], ![m + 1] = t]
    OBVIOUS
  <2>4. DOMAIN y = DOMAIN s /\ \A i \in DOMAIN s : y[i] = IF i = m + 1 THEN t ELSE IF i = m THEN s[m + 1] ELSE s[i]
    BY <2>3
  <2>5. y \in Seq(Turn) /\ Len(y) = Len(s)
    <3>1. s[m + 1] \in Turn /\ t \in Turn
      BY <1>5, <1>8, <1>9, ElementOfSeq
    <3>2. PICK z : z = [s EXCEPT ![m] = s[m + 1]]
      OBVIOUS
    <3>3. z \in Seq(Turn) /\ Len(z) = Len(s)
      BY <1>5, <1>8, <3>1, <3>2, ExceptSeq
    <3>4. y = [z EXCEPT ![m + 1] = t]
      BY <2>3, <3>2
    <3>5. QED BY <1>8, <3>1, <3>3, <3>4, ExceptSeq
  <2>6. \A i \in 1 .. Len(y) : y[i] = x[i]
    BY <1>8, <1>9, <1>10, <1>12, <2>4, <2>5
  <2>7. y = x
    BY <1>6, <1>8, <2>5, <2>6, SeqEqual
  <2>8. QED BY <2>2, <2>3, <2>7
<1>15. QED BY <1>13, <1>14

(* x is q with the turns at a and b exchanged. *)
Exchanged(q, a, b, x) ==
  /\ q \in Seq(Turn) /\ x \in Seq(Turn) /\ Len(x) = Len(q)
  /\ a \in 1 .. Len(q) /\ b \in 1 .. Len(q) /\ a < b
  /\ x[a] = q[b] /\ x[b] = q[a]
  /\ \A i \in 1 .. Len(q) : i # a /\ i # b => x[i] = q[i]

LEMMA ExchangedParts ==
  ASSUME NEW q, NEW a, NEW b, NEW x, Exchanged(q, a, b, x)
  PROVE  \E k, l, m, r, j :
           /\ Around(q, k, q[b], r) /\ Around(k, l, q[a], m)
           /\ Around(x, j, q[a], r) /\ Around(j, l, q[b], m)
           /\ \A i \in 1 .. Len(m) : m[i] = q[a + i] /\ a + i \in a + 1 .. b - 1
<1>1. /\ q \in Seq(Turn) /\ x \in Seq(Turn) /\ Len(x) = Len(q) /\ Len(q) \in Nat
      /\ a \in 1 .. Len(q) /\ b \in 1 .. Len(q) /\ a < b
      /\ x[a] = q[b] /\ x[b] = q[a]
      /\ \A i \in 1 .. Len(q) : i # a /\ i # b => x[i] = q[i]
  BY LenProperties DEF Exchanged
<1>2. PICK k, r, j : /\ k = SubSeq(q, 1, b - 1) /\ r = SubSeq(q, b + 1, Len(q))
                     /\ j = SubSeq(x, 1, b - 1)
  OBVIOUS
<1>3. Around(q, k, q[b], r) /\ Len(k) = b - 1
  BY <1>1, <1>2, SplitAround
<1>4. r = SubSeq(x, b + 1, Len(q))
  <2>1. /\ b + 1 \in 1 .. Len(q) + 1 /\ Len(q) \in 0 .. Len(q)
        /\ \A i \in b + 1 .. Len(q) : x[i] = q[i]
    BY <1>1
  <2>2. QED BY <1>1, <1>2, <2>1, SubSeqSame
<1>5. Around(x, j, q[a], r) /\ Len(j) = b - 1
  BY <1>1, <1>2, <1>4, SplitAround
<1>6. /\ k \in Seq(Turn) /\ \A i \in 1 .. b - 1 : k[i] = q[i]
  BY <1>3, AroundPlaces
<1>7. /\ j \in Seq(Turn) /\ \A i \in 1 .. b - 1 : j[i] = x[i]
  BY <1>5, AroundPlaces
<1>8. PICK l, m : l = SubSeq(k, 1, a - 1) /\ m = SubSeq(k, a + 1, Len(k))
  OBVIOUS
<1>9. /\ a \in 1 .. Len(k) /\ a \in 1 .. Len(j) /\ k[a] = q[a] /\ j[a] = q[b]
      /\ \A i \in 1 .. Len(k) : i # a => j[i] = k[i]
  BY <1>1, <1>3, <1>5, <1>6, <1>7
<1>10. Around(k, l, q[a], m) /\ Len(l) = a - 1
  BY <1>6, <1>8, <1>9, SplitAround
<1>11. Len(j) = Len(k) /\ Len(k) \in Nat
  BY <1>1, <1>3, <1>5
<1>12. l = SubSeq(j, 1, a - 1)
  <2>1. 1 \in 1 .. Len(k) + 1 /\ a - 1 \in 0 .. Len(k) /\ \A i \in 1 .. a - 1 : j[i] = k[i]
    BY <1>1, <1>9, <1>11
  <2>2. QED BY <1>6, <1>7, <1>8, <1>11, <2>1, SubSeqSame
<1>13. m = SubSeq(j, a + 1, Len(j))
  <2>1. a + 1 \in 1 .. Len(k) + 1 /\ Len(k) \in 0 .. Len(k) /\ \A i \in a + 1 .. Len(k) : j[i] = k[i]
    BY <1>1, <1>9, <1>11
  <2>2. QED BY <1>6, <1>7, <1>8, <1>11, <2>1, SubSeqSame
<1>14. Around(j, l, q[b], m)
  BY <1>7, <1>9, <1>12, <1>13, SplitAround
<1>15. ASSUME NEW i \in 1 .. Len(m) PROVE m[i] = q[a + i] /\ a + i \in a + 1 .. b - 1
  <2>1. Len(k) = Len(l) + 1 + Len(m) /\ Len(m) \in Nat /\ k[Len(l) + 1 + i] = m[i]
    BY <1>10, AroundPlaces
  <2>2. Len(l) + 1 + i = a + i /\ a + i \in 1 .. b - 1 /\ a + i \in a + 1 .. b - 1
    BY <1>1, <1>3, <1>10, <2>1
  <2>3. QED BY <1>6, <2>1, <2>2
<1>16. QED BY <1>3, <1>5, <1>10, <1>14, <1>15

(* What each conversation sees of the exchange of two turns that have none of *)
(* their own conversation between them.                                       *)
Neighbours(q, a, b, S) == q[a] \in S /\ q[b] \in S /\ \A i \in a + 1 .. b - 1 : q[i] \notin S

LEMMA OwnExchange ==
  ASSUME NEW q, NEW a, NEW b, NEW x, NEW S, Exchanged(q, a, b, x), Distinct(q),
         Neighbours(q, a, b, S)
  PROVE  /\ Pick(x, S) = MoveUp(Pick(q, S), q[b])
         /\ Pick(x, S) = MoveDown(Pick(q, S), q[a])
         /\ \A R : R \cap S = {} => Pick(x, R) = Pick(q, R)
<1>1. PICK k, l, m, r, j :
           /\ Around(q, k, q[b], r) /\ Around(k, l, q[a], m)
           /\ Around(x, j, q[a], r) /\ Around(j, l, q[b], m)
           /\ \A i \in 1 .. Len(m) : m[i] = q[a + i] /\ a + i \in a + 1 .. b - 1
  BY ExchangedParts
<1>0. q[a] \in S /\ q[b] \in S /\ \A i \in a + 1 .. b - 1 : q[i] \notin S
  BY DEF Neighbours
<1>2. m \in Seq(Turn) /\ q \in Seq(Turn)
  BY <1>1 DEF Around, Exchanged
<1>3. Pick(m, S) = <<>>
  <2>1. \A i \in 1 .. Len(m) : m[i] \notin S
    BY <1>0, <1>1
  <2>2. Range(m) \cap S = {}
    BY <1>2, <2>1, InRange
  <2>3. QED BY <1>2, <2>2, PickNone
<1>4. Distinct(Pick(q, S))
  BY <1>2, PickContents
<1>5. /\ Around(Pick(q, S), Pick(k, S), q[b], Pick(r, S))
      /\ Around(Pick(x, S), Pick(j, S), q[a], Pick(r, S))
  BY <1>0, <1>1, PickAround
<1>6. Around(Pick(k, S), Pick(l, S), q[a], <<>>)
  <2>1. Around(Pick(k, S), Pick(l, S), q[a], Pick(m, S))
    BY <1>0, <1>1, PickAround
  <2>2. QED BY <1>3, <2>1
<1>7. Around(Pick(j, S), Pick(l, S), q[b], <<>>)
  <2>1. Around(Pick(j, S), Pick(l, S), q[b], Pick(m, S))
    BY <1>0, <1>1, PickAround
  <2>2. QED BY <1>3, <2>1
<1>8. /\ MoveUp(Pick(q, S), q[b]) = Pick(x, S)
      /\ MoveDown(Pick(q, S), q[a]) = Pick(x, S)
  BY <1>4, <1>5, <1>6, <1>7, SwapNeighbours
<1>9. ASSUME NEW R, R \cap S = {} PROVE Pick(x, R) = Pick(q, R)
  <2>1. q[a] \notin R /\ q[b] \notin R
    BY <1>0, <1>9
  <2>2. Joined(Pick(q, R), Pick(k, R), Pick(r, R)) /\ Joined(Pick(x, R), Pick(j, R), Pick(r, R))
    BY <1>1, <2>1, PickAround
  <2>3. Joined(Pick(k, R), Pick(l, R), Pick(m, R)) /\ Joined(Pick(j, R), Pick(l, R), Pick(m, R))
    BY <1>1, <2>1, PickAround
  <2>4. QED BY <2>2, <2>3 DEF Joined
<1>10. QED BY <1>8, <1>9

(* A set of numbers up to a bound that is not empty has a greatest element. *)
LEMMA GreatestNumber ==
  ASSUME NEW N \in Nat, NEW P, P \subseteq 1 .. N, P # {}
  PROVE  Max(P) \in P /\ \A y \in P : y <= Max(P)
<1>1. PICK D : D = {N - p : p \in P}
  OBVIOUS
<1>2. D \subseteq Nat /\ D # {}
  <2>1. \A p \in P : N - p \in Nat /\ N - p \in D
    BY <1>1
  <2>2. D # {}
    BY <2>1
  <2>3. D \subseteq Nat
    BY <1>1, <2>1
  <2>4. QED BY <2>2, <2>3
<1>3. PICK d \in D : \A y \in D : d <= y
  BY <1>2, LeastNumber
<1>4. PICK p \in P : d = N - p
  BY <1>1, <1>3
<1>5. \A y \in P : N - y \in D
  BY <1>1
<1>6. \A y \in P : p >= y
  BY <1>3, <1>4, <1>5
<1>7. Max(P) \in P /\ \A y \in P : Max(P) >= y
  BY <1>4, <1>6 DEF Max
<1>8. QED BY <1>7

LEMMA SmallestNumber ==
  ASSUME NEW P, P \subseteq Nat, P # {}
  PROVE  Min(P) \in P /\ \A y \in P : Min(P) <= y
<1>1. PICK m \in P : \A y \in P : m <= y
  BY LeastNumber
<1>2. QED BY <1>1 DEF Min

(* moveQueuedChatTurn *)
LEMMA FindQueued ==
  ASSUME NEW q, NEW t, q \in Seq(Turn), Distinct(q)
  PROVE  /\ t \in Range(q) => /\ Find(q, t) \in 1 .. Len(q) /\ q[Find(q, t)] = t
                              /\ Find(q, t) = IndexOf(q, t)
         /\ t \notin Range(q) => Find(q, t) = 0
<1>1. PICK S : S = {t}
  OBVIOUS
<1>2. Find(q, t) = FirstIn(q, S)
  BY <1>1 DEF Find
<1>3. ASSUME t \in Range(q)
      PROVE  Find(q, t) \in 1 .. Len(q) /\ q[Find(q, t)] = t /\ Find(q, t) = IndexOf(q, t)
  <2>1. Range(q) \cap S # {}
    BY <1>1, <1>3
  <2>2. FirstIn(q, S) \in 1 .. Len(q) /\ q[FirstIn(q, S)] \in S
    BY <2>1, FirstInFound
  <2>3. Find(q, t) \in 1 .. Len(q) /\ q[Find(q, t)] = t
    BY <1>1, <1>2, <2>2
  <2>4. QED BY <2>3, IndexOfDistinct
<1>4. ASSUME t \notin Range(q) PROVE Find(q, t) = 0
  <2>1. Range(q) \cap S = {}
    BY <1>1, <1>4
  <2>2. QED BY <1>2, <2>1, FirstInFound
<1>5. QED BY <1>3, <1>4

(* The first and the last turn of a conversation do not move further. *)
LEMMA FirstStays ==
  ASSUME NEW s, NEW l, NEW t, NEW r, Distinct(s), Around(s, l, t, r)
  PROVE  /\ l = <<>> => MoveUp(s, t) = s
         /\ r = <<>> => MoveDown(s, t) = s
<1>1. IndexOf(s, t) = Len(l) + 1
  BY WithoutAround
<1>2. Len(s) = Len(l) + 1 + Len(r) /\ Len(l) \in Nat /\ Len(r) \in Nat
  BY AroundPlaces
<1>3. ASSUME l = <<>> PROVE MoveUp(s, t) = s
  <2>1. Len(l) = 0
    BY <1>3
  <2>2. ~(IndexOf(s, t) > 1)
    BY <1>1, <2>1
  <2>3. QED BY <2>2 DEF MoveUp
<1>4. ASSUME r = <<>> PROVE MoveDown(s, t) = s
  <2>1. Len(r) = 0
    BY <1>4
  <2>2. ~(IndexOf(s, t) < Len(s))
    BY <1>1, <1>2, <2>1
  <2>3. QED BY <2>2 DEF MoveDown
<1>5. QED BY <1>3, <1>4

LEMMA PositionsIn ==
  ASSUME NEW q, NEW S, q \in Seq(Turn)
  PROVE  \A i : i \in Positions(q, S) <=> i \in 1 .. Len(q) /\ q[i] \in S
BY LenProperties DEF Positions

LEMMA ExchangedSeq ==
  ASSUME NEW q, NEW i, NEW j, NEW x, q \in Seq(Turn), Distinct(q),
         i \in 1 .. Len(q), j \in 1 .. Len(q), i # j,
         x = [q EXCEPT ![i] = q[j], ![j] = q[i]]
  PROVE  /\ Distinct(x)
         /\ i < j => Exchanged(q, i, j, x)
         /\ j < i => Exchanged(q, j, i, x)
<1>1. x \in Seq(Turn) /\ Distinct(x)
  BY ExchangeQueue
<1>2. DOMAIN q = 1 .. Len(q) /\ Len(q) \in Nat
  BY LenProperties
<1>3. DOMAIN x = DOMAIN q /\ \A k \in DOMAIN q : x[k] = IF k = j THEN q[i] ELSE IF k = i THEN q[j] ELSE q[k]
  OBVIOUS
<1>4. DOMAIN x = 1 .. Len(x) /\ Len(x) \in Nat
  BY <1>1, LenProperties
<1>5. Len(x) = Len(q)
  BY <1>2, <1>3, <1>4
<1>6. QED BY <1>1, <1>2, <1>3, <1>5 DEF Exchanged

(* What a move leaves alone: the list is one of turns, each there once, and *)
(* no other conversation sees a difference.                                  *)
Moved(q, x, S) ==
  /\ x \in Seq(Turn) /\ Distinct(x)
  /\ \A R : R \cap S = {} => Pick(x, R) = Pick(q, R)

LEMMA OwnMoveUp ==
  ASSUME NEW q, NEW t, NEW S, q \in Seq(Turn), Distinct(q), t \in Range(q),
         S = Own(ConvOf[t]), t \in S
  PROVE  /\ Moved(q, FlatMove(q, t, TRUE), S)
         /\ Pick(FlatMove(q, t, TRUE), S) = MoveUp(Pick(q, S), t)
<1>1. PICK i : i = Find(q, t)
  OBVIOUS
<1>2. i \in 1 .. Len(q) /\ q[i] = t /\ i # 0 /\ Len(q) \in Nat
  BY <1>1, FindQueued, LenProperties
<1>3. PICK P : P = {j \in Positions(q, S) : j < i}
  OBVIOUS
<1>4. FlatMove(q, t, TRUE) = IF i = 0 \/ P = {} THEN q ELSE [q EXCEPT ![i] = q[Max(P)], ![Max(P)] = q[i]]
  BY <1>1, <1>3 DEF FlatMove
<1>5. \A j : j \in P <=> j \in 1 .. Len(q) /\ q[j] \in S /\ j < i
  BY <1>3, PositionsIn
<1>6. CASE P = {}
  <2>1. FlatMove(q, t, TRUE) = q
    BY <1>4, <1>6
  <2>2. PICK l, r : l = SubSeq(q, 1, i - 1) /\ r = SubSeq(q, i + 1, Len(q))
    OBVIOUS
  <2>3. Around(q, l, t, r) /\ Len(l) = i - 1
    BY <1>2, <2>2, SplitAround
  <2>4. l \in Seq(Turn) /\ \A k \in 1 .. Len(l) : q[k] = l[k]
    BY <2>3, AroundPlaces
  <2>5. \A k \in 1 .. Len(l) : l[k] \notin S
    BY <1>2, <1>5, <1>6, <2>3, <2>4
  <2>6. Range(l) \cap S = {}
    BY <2>4, <2>5, InRange
  <2>7. Pick(l, S) = <<>>
    BY <2>4, <2>6, PickNone
  <2>8. Around(Pick(q, S), Pick(l, S), t, Pick(r, S)) /\ Distinct(Pick(q, S))
    BY <2>3, PickAround, PickContents
  <2>9. MoveUp(Pick(q, S), t) = Pick(q, S)
    BY <2>7, <2>8, FirstStays
  <2>10. QED BY <2>1, <2>9 DEF Moved
<1>7. CASE P # {}
  <2>1. PICK j : j = Max(P)
    OBVIOUS
  <2>2. j \in P /\ \A y \in P : y <= j
    <3>1. P \subseteq 1 .. Len(q)
      BY <1>5
    <3>2. QED BY <1>2, <1>7, <2>1, <3>1, GreatestNumber
  <2>3. j \in 1 .. Len(q) /\ q[j] \in S /\ j < i /\ i # j /\ q[i] \in S
    BY <1>2, <1>5, <2>2
  <2>4. \A k \in j + 1 .. i - 1 : q[k] \notin S
    <3>1. TAKE k \in j + 1 .. i - 1
    <3>2. k \in 1 .. Len(q) /\ k < i /\ ~(k <= j)
      BY <1>2, <2>3
    <3>3. QED BY <1>5, <2>2, <3>2
  <2>5. PICK x : x = [q EXCEPT ![i] = q[j], ![j] = q[i]]
    OBVIOUS
  <2>6. FlatMove(q, t, TRUE) = x
    BY <1>2, <1>4, <1>7, <2>1, <2>5
  <2>7. Distinct(x) /\ Exchanged(q, j, i, x)
    BY <1>2, <2>3, <2>5, ExchangedSeq
  <2>8. x \in Seq(Turn)
    BY <2>7 DEF Exchanged
  <2>9. Neighbours(q, j, i, S) /\ Exchanged(q, j, i, x)
    BY <2>3, <2>4, <2>7 DEF Neighbours
  <2>10. /\ Pick(x, S) = MoveUp(Pick(q, S), q[i])
         /\ \A R : R \cap S = {} => Pick(x, R) = Pick(q, R)
    BY <2>9, OwnExchange
  <2>11. QED BY <1>2, <2>6, <2>7, <2>8, <2>10 DEF Moved
<1>8. QED BY <1>6, <1>7

LEMMA OwnMoveDown ==
  ASSUME NEW q, NEW t, NEW S, q \in Seq(Turn), Distinct(q), t \in Range(q),
         S = Own(ConvOf[t]), t \in S
  PROVE  /\ Moved(q, FlatMove(q, t, FALSE), S)
         /\ Pick(FlatMove(q, t, FALSE), S) = MoveDown(Pick(q, S), t)
<1>1. PICK i : i = Find(q, t)
  OBVIOUS
<1>2. i \in 1 .. Len(q) /\ q[i] = t /\ i # 0 /\ Len(q) \in Nat
  BY <1>1, FindQueued, LenProperties
<1>3. PICK P : P = {j \in Positions(q, S) : j > i}
  OBVIOUS
<1>4. FlatMove(q, t, FALSE) = IF i = 0 \/ P = {} THEN q ELSE [q EXCEPT ![i] = q[Min(P)], ![Min(P)] = q[i]]
  BY <1>1, <1>3 DEF FlatMove
<1>5. \A j : j \in P <=> j \in 1 .. Len(q) /\ q[j] \in S /\ j > i
  BY <1>3, PositionsIn
<1>6. CASE P = {}
  <2>1. FlatMove(q, t, FALSE) = q
    BY <1>4, <1>6
  <2>2. PICK l, r : l = SubSeq(q, 1, i - 1) /\ r = SubSeq(q, i + 1, Len(q))
    OBVIOUS
  <2>3. Around(q, l, t, r) /\ Len(l) = i - 1
    BY <1>2, <2>2, SplitAround
  <2>4. /\ r \in Seq(Turn) /\ Len(r) \in Nat /\ Len(q) = Len(l) + 1 + Len(r)
        /\ \A k \in 1 .. Len(r) : q[Len(l) + 1 + k] = r[k]
    BY <2>3, AroundPlaces
  <2>5. ASSUME NEW k \in 1 .. Len(r) PROVE r[k] \notin S
    <3>1. Len(l) + 1 + k \in 1 .. Len(q) /\ Len(l) + 1 + k > i
      BY <1>2, <2>3, <2>4
    <3>2. QED BY <1>5, <1>6, <2>4, <3>1
  <2>6. Range(r) \cap S = {}
    BY <2>4, <2>5, InRange
  <2>7. Pick(r, S) = <<>>
    BY <2>4, <2>6, PickNone
  <2>8. Around(Pick(q, S), Pick(l, S), t, Pick(r, S)) /\ Distinct(Pick(q, S))
    BY <2>3, PickAround, PickContents
  <2>9. MoveDown(Pick(q, S), t) = Pick(q, S)
    BY <2>7, <2>8, FirstStays
  <2>10. QED BY <2>1, <2>9 DEF Moved
<1>7. CASE P # {}
  <2>1. PICK j : j = Min(P)
    OBVIOUS
  <2>2. j \in P /\ \A y \in P : j <= y
    <3>1. P \subseteq Nat
      BY <1>5
    <3>2. QED BY <1>7, <2>1, <3>1, SmallestNumber
  <2>3. j \in 1 .. Len(q) /\ q[j] \in S /\ i < j /\ i # j /\ q[i] \in S
    BY <1>2, <1>5, <2>2
  <2>4. \A k \in i + 1 .. j - 1 : q[k] \notin S
    <3>1. TAKE k \in i + 1 .. j - 1
    <3>2. k \in 1 .. Len(q) /\ k > i /\ ~(j <= k)
      BY <1>2, <2>3
    <3>3. QED BY <1>5, <2>2, <3>2
  <2>5. PICK x : x = [q EXCEPT ![i] = q[j], ![j] = q[i]]
    OBVIOUS
  <2>6. FlatMove(q, t, FALSE) = x
    BY <1>2, <1>4, <1>7, <2>1, <2>5
  <2>7. Distinct(x) /\ Exchanged(q, i, j, x)
    BY <1>2, <2>3, <2>5, ExchangedSeq
  <2>8. x \in Seq(Turn)
    BY <2>7 DEF Exchanged
  <2>9. Neighbours(q, i, j, S) /\ Exchanged(q, i, j, x)
    BY <2>3, <2>4, <2>7 DEF Neighbours
  <2>10. /\ Pick(x, S) = MoveDown(Pick(q, S), q[i])
         /\ \A R : R \cap S = {} => Pick(x, R) = Pick(q, R)
    BY <2>9, OwnExchange
  <2>11. QED BY <1>2, <2>6, <2>7, <2>8, <2>10 DEF Moved
<1>8. QED BY <1>6, <1>7

-----------------------------------------------------------------------------
(* The place an edit slot stands for. *)

(* How many turns of S are among the first n. *)
Count(q, S, n) == Len(Pick(SubSeq(q, 1, n), S))

LEMMA CountSteps ==
  ASSUME NEW q, NEW S, q \in Seq(Turn)
  PROVE  /\ Count(q, S, 0) = 0
         /\ Count(q, S, Len(q)) = Len(Pick(q, S))
         /\ \A n \in 0 .. Len(q) : Count(q, S, n) \in Nat
         /\ \A n \in 1 .. Len(q) :
              Count(q, S, n) = IF q[n] \in S THEN Count(q, S, n - 1) + 1 ELSE Count(q, S, n - 1)
<1>1. Len(q) \in Nat /\ \A i \in 1 .. Len(q) : q[i] \in Turn
  BY LenProperties, ElementOfSeq
<1>2. \A n \in 0 .. Len(q) : SubSeq(q, 1, n) \in Seq(Turn)
  BY <1>1, SubSeqProperties
<1>3. \A n \in 0 .. Len(q) : Pick(SubSeq(q, 1, n), S) \in Seq(Turn)
  BY <1>2, PickSeq
<1>4. \A n \in 0 .. Len(q) : Count(q, S, n) \in Nat
  BY <1>3, LenProperties DEF Count
<1>5. Count(q, S, 0) = 0
  <2>1. PICK e : e = SubSeq(q, 1, 0)
    OBVIOUS
  <2>2. e = <<>> /\ e \in Seq(Turn) /\ Range(e) \cap S = {}
    BY <2>1, SubSeqEmpty DEF Range
  <2>3. Pick(e, S) = <<>>
    BY <2>2, PickNone
  <2>4. QED BY <2>1, <2>3 DEF Count
<1>6. Count(q, S, Len(q)) = Len(Pick(q, S))
  BY SubSeqFull DEF Count
<1>7. ASSUME NEW n \in 1 .. Len(q)
      PROVE  Count(q, S, n) = IF q[n] \in S THEN Count(q, S, n - 1) + 1 ELSE Count(q, S, n - 1)
  <2>1. PICK l, k, t, p : /\ l = SubSeq(q, 1, n - 1) /\ k = SubSeq(q, 1, n) /\ t = q[n]
                          /\ p = Pick(l, S)
    OBVIOUS
  <2>2. l \in Seq(Turn) /\ t \in Turn /\ 1 \in 1 .. Len(q) /\ n \in 1 .. Len(q)
    BY <1>1, <1>2, <2>1
  <2>3. k = l \o <<t>>
    BY <2>1, <2>2, SubSeqRecursiveSecond
  <2>4. k = Append(l, t)
    BY <2>2, <2>3, AppendIsConcat
  <2>5. Pick(k, S) = Kept(p, t, S)
    <3>1. Pick(Append(l, t), S) = Kept(Pick(l, S), t, S)
      BY <2>2, PickAppend
    <3>2. QED BY <2>1, <2>4, <3>1
  <2>6. p \in Seq(Turn)
    BY <2>1, <2>2, PickSeq
  <2>7. Len(Append(p, t)) = Len(p) + 1
    BY <2>2, <2>6, AppendProperties
  <2>8. QED BY <2>1, <2>5, <2>7 DEF Kept, Count
<1>8. QED BY <1>4, <1>5, <1>6, <1>7

(* A turn of the set is, among them, behind those that precede it in the list. *)
LEMMA IndexCount ==
  ASSUME NEW q, NEW S, NEW n, NEW t, q \in Seq(Turn), Distinct(q), n \in 1 .. Len(q),
         t = q[n], t \in S
  PROVE  /\ t \in Range(Pick(q, S)) /\ IndexOf(Pick(q, S), t) = Count(q, S, n - 1) + 1
         /\ Count(q, S, n - 1) + 1 <= Len(Pick(q, S))
         /\ (\A k \in n + 1 .. Len(q) : q[k] \notin S) => Count(q, S, n - 1) + 1 = Len(Pick(q, S))
<1>1. PICK l, r : l = SubSeq(q, 1, n - 1) /\ r = SubSeq(q, n + 1, Len(q))
  OBVIOUS
<1>2. Around(q, l, t, r) /\ Len(l) = n - 1
  BY <1>1, SplitAround
<1>3. Around(Pick(q, S), Pick(l, S), t, Pick(r, S)) /\ Distinct(Pick(q, S))
  BY <1>2, PickAround, PickContents
<1>4. /\ t \in Range(Pick(q, S)) /\ IndexOf(Pick(q, S), t) = Len(Pick(l, S)) + 1
  BY <1>3, WithoutAround
<1>5. /\ Len(Pick(q, S)) = Len(Pick(l, S)) + 1 + Len(Pick(r, S))
      /\ Len(Pick(l, S)) \in Nat /\ Len(Pick(r, S)) \in Nat
  BY <1>3, AroundPlaces
<1>6. Len(Pick(l, S)) = Count(q, S, n - 1)
  BY <1>1 DEF Count
<1>7. ASSUME \A k \in n + 1 .. Len(q) : q[k] \notin S
      PROVE  Len(Pick(r, S)) = 0
  <2>1. /\ r \in Seq(Turn) /\ Len(r) \in Nat /\ Len(q) = Len(l) + 1 + Len(r)
        /\ \A k \in 1 .. Len(r) : q[Len(l) + 1 + k] = r[k]
    BY <1>2, AroundPlaces
  <2>2. ASSUME NEW k \in 1 .. Len(r) PROVE r[k] \notin S
    <3>1. Len(l) + 1 + k \in n + 1 .. Len(q)
      BY <1>2, <2>1
    <3>2. QED BY <1>7, <2>1, <3>1
  <2>3. Range(r) \cap S = {}
    BY <2>1, <2>2, InRange
  <2>4. Pick(r, S) = <<>>
    BY <2>1, <2>3, PickNone
  <2>5. QED BY <2>4
<1>8. Count(q, S, n - 1) + 1 <= Len(Pick(q, S))
  BY <1>5, <1>6
<1>9. ASSUME \A k \in n + 1 .. Len(q) : q[k] \notin S
      PROVE  Count(q, S, n - 1) + 1 = Len(Pick(q, S))
  BY <1>5, <1>6, <1>7, <1>9
<1>10. QED BY <1>4, <1>6, <1>8, <1>9

(* resolveQueuedChatTurnSlotIndex: the turns of the conversation before the   *)
(* place in the list are those before the slot's place in its own sequence.   *)
SlotWithin(s, S) ==
  /\ S = Own(s.conv) /\ s.index \in Nat
  /\ s.prev \in S \cup {None} /\ s.next \in S \cup {None}

LEMMA CountReaches ==
  ASSUME NEW q, NEW S, NEW i, NEW m \in Nat, q \in Seq(Turn), i \in 1 .. Len(q),
         Count(q, S, i - 1) > m
  PROVE  \E d \in 1 .. i - 1 : q[d] \in S /\ Count(q, S, d - 1) = m
<1>1. /\ Len(q) \in Nat /\ Count(q, S, 0) = 0
      /\ \A n \in 0 .. Len(q) : Count(q, S, n) \in Nat
      /\ \A n \in 1 .. Len(q) :
           Count(q, S, n) = IF q[n] \in S THEN Count(q, S, n - 1) + 1 ELSE Count(q, S, n - 1)
  BY CountSteps, LenProperties
<1>2. PICK D : D = {n \in 0 .. i - 1 : Count(q, S, n) > m}
  OBVIOUS
<1>3. i - 1 \in D /\ D \subseteq Nat
  BY <1>1, <1>2
<1>4. PICK d \in D : \A y \in D : d <= y
  BY <1>3, LeastNumber
<1>5. d \in 0 .. i - 1 /\ Count(q, S, d) > m /\ d # 0
  BY <1>1, <1>2, <1>4
<1>6. d \in 1 .. i - 1 /\ d \in 1 .. Len(q) /\ d - 1 \in 0 .. i - 1 /\ d - 1 \in 0 .. Len(q) /\ ~(d <= d - 1)
  BY <1>1, <1>5
<1>7. ~(Count(q, S, d - 1) > m)
  BY <1>2, <1>4, <1>6
<1>8. Count(q, S, d - 1) \in Nat /\ Count(q, S, d) = IF q[d] \in S THEN Count(q, S, d - 1) + 1 ELSE Count(q, S, d - 1)
  BY <1>1, <1>6
<1>9. q[d] \in S /\ Count(q, S, d - 1) = m
  BY <1>5, <1>7, <1>8
<1>10. QED BY <1>6, <1>9

LEMMA SlotPlace ==
  ASSUME NEW q, NEW s, NEW S, q \in Seq(Turn), Distinct(q), SlotWithin(s, S)
  PROVE  /\ FlatSlotIndex(q, s) \in 1 .. Len(q) + 1
         /\ SlotPosition(Pick(q, S), s) = Count(q, S, FlatSlotIndex(q, s) - 1) + 1
<1>1. PICK i, p : i = FlatSlotIndex(q, s) /\ p = Pick(q, S)
  OBVIOUS
<1>2. Len(q) \in Nat /\ Len(p) \in Nat /\ Range(p) = Range(q) \cap S
  <2>1. p \in Seq(Turn)
    BY <1>1, PickSeq
  <2>2. QED BY <1>1, <2>1, PickContents, LenProperties
<1>3. None \notin Range(q)
  BY FlatTurnQueueAssumption, RangeOfSeq
<1>4. S = Own(s.conv) /\ s.index \in Nat /\ s.prev \in S \cup {None} /\ s.next \in S \cup {None}
  BY DEF SlotWithin
<1>5. /\ Count(q, S, 0) = 0 /\ Count(q, S, Len(q)) = Len(p)
      /\ \A n \in 0 .. Len(q) : Count(q, S, n) \in Nat
      /\ \A n \in 1 .. Len(q) :
           Count(q, S, n) = IF q[n] \in S THEN Count(q, S, n - 1) + 1 ELSE Count(q, S, n - 1)
  BY <1>1, CountSteps
<1>6. PICK P, N : P = Positions(q, S) /\ N = {k \in P : Count(q, S, k - 1) >= s.index}
  OBVIOUS
<1>7. i = IF Find(q, s.next) > 0 THEN Find(q, s.next)
          ELSE IF Find(q, s.prev) > 0 THEN Find(q, s.prev) + 1
          ELSE IF N # {} THEN Min(N) ELSE IF P # {} THEN Max(P) + 1 ELSE Len(q) + 1
  BY <1>1, <1>4, <1>6 DEF FlatSlotIndex, Count, OfConv
<1>8. SlotPosition(p, s) = IF s.next \in Range(p) THEN IndexOf(p, s.next)
                           ELSE IF s.prev \in Range(p) THEN IndexOf(p, s.prev) + 1
                           ELSE IF s.index < Len(p) THEN s.index + 1
                           ELSE Len(p) + 1
  BY DEF SlotPosition
<1>9. SUFFICES i \in 1 .. Len(q) + 1 /\ SlotPosition(p, s) = Count(q, S, i - 1) + 1
  BY <1>1
<1>10. CASE s.next \in Range(q)
  <2>1. s.next \in S
    BY <1>3, <1>4, <1>10
  <2>2. i = Find(q, s.next) /\ i \in 1 .. Len(q) /\ q[i] = s.next
    <3>1. Find(q, s.next) \in 1 .. Len(q) /\ q[Find(q, s.next)] = s.next
      BY <1>10, FindQueued
    <3>2. QED BY <1>7, <3>1
  <2>3. s.next \in Range(p) /\ IndexOf(p, s.next) = Count(q, S, i - 1) + 1
    BY <1>1, <2>1, <2>2, IndexCount
  <2>4. QED BY <1>2, <1>8, <2>2, <2>3
<1>11. CASE s.next \notin Range(q) /\ s.prev \in Range(q)
  <2>1. s.prev \in S /\ s.next \notin Range(p)
    BY <1>2, <1>3, <1>4, <1>11
  <2>2. PICK f : f = Find(q, s.prev)
    OBVIOUS
  <2>3. f \in 1 .. Len(q) /\ q[f] = s.prev /\ Find(q, s.next) = 0
    BY <1>11, <2>2, FindQueued
  <2>4. i = f + 1 /\ i \in 1 .. Len(q) + 1 /\ i - 1 = f
    BY <1>2, <1>7, <2>2, <2>3
  <2>5. s.prev \in Range(p) /\ IndexOf(p, s.prev) = Count(q, S, f - 1) + 1
    BY <1>1, <2>1, <2>3, IndexCount
  <2>6. Count(q, S, f) = Count(q, S, f - 1) + 1
    BY <1>5, <2>1, <2>3
  <2>7. QED BY <1>8, <2>1, <2>4, <2>5, <2>6
<1>12. CASE s.next \notin Range(q) /\ s.prev \notin Range(q)
  <2>1. Find(q, s.next) = 0 /\ Find(q, s.prev) = 0
    BY <1>12, FindQueued
  <2>2. s.next \notin Range(p) /\ s.prev \notin Range(p)
    BY <1>2, <1>12
  <2>3. \A k : k \in P <=> k \in 1 .. Len(q) /\ q[k] \in S
    BY <1>6, PositionsIn
  <2>4. \A k : k \in N <=> k \in P /\ Count(q, S, k - 1) >= s.index
    BY <1>6
  <2>5. CASE N # {}
    <3>1. i = Min(N)
      BY <1>7, <2>1, <2>5
    <3>2. N \subseteq Nat
      BY <2>3, <2>4
    <3>3. i \in N /\ \A y \in N : i <= y
      BY <2>5, <3>1, <3>2, SmallestNumber
    <3>4. i \in 1 .. Len(q) /\ q[i] \in S /\ Count(q, S, i - 1) >= s.index
      BY <2>3, <2>4, <3>3
    <3>5. Count(q, S, i - 1) + 1 <= Len(p)
      BY <1>1, <3>4, IndexCount
    <3>6. i - 1 \in 0 .. Len(q) /\ Count(q, S, i - 1) \in Nat
      BY <1>2, <1>5, <3>4
    <3>7. Count(q, S, i - 1) = s.index
      <4>1. SUFFICES ASSUME Count(q, S, i - 1) > s.index PROVE FALSE
        BY <1>4, <3>4, <3>6
      <4>2. PICK d \in 1 .. i - 1 : q[d] \in S /\ Count(q, S, d - 1) = s.index
        BY <1>4, <3>4, <4>1, CountReaches
      <4>3. d \in 1 .. Len(q) /\ ~(i <= d)
        BY <1>2, <3>4
      <4>4. d \in N
        BY <1>4, <2>3, <2>4, <4>2, <4>3
      <4>5. QED BY <3>3, <4>3, <4>4
    <3>8. s.index < Len(p)
      BY <1>2, <1>4, <3>5, <3>7
    <3>9. QED BY <1>2, <1>8, <2>2, <3>4, <3>7, <3>8
  <2>6. CASE N = {} /\ P # {}
    <3>1. PICK m : m = Max(P)
      OBVIOUS
    <3>2. i = m + 1
      BY <1>7, <2>1, <2>6, <3>1
    <3>3. P \subseteq 1 .. Len(q)
      BY <2>3
    <3>4. m \in P /\ \A y \in P : y <= m
      BY <1>2, <2>6, <3>1, <3>3, GreatestNumber
    <3>5. m \in 1 .. Len(q) /\ q[m] \in S
      BY <2>3, <3>4
    <3>6. i \in 1 .. Len(q) + 1 /\ i - 1 = m /\ m - 1 \in 0 .. Len(q)
      BY <1>2, <3>2, <3>5
    <3>7. Count(q, S, m - 1) \in Nat /\ Count(q, S, m) = Count(q, S, m - 1) + 1
      BY <1>5, <3>5, <3>6
    <3>8. ~(Count(q, S, m - 1) >= s.index)
      BY <2>4, <2>6, <3>4
    <3>9. ASSUME NEW k \in m + 1 .. Len(q) PROVE q[k] \notin S
      <4>1. k \in 1 .. Len(q) /\ ~(k <= m)
        BY <1>2, <3>5
      <4>2. QED BY <2>3, <3>4, <4>1
    <3>10. Count(q, S, m - 1) + 1 = Len(p)
      BY <1>1, <3>5, <3>9, IndexCount
    <3>11. ~(s.index < Len(p))
      BY <1>4, <3>7, <3>8, <3>10
    <3>12. QED BY <1>8, <2>2, <3>6, <3>7, <3>10, <3>11
  <2>7. CASE P = {}
    <3>1. N = {}
      BY <2>4, <2>7
    <3>2. i = Len(q) + 1
      BY <1>7, <2>1, <2>7, <3>1
    <3>3. Range(q) \cap S = {}
      BY <2>3, <2>7, InRange
    <3>4. p = <<>>
      BY <1>1, <3>3, PickNone
    <3>5. Len(p) = 0
      BY <3>4
    <3>6. i \in 1 .. Len(q) + 1 /\ i - 1 = Len(q) /\ ~(s.index < Len(p))
      BY <1>2, <1>4, <3>2, <3>5
    <3>7. QED BY <1>5, <1>8, <2>2, <3>5, <3>6
  <2>8. QED BY <2>5, <2>6, <2>7
<1>13. QED BY <1>10, <1>11, <1>12

(* insertQueuedChatTurnAtSlot *)
LEMMA OwnInsert ==
  ASSUME NEW q, NEW t, NEW s, NEW S, q \in Seq(Turn), Distinct(q), t \in Turn, t \in S,
         SlotWithin(s, S)
  PROVE  /\ Moved(q, FlatInsertAtSlot(q, t, s), S)
         /\ Pick(FlatInsertAtSlot(q, t, s), S) = InsertAtSlot(Pick(q, S), t, s)
<1>1. PICK w, i, x : w = Without(q, t) /\ i = FlatSlotIndex(w, s) /\ x = InsertAt(w, i, t)
  OBVIOUS
<1>2. w \in Seq(Turn) /\ Distinct(w) /\ (\A k \in 1 .. Len(w) : w[k] # t)
  BY <1>1, WithoutQueue
<1>3. i \in 1 .. Len(w) + 1 /\ SlotPosition(Pick(w, S), s) = Count(w, S, i - 1) + 1
  BY <1>1, <1>2, SlotPlace
<1>4. FlatInsertAtSlot(q, t, s) = x
  <2>1. FlatWithout(q, t) = w
    BY <1>1, FilterIsWithout
  <2>2. QED BY <1>1, <2>1 DEF FlatInsertAtSlot, InsertAt
<1>5. x \in Seq(Turn) /\ Distinct(x)
  BY <1>1, <1>2, <1>3, InsertAtQueue
<1>6. PICK l, r : l = SubSeq(w, 1, i - 1) /\ r = SubSeq(w, i, Len(w))
  OBVIOUS
<1>7. Joined(w, l, r) /\ Len(l) = i - 1
  BY <1>2, <1>3, <1>6, SplitAt
<1>8. Around(x, l, t, r)
  <2>1. Around(InsertAt(w, Len(l) + 1, t), l, t, r)
    BY <1>7, InsertAround
  <2>2. Len(l) + 1 = i
    <3>1. Len(w) \in Nat
      BY <1>2, LenProperties
    <3>2. QED BY <1>3, <1>7, <3>1
  <2>3. QED BY <1>1, <2>1, <2>2
<1>9. Pick(x, S) = InsertAt(Pick(w, S), Count(w, S, i - 1) + 1, t)
  <2>1. Around(Pick(x, S), Pick(l, S), t, Pick(r, S))
    BY <1>8, PickAround
  <2>2. Joined(Pick(w, S), Pick(l, S), Pick(r, S))
    BY <1>7, PickJoined
  <2>3. Around(InsertAt(Pick(w, S), Len(Pick(l, S)) + 1, t), Pick(l, S), t, Pick(r, S))
    BY <2>2, InsertAround
  <2>4. Len(Pick(l, S)) = Count(w, S, i - 1)
    BY <1>6 DEF Count
  <2>5. QED BY <2>1, <2>3, <2>4 DEF Around
<1>10. Pick(w, S) = Without(Pick(q, S), t)
  BY <1>1, OwnWithout
<1>11. Pick(x, S) = InsertAtSlot(Pick(q, S), t, s)
  BY <1>3, <1>9, <1>10 DEF InsertAtSlot
<1>12. ASSUME NEW R, R \cap S = {} PROVE Pick(x, R) = Pick(q, R)
  <2>1. t \notin R
    BY <1>12
  <2>2. Joined(Pick(x, R), Pick(l, R), Pick(r, R))
    BY <1>8, <2>1, PickAround
  <2>3. Joined(Pick(w, R), Pick(l, R), Pick(r, R))
    BY <1>7, PickJoined
  <2>4. Pick(w, R) = Pick(q, R)
    BY <1>1, <2>1, OtherWithout
  <2>5. QED BY <2>2, <2>3, <2>4 DEF Joined
<1>13. QED BY <1>4, <1>5, <1>11, <1>12 DEF Moved

-----------------------------------------------------------------------------
(* The operations of the abstract specification are those of TurnQueueOps. *)
LEMMA SameOperations ==
  ASSUME NEW s, NEW t, NEW c, NEW e
  PROVE  /\ Abstract!Without(s, t) = Without(s, t)
         /\ Abstract!Enqueue(s, t) = Enqueue(s, t)
         /\ Abstract!Promote(s, t) = Promote(s, t)
         /\ Abstract!MoveUp(s, t) = MoveUp(s, t)
         /\ Abstract!MoveDown(s, t) = MoveDown(s, t)
         /\ Abstract!Requeue(s, t) = Requeue(s, t)
         /\ Abstract!SlotFor(c, s, t) = SlotFor(c, s, t)
         /\ Abstract!InsertAtSlot(s, t, e) = InsertAtSlot(s, t, e)
         /\ Abstract!Range(s) = Range(s)
<1>1. \A f : Abstract!Range(f) = Range(f)
  BY DEF Range, Abstract!Range
<1>2. \A f, n : Abstract!RemoveAt(f, n) = RemoveAt(f, n)
  BY DEF RemoveAt, Abstract!RemoveAt
<1>3. \A f, n, u : Abstract!InsertAt(f, n, u) = InsertAt(f, n, u)
  BY DEF InsertAt, Abstract!InsertAt
<1>4. \A f, u : Abstract!IndexOf(f, u) = IndexOf(f, u)
  BY DEF IndexOf, Abstract!IndexOf
<1>5. \A f, u : Abstract!Without(f, u) = Without(f, u)
  BY <1>1, <1>2, <1>4 DEF Without, Abstract!Without
<1>6. \A f, u : Abstract!Enqueue(f, u) = Enqueue(f, u)
  BY <1>5 DEF Enqueue, Abstract!Enqueue
<1>7. \A f, u : Abstract!Promote(f, u) = Promote(f, u)
  BY <1>1, <1>5 DEF Promote, Abstract!Promote
<1>8. Abstract!MoveUp(s, t) = MoveUp(s, t)
  BY <1>1, <1>4 DEF MoveUp, Abstract!MoveUp
<1>9. Abstract!MoveDown(s, t) = MoveDown(s, t)
  BY <1>1, <1>4 DEF MoveDown, Abstract!MoveDown
<1>10. Abstract!Requeue(s, t) = Requeue(s, t)
  BY <1>6, <1>7 DEF Requeue, Abstract!Requeue
<1>11. Abstract!SlotFor(c, s, t) = SlotFor(c, s, t)
  BY <1>4 DEF SlotFor, Abstract!SlotFor
<1>12. \A f : Abstract!SlotPosition(f, e) = SlotPosition(f, e)
  BY <1>1, <1>4 DEF SlotPosition, Abstract!SlotPosition
<1>13. Abstract!InsertAtSlot(s, t, e) = InsertAtSlot(s, t, e)
  BY <1>3, <1>5, <1>12 DEF InsertAtSlot, Abstract!InsertAtSlot
<1>14. QED BY <1>1, <1>5, <1>6, <1>7, <1>8, <1>9, <1>10, <1>11, <1>13

(* What every conversation has queued, and how it reads in the abstract one. *)
Queues(q) == [c \in Conv |-> OfConv(q, c)]

LEMMA AbstractQueue ==
  ASSUME NEW t \in Turn, NEW p, Queues(list') = [Queues(list) EXCEPT ![ConvOf[t]] = p]
  PROVE  Abstract!Change(t, p)
BY DEF Abstract!Change, Queues

LEMMA AbstractQueued ==
  ASSUME NEW t \in Turn, list \in Seq(Turn)
  PROVE  /\ Abstract!Queued(t) <=> t \in Range(list)
         /\ Queues(list)[ConvOf[t]] = Pick(list, Own(ConvOf[t]))
         /\ ConvOf[t] \in Conv /\ t \in Own(ConvOf[t])
<1>1. ConvOf[t] \in Conv /\ t \in Own(ConvOf[t])
  BY FlatTurnQueueAssumption DEF Own
<1>2. Queues(list)[ConvOf[t]] = Pick(list, Own(ConvOf[t]))
  BY <1>1 DEF Queues, OfConv
<1>3. Abstract!Queued(t) <=> t \in Range(Queues(list)[ConvOf[t]])
  BY SameOperations DEF Abstract!Queued, Queues
<1>4. t \in Range(Pick(list, Own(ConvOf[t]))) <=> t \in Range(list)
  BY <1>1, PickContents
<1>5. QED BY <1>1, <1>2, <1>3, <1>4

LEMMA QueuesMoved ==
  ASSUME NEW q, NEW x, NEW c \in Conv, q \in Seq(Turn), Moved(q, x, Own(c))
  PROVE  Queues(x) = [Queues(q) EXCEPT ![c] = Pick(x, Own(c))]
<1>1. ASSUME NEW d \in Conv, d # c PROVE OfConv(x, d) = OfConv(q, d)
  <2>1. Own(d) \cap Own(c) = {}
    BY <1>1 DEF Own
  <2>2. QED BY <2>1 DEF Moved, OfConv
<1>2. QED BY <1>1 DEF Queues, OfConv

-----------------------------------------------------------------------------
(* The list holds each turn once; the anchors of the edit slot are turns of  *)
(* its conversation, or none.                                                *)
FInv ==
  /\ list \in Seq(Turn)
  /\ Distinct(list)
  /\ SlotWithin(slot, Own(slot.conv))

LEMMA FInvInit == Init => FInv
<1> SUFFICES ASSUME Init PROVE FInv
  OBVIOUS
<1>1. list \in Seq(Turn) /\ Distinct(list)
  BY DEF Init, Distinct
<1>2. SlotWithin(slot, Own(slot.conv))
  BY DEF Init, NoSlot, SlotWithin
<1>3. QED BY <1>1, <1>2 DEF FInv

LEMMA InitImplements == Init => Abstract!Init
<1> SUFFICES ASSUME Init PROVE Abstract!Init
  OBVIOUS
<1>1. list = <<>> /\ slot = NoSlot
  BY DEF Init
<1>2. ASSUME NEW c \in Conv PROVE OfConv(list, c) = <<>>
  <2>1. list \in Seq(Turn) /\ Range(list) \cap Own(c) = {}
    BY <1>1 DEF Range
  <2>2. QED BY <2>1, PickNone DEF OfConv
<1>3. Abstract!NoSlot = NoSlot
  BY DEF NoSlot, Abstract!NoSlot
<1>4. QED BY <1>1, <1>2, <1>3 DEF Abstract!Init

(* One step of a turn t: a change of its own conversation's turns to p. *)
LEMMA StepOfTurn ==
  ASSUME FInv, NEW t \in Turn, Moved(list, list', Own(ConvOf[t])),
         SlotWithin(slot', Own(slot'.conv))
  PROVE  FInv' /\ Abstract!Change(t, Pick(list', Own(ConvOf[t])))
<1>1. list \in Seq(Turn) /\ ConvOf[t] \in Conv
  BY AbstractQueued DEF FInv
<1>2. Queues(list') = [Queues(list) EXCEPT ![ConvOf[t]] = Pick(list', Own(ConvOf[t]))]
  BY <1>1, QueuesMoved
<1>3. Abstract!Change(t, Pick(list', Own(ConvOf[t])))
  BY <1>2, AbstractQueue
<1>4. QED BY <1>3 DEF FInv, Moved

LEMMA MovedBy ==
  ASSUME NEW q, NEW t, NEW S, q \in Seq(Turn), Distinct(q), t \in Turn, t \in S
  PROVE  /\ Moved(q, FlatAppend(q, t), S) /\ Pick(FlatAppend(q, t), S) = Enqueue(Pick(q, S), t)
         /\ Moved(q, FlatPromote(q, t), S) /\ Pick(FlatPromote(q, t), S) = Promote(Pick(q, S), t)
         /\ Moved(q, FlatWithout(q, t), S) /\ Pick(FlatWithout(q, t), S) = Without(Pick(q, S), t)
<1>0. \A R : R \cap S = {} => t \notin R
  OBVIOUS
<1>1. Moved(q, FlatAppend(q, t), S)
  <2>1. FlatAppend(q, t) = Enqueue(q, t)
    BY FilterIsWithout DEF FlatAppend, Enqueue
  <2>2. FlatAppend(q, t) \in Seq(Turn) /\ Distinct(FlatAppend(q, t))
    BY <2>1, EnqueueQueue
  <2>3. \A R : R \cap S = {} => Pick(FlatAppend(q, t), R) = Pick(q, R)
    BY <1>0, OwnAppend
  <2>4. QED BY <2>2, <2>3 DEF Moved
<1>2. Moved(q, FlatPromote(q, t), S)
  <2>1. FlatPromote(q, t) = Promote(q, t)
    BY OwnPromote
  <2>2. FlatPromote(q, t) \in Seq(Turn) /\ Distinct(FlatPromote(q, t))
    BY <2>1, PromoteQueue
  <2>3. \A R : R \cap S = {} => Pick(FlatPromote(q, t), R) = Pick(q, R)
    BY <1>0, OwnPromote
  <2>4. QED BY <2>2, <2>3 DEF Moved
<1>3. FlatWithout(q, t) = Without(q, t)
  BY FilterIsWithout
<1>4. Moved(q, FlatWithout(q, t), S)
  <2>1. FlatWithout(q, t) \in Seq(Turn) /\ Distinct(FlatWithout(q, t))
    BY <1>3, WithoutQueue
  <2>2. \A R : R \cap S = {} => Pick(FlatWithout(q, t), R) = Pick(q, R)
    BY <1>0, <1>3, OtherWithout
  <2>3. QED BY <2>1, <2>2 DEF Moved
<1>5. Pick(FlatAppend(q, t), S) = Enqueue(Pick(q, S), t)
  BY OwnAppend
<1>6. Pick(FlatPromote(q, t), S) = Promote(Pick(q, S), t)
  BY OwnPromote
<1>7. Pick(FlatWithout(q, t), S) = Without(Pick(q, S), t)
  BY <1>3, OwnWithout
<1>8. QED BY <1>1, <1>2, <1>4, <1>5, <1>6, <1>7

LEMMA MovedTwice ==
  ASSUME NEW q, NEW x, NEW y, NEW S, Moved(q, x, S), Moved(x, y, S)
  PROVE  Moved(q, y, S)
BY DEF Moved

(* A step that leaves the edit slot alone. *)
LEMMA SlotStays ==
  ASSUME FInv, UNCHANGED slot
  PROVE  SlotWithin(slot', Own(slot'.conv))
BY DEF FInv

LEMMA AppendStep ==
  ASSUME FInv, NEW t \in Turn, AppendTurn(t)
  PROVE  FInv' /\ Abstract!AppendTurn(t)
<1>1. list \in Seq(Turn) /\ Distinct(list) /\ list' = FlatAppend(list, t) /\ UNCHANGED slot
  BY DEF FInv, AppendTurn
<1>2. /\ Abstract!Queued(t) <=> t \in Range(list)
      /\ Queues(list)[ConvOf[t]] = Pick(list, Own(ConvOf[t]))
      /\ t \in Own(ConvOf[t])
  BY <1>1, AbstractQueued
<1>3. /\ Moved(list, list', Own(ConvOf[t]))
      /\ Pick(list', Own(ConvOf[t])) = Enqueue(Pick(list, Own(ConvOf[t])), t)
  BY <1>1, <1>2, MovedBy
<1>4. FInv' /\ Abstract!Change(t, Pick(list', Own(ConvOf[t])))
  BY <1>1, <1>3, SlotStays, StepOfTurn
<1>5. Abstract!Change(t, Abstract!Enqueue(Queues(list)[ConvOf[t]], t))
  BY <1>2, <1>3, <1>4, SameOperations
<1>6. QED BY <1>1, <1>2, <1>4, <1>5 DEF Abstract!AppendTurn, AppendTurn, Queued, Queues

LEMMA PromoteStep ==
  ASSUME FInv, NEW t \in Turn, PromoteTurn(t)
  PROVE  FInv' /\ Abstract!PromoteTurn(t)
<1>1. list \in Seq(Turn) /\ Distinct(list) /\ list' = FlatPromote(list, t) /\ UNCHANGED slot
  BY DEF FInv, PromoteTurn
<1>2. /\ Abstract!Queued(t) <=> t \in Range(list)
      /\ Queues(list)[ConvOf[t]] = Pick(list, Own(ConvOf[t]))
      /\ t \in Own(ConvOf[t])
  BY <1>1, AbstractQueued
<1>3. /\ Moved(list, list', Own(ConvOf[t]))
      /\ Pick(list', Own(ConvOf[t])) = Promote(Pick(list, Own(ConvOf[t])), t)
  BY <1>1, <1>2, MovedBy
<1>4. FInv' /\ Abstract!Change(t, Pick(list', Own(ConvOf[t])))
  BY <1>1, <1>3, SlotStays, StepOfTurn
<1>5. Abstract!Change(t, Abstract!Promote(Queues(list)[ConvOf[t]], t))
  BY <1>2, <1>3, <1>4, SameOperations
<1>6. QED BY <1>1, <1>2, <1>4, <1>5 DEF Abstract!PromoteTurn, PromoteTurn, Queued, Queues

LEMMA MoveUpStep ==
  ASSUME FInv, NEW t \in Turn, MoveTurn(t, TRUE)
  PROVE  FInv' /\ Abstract!MoveTurnUp(t)
<1>1. /\ list \in Seq(Turn) /\ Distinct(list) /\ t \in Range(list)
      /\ list' = FlatMove(list, t, TRUE) /\ UNCHANGED slot
  BY DEF FInv, MoveTurn, Queued
<1>2. /\ Abstract!Queued(t) <=> t \in Range(list)
      /\ Queues(list)[ConvOf[t]] = Pick(list, Own(ConvOf[t]))
      /\ t \in Own(ConvOf[t])
  BY <1>1, AbstractQueued
<1>3. /\ Moved(list, list', Own(ConvOf[t]))
      /\ Pick(list', Own(ConvOf[t])) = MoveUp(Pick(list, Own(ConvOf[t])), t)
  BY <1>1, <1>2, OwnMoveUp
<1>4. FInv' /\ Abstract!Change(t, Pick(list', Own(ConvOf[t])))
  BY <1>1, <1>3, SlotStays, StepOfTurn
<1>5. Abstract!Change(t, Abstract!MoveUp(Queues(list)[ConvOf[t]], t))
  BY <1>2, <1>3, <1>4, SameOperations
<1>6. QED BY <1>1, <1>2, <1>4, <1>5 DEF Abstract!MoveTurnUp, Queues

LEMMA MoveDownStep ==
  ASSUME FInv, NEW t \in Turn, MoveTurn(t, FALSE)
  PROVE  FInv' /\ Abstract!MoveTurnDown(t)
<1>1. /\ list \in Seq(Turn) /\ Distinct(list) /\ t \in Range(list)
      /\ list' = FlatMove(list, t, FALSE) /\ UNCHANGED slot
  BY DEF FInv, MoveTurn, Queued
<1>2. /\ Abstract!Queued(t) <=> t \in Range(list)
      /\ Queues(list)[ConvOf[t]] = Pick(list, Own(ConvOf[t]))
      /\ t \in Own(ConvOf[t])
  BY <1>1, AbstractQueued
<1>3. /\ Moved(list, list', Own(ConvOf[t]))
      /\ Pick(list', Own(ConvOf[t])) = MoveDown(Pick(list, Own(ConvOf[t])), t)
  BY <1>1, <1>2, OwnMoveDown
<1>4. FInv' /\ Abstract!Change(t, Pick(list', Own(ConvOf[t])))
  BY <1>1, <1>3, SlotStays, StepOfTurn
<1>5. Abstract!Change(t, Abstract!MoveDown(Queues(list)[ConvOf[t]], t))
  BY <1>2, <1>3, <1>4, SameOperations
<1>6. QED BY <1>1, <1>2, <1>4, <1>5 DEF Abstract!MoveTurnDown, Queues

LEMMA RemoveStep ==
  ASSUME FInv, NEW t \in Turn, RemoveTurn(t)
  PROVE  FInv' /\ Abstract!RemoveTurn(t)
<1>1. list \in Seq(Turn) /\ Distinct(list) /\ list' = FlatWithout(list, t) /\ UNCHANGED slot
  BY DEF FInv, RemoveTurn
<1>2. /\ Abstract!Queued(t) <=> t \in Range(list)
      /\ Queues(list)[ConvOf[t]] = Pick(list, Own(ConvOf[t]))
      /\ t \in Own(ConvOf[t])
  BY <1>1, AbstractQueued
<1>3. /\ Moved(list, list', Own(ConvOf[t]))
      /\ Pick(list', Own(ConvOf[t])) = Without(Pick(list, Own(ConvOf[t])), t)
  BY <1>1, <1>2, MovedBy
<1>4. FInv' /\ Abstract!Change(t, Pick(list', Own(ConvOf[t])))
  BY <1>1, <1>3, SlotStays, StepOfTurn
<1>5. Abstract!Change(t, Abstract!Without(Queues(list)[ConvOf[t]], t))
  BY <1>2, <1>3, <1>4, SameOperations
<1>6. QED BY <1>1, <1>2, <1>4, <1>5 DEF Abstract!RemoveTurn, RemoveTurn, Queued, Queues

LEMMA RequeueStep ==
  ASSUME FInv, NEW t \in Turn, RequeueTurn(t)
  PROVE  FInv' /\ Abstract!RequeueTurn(t)
<1>1. /\ list \in Seq(Turn) /\ Distinct(list) /\ UNCHANGED slot
      /\ list' = FlatPromote(FlatAppend(list, t), t)
  BY DEF FInv, RequeueTurn
<1>2. /\ Abstract!Queued(t) <=> t \in Range(list)
      /\ Queues(list)[ConvOf[t]] = Pick(list, Own(ConvOf[t]))
      /\ t \in Own(ConvOf[t])
  BY <1>1, AbstractQueued
<1>3. PICK x : x = FlatAppend(list, t)
  OBVIOUS
<1>4. /\ Moved(list, x, Own(ConvOf[t]))
      /\ Pick(x, Own(ConvOf[t])) = Enqueue(Pick(list, Own(ConvOf[t])), t)
  BY <1>1, <1>2, <1>3, MovedBy
<1>5. /\ Moved(x, list', Own(ConvOf[t]))
      /\ Pick(list', Own(ConvOf[t])) = Promote(Pick(x, Own(ConvOf[t])), t)
  <2>1. x \in Seq(Turn) /\ Distinct(x) /\ list' = FlatPromote(x, t)
    BY <1>1, <1>3, <1>4 DEF Moved
  <2>2. QED BY <1>2, <2>1, MovedBy
<1>6. /\ Moved(list, list', Own(ConvOf[t]))
      /\ Pick(list', Own(ConvOf[t])) = Requeue(Pick(list, Own(ConvOf[t])), t)
  BY <1>4, <1>5, MovedTwice DEF Requeue
<1>7. FInv' /\ Abstract!Change(t, Pick(list', Own(ConvOf[t])))
  BY <1>1, <1>6, SlotStays, StepOfTurn
<1>8. Abstract!Change(t, Abstract!Requeue(Queues(list)[ConvOf[t]], t))
  BY <1>2, <1>6, <1>7, SameOperations
<1>9. QED BY <1>1, <1>2, <1>7, <1>8 DEF Abstract!RequeueTurn, RequeueTurn, Queued, Queues

LEMMA RestoreStep ==
  ASSUME FInv, NEW t \in Turn, RestoreTurn(t)
  PROVE  FInv' /\ Abstract!RestoreTurn(t)
<1>1. /\ list \in Seq(Turn) /\ Distinct(list) /\ list' = FlatInsertAtSlot(list, t, slot)
      /\ slot' = NoSlot /\ slot.conv = ConvOf[t] /\ SlotWithin(slot, Own(ConvOf[t]))
  BY DEF FInv, RestoreTurn
<1>2. /\ Queues(list)[ConvOf[t]] = Pick(list, Own(ConvOf[t]))
      /\ t \in Own(ConvOf[t])
  BY <1>1, AbstractQueued
<1>3. /\ Moved(list, list', Own(ConvOf[t]))
      /\ Pick(list', Own(ConvOf[t])) = InsertAtSlot(Pick(list, Own(ConvOf[t])), t, slot)
  BY <1>1, <1>2, OwnInsert
<1>4. SlotWithin(slot', Own(slot'.conv))
  BY <1>1 DEF NoSlot, SlotWithin
<1>5. FInv' /\ Abstract!Change(t, Pick(list', Own(ConvOf[t])))
  BY <1>3, <1>4, StepOfTurn
<1>6. Abstract!Change(t, Abstract!InsertAtSlot(Queues(list)[ConvOf[t]], t, slot))
  BY <1>2, <1>3, <1>5, SameOperations
<1>7. Abstract!NoSlot = NoSlot
  BY DEF NoSlot, Abstract!NoSlot
<1>8. QED BY <1>1, <1>5, <1>6, <1>7 DEF Abstract!RestoreTurn, Queues

(* The anchors editQueuedTurn takes are turns of the conversation. *)
LEMMA AnchorsWithin ==
  ASSUME NEW q, NEW t, NEW c, NEW S, q \in Seq(Turn), t \in Range(Pick(q, S)), S = Own(c)
  PROVE  SlotWithin(SlotFor(c, Pick(q, S), t), S)
<1>1. PICK p, i : p = Pick(q, S) /\ i = IndexOf(p, t)
  OBVIOUS
<1>2. p \in Seq(Turn \cap S)
  BY <1>1, PickSeq
<1>3. i \in 1 .. Len(p) /\ Len(p) \in Nat
  BY <1>1, <1>2, IndexOfQueued, LenProperties
<1>4. \A k \in 1 .. Len(p) : p[k] \in S
  BY <1>2, ElementOfSeq
<1>5. PICK s : s = SlotFor(c, p, t)
  OBVIOUS
<1>6. /\ s.conv = c /\ s.index = i - 1
      /\ s.prev = IF i > 1 THEN p[i - 1] ELSE None
      /\ s.next = IF i < Len(p) THEN p[i + 1] ELSE None
  BY <1>1, <1>5 DEF SlotFor
<1>7. s.index \in Nat
  BY <1>3, <1>6
<1>8. s.prev \in S \cup {None}
  <2>1. i > 1 => i - 1 \in 1 .. Len(p)
    BY <1>3
  <2>2. QED BY <1>4, <1>6, <2>1
<1>9. s.next \in S \cup {None}
  <2>1. i < Len(p) => i + 1 \in 1 .. Len(p)
    BY <1>3
  <2>2. QED BY <1>4, <1>6, <2>1
<1>10. QED BY <1>1, <1>5, <1>6, <1>7, <1>8, <1>9 DEF SlotWithin

LEMMA EditStep ==
  ASSUME FInv, NEW t \in Turn, EditTurn(t)
  PROVE  FInv' /\ Abstract!EditTurn(t)
<1>1. PICK S : S = Own(ConvOf[t])
  OBVIOUS
<1>2. /\ list \in Seq(Turn) /\ Distinct(list) /\ t \in Range(list)
      /\ list' = FlatWithout(list, t)
      /\ slot' = SlotFor(ConvOf[t], Pick(list, S), t)
  BY <1>1 DEF FInv, EditTurn, OfConv, Queued
<1>3. /\ Abstract!Queued(t) <=> t \in Range(list)
      /\ Queues(list)[ConvOf[t]] = Pick(list, S)
      /\ t \in S
  BY <1>1, <1>2, AbstractQueued
<1>4. Moved(list, list', S) /\ Pick(list', S) = Without(Pick(list, S), t)
  BY <1>2, <1>3, MovedBy
<1>5. t \in Range(Pick(list, S))
  BY <1>2, <1>3, PickContents
<1>6. SlotWithin(slot', Own(slot'.conv))
  <2>1. SlotWithin(slot', S)
    BY <1>1, <1>2, <1>5, AnchorsWithin
  <2>2. QED BY <2>1 DEF SlotWithin
<1>7. FInv' /\ Abstract!Change(t, Pick(list', S))
  BY <1>1, <1>4, <1>6, StepOfTurn
<1>8. /\ Abstract!Change(t, Abstract!Without(Queues(list)[ConvOf[t]], t))
      /\ slot' = Abstract!SlotFor(ConvOf[t], Queues(list)[ConvOf[t]], t)
  BY <1>2, <1>3, <1>4, <1>7, SameOperations
<1>9. QED BY <1>2, <1>3, <1>7, <1>8 DEF Abstract!EditTurn, Queues

LEMMA RemoveConversationStep ==
  ASSUME FInv, NEW c \in Conv, RemoveConversation(c)
  PROVE  FInv' /\ Abstract!RemoveConversation(c)
<1>1. PICK q, x, S : q = list /\ x = list' /\ S = Own(c)
  OBVIOUS
<1>2. q \in Seq(Turn) /\ Distinct(q) /\ x = Pick(q, Turn \ S) /\ UNCHANGED slot
  BY <1>1 DEF FInv, RemoveConversation
<1>3. x \in Seq(Turn) /\ Distinct(x)
  BY <1>2, OwnRemoveAll
<1>4. OfConv(x, c) = <<>>
  <2>1. q \in Seq(Turn) /\ Range(q) \cap ((Turn \ S) \cap S) = {}
    BY <1>2
  <2>2. Pick(Pick(q, Turn \ S), S) = <<>>
    <3>1. Pick(q, (Turn \ S) \cap S) = <<>>
      BY <2>1, PickNone
    <3>2. Pick(Pick(q, Turn \ S), S) = Pick(q, (Turn \ S) \cap S)
      BY <2>1, PickPick
    <3>3. QED BY <3>1, <3>2
  <2>3. QED BY <1>1, <1>2, <2>2 DEF OfConv
<1>5. ASSUME NEW d \in Conv, d # c PROVE OfConv(x, d) = OfConv(q, d)
  <2>1. Own(d) \subseteq Turn /\ Own(d) \cap S = {}
    BY <1>1, <1>5 DEF Own
  <2>2. Pick(Pick(q, Turn \ S), Own(d)) = Pick(q, Own(d))
    BY <1>2, <2>1, OwnRemoveAll
  <2>3. QED BY <1>2, <2>2 DEF OfConv
<1>6. Queues(x) = [Queues(q) EXCEPT ![c] = <<>>]
  BY <1>4, <1>5 DEF Queues
<1>7. FInv'
  BY <1>1, <1>2, <1>3, SlotStays DEF FInv
<1>8. QED BY <1>1, <1>2, <1>6, <1>7 DEF Abstract!RemoveConversation, Queues

LEMMA TakeNextStep ==
  ASSUME FInv, NEW c \in Conv, TakeNext(c)
  PROVE  FInv' /\ Abstract!TakeNext(c)
<1>1. PICK q, x, S : q = list /\ x = list' /\ S = Own(c)
  OBVIOUS
<1>2. /\ q \in Seq(Turn) /\ Distinct(q) /\ FirstIn(q, S) > 0
      /\ x = RemoveAt(q, FirstIn(q, S)) /\ UNCHANGED slot
  BY <1>1 DEF FInv, TakeNext, FirstOf
<1>3. /\ x \in Seq(Turn) /\ Distinct(x)
      /\ Pick(q, S) # <<>> /\ Pick(x, S) = Tail(Pick(q, S))
      /\ \A R : R \cap S = {} => Pick(x, R) = Pick(q, R)
  BY <1>2, OwnTake
<1>4. Queues(x) = [Queues(q) EXCEPT ![c] = Pick(x, S)]
  <2>1. Moved(q, x, S)
    BY <1>3 DEF Moved
  <2>2. Queues(x) = [Queues(q) EXCEPT ![c] = Pick(x, Own(c))]
    BY <1>1, <1>2, <2>1, QueuesMoved
  <2>3. QED BY <1>1, <2>2
<1>5. Queues(q)[c] = Pick(q, S)
  BY <1>1 DEF Queues, OfConv
<1>6. FInv'
  BY <1>1, <1>2, <1>3, SlotStays DEF FInv
<1>7. Queues(q)[c] # <<>> /\ Queues(x) = [Queues(q) EXCEPT ![c] = Tail(@)]
  BY <1>3, <1>4, <1>5
<1>8. QED BY <1>1, <1>2, <1>6, <1>7 DEF Abstract!TakeNext, Queues

(* Every step keeps the invariant and is a step of the abstract queues. *)
LEMMA StepImplements ==
  ASSUME FInv, [Next]_vars
  PROVE  FInv' /\ [Abstract!Next]_(Abstract!vars)
<1>1. ASSUME NEW t \in Turn,
             \/ AppendTurn(t) \/ PromoteTurn(t) \/ MoveTurn(t, TRUE) \/ MoveTurn(t, FALSE)
             \/ RemoveTurn(t) \/ RequeueTurn(t) \/ EditTurn(t) \/ RestoreTurn(t)
      PROVE  FInv' /\ Abstract!Next
  BY <1>1, AppendStep, PromoteStep, MoveUpStep, MoveDownStep, RemoveStep, RequeueStep, EditStep,
     RestoreStep DEF Abstract!Next
<1>2. ASSUME NEW c \in Conv, RemoveConversation(c) \/ TakeNext(c)
      PROVE  FInv' /\ Abstract!Next
  BY <1>2, RemoveConversationStep, TakeNextStep DEF Abstract!Next
<1>3. CASE Next
  BY <1>1, <1>2, <1>3 DEF Next
<1>4. CASE UNCHANGED vars
  <2>1. list' = list /\ slot' = slot
    BY <1>4 DEF vars
  <2>2. FInv'
    BY <2>1 DEF FInv
  <2>3. UNCHANGED Abstract!vars
    BY <2>1 DEF Abstract!vars, OfConv
  <2>4. QED BY <2>2, <2>3
<1>5. QED BY <1>3, <1>4

LEMMA FInvAlways == Spec => []FInv
<1>1. FInv /\ [Next]_vars => FInv'
  BY StepImplements
<1>2. QED BY FInvInit, <1>1, PTL DEF Spec

(* The list of all queued turns implements a queue per conversation: every   *)
(* splice and swap of chatTurnQueue.ts is, for the conversation of the turn,  *)
(* the operation on its own turns, and for the others nothing.               *)
THEOREM ListImplementsQueues == Spec => ImplementsTurnQueue
<1>1. FInv /\ [Next]_vars => [Abstract!Next]_(Abstract!vars)
  BY StepImplements
<1>2. QED BY FInvAlways, InitImplements, <1>1, PTL DEF Spec, Abstract!Spec, ImplementsTurnQueue

(* Each turn is in the list once. *)
THEOREM ListDistinct == Spec => []QueueDistinct
<1>1. FInv => QueueDistinct
  BY LenProperties DEF FInv, Distinct, QueueDistinct
<1>2. QED BY FInvAlways, <1>1, PTL

-----------------------------------------------------------------------------
(* Editing. *)

(* A turn taken out for editing and put back at once is where it was, among   *)
(* the turns of its conversation.                                             *)
THEOREM RoundTripAlways == Spec => []EditRoundTrip
<1>1. ASSUME FInv, NEW t \in Range(list)
      PROVE  LET own  == OfConv(list, ConvOf[t])
                 back == FlatInsertAtSlot(FlatWithout(list, t), t, SlotFor(ConvOf[t], own, t))
             IN OfConv(back, ConvOf[t]) = own
  <2>1. PICK q, S, p, w, s, x :
          /\ q = list /\ S = Own(ConvOf[t]) /\ p = Pick(q, S) /\ w = FlatWithout(q, t)
          /\ s = SlotFor(ConvOf[t], p, t) /\ x = FlatInsertAtSlot(w, t, s)
    OBVIOUS
  <2>2. q \in Seq(Turn) /\ Distinct(q) /\ t \in Range(q)
    BY <1>1, <2>1 DEF FInv
  <2>3. t \in Turn /\ t \in S
    <3>1. t \in Turn
      BY <2>2, RangeOfSeq
    <3>2. QED BY <2>1, <3>1 DEF Own
  <2>4. Moved(q, w, S) /\ Pick(w, S) = Without(p, t)
    BY <2>1, <2>2, <2>3, MovedBy
  <2>5. w \in Seq(Turn) /\ Distinct(w)
    BY <2>4 DEF Moved
  <2>6. p \in Seq(Turn) /\ Distinct(p) /\ t \in Range(p)
    <3>1. p \in Seq(Turn)
      BY <2>1, <2>2, PickSeq
    <3>2. QED BY <2>1, <2>2, <2>3, <3>1, PickContents
  <2>7. SlotWithin(s, S)
    BY <2>1, <2>2, <2>6, AnchorsWithin
  <2>8. Pick(x, S) = InsertAtSlot(Without(p, t), t, s)
    BY <2>1, <2>3, <2>4, <2>5, <2>7, OwnInsert
  <2>9. InsertAtSlot(Without(p, t), t, s) = p
    <3>1. None \notin Turn
      BY FlatTurnQueueAssumption
    <3>2. InsertAtSlot(Without(p, t), t, SlotFor(ConvOf[t], p, t)) = p
      BY <2>6, <3>1, EditThenRestore
    <3>3. QED BY <2>1, <3>2
  <2>10. QED BY <2>1, <2>8, <2>9 DEF OfConv
<1>2. FInv => EditRoundTrip
  BY <1>1 DEF EditRoundTrip
<1>3. QED BY FInvAlways, <1>2, PTL

(* A restored turn stands directly before the turn that followed it, or, when *)
(* that one has gone, directly behind the one that preceded it; between the   *)
(* two while they keep their order.                                           *)
LEMMA InsertedBetween ==
  ASSUME NEW p, NEW t, NEW s, p \in Seq(Turn), Distinct(p), t \in Turn, t \notin Range(p),
         s.index \in Nat, t # s.prev, t # s.next
  PROVE  LET x == InsertAtSlot(p, t, s) IN
         /\ s.next \in Range(x) => IndexOf(x, s.next) = IndexOf(x, t) + 1
         /\ s.prev \in Range(x) /\ s.next \notin Range(x) => IndexOf(x, t) = IndexOf(x, s.prev) + 1
         /\ {s.prev, s.next} \subseteq Range(x) /\ IndexOf(x, s.prev) < IndexOf(x, s.next) =>
              IndexOf(x, s.prev) < IndexOf(x, t)
<1>1. PICK n, x : n = SlotPosition(p, s) /\ x = InsertAtSlot(p, t, s)
  OBVIOUS
<1>2. n \in 1 .. Len(p) + 1 /\ Len(p) \in Nat
  BY <1>1, SlotPositionRange, LenProperties
<1>3. x = InsertAt(p, n, t)
  BY <1>1 DEF InsertAtSlot, Without
<1>4. /\ x \in Seq(Turn) /\ Len(x) = Len(p) + 1
      /\ \A k \in 1 .. Len(p) + 1 : x[k] = IF k < n THEN p[k] ELSE IF k = n THEN t ELSE p[k - 1]
  <2>1. /\ InsertAt(p, n, t) \in Seq(Turn) /\ Len(InsertAt(p, n, t)) = Len(p) + 1
        /\ \A k \in 1 .. Len(p) + 1 :
             InsertAt(p, n, t)[k] = IF k < n THEN p[k] ELSE IF k = n THEN t ELSE p[k - 1]
    BY <1>2, InsertAtShifts
  <2>2. QED BY <1>3, <2>1
<1>5. Distinct(x) /\ Range(x) = Range(p) \cup {t}
  <2>1. Distinct(x)
    BY <1>1, InsertAtSlotQueue
  <2>2. Range(x) = Range(p) \cup {t}
    BY <1>2, <1>3, InsertAtRange
  <2>3. QED BY <2>1, <2>2
<1>6. IndexOf(x, t) = n
  <2>1. n \in 1 .. Len(x) /\ x[n] = t
    BY <1>2, <1>4
  <2>2. QED BY <1>4, <1>5, <2>1, IndexOfDistinct
<1>7. ASSUME s.next \in Range(x) PROVE IndexOf(x, s.next) = IndexOf(x, t) + 1
  <2>1. s.next \in Range(p)
    BY <1>5, <1>7
  <2>2. n = IndexOf(p, s.next)
    BY <1>1, <2>1 DEF SlotPosition
  <2>3. n \in 1 .. Len(p) /\ p[n] = s.next
    BY <2>1, <2>2, IndexOfQueued
  <2>4. n + 1 \in 1 .. Len(x) /\ ~(n + 1 < n) /\ n + 1 # n /\ (n + 1) - 1 = n
    BY <1>2, <1>4, <2>3
  <2>5. x[n + 1] = s.next
    BY <1>4, <2>3, <2>4
  <2>6. IndexOf(x, s.next) = n + 1
    BY <1>4, <1>5, <2>4, <2>5, IndexOfDistinct
  <2>7. QED BY <1>6, <2>6
<1>8. ASSUME s.prev \in Range(x), s.next \notin Range(x) PROVE IndexOf(x, t) = IndexOf(x, s.prev) + 1
  <2>1. s.prev \in Range(p) /\ s.next \notin Range(p)
    BY <1>5, <1>8
  <2>2. PICK m : m = IndexOf(p, s.prev)
    OBVIOUS
  <2>3. n = m + 1
    BY <1>1, <2>1, <2>2 DEF SlotPosition
  <2>4. m \in 1 .. Len(p) /\ p[m] = s.prev
    BY <2>1, <2>2, IndexOfQueued
  <2>5. m \in 1 .. Len(x) /\ m < n
    BY <1>2, <1>4, <2>3, <2>4
  <2>6. x[m] = s.prev
    BY <1>4, <2>4, <2>5
  <2>7. IndexOf(x, s.prev) = m
    BY <1>4, <1>5, <2>5, <2>6, IndexOfDistinct
  <2>8. QED BY <1>6, <2>3, <2>7
<1>9. ASSUME {s.prev, s.next} \subseteq Range(x), IndexOf(x, s.prev) < IndexOf(x, s.next)
      PROVE  IndexOf(x, s.prev) < IndexOf(x, t)
  <2>1. IndexOf(x, s.next) = n + 1
    BY <1>6, <1>7, <1>9
  <2>2. PICK m : m = IndexOf(x, s.prev)
    OBVIOUS
  <2>3. m \in 1 .. Len(x) /\ x[m] = s.prev
    <3>1. x \in Seq(Turn) /\ s.prev \in Range(x)
      BY <1>4, <1>9
    <3>2. QED BY <2>2, <3>1, IndexOfQueued
  <2>4. m # n
    BY <1>2, <1>4, <2>3
  <2>5. m < n + 1 /\ m \in Nat /\ n \in Nat
    BY <1>2, <1>4, <1>9, <2>1, <2>2, <2>3
  <2>6. QED BY <1>6, <2>2, <2>4, <2>5
<1>10. QED BY <1>1, <1>7, <1>8, <1>9

THEOREM AnchorsAlwaysKept == Spec => []RestoreBetweenAnchors
<1>1. ASSUME FInv, NEW t \in Turn, slot.conv = ConvOf[t], t \notin {slot.prev, slot.next}, ~Queued(t)
      PROVE  LET own == OfConv(FlatInsertAtSlot(list, t, slot), ConvOf[t])
                 at(u) == IndexOf(own, u)
             IN /\ slot.next \in Range(own) => at(slot.next) = at(t) + 1
                /\ slot.prev \in Range(own) /\ slot.next \notin Range(own) =>
                     at(t) = at(slot.prev) + 1
                /\ {slot.prev, slot.next} \subseteq Range(own) /\ at(slot.prev) < at(slot.next) =>
                     at(slot.prev) < at(t)
  <2>1. PICK q, S, p, s, x :
          q = list /\ S = Own(ConvOf[t]) /\ p = Pick(q, S) /\ s = slot /\ x = InsertAtSlot(p, t, s)
    OBVIOUS
  <2>2. q \in Seq(Turn) /\ Distinct(q) /\ SlotWithin(s, S) /\ t \notin Range(q)
    BY <1>1, <2>1 DEF FInv, Queued
  <2>3. t \in S
    BY <2>1 DEF Own
  <2>4. p \in Seq(Turn) /\ Distinct(p) /\ t \notin Range(p)
    <3>1. p \in Seq(Turn)
      BY <2>1, <2>2, PickSeq
    <3>2. QED BY <2>1, <2>2, <3>1, PickContents
  <2>5. Pick(FlatInsertAtSlot(q, t, s), S) = x
    BY <2>1, <2>2, <2>3, OwnInsert
  <2>6. s.index \in Nat /\ t # s.prev /\ t # s.next
    BY <1>1, <2>1, <2>2 DEF SlotWithin
  <2>7. /\ s.next \in Range(x) => IndexOf(x, s.next) = IndexOf(x, t) + 1
        /\ s.prev \in Range(x) /\ s.next \notin Range(x) => IndexOf(x, t) = IndexOf(x, s.prev) + 1
        /\ {s.prev, s.next} \subseteq Range(x) /\ IndexOf(x, s.prev) < IndexOf(x, s.next) =>
             IndexOf(x, s.prev) < IndexOf(x, t)
    BY <2>1, <2>4, <2>6, InsertedBetween
  <2>8. QED BY <2>1, <2>5, <2>7 DEF OfConv
<1>2. FInv => RestoreBetweenAnchors
  BY <1>1 DEF RestoreBetweenAnchors
<1>3. QED BY FInvAlways, <1>2, PTL

LEMMA CountNone ==
  ASSUME NEW q, NEW S, NEW n, q \in Seq(Turn), n \in 0 .. Len(q)
  PROVE  Count(q, S, n) = 0 <=> \A k \in 1 .. n : q[k] \notin S
<1>1. Len(q) \in Nat /\ \A i \in 1 .. Len(q) : q[i] \in Turn
  BY LenProperties, ElementOfSeq
<1>2. PICK l : l = SubSeq(q, 1, n)
  OBVIOUS
<1>3. l \in Seq(Turn) /\ Len(l) = n /\ \A k \in 1 .. n : l[k] = q[k]
  BY <1>1, <1>2, SubSeqProperties
<1>4. PICK p : p = Pick(l, S)
  OBVIOUS
<1>5. p \in Seq(Turn) /\ Range(p) = Range(l) \cap S
  <2>1. p \in Seq(Turn)
    BY <1>3, <1>4, PickSeq
  <2>2. QED BY <1>3, <1>4, <2>1, PickContents
<1>6. ASSUME Len(p) = 0, NEW k \in 1 .. n PROVE q[k] \notin S
  <2>1. Range(p) = {}
    <3>1. p = <<>>
      BY <1>5, <1>6, EmptySeq
    <3>2. QED BY <3>1 DEF Range
  <2>2. q[k] \in Range(l)
    BY <1>3, InRange
  <2>3. QED BY <1>5, <2>1, <2>2
<1>7. ASSUME \A k \in 1 .. n : q[k] \notin S PROVE Len(p) = 0
  <2>1. Range(l) \cap S = {}
    BY <1>3, <1>7, InRange
  <2>2. p = <<>>
    BY <1>3, <1>4, <2>1, PickNone
  <2>3. QED BY <2>2
<1>8. QED BY <1>2, <1>4, <1>6, <1>7 DEF Count

(* isQueuedChatTurnEditBlockingProcessing, which compares places in the list  *)
(* of all conversations, answers whether the slot is the first place of the   *)
(* conversation's own sequence.                                               *)
THEOREM BlockingAlwaysAgrees == Spec => []BlockingAgrees
<1>1. ASSUME FInv, NEW c \in Conv
      PROVE  FlatBlocks(c, list, slot) <=> Blocks(c, OfConv(list, c), slot)
  <2>1. PICK q, S, p, s, f, i : /\ q = list /\ S = Own(c) /\ p = Pick(q, S) /\ s = slot
                                /\ f = FirstIn(q, S) /\ i = FlatSlotIndex(q, s)
    OBVIOUS
  <2>2. /\ FlatBlocks(c, list, slot) <=> s.conv = c /\ f > 0 /\ i <= f
        /\ Blocks(c, OfConv(list, c), slot) <=> s.conv = c /\ p # <<>> /\ SlotPosition(p, s) = 1
    BY <2>1 DEF FlatBlocks, Blocks, OfConv, FirstOf
  <2>3. CASE s.conv # c
    BY <2>2, <2>3
  <2>4. CASE s.conv = c
    <3>1. q \in Seq(Turn) /\ Distinct(q) /\ SlotWithin(s, S) /\ Len(q) \in Nat
      <4>1. q \in Seq(Turn) /\ Distinct(q) /\ SlotWithin(s, S)
        BY <1>1, <2>1, <2>4 DEF FInv
      <4>2. QED BY <4>1, LenProperties
    <3>2. i \in 1 .. Len(q) + 1 /\ SlotPosition(p, s) = Count(q, S, i - 1) + 1
      BY <2>1, <3>1, SlotPlace
    <3>3. CASE Range(q) \cap S = {}
      <4>1. f = 0
        BY <2>1, <3>1, <3>3, FirstInFound
      <4>2. p = <<>>
        BY <2>1, <3>1, <3>3, PickNone
      <4>3. QED BY <2>2, <4>1, <4>2
    <3>4. CASE Range(q) \cap S # {}
      <4>1. f \in 1 .. Len(q) /\ q[f] \in S /\ \A k \in 1 .. f - 1 : q[k] \notin S
        BY <2>1, <3>1, <3>4, FirstInFound
      <4>2. p # <<>>
        <5>1. Range(p) = Range(q) \cap S
          BY <2>1, <3>1, PickContents
        <5>2. QED BY <3>4, <5>1 DEF Range
      <4>3. i - 1 \in 0 .. Len(q) /\ f > 0
        BY <3>1, <3>2, <4>1
      <4>4. Count(q, S, i - 1) \in Nat
        BY <3>1, <4>3, CountSteps
      <4>5. Count(q, S, i - 1) = 0 <=> \A k \in 1 .. i - 1 : q[k] \notin S
        BY <3>1, <4>3, CountNone
      <4>6. (\A k \in 1 .. i - 1 : q[k] \notin S) <=> i <= f
        BY <3>1, <3>2, <4>1
      <4>7. SlotPosition(p, s) = 1 <=> i <= f
        BY <3>2, <4>4, <4>5, <4>6
      <4>8. QED BY <2>2, <4>2, <4>3, <4>7
    <3>5. QED BY <3>3, <3>4
  <2>5. QED BY <2>3, <2>4
<1>2. FInv => BlockingAgrees
  BY <1>1 DEF BlockingAgrees
<1>3. QED BY FInvAlways, <1>2, PTL
=============================================================================
