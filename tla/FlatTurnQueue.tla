--------------------------- MODULE FlatTurnQueue ----------------------------
(***************************************************************************)
(* chatTurnQueue.ts as the program keeps it: one list with the queued      *)
(* turns of every conversation, scanned and spliced by index, and the page's *)
(* one edit slot.  Refines TurnQueue: each conversation sees its own turns  *)
(* as a sequence of their own.                                              *)
(***************************************************************************)
EXTENDS TurnQueueOps

CONSTANTS Conv, Turn, ConvOf

ASSUME FlatTurnQueueAssumption ==
  /\ ConvOf \in [Turn -> Conv]
  /\ None \notin Turn \cup Conv

VARIABLES list, slot   \* queuedChatTurnsRef, queuedChatTurnEditSlotRef

vars == <<list, slot>>

Own(c) == {t \in Turn : ConvOf[t] = c}

(* queue.filter(...): the turns of S, in the order of the queue. *)
Kept(r, t, S) == IF t \in S THEN Append(r, t) ELSE r
Pick(q, S) ==
  LET f[n \in 0 .. Len(q)] == IF n = 0 THEN <<>> ELSE Kept(f[n - 1], q[n], S)
  IN f[Len(q)]

OfConv(q, c)      == Pick(q, Own(c))
FlatWithout(q, t) == Pick(q, Turn \ {t})

(* findIndex over the whole list, 0 when nothing matches *)
Positions(q, S) == {i \in DOMAIN q : q[i] \in S}
FirstIn(q, S)   == IF Positions(q, S) = {} THEN 0 ELSE Min(Positions(q, S))
FirstOf(q, c)   == FirstIn(q, Own(c))
Find(q, t)      == FirstIn(q, {t})

(* Mutant: does not drop the old entry. *)
FlatPrependTwice(q, t) == <<t>> \o q

FlatAppend(q, t)  == Append(FlatWithout(q, t), t)
FlatPrepend(q, t) == <<t>> \o FlatWithout(q, t)
FlatPromote(q, t) == IF t \in Range(q) THEN FlatPrepend(q, t) ELSE q

(* The swap partner is the nearest turn of the same conversation; turns of  *)
(* other conversations between the two keep their places.                   *)
FlatMove(q, t, up) ==
  LET i      == Find(q, t)
      peers  == {j \in Positions(q, Own(ConvOf[t])) : IF up THEN j < i ELSE j > i}
      j      == IF up THEN Max(peers) ELSE Min(peers)
  IN IF i = 0 \/ peers = {} THEN q ELSE [q EXCEPT ![i] = q[j], ![j] = q[i]]

(* Mutant: before the predecessor instead of after it. *)
FlatSlotIndexBefore(q, s) ==
  IF Find(q, s.next) > 0 THEN Find(q, s.next)
  ELSE IF Find(q, s.prev) > 0 THEN Find(q, s.prev)
  ELSE Len(q) + 1

(* Mutant: after the successor instead of before it. *)
FlatSlotIndexAfter(q, s) ==
  IF Find(q, s.next) > 0 THEN Find(q, s.next) + 1
  ELSE IF Find(q, s.prev) > 0 THEN Find(q, s.prev) + 1
  ELSE Len(q) + 1

(* resolveQueuedChatTurnSlotIndex, counting from 1 *)
FlatSlotIndex(q, s) ==
  LET own == Positions(q, Own(s.conv))
      nth == {i \in own : Len(OfConv(SubSeq(q, 1, i - 1), s.conv)) >= s.index}
  IN IF Find(q, s.next) > 0 THEN Find(q, s.next)
     ELSE IF Find(q, s.prev) > 0 THEN Find(q, s.prev) + 1
     ELSE IF nth # {} THEN Min(nth)
     ELSE IF own # {} THEN Max(own) + 1
     ELSE Len(q) + 1

FlatInsertAtSlot(q, t, s) ==
  LET rest == FlatWithout(q, t)
      i    == FlatSlotIndex(rest, s)
  IN SubSeq(rest, 1, i - 1) \o <<t>> \o SubSeq(rest, i, Len(rest))

(* Mutant: only a slot strictly before the first turn blocks. *)
FlatBlocksBefore(c, q, s) ==
  /\ s.conv = c
  /\ FirstOf(q, c) > 0
  /\ FlatSlotIndex(q, s) < FirstOf(q, c)

(* isQueuedChatTurnEditBlockingProcessing *)
FlatBlocks(c, q, s) ==
  /\ s.conv = c
  /\ FirstOf(q, c) > 0
  /\ FlatSlotIndex(q, s) <= FirstOf(q, c)

-----------------------------------------------------------------------------
Init == list = <<>> /\ slot = NoSlot

Queued(t) == t \in Range(list)

AppendTurn(t)   == ~Queued(t) /\ list' = FlatAppend(list, t) /\ UNCHANGED slot
PromoteTurn(t)  == Queued(t) /\ list' = FlatPromote(list, t) /\ UNCHANGED slot
MoveTurn(t, up) == Queued(t) /\ list' = FlatMove(list, t, up) /\ UNCHANGED slot
RemoveTurn(t)   == Queued(t) /\ list' = FlatWithout(list, t) /\ UNCHANGED slot
RequeueTurn(t)  == ~Queued(t) /\ list' = FlatPromote(FlatAppend(list, t), t) /\ UNCHANGED slot

RemoveConversation(c) ==
  list' = Pick(list, Turn \ Own(c)) /\ UNCHANGED slot

TakeNext(c) ==
  /\ FirstOf(list, c) > 0
  /\ list' = RemoveAt(list, FirstOf(list, c))
  /\ UNCHANGED slot

(* Mutant: takes the anchors from the list of all conversations. *)
EditTurnAnyAnchor(t) ==
  /\ Queued(t)
  /\ slot' = SlotFor(ConvOf[t], list, t)
  /\ list' = FlatWithout(list, t)

(* editQueuedTurn computes the anchors from the conversation's own turns. *)
EditTurn(t) ==
  /\ Queued(t)
  /\ slot' = SlotFor(ConvOf[t], OfConv(list, ConvOf[t]), t)
  /\ list' = FlatWithout(list, t)

RestoreTurn(t) ==
  /\ slot.conv = ConvOf[t]
  /\ list' = FlatInsertAtSlot(list, t, slot)
  /\ slot' = NoSlot

Next ==
  \/ \E t \in Turn : \/ AppendTurn(t) \/ PromoteTurn(t)
                     \/ MoveTurn(t, TRUE) \/ MoveTurn(t, FALSE)
                     \/ RemoveTurn(t) \/ RequeueTurn(t)
                     \/ EditTurn(t) \/ RestoreTurn(t)
  \/ \E c \in Conv : RemoveConversation(c) \/ TakeNext(c)

Spec == Init /\ [][Next]_vars

-----------------------------------------------------------------------------
(* A queued turn is in the list once: append, promote, restore and requeue   *)
(* all drop an old entry with the id before they insert it again.            *)
QueueDistinct ==
  /\ list \in Seq(Turn)
  /\ \A i, j \in DOMAIN list : list[i] = list[j] => i = j

(* Taking any turn out for editing and putting it back at once leaves its    *)
(* conversation's order as it was, whatever turns of other conversations sit *)
(* between (the "edited turns return to their original slot" of the tests).  *)
EditRoundTrip ==
  \A t \in Range(list) :
    LET own  == OfConv(list, ConvOf[t])
        back == FlatInsertAtSlot(FlatWithout(list, t), t, SlotFor(ConvOf[t], own, t))
    IN OfConv(back, ConvOf[t]) = own

(* A restored turn goes right before the turn that followed it, wherever    *)
(* that one stands by now; when that one has left the queue, right after the *)
(* turn that preceded it.  So it is between the two while they keep their    *)
(* order, whatever else was queued, run or moved meanwhile.  When the user   *)
(* exchanged the two it overtakes the one that preceded it.                  *)
RestoreBetweenAnchors ==
  \A t \in Turn :
    slot.conv = ConvOf[t] /\ t \notin {slot.prev, slot.next} /\ ~Queued(t) =>
      LET own == OfConv(FlatInsertAtSlot(list, t, slot), ConvOf[t])
          at(u) == IndexOf(own, u)
      IN /\ slot.next \in Range(own) => at(slot.next) = at(t) + 1
         /\ slot.prev \in Range(own) /\ slot.next \notin Range(own) =>
              at(t) = at(slot.prev) + 1
         /\ {slot.prev, slot.next} \subseteq Range(own) /\ at(slot.prev) < at(slot.next) =>
              at(slot.prev) < at(t)

(* The edit slot blocks a conversation in the list exactly when it blocks it *)
(* in the conversation's own sequence.                                       *)
BlockingAgrees ==
  \A c \in Conv : FlatBlocks(c, list, slot) <=> Blocks(c, OfConv(list, c), slot)

(* The list implements the per-conversation queues. *)
Abstract == INSTANCE TurnQueue WITH queue <- [c \in Conv |-> OfConv(list, c)]
ImplementsTurnQueue == Abstract!Spec
=============================================================================
