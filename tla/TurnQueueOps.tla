---------------------------- MODULE TurnQueueOps ----------------------------
(***************************************************************************)
(* The operations of chatTurnQueue.ts on the queued turns of ONE           *)
(* conversation.  The program keeps the turns of all conversations in one  *)
(* list; every operation either ignores the turns of other conversations   *)
(* or moves a turn relative to the turns of its own, so what a             *)
(* conversation can observe is its own subsequence.  FlatTurnQueue.tla has *)
(* the list as the program keeps it and is checked to implement these.     *)
(*                                                                         *)
(* A turn stands for its id: ids are unique in a queue, so the filter of   *)
(* withoutTurn removes at most one entry and is written with its index.    *)
(* No operator here is recursive: the proofs about ChatTurns use them.     *)
(***************************************************************************)
EXTENDS Integers, SequencesExt

CONSTANT None   \* "no turn", "no conversation", "no controller"

(* findIndex(item => item.id === t), for a turn that is in the queue. *)
IndexOf(s, t) == CHOOSE i \in DOMAIN s : s[i] = t

(* withoutTurn / removeQueuedChatTurn: the turn leaves, the rest keep their order. *)
Without(s, t) == IF t \in Range(s) THEN RemoveAt(s, IndexOf(s, t)) ELSE s

(* appendQueuedChatTurn: at the end, once. *)
Enqueue(s, t) == Append(Without(s, t), t)

(* promoteQueuedChatTurn: to the front; a turn that is not queued changes nothing. *)
Promote(s, t) == IF t \in Range(s) THEN <<t>> \o Without(s, t) ELSE s

(* moveQueuedChatTurn(.., "up"): exchanged with the turn before it. *)
MoveUp(s, t) ==
  IF t \in Range(s) /\ IndexOf(s, t) > 1
  THEN LET i == IndexOf(s, t) IN [s EXCEPT ![i] = s[i - 1], ![i - 1] = t]
  ELSE s

(* moveQueuedChatTurn(.., "down"): exchanged with the turn after it. *)
MoveDown(s, t) ==
  IF t \in Range(s) /\ IndexOf(s, t) < Len(s)
  THEN LET i == IndexOf(s, t) IN [s EXCEPT ![i] = s[i + 1], ![i + 1] = t]
  ELSE s

(* What a turn that is not accepted goes through: appended, then promoted. *)
Requeue(s, t) == Promote(Enqueue(s, t), t)

-----------------------------------------------------------------------------
(* The edit slot: where a turn taken out for editing belongs.  prev and next *)
(* are the turns around it when it was taken out, index its position (from   *)
(* 0, as in the program).                                                    *)

NoSlot == [conv |-> None, prev |-> None, next |-> None, index |-> 0]

SlotFor(c, s, t) ==
  LET i == IndexOf(s, t) IN
  [conv  |-> c,
   prev  |-> IF i > 1 THEN s[i - 1] ELSE None,
   next  |-> IF i < Len(s) THEN s[i + 1] ELSE None,
   index |-> i - 1]

(* resolveQueuedChatTurnSlotIndex: before the old successor, else after the *)
(* old predecessor, else at the old index or the end.                       *)
SlotPosition(s, slot) ==
  IF slot.next \in Range(s) THEN IndexOf(s, slot.next)
  ELSE IF slot.prev \in Range(s) THEN IndexOf(s, slot.prev) + 1
  ELSE IF slot.index < Len(s) THEN slot.index + 1
  ELSE Len(s) + 1

(* insertQueuedChatTurnAtSlot *)
InsertAtSlot(s, t, slot) ==
  LET rest == Without(s, t) IN InsertAt(rest, SlotPosition(rest, slot), t)

(* isQueuedChatTurnEditBlockingProcessing: the turn taken out was to run first. *)
Blocks(c, s, slot) == slot.conv = c /\ s # <<>> /\ SlotPosition(s, slot) = 1
=============================================================================
