----------------------------- MODULE TurnQueue ------------------------------
(***************************************************************************)
(* What the turn queue promises each conversation: a sequence of its own   *)
(* turns and one edit slot for the whole page.  The abstract specification *)
(* FlatTurnQueue is checked against, and the queue ChatTurns works with.   *)
(***************************************************************************)
EXTENDS TurnQueueOps

CONSTANTS Conv, Turn, ConvOf

VARIABLES queue, slot   \* [Conv -> Seq(Turn)]; the edit slot of the page

vars == <<queue, slot>>

Init == queue = [c \in Conv |-> <<>>] /\ slot = NoSlot

Queued(t) == t \in Range(queue[ConvOf[t]])

Change(t, s) == queue' = [queue EXCEPT ![ConvOf[t]] = s]

AppendTurn(t) == ~Queued(t) /\ Change(t, Enqueue(queue[ConvOf[t]], t)) /\ UNCHANGED slot

PromoteTurn(t) == Queued(t) /\ Change(t, Promote(queue[ConvOf[t]], t)) /\ UNCHANGED slot

MoveTurnUp(t) == Queued(t) /\ Change(t, MoveUp(queue[ConvOf[t]], t)) /\ UNCHANGED slot

MoveTurnDown(t) == Queued(t) /\ Change(t, MoveDown(queue[ConvOf[t]], t)) /\ UNCHANGED slot

RemoveTurn(t) == Queued(t) /\ Change(t, Without(queue[ConvOf[t]], t)) /\ UNCHANGED slot

RequeueTurn(t) == ~Queued(t) /\ Change(t, Requeue(queue[ConvOf[t]], t)) /\ UNCHANGED slot

RemoveConversation(c) == queue' = [queue EXCEPT ![c] = <<>>] /\ UNCHANGED slot

TakeNext(c) ==
  /\ queue[c] # <<>>
  /\ queue' = [queue EXCEPT ![c] = Tail(@)]
  /\ UNCHANGED slot

EditTurn(t) ==
  /\ Queued(t)
  /\ slot' = SlotFor(ConvOf[t], queue[ConvOf[t]], t)
  /\ Change(t, Without(queue[ConvOf[t]], t))

RestoreTurn(t) ==
  /\ slot.conv = ConvOf[t]
  /\ Change(t, InsertAtSlot(queue[ConvOf[t]], t, slot))
  /\ slot' = NoSlot

Next ==
  \/ \E t \in Turn : \/ AppendTurn(t) \/ PromoteTurn(t) \/ MoveTurnUp(t) \/ MoveTurnDown(t)
                     \/ RemoveTurn(t) \/ RequeueTurn(t)
                     \/ EditTurn(t) \/ RestoreTurn(t)
  \/ \E c \in Conv : RemoveConversation(c) \/ TakeNext(c)

Spec == Init /\ [][Next]_vars
=============================================================================
