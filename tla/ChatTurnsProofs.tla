-------------------------- MODULE ChatTurnsProofs ---------------------------
(***************************************************************************)
(* Proofs about ChatTurns, for every set of conversations, turns, send()   *)
(* calls and outcomes.  Typed (TypeOK with QueuesOwned) is inductive and   *)
(* comes first; RunningHasController, OneDrainPerConversation and, without *)
(* pastes and commands, SingleFlight are inductive relative to it.         *)
(***************************************************************************)
EXTENDS ChatTurns, TurnQueueLemmas

Typed == TypeOK /\ QueuesOwned

USE ChatTurnsAssumption DEF ChatTurnsAssumption

(* What a queue of a conversation is, in the form the lemmas about queues use. *)
LEMMA QueueForm ==
  ASSUME NEW c \in Conv, Typed
  PROVE  /\ queue[c] \in Seq(OwnTurn(c) \cup strayed) /\ Distinct(queue[c])
         /\ \A t \in Range(queue[c]) : t \in OwnTurn(c) \cup strayed
BY DistinctIsInjective, IndexOfQueued DEF Typed, QueuesOwned

(* The drains that RequestDrain requests are of conversations it was asked   *)
(* for, not under way, and with a turn to drain.                             *)
LEMMA Requested ==
  ASSUME NEW C, NEW held, RequestDrain(C, held)
  PROVE  /\ processing' = held \cup (processing' \ held)
         /\ wake' = wake \cup (processing' \ held)
         /\ processing' \ held \subseteq C
         /\ \A c \in processing' \ held : queue'[c] # <<>>
<1> DEFINE R == {c \in C \ held : Drainable(c)'}
<1>1. processing' = held \cup R /\ wake' = wake \cup R
  BY DEF RequestDrain
<1>2. \A c \in R : queue'[c] # <<>>
  BY DEF Drainable
<1>3. R \subseteq C /\ R \cap held = {}
  OBVIOUS
<1> HIDE DEF R
<1>4. processing' \ held = R
  BY <1>1, <1>3
<1> QED
  BY <1>1, <1>2, <1>3, <1>4

(* Replacing the queue of one conversation by a queue of its own turns. *)
LEMMA QueueReplaced ==
  ASSUME Typed, NEW c \in Conv, NEW q \in Seq(OwnTurn(c) \cup strayed), Distinct(q),
         queue' = [queue EXCEPT ![c] = q], UNCHANGED strayed
  PROVE  /\ queue' \in [Conv -> Seq(Turn)]
         /\ \A d \in Conv : /\ queue'[d] \in Seq(OwnTurn(d) \cup strayed')
                            /\ IsInjective(queue'[d])
<1>1. OwnTurn(c) \cup strayed \subseteq Turn
  BY DEF OwnTurn, Typed, TypeOK
<1>2. q \in Seq(Turn) /\ IsInjective(q)
  BY <1>1, SeqMonotonic, DistinctIsInjective
<1> QED
  BY <1>2 DEF Typed, TypeOK, QueuesOwned

LEMMA TypedInit == Init => Typed
<1> SUFFICES ASSUME Init PROVE Typed
  OBVIOUS
<1>1. TypeOK
  BY EmptySeq DEF Init, TypeOK, Phase, NoSlot
<1>2. QueuesOwned
  BY EmptySeq DEF Init, QueuesOwned, IsInjective
<1> QED
  BY <1>1, <1>2 DEF Typed

-----------------------------------------------------------------------------
Fate == {"new", "live", "done", "dropped"}

(* Typed, by the variables that change together. *)
SendsTyped ==
  /\ phase \in [Send -> Phase] /\ turnOf \in [Send -> Turn \cup {None}]
  /\ home \in [Send -> Conv \cup {None}] /\ fromQueue \in [Send -> BOOLEAN]
  /\ \A s \in Send : /\ phase[s] # "off" <=> turnOf[s] # None
                     /\ phase[s] # "off" <=> home[s] # None
                     /\ phase[s] # "off" => turnOf[s] \in OwnTurn(home[s]) \cup strayed
RunsTyped ==
  /\ running \subseteq Conv /\ controller \in [Conv -> Send \cup {Observer, None}]
  /\ aborted \subseteq Send /\ visible \in [Send -> BOOLEAN]
DraftsTyped ==
  /\ draft \in [Conv -> Turn \cup {None}]
  /\ \A c \in Conv : draft[c] \in OwnTurn(c) \cup strayed \cup {None}
QueuesTyped ==
  /\ queue \in [Conv -> Seq(Turn)]
  /\ \A c \in Conv : queue[c] \in Seq(OwnTurn(c) \cup strayed) /\ IsInjective(queue[c])
DrainsTyped ==
  /\ processing \subseteq Conv /\ wake \subseteq Conv
  /\ \A c \in wake : queue[c] # <<>>
PlaceTyped ==
  /\ current \in Conv /\ hydrating \in Conv \cup {None}
  /\ slot \in [conv : Conv \cup {None}, prev : Turn \cup {None},
               next : Turn \cup {None}, index : Nat]
  /\ rendered \subseteq Conv
  /\ observed \in [Conv -> {"none", "active", "settled"}]
  /\ fate \in [Turn -> Fate] /\ strayed \subseteq Turn

LEMMA TypedParts ==
  Typed <=> SendsTyped /\ RunsTyped /\ DraftsTyped /\ QueuesTyped /\ DrainsTyped /\ PlaceTyped
BY DEF Typed, TypeOK, QueuesOwned, SendsTyped, RunsTyped, DraftsTyped, QueuesTyped,
       DrainsTyped, PlaceTyped, Fate

LEMMA TypedPartsNext ==
  ASSUME SendsTyped', RunsTyped', DraftsTyped', QueuesTyped', DrainsTyped', PlaceTyped'
  PROVE  Typed'
BY DEF Typed, TypeOK, QueuesOwned, SendsTyped, RunsTyped, DraftsTyped, QueuesTyped,
       DrainsTyped, PlaceTyped, Fate

LEMMA Homes ==
  ASSUME Typed, NEW s \in Send, phase[s] # "off"
  PROVE  /\ turnOf[s] \in Turn /\ home[s] \in Conv
         /\ turnOf[s] \in OwnTurn(home[s]) \cup strayed
BY DEF Typed, TypeOK, QueuesOwned

LEMMA Owned ==
  ASSUME Typed, NEW c, NEW t \in OwnTurn(c) \cup strayed
  PROVE  t \in Turn /\ t # None
BY DEF Typed, TypeOK, OwnTurn

(* The steps of send() that do not end it *)
LEMMA CommitTyped ==
  ASSUME Typed, NEW s \in Send, NEW c \in Conv, NEW viaQueue, Commit(s, c, viaQueue),
         UNCHANGED <<aborted, strayed>>
  PROVE  RunsTyped' /\ DraftsTyped'
<1>1. RunsTyped'
  BY TypedParts DEF Commit, RunsTyped
<1>2. DraftsTyped'
  BY TypedParts DEF Commit, Cleared, DraftsTyped
<1> QED
  BY <1>1, <1>2

LEMMA EnterSendTyped ==
  ASSUME Typed, NEW s \in Send, NEW c \in Conv, NEW t \in OwnTurn(c) \cup strayed,
         NEW viaQueue \in BOOLEAN, EnterSend(s, c, t, viaQueue),
         UNCHANGED <<aborted, strayed>>
  PROVE  SendsTyped' /\ RunsTyped' /\ DraftsTyped'
<1>1. SendsTyped'
  BY Owned, TypedParts DEF EnterSend, SendsTyped, Phase
<1>2. CASE Commit(s, c, viaQueue)
  BY <1>1, <1>2, CommitTyped
<1>3. CASE NotCommitted
  BY <1>1, <1>3, TypedParts DEF NotCommitted, RunsTyped, DraftsTyped
<1> QED
  BY <1>2, <1>3 DEF EnterSend

(* The ends of send() *)
LEMMA ReleaseTyped ==
  ASSUME Typed, NEW s \in Send, Release(s), strayed \subseteq strayed'
  PROVE  SendsTyped' /\ visible' \in [Send -> BOOLEAN]
BY TypedParts DEF Release, SendsTyped, RunsTyped, Phase

LEMMA NotAcceptedTyped ==
  ASSUME Typed, NEW s \in Send, phase[s] # "off", Quiet, NotAccepted(s), DraftsTyped',
         fate' \in [Turn -> Fate]
  PROVE  Typed'
<1> DEFINE c == home[s]
<1>1. turnOf[s] \in OwnTurn(c) \cup strayed /\ c \in Conv
  BY Homes DEF OwnTurn
<1>2. QueuesTyped'
  <2>1. CASE fromQueue[s]
    <3>1. queue' = [queue EXCEPT ![c] = Requeue(queue[c], turnOf[s])]
      BY <2>1 DEF NotAccepted
    <3>2. Requeue(queue[c], turnOf[s]) \in Seq(OwnTurn(c) \cup strayed) /\ Distinct(Requeue(queue[c], turnOf[s]))
      BY <1>1, QueueForm, RequeueQueue
    <3> QED
      BY <1>1, <3>1, <3>2, QueueReplaced DEF QueuesTyped, NotAccepted
  <2>2. CASE ~fromQueue[s]
    BY <2>2, TypedParts DEF NotAccepted, QueuesTyped
  <2> QED
    BY <2>1, <2>2
<1>3. SendsTyped' /\ visible' \in [Send -> BOOLEAN]
  BY ReleaseTyped DEF NotAccepted
<1>4. RunsTyped' /\ DrainsTyped' /\ PlaceTyped'
  BY <1>3, TypedParts DEF NotAccepted, RunsTyped, DrainsTyped, PlaceTyped, Quiet
<1> QED
  BY <1>2, <1>3, <1>4, TypedPartsNext

LEMMA FinishTyped ==
  ASSUME Typed, NEW s \in Send, phase[s] # "off", Quiet, Finish(s), DraftsTyped',
         fate' \in [Turn -> Fate], strayed \subseteq strayed', strayed' \subseteq Turn
  PROVE  Typed'
<1> DEFINE c == home[s]
           held == IF fromQueue[s] THEN processing \ {c} ELSE processing
<1>1. c \in Conv
  BY Homes
<1>2. SendsTyped' /\ visible' \in [Send -> BOOLEAN]
  BY ReleaseTyped DEF Finish
<1>3. RunsTyped' /\ PlaceTyped'
  BY <1>1, <1>2, TypedParts DEF Finish, RunsTyped, PlaceTyped
<1>4. QueuesTyped'
  <2>1. \A d \in Conv : queue[d] \in Seq(OwnTurn(d) \cup strayed')
    <3> TAKE d \in Conv
    <3>1. OwnTurn(d) \cup strayed \subseteq OwnTurn(d) \cup strayed'
      OBVIOUS
    <3> QED
      BY <3>1, SeqMonotonic, TypedParts DEF QueuesTyped
  <2> QED
    BY <2>1, TypedParts DEF Finish, QueuesTyped
<1>5. DrainsTyped'
  <2>1. RequestDrain({c}, held)
    BY DEF Finish
  <2>2. held \subseteq Conv /\ wake = {}
    BY TypedParts DEF DrainsTyped, Quiet
  <2> HIDE DEF c, held
  <2> QED
    BY <1>1, <2>1, <2>2, Requested DEF DrainsTyped
<1> QED
  BY <1>2, <1>3, <1>4, <1>5, TypedPartsNext

LEMMA FailTurnTyped ==
  ASSUME Typed, NEW s \in Send, phase[s] # "off", Quiet, FailTurn(s)
  PROVE  Typed'
<1>1. turnOf[s] \in Turn /\ home[s] \in Conv /\ Shown \in Conv /\ Finish(s)
  BY Homes, TypedParts DEF FailTurn, Shown, PlaceTyped
<1>2. ASSUME NEW d \in Conv, GiveBack(turnOf[s], d) PROVE Typed'
  <2>1. strayed \subseteq strayed' /\ strayed' \subseteq Turn /\ fate' \in [Turn -> Fate]
    BY <1>1, <1>2, TypedParts DEF GiveBack, PlaceTyped
  <2>2. turnOf[s] \in OwnTurn(d) \cup strayed'
    BY <1>1, <1>2 DEF GiveBack, OwnTurn
  <2>3. DraftsTyped'
    BY <1>1, <1>2, <2>1, <2>2, TypedParts DEF GiveBack, DraftsTyped
  <2> QED
    BY <1>1, <2>1, <2>3, FinishTyped
<1>3. ASSUME NEW end \in Fate, NotGivenBack(turnOf[s], end) PROVE Typed'
  <2>1. strayed' \subseteq Turn /\ strayed' = strayed /\ fate' \in [Turn -> Fate]
    BY <1>1, <1>3, TypedParts DEF NotGivenBack, PlaceTyped
  <2>2. DraftsTyped'
    BY <1>3, TypedParts DEF NotGivenBack, DraftsTyped
  <2> QED
    BY <1>1, <2>1, <2>2, FinishTyped
<1>4. "done" \in Fate /\ "dropped" \in Fate
  BY DEF Fate
<1> QED
  BY <1>1, <1>2, <1>3, <1>4 DEF FailTurn

(* A user's request to drain *)
LEMMA RequestTyped ==
  ASSUME Typed, Quiet, NEW C, C \subseteq Conv, RequestDrain(C, processing)
  PROVE  DrainsTyped'
BY Requested, TypedParts DEF DrainsTyped, Quiet

LEMMA DrainedTurn ==
  ASSUME Typed, NEW c \in wake
  PROVE  Head(queue[c]) \in OwnTurn(c) \cup strayed /\ Head(queue[c]) \in Turn
<1>1. c \in Conv /\ queue[c] # <<>>
  BY TypedParts DEF DrainsTyped
<1>2. queue[c] \in Seq(OwnTurn(c) \cup strayed)
  BY <1>1, QueueForm
<1>3. Head(queue[c]) \in OwnTurn(c) \cup strayed
  BY <1>1, <1>2, HeadTailProperties
<1> QED
  BY <1>3, Owned

-----------------------------------------------------------------------------
LEMMA SystemTyped ==
  ASSUME Typed, SystemStep
  PROVE  Typed'
<1> USE TypedParts, TypedPartsNext
<1>1. ASSUME NEW s \in Send, ImportDone(s) PROVE Typed'
  <2>1. home[s] \in Conv
    BY <1>1, Homes DEF ImportDone
  <2>2. SendsTyped'
    BY <1>1 DEF ImportDone, SendsTyped, Phase
  <2>3. RunsTyped' /\ DraftsTyped'
    BY <1>1, <2>1, CommitTyped DEF ImportDone, NotCommitted, RunsTyped, DraftsTyped
  <2> QED
    BY <1>1, <2>2, <2>3 DEF ImportDone, QueuesTyped, DrainsTyped, PlaceTyped
<1>2. ASSUME NEW s \in Send, ImportFailed(s) PROVE Typed'
  BY <1>2, NotAcceptedTyped DEF ImportFailed, NotAccepted, DraftsTyped, PlaceTyped
<1>3. ASSUME NEW s \in Send, CommandExpands(s) PROVE Typed'
  <2>1. home[s] \in Conv
    BY <1>3, Homes DEF CommandExpands
  <2>2. SendsTyped'
    BY <1>3 DEF CommandExpands, SendsTyped, Phase
  <2>3. RunsTyped' /\ DraftsTyped'
    BY <1>3, <2>1, CommitTyped DEF CommandExpands
  <2> QED
    BY <1>3, <2>2, <2>3 DEF CommandExpands, QueuesTyped, DrainsTyped, PlaceTyped
<1>4. ASSUME NEW s \in Send, CommandHandled(s) PROVE Typed'
  <2>1. turnOf[s] \in Turn /\ home[s] \in Conv
    BY <1>4, Homes DEF CommandHandled
  <2>2. DraftsTyped' /\ fate' \in [Turn -> Fate]
    BY <1>4, <2>1 DEF CommandHandled, NotAccepted, Cleared, DraftsTyped, PlaceTyped, Fate
  <2> QED
    BY <1>4, <2>2, NotAcceptedTyped DEF CommandHandled
<1>5. ASSUME NEW s \in Send, CommandFailed(s) PROVE Typed'
  BY <1>5, NotAcceptedTyped DEF CommandFailed, NotAccepted, DraftsTyped, PlaceTyped
<1>6. ASSUME NEW s \in Send, PromptAccepted(s) \/ TurnEnds(s) PROVE Typed'
  <2>1. SendsTyped'
    BY <1>6 DEF PromptAccepted, TurnEnds, SendsTyped, Phase
  <2> QED
    BY <1>6, <2>1 DEF PromptAccepted, TurnEnds, RunsTyped, DraftsTyped, QueuesTyped,
                      DrainsTyped, PlaceTyped
<1>7. ASSUME NEW s \in Send, PromptFailed(s) \/ TurnFails(s) PROVE Typed'
  BY <1>7, FailTurnTyped DEF PromptFailed, TurnFails
<1>8. ASSUME NEW s \in Send, Persisted(s) PROVE Typed'
  <2>1. DraftsTyped' /\ fate' \in [Turn -> Fate]
    BY <1>8, Homes DEF Persisted, DraftsTyped, PlaceTyped, Fate
  <2> QED
    BY <1>8, <2>1, FinishTyped DEF Persisted, PlaceTyped
<1>9. ASSUME NEW c \in Conv, DrainRefused(c) PROVE Typed'
  BY <1>9 DEF DrainRefused, SendsTyped, RunsTyped, DraftsTyped, QueuesTyped, DrainsTyped,
              PlaceTyped
<1>10. ASSUME NEW c \in Conv, NEW s \in Send, DrainTakes(c, s) PROVE Typed'
  <2>1. queue[c] # <<>> /\ queue[c] \in Seq(OwnTurn(c) \cup strayed) /\ Distinct(queue[c])
    BY <1>10, QueueForm DEF DrainTakes, DrainsTyped
  <2>2. Head(queue[c]) \in OwnTurn(c) \cup strayed
    BY <1>10, DrainedTurn DEF DrainTakes
  <2>3. SendsTyped' /\ RunsTyped' /\ DraftsTyped'
    BY <1>10, <2>2, EnterSendTyped DEF DrainTakes
  <2>4. Tail(queue[c]) \in Seq(OwnTurn(c) \cup strayed) /\ Distinct(Tail(queue[c]))
    BY <2>1, TailDistinct
  <2>5. QueuesTyped'
    BY <1>10, <2>4, QueueReplaced DEF DrainTakes, QueuesTyped
  <2>6. DrainsTyped'
    BY <1>10 DEF DrainTakes, DrainsTyped, QueuesTyped
  <2> QED
    BY <1>10, <2>3, <2>5, <2>6 DEF DrainTakes, PlaceTyped
<1>11. ASSUME NEW c \in Conv, Recover(c) \/ RecoveredEnds(c) \/ SidebarIdle(c) PROVE Typed'
  <2>1. PlaceTyped'
    BY <1>11 DEF Recover, RecoveredEnds, SidebarIdle, PlaceTyped
  <2>2. RunsTyped'
    BY <1>11 DEF Recover, RecoveredEnds, SidebarIdle, RunsTyped
  <2>3. SendsTyped' /\ DraftsTyped' /\ QueuesTyped' /\ DrainsTyped'
    BY <1>11 DEF Recover, RecoveredEnds, SidebarIdle, SendsTyped, DraftsTyped, QueuesTyped, DrainsTyped
  <2> QED
    BY <2>1, <2>2, <2>3
<1>12. ASSUME RunningEffect PROVE Typed'
  <2>1. DrainsTyped'
    BY <1>12, RequestTyped DEF RunningEffect, PlaceTyped
  <2> QED
    BY <1>12, <2>1 DEF RunningEffect, SendsTyped, RunsTyped, DraftsTyped, QueuesTyped, PlaceTyped
<1>13. ASSUME OpenPainted \/ Opened PROVE Typed'
  BY <1>13 DEF OpenPainted, Opened, SendsTyped, RunsTyped, DraftsTyped, QueuesTyped,
               DrainsTyped, PlaceTyped
<1> QED
  BY <1>1, <1>2, <1>3, <1>4, <1>5, <1>6, <1>7, <1>8, <1>9, <1>10, <1>11, <1>12, <1>13
     DEF SystemStep, SendStep, DrainStep

(* A slot for a turn of the queue of c *)
LEMMA SlotForTyped ==
  ASSUME Typed, NEW c \in Conv, NEW q \in Seq(OwnTurn(c) \cup strayed), NEW t \in Range(q)
  PROVE  SlotFor(c, q, t) \in [conv : Conv \cup {None}, prev : Turn \cup {None},
                              next : Turn \cup {None}, index : Nat]
<1>1. IndexOf(q, t) \in 1 .. Len(q) /\ Len(q) \in Nat
  BY IndexOfQueued, LenProperties
<1>2. \A i \in 1 .. Len(q) : q[i] \in Turn
  BY ElementOfSeq, Owned
<1>3. /\ SlotFor(c, q, t).index \in Nat
      /\ SlotFor(c, q, t).prev \in Turn \cup {None}
      /\ SlotFor(c, q, t).next \in Turn \cup {None}
  BY <1>1, <1>2 DEF SlotFor
<1> QED
  BY <1>3 DEF SlotFor

LEMMA NoSlotTyped ==
  NoSlot \in [conv : Conv \cup {None}, prev : Turn \cup {None},
             next : Turn \cup {None}, index : Nat]
BY DEF NoSlot

(* The user's steps that only move turns between the composer and a queue *)
LEMMA UserTyped ==
  ASSUME Typed, UserStep
  PROVE  Typed'
<1> USE TypedParts, TypedPartsNext
<1>1. ASSUME NEW t \in Turn, Compose(t) PROVE Typed'
  <2>1. DraftsTyped'
    BY <1>1 DEF Compose, ComposerChanged, DraftsTyped, PlaceTyped, OwnTurn
  <2>2. PlaceTyped'
    BY <1>1 DEF Compose, PlaceTyped, Fate
  <2> QED
    BY <1>1, <2>1, <2>2 DEF Compose, SendsTyped, RunsTyped, QueuesTyped, DrainsTyped
<1>2. ASSUME DiscardDraft PROVE Typed'
  <2>1. DraftsTyped'
    BY <1>2 DEF DiscardDraft, ComposerChanged, DraftsTyped
  <2>2. PlaceTyped'
    BY <1>2, Owned DEF DiscardDraft, DraftsTyped, PlaceTyped, Fate
  <2> QED
    BY <1>2, <2>1, <2>2 DEF DiscardDraft, SendsTyped, RunsTyped, QueuesTyped, DrainsTyped
<1>3. ASSUME SendEdited PROVE Typed'
  <2>1. draft[current] \in OwnTurn(current) \cup strayed /\ current \in Conv /\ slot.index \in Nat
    BY <1>3 DEF SendEdited, DraftsTyped, PlaceTyped
  <2>2. QueuesTyped'
    <3> DEFINE q == InsertAtSlot(queue[current], draft[current], slot)
    <3>1. q \in Seq(OwnTurn(current) \cup strayed) /\ Distinct(q)
      BY <2>1, QueueForm, InsertAtSlotQueue
    <3>2. queue' = [queue EXCEPT ![current] = q]
      BY <1>3 DEF SendEdited
    <3> HIDE DEF q
    <3> QED
      BY <1>3, <2>1, <3>1, <3>2, QueueReplaced DEF QueuesTyped, SendEdited
  <2>3. DraftsTyped' /\ PlaceTyped'
    BY <1>3, <2>1, NoSlotTyped DEF SendEdited, ComposerChanged, DraftsTyped, PlaceTyped
  <2>4. DrainsTyped'
    BY <1>3, <2>1, RequestTyped DEF SendEdited
  <2> QED
    BY <1>3, <2>2, <2>3, <2>4 DEF SendEdited, SendsTyped, RunsTyped
<1>4. ASSUME SendQueued PROVE Typed'
  <2>1. draft[current] \in OwnTurn(current) \cup strayed /\ current \in Conv
    BY <1>4 DEF SendQueued, DraftsTyped, PlaceTyped
  <2>2. QueuesTyped'
    <3> DEFINE q == Enqueue(queue[current], draft[current])
    <3>1. q \in Seq(OwnTurn(current) \cup strayed) /\ Distinct(q)
      BY <2>1, QueueForm, EnqueueQueue
    <3>2. queue' = [queue EXCEPT ![current] = q]
      BY <1>4 DEF SendQueued
    <3> HIDE DEF q
    <3> QED
      BY <1>4, <2>1, <3>1, <3>2, QueueReplaced DEF QueuesTyped, SendQueued
  <2>3. DraftsTyped' /\ PlaceTyped' /\ DrainsTyped'
    BY <1>4 DEF SendQueued, ComposerChanged, DraftsTyped, PlaceTyped, DrainsTyped, Quiet
  <2> QED
    BY <1>4, <2>2, <2>3 DEF SendQueued, SendsTyped, RunsTyped
<1>5. ASSUME NEW s \in Send, SendDirect(s) PROVE Typed'
  <2>1. current \in Conv /\ draft[current] \in OwnTurn(current) \cup strayed
    BY <1>5 DEF SendDirect, DraftsTyped, PlaceTyped
  <2>2. SendsTyped' /\ RunsTyped' /\ DraftsTyped'
    BY <1>5, <2>1, EnterSendTyped DEF SendDirect
  <2> QED
    BY <1>5, <2>2 DEF SendDirect, QueuesTyped, DrainsTyped, PlaceTyped
<1>6. ASSUME NEW t \in Turn, EditQueued(t) PROVE Typed'
  <2> DEFINE c == current
             q == IF draft[c] = None THEN queue[c]
                  ELSE IF slot.conv = c THEN InsertAtSlot(queue[c], draft[c], slot)
                  ELSE Enqueue(queue[c], draft[c])
  <2>1. c \in Conv /\ slot.index \in Nat /\ t \in OwnTurn(c) \cup strayed /\ t \in Range(queue[c])
        /\ draft[c] \in OwnTurn(c) \cup strayed \cup {None}
    BY <1>6, QueueForm DEF EditQueued, Queued, PlaceTyped, DraftsTyped
  <2>2. q \in Seq(OwnTurn(c) \cup strayed) /\ Distinct(q)
    BY <2>1, QueueForm, InsertAtSlotQueue, EnqueueQueue
  <2>3. slot' = SlotFor(c, q, t) /\ queue' = [queue EXCEPT ![c] = Without(q, t)]
        /\ UNCHANGED strayed
    BY <1>6 DEF EditQueued
  <2>4. t \in Range(q)
    <3>1. CASE draft[c] = None
      BY <2>1, <3>1
    <3>2. CASE draft[c] # None
      <4>1. draft[c] \in OwnTurn(c) \cup strayed
        BY <2>1, <3>2
      <4>2. queue[c] \in Seq(OwnTurn(c) \cup strayed) /\ Distinct(queue[c])
        BY <2>1, QueueForm
      <4>3. /\ Range(InsertAtSlot(queue[c], draft[c], slot)) = Range(queue[c]) \cup {draft[c]}
            /\ Range(Enqueue(queue[c], draft[c])) = Range(queue[c]) \cup {draft[c]}
        BY <2>1, <4>1, <4>2, InsertAtSlotRange, EnqueueRange
      <4> QED
        BY <2>1, <3>2, <4>3
    <3> QED
      BY <3>1, <3>2
  <2> HIDE DEF q
  <2>5. QueuesTyped'
    <3> DEFINE r == Without(q, t)
    <3>1. r \in Seq(OwnTurn(c) \cup strayed) /\ Distinct(r)
      BY <2>2, WithoutQueue
    <3> HIDE DEF r
    <3>2. queue' = [queue EXCEPT ![c] = r]
      BY <2>3 DEF r
    <3> QED
      BY <2>1, <2>3, <3>1, <3>2, QueueReplaced DEF QueuesTyped
  <2>6. PlaceTyped'
    BY <1>6, <2>1, <2>2, <2>3, <2>4, SlotForTyped DEF EditQueued, PlaceTyped
  <2>7. DraftsTyped' /\ DrainsTyped'
    BY <1>6, <2>1 DEF EditQueued, ComposerChanged, DraftsTyped, DrainsTyped, Quiet, OwnTurn
  <2> QED
    <3>1. SendsTyped' /\ RunsTyped'
      BY <1>6 DEF EditQueued, SendsTyped, RunsTyped
    <3> QED
      BY <3>1, <2>5, <2>6, <2>7
<1>7. ASSUME NEW t \in Turn, RemoveQueued(t) \/ MoveQueuedUp(t) PROVE Typed'
  <2> DEFINE c == current
  <2>1. c \in Conv /\ queue[c] \in Seq(OwnTurn(c) \cup strayed) /\ Distinct(queue[c])
    BY QueueForm DEF PlaceTyped
  <2>2. PICK q \in Seq(OwnTurn(c) \cup strayed) : Distinct(q) /\ queue' = [queue EXCEPT ![c] = q]
    <3>1. CASE RemoveQueued(t)
      BY <2>1, <3>1, WithoutQueue DEF RemoveQueued
    <3>2. CASE MoveQueuedUp(t)
      BY <2>1, <3>2, MoveQueue DEF MoveQueuedUp
    <3> QED
      BY <1>7, <3>1, <3>2
  <2>3. QueuesTyped'
    BY <1>7, <2>1, <2>2, QueueReplaced DEF QueuesTyped, RemoveQueued, MoveQueuedUp
  <2>4. PlaceTyped'
    BY <1>7 DEF RemoveQueued, MoveQueuedUp, PlaceTyped, Fate
  <2> QED
    BY <1>7, <2>3, <2>4
       DEF RemoveQueued, MoveQueuedUp, SendsTyped, RunsTyped, DraftsTyped, DrainsTyped, Quiet
<1>8. ASSUME NEW t \in Turn, RunNow(t) PROVE Typed'
  <2>1. current \in Conv
    BY DEF PlaceTyped
  <2>2. QueuesTyped'
    BY <1>8, <2>1, QueueForm, PromoteQueue, QueueReplaced DEF RunNow, QueuesTyped
  <2>3. RunsTyped'
    BY <1>8, <2>1 DEF RunNow, AbortRun, RunsTyped
  <2>4. DrainsTyped'
    BY <1>8, <2>1, RequestTyped DEF RunNow, DrainsTyped, Quiet
  <2> QED
    BY <1>8, <2>2, <2>3, <2>4 DEF RunNow, SendsTyped, DraftsTyped, PlaceTyped
<1>9. ASSUME Stop PROVE Typed'
  BY <1>9 DEF Stop, AbortRun, SendsTyped, RunsTyped, DraftsTyped, QueuesTyped, DrainsTyped,
              PlaceTyped
<1>10. ASSUME NEW c \in Conv, OpenConversation(c) PROVE Typed'
  BY <1>10 DEF OpenConversation, SendsTyped, RunsTyped, DraftsTyped, QueuesTyped, DrainsTyped,
               PlaceTyped
<1> QED
  BY <1>1, <1>2, <1>3, <1>4, <1>5, <1>6, <1>7, <1>8, <1>9, <1>10 DEF UserStep

LEMMA StutterTyped ==
  ASSUME Typed, UNCHANGED vars
  PROVE  Typed'
<1> USE TypedParts, TypedPartsNext
<1> QED
  BY DEF vars, SendsTyped, RunsTyped, DraftsTyped, QueuesTyped, DrainsTyped, PlaceTyped

LEMMA TypedAlways == Spec => []Typed
<1>1. Typed /\ [Next]_vars => Typed'
  BY SystemTyped, UserTyped, StutterTyped DEF Next
<1> QED
  BY TypedInit, <1>1, PTL DEF Spec

(* Every variable stays in its type. *)
THEOREM TypeCorrect == Spec => []TypeOK
<1>1. Typed => TypeOK
  BY DEF Typed
<1> QED
  BY TypedAlways, <1>1, PTL

(* No queue, composer or send() call ever holds a turn of another            *)
(* conversation, no turn is queued twice, and a requested drain finds a turn. *)
THEOREM QueuesStayOwned == Spec => []QueuesOwned
<1>1. Typed => QueuesOwned
  BY DEF Typed
<1> QED
  BY TypedAlways, <1>1, PTL

-----------------------------------------------------------------------------
(* The controller of a conversation is registered and cleared with its flag. *)

LEMMA CommitController ==
  ASSUME Typed, RunningHasController, NEW s \in Send, NEW c \in Conv, NEW viaQueue,
         Commit(s, c, viaQueue)
  PROVE  RunningHasController'
BY TypedParts DEF Commit, RunningHasController, RunsTyped

LEMMA FinishController ==
  ASSUME Typed, RunningHasController, NEW s \in Send, Finish(s)
  PROVE  RunningHasController'
BY TypedParts DEF Finish, RunningHasController, RunsTyped

LEMMA SystemController ==
  ASSUME Typed, RunningHasController, SystemStep
  PROVE  RunningHasController'
<1> USE DEF RunningHasController
<1>1. ASSUME NEW s \in Send, SendStep(s) PROVE RunningHasController'
  <2>1. CASE ImportDone(s)
    BY <2>1, Homes, CommitController DEF ImportDone, NotCommitted
  <2>2. CASE CommandExpands(s)
    BY <2>2, Homes, CommitController DEF CommandExpands
  <2>3. CASE ImportFailed(s) \/ CommandHandled(s) \/ CommandFailed(s)
    BY <2>3 DEF ImportFailed, CommandHandled, CommandFailed, NotAccepted
  <2>4. CASE PromptAccepted(s) \/ TurnEnds(s)
    BY <2>4 DEF PromptAccepted, TurnEnds
  <2>5. CASE PromptFailed(s) \/ TurnFails(s) \/ Persisted(s)
    BY <2>5, FinishController DEF PromptFailed, TurnFails, FailTurn, Persisted
  <2> QED
    BY <1>1, <2>1, <2>2, <2>3, <2>4, <2>5 DEF SendStep
<1>2. ASSUME NEW c \in Conv, DrainStep(c) PROVE RunningHasController'
  <2>1. CASE DrainRefused(c)
    BY <2>1 DEF DrainRefused
  <2>2. ASSUME NEW s \in Send, DrainTakes(c, s) PROVE RunningHasController'
    BY <2>2, CommitController DEF DrainTakes, Refused, EnterSend, NotCommitted
  <2> QED
    BY <1>2, <2>1, <2>2 DEF DrainStep
<1>3. ASSUME NEW c \in Conv, Recover(c) \/ RecoveredEnds(c) \/ SidebarIdle(c) PROVE RunningHasController'
  BY <1>3, TypedParts DEF Recover, RecoveredEnds, SidebarIdle, RunsTyped
<1>4. ASSUME RunningEffect \/ OpenPainted \/ Opened PROVE RunningHasController'
  BY <1>4 DEF RunningEffect, OpenPainted, Opened
<1> QED
  BY <1>1, <1>2, <1>3, <1>4 DEF SystemStep

LEMMA UserController ==
  ASSUME Typed, RunningHasController, UserStep
  PROVE  RunningHasController'
<1> USE DEF RunningHasController
<1>1. ASSUME NEW s \in Send, SendDirect(s) PROVE RunningHasController'
  <2>1. current \in Conv
    BY TypedParts DEF PlaceTyped
  <2> QED
    BY <1>1, <2>1, CommitController DEF SendDirect, EnterSend, NotCommitted
<1>2. CASE UNCHANGED <<running, controller>>
  BY <1>2
<1> QED
  BY <1>1, <1>2 DEF UserStep, Compose, EditQueued, RemoveQueued, MoveQueuedUp, RunNow,
     OpenConversation, DiscardDraft, SendEdited, SendQueued, Stop

(* Stop always finds a controller to abort while a conversation runs, and    *)
(* none is left when it is idle.                                             *)
THEOREM RunningControllers == Spec => []RunningHasController
<1>1. Init => RunningHasController
  BY DEF Init, RunningHasController
<1>2. Typed /\ RunningHasController /\ [Next]_vars => RunningHasController'
  <2> SUFFICES ASSUME Typed, RunningHasController, [Next]_vars PROVE RunningHasController'
    OBVIOUS
  <2>1. CASE Next
    BY <2>1, SystemController, UserController DEF Next
  <2>2. CASE UNCHANGED vars
    BY <2>2 DEF vars, RunningHasController
  <2> QED
    BY <2>1, <2>2
<1> QED
  BY <1>1, <1>2, TypedAlways, PTL DEF Spec

-----------------------------------------------------------------------------
(* At most one drain per conversation *)

LEMMA SameDraining ==
  ASSUME UNCHANGED <<phase, turnOf, home, fromQueue>>
  PROVE  \A c \in Conv, s \in Send : Draining(c, s)' <=> Draining(c, s)
BY DEF Draining

(* A call that goes from one phase to another goes on draining, or not. *)
LEMMA MovedDraining ==
  ASSUME Typed, NEW s \in Send, phase[s] # "off", NEW p, p # "off",
         phase' = [phase EXCEPT ![s] = p], UNCHANGED <<home, fromQueue>>
  PROVE  \A c \in Conv, z \in Send : Draining(c, z)' <=> Draining(c, z)
BY TypedParts DEF SendsTyped, Draining

LEMMA ReleasedDraining ==
  ASSUME Typed, NEW s \in Send, Release(s)
  PROVE  \A c \in Conv, z \in Send : Draining(c, z)' <=> Draining(c, z) /\ z # s
BY TypedParts DEF SendsTyped, Release, Draining

LEMMA EnteredDraining ==
  ASSUME Typed, NEW s \in Send, NEW c \in Conv, NEW t, NEW viaQueue \in BOOLEAN,
         EnterSend(s, c, t, viaQueue)
  PROVE  /\ phase[s] = "off"
         /\ \A d \in Conv, z \in Send :
              Draining(d, z)' <=> IF z = s THEN viaQueue /\ d = c ELSE Draining(d, z)
<1>1. PICK p : p # "off" /\ phase' = [phase EXCEPT ![s] = p]
  BY DEF EnterSend
<1>2. /\ phase[s] = "off" /\ home' = [home EXCEPT ![s] = c]
      /\ fromQueue' = [fromQueue EXCEPT ![s] = viaQueue]
  BY DEF EnterSend
<1> QED
  BY <1>1, <1>2, TypedParts DEF SendsTyped, Draining

(* Nothing about drains changes. *)
LEMMA KeepsOneDrain ==
  ASSUME OneDrainPerConversation, UNCHANGED <<processing, wake>>,
         \A c \in Conv, s \in Send : Draining(c, s)' <=> Draining(c, s)
  PROVE  OneDrainPerConversation'
BY DEF OneDrainPerConversation

(* New drains are pending for conversations that have none at work. *)
LEMMA NewDrains ==
  ASSUME NEW held, NEW R, R \cap held = {}, processing' = held \cup R, wake' = R,
         \A c \in Conv : c \in held <=> \E z \in Send : Draining(c, z)',
         \A c \in Conv, y \in Send, z \in Send : Draining(c, y)' /\ Draining(c, z)' => y = z
  PROVE  OneDrainPerConversation'
<1>1. ASSUME NEW c \in Conv
      PROVE  /\ (c \in processing <=> c \in wake \/ \E z \in Send : Draining(c, z))'
             /\ (c \in wake => \A z \in Send : ~Draining(c, z))'
  <2>1. c \in held <=> \E z \in Send : Draining(c, z)'
    OBVIOUS
  <2>2. c \in processing' <=> c \in held \/ c \in wake'
    OBVIOUS
  <2>3. c \in wake' => c \notin held
    OBVIOUS
  <2> QED
    BY <2>1, <2>2, <2>3
<1> QED
  BY <1>1 DEF OneDrainPerConversation

(* What the invariant says while no continuation is pending *)
LEMMA QuietDrains ==
  ASSUME OneDrainPerConversation, Quiet
  PROVE  /\ \A c \in Conv : c \in processing <=> \E z \in Send : Draining(c, z)
         /\ \A c \in Conv, y \in Send, z \in Send : Draining(c, y) /\ Draining(c, z) => y = z
BY DEF OneDrainPerConversation, Quiet

(* Drains are requested while no continuation is pending. *)
LEMMA RequestOneDrain ==
  ASSUME Typed, OneDrainPerConversation, Quiet, NEW C, RequestDrain(C, processing),
         \A c \in Conv, s \in Send : Draining(c, s)' <=> Draining(c, s)
  PROVE  OneDrainPerConversation'
<1> DEFINE R == processing' \ processing
<1>1. processing' = processing \cup R /\ wake' = wake \cup R
  BY Requested
<1>2. wake' = R /\ R \cap processing = {}
  BY <1>1 DEF Quiet
<1>3. \A c \in Conv : c \in processing <=> \E z \in Send : Draining(c, z)'
  BY QuietDrains
<1>4. \A c \in Conv, y \in Send, z \in Send : Draining(c, y)' /\ Draining(c, z)' => y = z
  BY QuietDrains
<1> HIDE DEF R
<1> QED
  BY <1>1, <1>2, <1>3, <1>4, NewDrains

(* The end of a call: what it drained is released, and may be requested again. *)
LEMMA FinishOneDrain ==
  ASSUME Typed, OneDrainPerConversation, Quiet, NEW s \in Send, phase[s] # "off", Finish(s)
  PROVE  OneDrainPerConversation'
<1> DEFINE h == home[s]
           held == IF fromQueue[s] THEN processing \ {h} ELSE processing
           R == processing' \ held
<1>1. processing' = held \cup R /\ wake' = wake \cup R
  <2>1. RequestDrain({h}, held)
    BY DEF Finish
  <2> HIDE DEF h, held
  <2> QED
    BY <2>1, Requested
<1>2. \A c \in Conv, z \in Send : Draining(c, z)' <=> Draining(c, z) /\ z # s
  BY ReleasedDraining DEF Finish
<1>3. \A c \in Conv : Draining(c, s) <=> fromQueue[s] /\ c = h
  BY DEF Draining
<1>4. h \in Conv
  BY Homes
<1>5. \A c \in Conv : c \in held <=> \E z \in Send : Draining(c, z)'
  <2> SUFFICES ASSUME NEW c \in Conv PROVE c \in held <=> \E z \in Send : Draining(c, z)'
    OBVIOUS
  <2>1. c \in processing <=> \E z \in Send : Draining(c, z)
    BY DEF OneDrainPerConversation, Quiet
  <2>2. CASE fromQueue[s] /\ c = h
    <3>1. Draining(c, s) /\ c \notin held
      BY <2>2, <1>3
    <3>2. \A z \in Send : Draining(c, z) => z = s
      BY <3>1, QuietDrains
    <3> QED
      BY <3>1, <3>2, <1>2
  <2>3. CASE ~(fromQueue[s] /\ c = h)
    BY <2>1, <2>3, <1>2, <1>3
  <2> QED
    BY <2>2, <2>3
<1>6. wake' = R /\ R \cap held = {}
  BY <1>1 DEF Quiet
<1> HIDE DEF h, held, R
<1>7. \A c \in Conv, y \in Send, z \in Send : Draining(c, y)' /\ Draining(c, z)' => y = z
  BY <1>2, QuietDrains
<1> QED
  BY <1>1, <1>5, <1>6, <1>7, NewDrains

(* A call that ends unaccepted releases its drain and requests none. *)
LEMMA NotAcceptedOneDrain ==
  ASSUME Typed, OneDrainPerConversation, Quiet, NEW s \in Send, phase[s] # "off", NotAccepted(s)
  PROVE  OneDrainPerConversation'
<1> DEFINE h == home[s]
<1>1. \A c \in Conv, z \in Send : Draining(c, z)' <=> Draining(c, z) /\ z # s
  BY ReleasedDraining DEF NotAccepted
<1>2. \A c \in Conv : Draining(c, s) <=> fromQueue[s] /\ c = h
  BY DEF Draining
<1>3. wake' = {} /\ processing' = IF fromQueue[s] THEN processing \ {h} ELSE processing
  BY DEF NotAccepted, Quiet
<1>4. ASSUME NEW c \in Conv PROVE c \in processing' <=> \E z \in Send : Draining(c, z)'
  <2>1. c \in processing <=> \E z \in Send : Draining(c, z)
    BY DEF OneDrainPerConversation, Quiet
  <2>2. CASE fromQueue[s] /\ c = h
    BY <2>2, <1>1, <1>2, <1>3 DEF OneDrainPerConversation
  <2>3. CASE ~(fromQueue[s] /\ c = h)
    BY <2>1, <2>3, <1>1, <1>2, <1>3
  <2> QED
    BY <2>2, <2>3
<1> QED
  BY <1>1, <1>3, <1>4 DEF OneDrainPerConversation

LEMMA SystemOneDrain ==
  ASSUME Typed, OneDrainPerConversation, SystemStep
  PROVE  OneDrainPerConversation'
<1>1. ASSUME NEW s \in Send, SendStep(s) PROVE OneDrainPerConversation'
  <2>1. CASE ImportDone(s)
    <3>1. \E p : p # "off" /\ phase' = [phase EXCEPT ![s] = p]
      BY <2>1 DEF ImportDone
    <3> QED
      BY <2>1, <3>1, MovedDraining, KeepsOneDrain DEF ImportDone
  <2>2. CASE CommandExpands(s) \/ PromptAccepted(s) \/ TurnEnds(s)
    <3>1. \E p : p # "off" /\ phase' = [phase EXCEPT ![s] = p]
      BY <2>2 DEF CommandExpands, PromptAccepted, TurnEnds
    <3> QED
      BY <2>2, <3>1, MovedDraining, KeepsOneDrain DEF CommandExpands, PromptAccepted, TurnEnds
  <2>3. CASE ImportFailed(s) \/ CommandHandled(s) \/ CommandFailed(s)
    BY <2>3, NotAcceptedOneDrain DEF ImportFailed, CommandHandled, CommandFailed
  <2>4. CASE PromptFailed(s) \/ TurnFails(s) \/ Persisted(s)
    BY <2>4, FinishOneDrain DEF PromptFailed, TurnFails, FailTurn, Persisted
  <2> QED
    BY <1>1, <2>1, <2>2, <2>3, <2>4 DEF SendStep
<1>2. ASSUME NEW c \in Conv, DrainRefused(c) PROVE OneDrainPerConversation'
  <2>1. \A d \in Conv, z \in Send : Draining(d, z)' <=> Draining(d, z)
    BY <1>2, SameDraining DEF DrainRefused
  <2> QED
    BY <1>2, <2>1 DEF DrainRefused, OneDrainPerConversation
<1>3. ASSUME NEW c \in Conv, NEW s \in Send, DrainTakes(c, s) PROVE OneDrainPerConversation'
  <2>1. c \in Conv /\ EnterSend(s, c, Head(queue[c]), TRUE)
    BY <1>3 DEF DrainTakes
  <2>2. /\ phase[s] = "off"
        /\ \A d \in Conv, z \in Send :
             Draining(d, z)' <=> IF z = s THEN d = c ELSE Draining(d, z)
    <3> DEFINE t == Head(queue[c])
    <3> HIDE DEF t
    <3>1. phase[s] = "off" /\ \A d \in Conv, z \in Send :
            Draining(d, z)' <=> IF z = s THEN TRUE /\ d = c ELSE Draining(d, z)
      BY <2>1, EnteredDraining DEF t
    <3> QED
      BY <3>1
  <2>3. c \in wake /\ wake' = wake \ {c} /\ processing' = processing
    BY <1>3 DEF DrainTakes
  <2>4. ASSUME NEW d \in Conv, d # c
        PROVE  /\ d \in wake' <=> d \in wake
               /\ \A z \in Send : Draining(d, z)' <=> Draining(d, z)
    <3>1. ~Draining(d, s)
      BY <2>2 DEF Draining
    <3> QED
      BY <3>1, <2>2, <2>3, <2>4
  <2>5. \A z \in Send : Draining(c, z)' <=> z = s
    BY <2>2, <2>3 DEF OneDrainPerConversation
  <2>6. c \in processing' /\ c \notin wake'
    BY <2>3 DEF OneDrainPerConversation
  <2> QED
    BY <2>3, <2>4, <2>5, <2>6 DEF OneDrainPerConversation
<1>4. ASSUME RunningEffect PROVE OneDrainPerConversation'
  BY <1>4, SameDraining, RequestOneDrain DEF RunningEffect
<1>5. ASSUME NEW c \in Conv, Recover(c) \/ RecoveredEnds(c) \/ SidebarIdle(c) \/ OpenPainted \/ Opened
      PROVE  OneDrainPerConversation'
  BY <1>5, SameDraining, KeepsOneDrain DEF Recover, RecoveredEnds, SidebarIdle, OpenPainted, Opened
<1> QED
  BY <1>1, <1>2, <1>3, <1>4, <1>5, TypedParts DEF SystemStep, DrainStep, PlaceTyped

LEMMA UserOneDrain ==
  ASSUME Typed, OneDrainPerConversation, UserStep
  PROVE  OneDrainPerConversation'
<1>1. ASSUME NEW s \in Send, SendDirect(s) PROVE OneDrainPerConversation'
  <2>1. current \in Conv
    BY TypedParts DEF PlaceTyped
  <2>2. EnterSend(s, current, draft[current], FALSE)
    BY <1>1 DEF SendDirect
  <2>3. phase[s] = "off" /\ \A c \in Conv, z \in Send :
          Draining(c, z)' <=> IF z = s THEN FALSE /\ c = current ELSE Draining(c, z)
    BY <2>1, <2>2, EnteredDraining
  <2>4. phase[s] = "off" /\ \A c \in Conv, z \in Send :
          Draining(c, z)' <=> IF z = s THEN FALSE ELSE Draining(c, z)
    BY <2>3
  <2>5. \A c \in Conv : ~Draining(c, s)
    BY <2>4 DEF Draining
  <2>6. \A c \in Conv, z \in Send : Draining(c, z)' <=> Draining(c, z)
    BY <2>4, <2>5
  <2>7. UNCHANGED <<processing, wake>>
    BY <1>1 DEF SendDirect
  <2> QED
    BY <2>6, <2>7, KeepsOneDrain
<1>2. ASSUME SendEdited PROVE OneDrainPerConversation'
  BY <1>2, SameDraining, RequestOneDrain DEF SendEdited
<1>3. ASSUME NEW t \in Turn, RunNow(t) PROVE OneDrainPerConversation'
  BY <1>3, SameDraining, RequestOneDrain, KeepsOneDrain DEF RunNow
<1>4. CASE UNCHANGED <<phase, turnOf, home, fromQueue, processing, wake>>
  BY <1>4, SameDraining, KeepsOneDrain
<1> QED
  BY <1>1, <1>2, <1>3, <1>4 DEF UserStep, Compose, EditQueued, RemoveQueued, MoveQueuedUp,
     OpenConversation, DiscardDraft, SendQueued, Stop

(* The processing set never forgets a drain and never lets two of the same   *)
(* conversation run.                                                         *)
THEOREM OneDrain == Spec => []OneDrainPerConversation
<1>1. Init => OneDrainPerConversation
  BY DEF Init, OneDrainPerConversation, Draining
<1>2. Typed /\ OneDrainPerConversation /\ [Next]_vars => OneDrainPerConversation'
  <2> SUFFICES ASSUME Typed, OneDrainPerConversation, [Next]_vars
               PROVE  OneDrainPerConversation'
    OBVIOUS
  <2>1. CASE Next
    BY <2>1, SystemOneDrain, UserOneDrain DEF Next
  <2>2. CASE UNCHANGED vars
    BY <2>2, SameDraining, KeepsOneDrain DEF vars
  <2> QED
    BY <2>1, <2>2
<1> QED
  BY <1>1, <1>2, TypedAlways, PTL DEF Spec

-----------------------------------------------------------------------------
(* When no turn awaits anything between the isSending check and the commit,  *)
(* the check is enough: one turn at a time, and Stop reaches it.             *)

SingleFlight ==
  /\ \A s \in Send : phase[s] # "off" =>
       phase[s] \in Committed /\ home[s] \in running /\ controller[home[s]] = s
  /\ \A c \in Conv : observed[c] = "active" => controller[c] = Observer
  /\ \A c \in Conv : controller[c] # None => c \in running

LEMMA EnterSingleFlight ==
  ASSUME Pasted = {}, Command = {}, Typed, SingleFlight,
         NEW s \in Send, NEW c \in Conv, NEW t, NEW viaQueue \in BOOLEAN,
         EnterSend(s, c, t, viaQueue), c \notin running, UNCHANGED observed
  PROVE  SingleFlight'
<1>1. /\ phase[s] = "off"
      /\ phase' = [phase EXCEPT ![s] = "prompting"] /\ home' = [home EXCEPT ![s] = c]
      /\ running' = running \cup {c} /\ controller' = [controller EXCEPT ![c] = s]
  BY DEF EnterSend, Commit
<1>2. controller[c] = None /\ observed[c] # "active"
  BY DEF SingleFlight
<1>3. \A z \in Send : phase[z] # "off" => home[z] \in Conv /\ home[z] # c
  BY Homes DEF SingleFlight
<1>4. ASSUME NEW z \in Send, phase'[z] # "off"
      PROVE  phase'[z] \in Committed /\ home'[z] \in running' /\ controller'[home'[z]] = z
  <2>1. CASE z = s
    BY <2>1, <1>1, <1>2, TypedParts DEF Committed, SendsTyped, RunsTyped
  <2>2. CASE z # s
    BY <2>2, <1>1, <1>3, <1>4, TypedParts DEF SingleFlight, SendsTyped, RunsTyped
  <2> QED
    BY <2>1, <2>2
<1>5. /\ \A d \in Conv : observed'[d] = "active" => controller'[d] = Observer
      /\ \A d \in Conv : controller'[d] # None => d \in running'
  BY <1>1, <1>2, TypedParts DEF SingleFlight, RunsTyped
<1> QED
  BY <1>4, <1>5 DEF SingleFlight

LEMMA FinishSingleFlight ==
  ASSUME Typed, SingleFlight, NEW s \in Send, phase[s] # "off", Finish(s)
  PROVE  SingleFlight'
<1> DEFINE c == home[s]
<1>1. /\ phase' = [phase EXCEPT ![s] = "off"] /\ home' = [home EXCEPT ![s] = None]
      /\ controller' = [controller EXCEPT ![c] = None] /\ running' = running \ {c}
      /\ observed' = observed
  BY DEF Finish, Release
<1>2. c \in Conv /\ controller[c] = s /\ observed[c] # "active"
  BY Homes DEF SingleFlight
<1>3. ASSUME NEW z \in Send, phase'[z] # "off"
      PROVE  phase'[z] \in Committed /\ home'[z] \in running' /\ controller'[home'[z]] = z
  <2>1. z # s /\ phase'[z] = phase[z] /\ home'[z] = home[z]
    BY <1>1, <1>3, TypedParts DEF SendsTyped
  <2>2. home[z] \in Conv /\ home[z] # c /\ home'[z] = home[z]
    BY <2>1, <1>2, <1>3, Homes DEF SingleFlight
  <2> QED
    BY <1>1, <1>3, <2>1, <2>2, TypedParts DEF SingleFlight, RunsTyped
<1>4. /\ \A d \in Conv : observed'[d] = "active" => controller'[d] = Observer
      /\ \A d \in Conv : controller'[d] # None => d \in running'
  BY <1>1, <1>2, TypedParts DEF SingleFlight, RunsTyped
<1> QED
  BY <1>3, <1>4 DEF SingleFlight

(* A step that leaves the calls and the registrations alone. *)
LEMMA KeepsSingleFlight ==
  ASSUME SingleFlight, UNCHANGED <<phase, home, running, controller, observed>>
  PROVE  SingleFlight'
BY DEF SingleFlight

LEMMA NextSingleFlight ==
  ASSUME Pasted = {}, Command = {}, Typed, SingleFlight, Next
  PROVE  SingleFlight'
<1>1. ASSUME NEW s \in Send, SendStep(s) PROVE SingleFlight'
  <2>1. phase[s] \notin {"importing", "command"}
    BY DEF SingleFlight, Committed
  <2>2. CASE PromptAccepted(s) \/ TurnEnds(s)
    <3>1. PICK p \in Committed : phase' = [phase EXCEPT ![s] = p]
      BY <2>2 DEF PromptAccepted, TurnEnds, Committed
    <3> QED
      BY <2>2, <3>1, TypedParts DEF PromptAccepted, TurnEnds, SingleFlight, SendsTyped
  <2>3. CASE PromptFailed(s) \/ TurnFails(s) \/ Persisted(s)
    BY <2>3, FinishSingleFlight DEF PromptFailed, TurnFails, FailTurn, Persisted
  <2> QED
    BY <1>1, <2>1, <2>2, <2>3
       DEF SendStep, ImportDone, ImportFailed, CommandExpands, CommandHandled, CommandFailed
<1>2. ASSUME NEW c \in Conv, NEW s \in Send, DrainTakes(c, s) PROVE SingleFlight'
  BY <1>2, EnterSingleFlight DEF DrainTakes, Refused
<1>3. ASSUME NEW s \in Send, SendDirect(s) PROVE SingleFlight'
  <2>1. current \in Conv
    BY TypedParts DEF PlaceTyped
  <2> QED
    BY <1>3, <2>1, EnterSingleFlight DEF SendDirect
<1>4. ASSUME NEW c \in Conv, Recover(c) PROVE SingleFlight'
  <2>1. \A s \in Send : phase[s] # "off" => home[s] \in Conv /\ home[s] # c
    BY <1>4, Homes DEF Recover, SingleFlight
  <2> QED
    BY <1>4, <2>1, TypedParts DEF Recover, SingleFlight, RunsTyped, PlaceTyped
<1>5. ASSUME NEW c \in Conv, RecoveredEnds(c) PROVE SingleFlight'
  <2>1. \A s \in Send : phase[s] # "off" => home[s] \in Conv /\ home[s] # c
    BY <1>5, Homes DEF RecoveredEnds, SingleFlight
  <2> QED
    BY <1>5, <2>1, TypedParts DEF RecoveredEnds, SingleFlight, RunsTyped, PlaceTyped
<1>6. ASSUME NEW c \in Conv, SidebarIdle(c) PROVE SingleFlight'
  BY <1>6, TypedParts DEF SidebarIdle, SingleFlight, RunsTyped
<1>7. CASE UNCHANGED <<phase, home, running, controller, observed>>
  BY <1>7, KeepsSingleFlight
<1> QED
  BY <1>1, <1>2, <1>3, <1>4, <1>5, <1>6, <1>7 DEF Next, SystemStep, UserStep, DrainStep, DrainRefused,
     RunningEffect, OpenPainted, Opened, Compose, EditQueued, RemoveQueued, MoveQueuedUp,
     RunNow, OpenConversation, DiscardDraft, SendEdited, SendQueued, Stop

(* Without pastes and commands to await, every turn in flight is the one its *)
(* conversation counts as running and Stop aborts.                           *)
THEOREM StopReachesEveryTurn ==
  ASSUME Pasted = {}, Command = {}
  PROVE  Spec => []StopReachesTurn
<1>1. Init => SingleFlight
  BY DEF Init, SingleFlight
<1>2. Typed /\ SingleFlight /\ [Next]_vars => SingleFlight'
  <2> SUFFICES ASSUME Typed, SingleFlight, [Next]_vars PROVE SingleFlight'
    OBVIOUS
  <2> QED
    BY NextSingleFlight, KeepsSingleFlight DEF vars
<1>3. SingleFlight => StopReachesTurn
  BY DEF SingleFlight, StopReachesTurn, Committed
<1> QED
  BY <1>1, <1>2, <1>3, TypedAlways, PTL DEF Spec

-----------------------------------------------------------------------------
(* Without pastes and commands a turn the user wrote is in one place: it     *)
(* moves from a composer to a queue or to a call, from there to a call or    *)
(* back, and every action moves what it removes.                             *)

Placed(t) ==
  /\ fate[t] = "live" <=> Places(t) # {}
  /\ \A p, q \in Places(t) : p = q

TurnsPlaced == \A t \in Turn : Placed(t)

LEMMA PlacedMeans == TurnsPlaced => NoTurnLost /\ NoTurnTwice
BY DEF TurnsPlaced, Placed, NoTurnLost, NoTurnTwice

(* A turn that is at one place is at no other. *)
LEMMA ComposerAt ==
  ASSUME NEW t, Placed(t), NEW c \in Conv, draft[c] = t
  PROVE  /\ InComposers(t) = {<<"composer", c>>} /\ InQueues(t) = {} /\ InCalls(t) = {}
         /\ fate[t] = "live"
<1>1. <<"composer", c>> \in InComposers(t)
  BY DEF InComposers
<1>2. Places(t) = {<<"composer", c>>} /\ fate[t] = "live"
  BY <1>1 DEF Placed, Places
<1>3. <<"composer", c>> \notin InQueues(t) /\ <<"composer", c>> \notin InCalls(t)
  BY DEF InQueues, InCalls
<1> QED
  BY <1>1, <1>2, <1>3 DEF Places

LEMMA QueueAt ==
  ASSUME NEW t, Placed(t), NEW c \in Conv, Queued(c, t)
  PROVE  /\ InQueues(t) = {<<"queue", c>>} /\ InComposers(t) = {} /\ InCalls(t) = {}
         /\ fate[t] = "live"
<1>1. <<"queue", c>> \in InQueues(t)
  BY DEF InQueues
<1>2. Places(t) = {<<"queue", c>>} /\ fate[t] = "live"
  BY <1>1 DEF Placed, Places
<1>3. <<"queue", c>> \notin InComposers(t) /\ <<"queue", c>> \notin InCalls(t)
  BY DEF InComposers, InCalls
<1> QED
  BY <1>1, <1>2, <1>3 DEF Places

LEMMA CallAt ==
  ASSUME NEW s \in Send, phase[s] # "off", Placed(turnOf[s])
  PROVE  /\ InCalls(turnOf[s]) = {<<"call", s>>}
         /\ InComposers(turnOf[s]) = {} /\ InQueues(turnOf[s]) = {}
         /\ fate[turnOf[s]] = "live"
<1> DEFINE t == turnOf[s]
<1>1. <<"call", s>> \in InCalls(t)
  BY DEF InCalls
<1>2. Placed(t)
  OBVIOUS
<1> HIDE DEF t
<1>3. Places(t) = {<<"call", s>>} /\ fate[t] = "live"
  BY <1>1, <1>2 DEF Placed, Places
<1>4. <<"call", s>> \notin InComposers(t) /\ <<"call", s>> \notin InQueues(t)
  BY DEF InComposers, InQueues
<1>5. /\ InCalls(t) = {<<"call", s>>} /\ InComposers(t) = {} /\ InQueues(t) = {}
      /\ fate[t] = "live"
  BY <1>1, <1>3, <1>4 DEF Places
<1> QED
  BY <1>5 DEF t

LEMMA Nowhere ==
  ASSUME NEW t, Placed(t), fate[t] # "live"
  PROVE  InComposers(t) = {} /\ InQueues(t) = {} /\ InCalls(t) = {}
BY DEF Placed, Places

(* How a turn is placed after a step *)
LEMMA StaysPlaced ==
  ASSUME NEW t, Placed(t), fate'[t] = fate[t],
         InComposers(t)' = InComposers(t), InQueues(t)' = InQueues(t), InCalls(t)' = InCalls(t)
  PROVE  Placed(t)'
BY DEF Placed, Places

LEMMA ToComposer ==
  ASSUME NEW t, NEW y, fate'[t] = "live",
         InComposers(t)' = {y}, InQueues(t)' = {}, InCalls(t)' = {}
  PROVE  Placed(t)'
BY DEF Placed, Places

LEMMA ToQueue ==
  ASSUME NEW t, NEW y, fate'[t] = "live",
         InComposers(t)' = {}, InQueues(t)' = {y}, InCalls(t)' = {}
  PROVE  Placed(t)'
BY DEF Placed, Places

LEMMA ToCall ==
  ASSUME NEW t, NEW y, fate'[t] = "live",
         InComposers(t)' = {}, InQueues(t)' = {}, InCalls(t)' = {y}
  PROVE  Placed(t)'
BY DEF Placed, Places

LEMMA LeavesPlaced ==
  ASSUME NEW t, fate'[t] # "live",
         InComposers(t)' = {}, InQueues(t)' = {}, InCalls(t)' = {}
  PROVE  Placed(t)'
BY DEF Placed, Places

(* Where turns are after a step, by the variables that hold them. *)
LEMMA SameComposers ==
  ASSUME UNCHANGED draft PROVE \A t \in Turn : InComposers(t)' = InComposers(t)
BY DEF InComposers

LEMMA SameQueues ==
  ASSUME UNCHANGED queue PROVE \A t \in Turn : InQueues(t)' = InQueues(t)
BY DEF InQueues, Queued

LEMMA SameCalls ==
  ASSUME UNCHANGED <<phase, turnOf>> PROVE \A t \in Turn : InCalls(t)' = InCalls(t)
BY DEF InCalls

LEMMA ComposerChanges ==
  ASSUME Typed, NEW c \in Conv, NEW u, draft' = [draft EXCEPT ![c] = u], NEW t \in Turn
  PROVE  InComposers(t)' = (InComposers(t) \ {<<"composer", c>>})
                           \cup IF t = u THEN {<<"composer", c>>} ELSE {}
BY TypedParts DEF InComposers, DraftsTyped

LEMMA ComposerFree ==
  ASSUME Typed, NEW c \in Conv, NEW t \in Turn, draft[c] # t
  PROVE  <<"composer", c>> \notin InComposers(t)
BY DEF InComposers

LEMMA QueueChanges ==
  ASSUME Typed, NEW c \in Conv, NEW q, queue' = [queue EXCEPT ![c] = q], NEW t \in Turn
  PROVE  InQueues(t)' = (InQueues(t) \ {<<"queue", c>>})
                        \cup IF t \in Range(q) THEN {<<"queue", c>>} ELSE {}
BY TypedParts DEF InQueues, Queued, QueuesTyped

LEMMA InQueue ==
  ASSUME NEW c \in Conv, NEW t \in Turn
  PROVE  <<"queue", c>> \in InQueues(t) <=> t \in Range(queue[c])
BY DEF InQueues, Queued

LEMMA CallMoves ==
  ASSUME Typed, NEW s \in Send, phase[s] # "off", NEW p, p # "off",
         phase' = [phase EXCEPT ![s] = p], UNCHANGED turnOf
  PROVE  \A t \in Turn : InCalls(t)' = InCalls(t)
BY TypedParts DEF InCalls, SendsTyped

LEMMA CallReleased ==
  ASSUME Typed, NEW s \in Send, Release(s), NEW t \in Turn
  PROVE  InCalls(t)' = InCalls(t) \ {<<"call", s>>}
BY TypedParts DEF InCalls, Release, SendsTyped

LEMMA CallOf ==
  ASSUME NEW s \in Send, NEW t \in Turn, t # turnOf[s]
  PROVE  <<"call", s>> \notin InCalls(t)
BY DEF InCalls

LEMMA CallEntered ==
  ASSUME Typed, Pasted = {}, Command = {}, NEW s \in Send, NEW c, NEW u \in Turn,
         NEW viaQueue, EnterSend(s, c, u, viaQueue)
  PROVE  /\ \A t \in Turn : InCalls(t)' = InCalls(t) \cup IF t = u THEN {<<"call", s>>} ELSE {}
         /\ Commit(s, c, viaQueue)
<1>1. /\ phase[s] = "off" /\ phase' = [phase EXCEPT ![s] = "prompting"]
      /\ turnOf' = [turnOf EXCEPT ![s] = u] /\ Commit(s, c, viaQueue)
  BY DEF EnterSend
<1>2. ASSUME NEW t \in Turn
      PROVE  InCalls(t)' = InCalls(t) \cup IF t = u THEN {<<"call", s>>} ELSE {}
  BY <1>1, TypedParts DEF InCalls, SendsTyped
<1> QED
  BY <1>1, <1>2

-----------------------------------------------------------------------------
(* A composer or call that is emptied, and a place that is filled *)
LEMMA GiveBackPlaced ==
  ASSUME Typed, TurnsPlaced, NEW s \in Send, phase[s] # "off", Release(s), UNCHANGED queue,
         NEW d \in Conv, draft[d] = None, GiveBack(turnOf[s], d)
  PROVE  TurnsPlaced'
<1> DEFINE u == turnOf[s]
<1>1. u \in Turn /\ u # None
  BY Homes
<1>2. /\ InCalls(u) = {<<"call", s>>} /\ InComposers(u) = {} /\ InQueues(u) = {}
      /\ fate[u] = "live"
  BY <1>1, CallAt DEF TurnsPlaced
<1>3. fate' = fate /\ draft' = [draft EXCEPT ![d] = u]
  BY DEF GiveBack
<1>4. \A t \in Turn : t # u => <<"call", s>> \notin InCalls(t)
  BY CallOf
<1> HIDE DEF u
<1>5. SUFFICES ASSUME NEW t \in Turn PROVE Placed(t)'
  BY DEF TurnsPlaced
<1>6. /\ InCalls(t)' = InCalls(t) \ {<<"call", s>>}
      /\ InQueues(t)' = InQueues(t)
      /\ InComposers(t)' = (InComposers(t) \ {<<"composer", d>>})
                           \cup IF t = u THEN {<<"composer", d>>} ELSE {}
  BY <1>3, CallReleased, SameQueues, ComposerChanges
<1>7. <<"composer", d>> \notin InComposers(t)
  BY ComposerFree
<1>8. CASE t = u
  <2>1. /\ InComposers(t)' = {<<"composer", d>>} /\ InQueues(t)' = {} /\ InCalls(t)' = {}
        /\ fate'[t] = "live"
    BY <1>2, <1>3, <1>6, <1>8
  <2> QED
    BY <2>1, ToComposer
<1>9. CASE t # u
  BY <1>3, <1>4, <1>6, <1>7, <1>9, StaysPlaced DEF TurnsPlaced
<1> QED
  BY <1>8, <1>9

LEMMA CallEndsPlaced ==
  ASSUME Typed, TurnsPlaced, NEW s \in Send, phase[s] # "off", Release(s),
         UNCHANGED <<queue, draft>>, NEW end \in {"done", "dropped"},
         fate' = [fate EXCEPT ![turnOf[s]] = end]
  PROVE  TurnsPlaced'
<1> DEFINE u == turnOf[s]
<1>1. u \in Turn
  BY Homes
<1>2. InCalls(u) = {<<"call", s>>} /\ InComposers(u) = {} /\ InQueues(u) = {}
  BY <1>1, CallAt DEF TurnsPlaced
<1>3. \A t \in Turn : fate'[t] = IF t = u THEN end ELSE fate[t]
  BY TypedParts DEF PlaceTyped
<1>4. \A t \in Turn : t # u => <<"call", s>> \notin InCalls(t)
  BY CallOf
<1> HIDE DEF u
<1>5. SUFFICES ASSUME NEW t \in Turn PROVE Placed(t)'
  BY DEF TurnsPlaced
<1>6. /\ InCalls(t)' = InCalls(t) \ {<<"call", s>>}
      /\ InQueues(t)' = InQueues(t) /\ InComposers(t)' = InComposers(t)
  BY CallReleased, SameQueues, SameComposers
<1>7. CASE t = u
  BY <1>2, <1>3, <1>6, <1>7, LeavesPlaced
<1>8. CASE t # u
  BY <1>3, <1>4, <1>6, <1>8, StaysPlaced DEF TurnsPlaced
<1> QED
  BY <1>7, <1>8

LEMMA FailTurnPlaced ==
  ASSUME Typed, TurnsPlaced, NEW s \in Send, phase[s] # "off", FailTurn(s)
  PROVE  TurnsPlaced'
<1>1. home[s] \in Conv /\ Shown \in Conv
  BY Homes, TypedParts DEF Shown, PlaceTyped
<1>2. Release(s) /\ UNCHANGED queue
  BY DEF FailTurn, Finish
<1>3. CASE \E end \in {"done", "dropped"} : NotGivenBack(turnOf[s], end)
  BY <1>2, <1>3, CallEndsPlaced DEF NotGivenBack
<1>4. CASE \E d \in Conv : draft[d] = None /\ GiveBack(turnOf[s], d)
  BY <1>2, <1>4, GiveBackPlaced
<1> QED
  BY <1>1, <1>3, <1>4 DEF FailTurn

LEMMA SystemPlaced ==
  ASSUME Typed, SingleFlight, Pasted = {}, Command = {}, TurnsPlaced, SystemStep
  PROVE  TurnsPlaced'
<1>1. ASSUME NEW s \in Send, SendStep(s) PROVE TurnsPlaced'
  <2>1. phase[s] \notin {"importing", "command"}
    BY DEF SingleFlight, Committed
  <2>2. CASE PromptAccepted(s) \/ TurnEnds(s)
    <3>1. \E p : p # "off" /\ phase' = [phase EXCEPT ![s] = p]
      BY <2>2 DEF PromptAccepted, TurnEnds
    <3>2. phase[s] # "off" /\ UNCHANGED <<turnOf, draft, queue, fate>>
      BY <2>2 DEF PromptAccepted, TurnEnds
    <3> QED
      BY <3>1, <3>2, CallMoves, SameComposers, SameQueues, StaysPlaced DEF TurnsPlaced
  <2>3. CASE PromptFailed(s) \/ TurnFails(s)
    BY <2>3, FailTurnPlaced DEF PromptFailed, TurnFails
  <2>4. CASE Persisted(s)
    BY <2>4, CallEndsPlaced DEF Persisted, Finish
  <2> QED
    BY <1>1, <2>1, <2>2, <2>3, <2>4
       DEF SendStep, ImportDone, ImportFailed, CommandExpands, CommandHandled, CommandFailed
<1>2. ASSUME NEW c \in Conv, NEW s \in Send, DrainTakes(c, s) PROVE TurnsPlaced'
  <2> DEFINE u == Head(queue[c])
             q == Tail(queue[c])
  <2>1. u \in Turn
    BY <1>2, DrainedTurn DEF DrainTakes
  <2>2. Range(q) = Range(queue[c]) \ {u} /\ u \in Range(queue[c])
    BY <1>2, QueueForm, TypedParts, TailRange DEF DrainTakes, DrainsTyped
  <2>3. /\ queue' = [queue EXCEPT ![c] = q] /\ EnterSend(s, c, u, TRUE) /\ fate' = fate
    BY <1>2 DEF DrainTakes
  <2> HIDE DEF u, q
  <2>4. /\ InQueues(u) = {<<"queue", c>>} /\ InComposers(u) = {} /\ InCalls(u) = {}
        /\ fate[u] = "live"
    BY <2>1, <2>2, QueueAt DEF TurnsPlaced, Queued
  <2>5. /\ \A t \in Turn : InCalls(t)' = InCalls(t) \cup IF t = u THEN {<<"call", s>>} ELSE {}
        /\ Commit(s, c, TRUE)
    BY <2>1, <2>3, CallEntered
  <2>6. UNCHANGED draft
    BY <2>5 DEF Commit
  <2>7. SUFFICES ASSUME NEW t \in Turn PROVE Placed(t)'
    BY DEF TurnsPlaced
  <2>8. /\ InQueues(t)' = (InQueues(t) \ {<<"queue", c>>})
                          \cup IF t \in Range(q) THEN {<<"queue", c>>} ELSE {}
        /\ InComposers(t)' = InComposers(t)
        /\ <<"queue", c>> \in InQueues(t) <=> t \in Range(queue[c])
    BY <2>3, <2>6, QueueChanges, SameComposers, InQueue
  <2>9. CASE t = u
    <3>1. /\ InComposers(t)' = {} /\ InQueues(t)' = {} /\ InCalls(t)' = {<<"call", s>>}
          /\ fate'[t] = "live"
      BY <2>2, <2>3, <2>4, <2>5, <2>8, <2>9
    <3> QED
      BY <3>1, ToCall
  <2>10. CASE t # u
    <3>1. t \in Range(q) <=> t \in Range(queue[c])
      BY <2>2, <2>10
    <3>2. InQueues(t)' = InQueues(t)
      BY <2>8, <3>1
    <3>3. InCalls(t)' = InCalls(t) /\ InComposers(t)' = InComposers(t) /\ fate'[t] = fate[t]
      BY <2>3, <2>5, <2>8, <2>10
    <3> QED
      BY <3>2, <3>3, StaysPlaced DEF TurnsPlaced
  <2> QED
    BY <2>9, <2>10
<1>3. CASE UNCHANGED <<draft, queue, phase, turnOf, fate>>
  BY <1>3, SameComposers, SameQueues, SameCalls, StaysPlaced DEF TurnsPlaced
<1> QED
  BY <1>1, <1>2, <1>3 DEF SystemStep, DrainStep, DrainRefused, Recover, RecoveredEnds,
     SidebarIdle, RunningEffect, OpenPainted, Opened

(* A turn goes from the composer of a conversation to its queue. *)
LEMMA QueuedFromComposer ==
  ASSUME Typed, TurnsPlaced, NEW c \in Conv, NEW q, draft[c] # None,
         Range(q) = Range(queue[c]) \cup {draft[c]},
         queue' = [queue EXCEPT ![c] = q], draft' = [draft EXCEPT ![c] = None],
         UNCHANGED <<phase, turnOf, fate>>
  PROVE  TurnsPlaced'
<1> DEFINE u == draft[c]
<1>1. u \in Turn
  BY TypedParts DEF DraftsTyped
<1>2. /\ InComposers(u) = {<<"composer", c>>} /\ InQueues(u) = {} /\ InCalls(u) = {}
      /\ fate[u] = "live"
  BY <1>1, ComposerAt DEF TurnsPlaced
<1>3. SUFFICES ASSUME NEW t \in Turn PROVE Placed(t)'
  BY DEF TurnsPlaced
<1>4. /\ InQueues(t)' = (InQueues(t) \ {<<"queue", c>>})
                        \cup IF t \in Range(q) THEN {<<"queue", c>>} ELSE {}
      /\ <<"queue", c>> \in InQueues(t) <=> t \in Range(queue[c])
  BY QueueChanges, InQueue
<1>5. /\ InComposers(t)' = InComposers(t) \ {<<"composer", c>>}
      /\ t # u => <<"composer", c>> \notin InComposers(t)
  <2>1. t # None
    OBVIOUS
  <2>2. InComposers(t)' = (InComposers(t) \ {<<"composer", c>>})
                          \cup IF t = None THEN {<<"composer", c>>} ELSE {}
    BY ComposerChanges
  <2>3. t # u => <<"composer", c>> \notin InComposers(t)
    BY ComposerFree
  <2> QED
    BY <2>1, <2>2, <2>3
<1>6. InCalls(t)' = InCalls(t) /\ fate'[t] = fate[t]
  BY SameCalls
<1>7. Range(q) = Range(queue[c]) \cup {u}
  OBVIOUS
<1> HIDE DEF u
<1>8. CASE t = u
  <2>1. /\ InComposers(t)' = {} /\ InQueues(t)' = {<<"queue", c>>} /\ InCalls(t)' = {}
        /\ fate'[t] = "live"
    BY <1>2, <1>4, <1>5, <1>6, <1>7, <1>8
  <2> QED
    BY <2>1, ToQueue
<1>9. CASE t # u
  BY <1>4, <1>5, <1>6, <1>7, <1>9, StaysPlaced DEF TurnsPlaced
<1> QED
  BY <1>8, <1>9

LEMMA UserPlaced ==
  ASSUME Typed, Pasted = {}, Command = {}, TurnsPlaced, UserStep
  PROVE  TurnsPlaced'
<1>0. /\ current \in Conv /\ slot.index \in Nat
      /\ draft[current] \in OwnTurn(current) \cup strayed \cup {None}
      /\ queue[current] \in Seq(OwnTurn(current) \cup strayed) /\ Distinct(queue[current])
      /\ \A t \in Turn : t # None
  BY TypedParts, QueueForm DEF PlaceTyped, DraftsTyped
<1>1. ASSUME NEW u \in Turn, Compose(u) PROVE TurnsPlaced'
  <2>1. InComposers(u) = {} /\ InQueues(u) = {} /\ InCalls(u) = {}
    BY <1>1, Nowhere DEF Compose, TurnsPlaced
  <2>2. \A t \in Turn : fate'[t] = IF t = u THEN "live" ELSE fate[t]
    BY <1>1, TypedParts DEF Compose, PlaceTyped
  <2>3. SUFFICES ASSUME NEW t \in Turn PROVE Placed(t)'
    BY DEF TurnsPlaced
  <2>4. /\ InComposers(t)' = (InComposers(t) \ {<<"composer", current>>})
                             \cup IF t = u THEN {<<"composer", current>>} ELSE {}
        /\ <<"composer", current>> \notin InComposers(t)
    BY <1>0, <1>1, ComposerChanges, ComposerFree DEF Compose, ComposerChanged
  <2>5. InQueues(t)' = InQueues(t) /\ InCalls(t)' = InCalls(t)
    BY <1>1, SameQueues, SameCalls DEF Compose
  <2>6. CASE t = u
    <3>1. /\ InComposers(t)' = {<<"composer", current>>}
          /\ InQueues(t)' = {} /\ InCalls(t)' = {} /\ fate'[t] = "live"
      BY <2>1, <2>2, <2>4, <2>5, <2>6
    <3> QED
      BY <3>1, ToComposer
  <2>7. CASE t # u
    BY <2>2, <2>4, <2>5, <2>7, StaysPlaced DEF TurnsPlaced
  <2> QED
    BY <2>6, <2>7
<1>2. ASSUME DiscardDraft PROVE TurnsPlaced'
  <2> DEFINE u == draft[current]
  <2>1. u \in Turn
    BY <1>0, <1>2, Owned DEF DiscardDraft
  <2>2. InComposers(u) = {<<"composer", current>>} /\ InQueues(u) = {} /\ InCalls(u) = {}
    BY <1>0, <2>1, ComposerAt DEF TurnsPlaced
  <2>3. \A t \in Turn : fate'[t] = IF t = u THEN "done" ELSE fate[t]
    BY <1>2, TypedParts DEF DiscardDraft, PlaceTyped
  <2>4. SUFFICES ASSUME NEW t \in Turn PROVE Placed(t)'
    BY DEF TurnsPlaced
  <2>5. /\ InComposers(t)' = InComposers(t) \ {<<"composer", current>>}
        /\ t # u => <<"composer", current>> \notin InComposers(t)
    <3>1. draft' = [draft EXCEPT ![current] = None]
      BY <1>2 DEF DiscardDraft, ComposerChanged
    <3>2. InComposers(t)' = (InComposers(t) \ {<<"composer", current>>})
                            \cup IF t = None THEN {<<"composer", current>>} ELSE {}
      BY <1>0, <3>1, ComposerChanges
    <3>3. t # u => <<"composer", current>> \notin InComposers(t)
      BY <1>0, ComposerFree
    <3> QED
      BY <1>0, <3>2, <3>3
  <2>6. InQueues(t)' = InQueues(t) /\ InCalls(t)' = InCalls(t)
    BY <1>2, SameQueues, SameCalls DEF DiscardDraft
  <2> HIDE DEF u
  <2>7. CASE t = u
    BY <2>2, <2>3, <2>5, <2>6, <2>7, LeavesPlaced
  <2>8. CASE t # u
    BY <2>3, <2>5, <2>6, <2>8, StaysPlaced DEF TurnsPlaced
  <2> QED
    BY <2>7, <2>8
<1>3. ASSUME SendEdited \/ SendQueued PROVE TurnsPlaced'
  <2> DEFINE u == draft[current]
  <2>1. u # None /\ u \in OwnTurn(current) \cup strayed
    BY <1>0, <1>3 DEF SendEdited, SendQueued
  <2>2. PICK q : queue' = [queue EXCEPT ![current] = q] /\ Range(q) = Range(queue[current]) \cup {u}
    <3>1. CASE SendEdited
      <4>1. queue' = [queue EXCEPT ![current] = InsertAtSlot(queue[current], u, slot)]
        BY <3>1 DEF SendEdited
      <4>2. Range(InsertAtSlot(queue[current], u, slot)) = Range(queue[current]) \cup {u}
        BY <1>0, <2>1, InsertAtSlotRange
      <4> QED
        BY <4>1, <4>2
    <3>2. CASE SendQueued
      <4>1. queue' = [queue EXCEPT ![current] = Enqueue(queue[current], u)]
        BY <3>2 DEF SendQueued
      <4>2. Range(Enqueue(queue[current], u)) = Range(queue[current]) \cup {u}
        BY <1>0, <2>1, EnqueueRange
      <4> QED
        BY <4>1, <4>2
    <3> QED
      BY <1>3, <3>1, <3>2
  <2>3. draft' = [draft EXCEPT ![current] = None] /\ UNCHANGED <<phase, turnOf, fate>>
    BY <1>3 DEF SendEdited, SendQueued, ComposerChanged
  <2> QED
    BY <1>0, <2>1, <2>2, <2>3, QueuedFromComposer
<1>4. ASSUME NEW s \in Send, SendDirect(s) PROVE TurnsPlaced'
  <2> DEFINE u == draft[current]
  <2>1. u \in Turn
    BY <1>0, <1>4, Owned DEF SendDirect
  <2>2. /\ InComposers(u) = {<<"composer", current>>} /\ InQueues(u) = {} /\ InCalls(u) = {}
        /\ fate[u] = "live"
    BY <1>0, <2>1, ComposerAt DEF TurnsPlaced
  <2>3. EnterSend(s, current, u, FALSE) /\ hydrating = None /\ UNCHANGED <<queue, fate>>
    BY <1>4 DEF SendDirect, InputEnabled
  <2>4. draft[current] = u
    OBVIOUS
  <2> HIDE DEF u
  <2>5. /\ \A t \in Turn : InCalls(t)' = InCalls(t) \cup IF t = u THEN {<<"call", s>>} ELSE {}
        /\ Commit(s, current, FALSE)
    BY <2>1, <2>3, CallEntered
  <2>6. draft' = [draft EXCEPT ![current] = None]
    BY <2>3, <2>5, TypedParts DEF Commit, Cleared, Shown, DraftsTyped
  <2>7. SUFFICES ASSUME NEW t \in Turn PROVE Placed(t)'
    BY DEF TurnsPlaced
  <2>8. /\ InComposers(t)' = InComposers(t) \ {<<"composer", current>>}
        /\ t # u => <<"composer", current>> \notin InComposers(t)
    <3>1. InComposers(t)' = (InComposers(t) \ {<<"composer", current>>})
                            \cup IF t = None THEN {<<"composer", current>>} ELSE {}
      BY <1>0, <2>6, ComposerChanges
    <3>2. t # u => <<"composer", current>> \notin InComposers(t)
      BY <1>0, <2>4, ComposerFree
    <3> QED
      BY <1>0, <3>1, <3>2
  <2>9. InQueues(t)' = InQueues(t) /\ fate'[t] = fate[t]
    BY <2>3, SameQueues
  <2>10. CASE t = u
    <3>1. /\ InComposers(t)' = {} /\ InQueues(t)' = {} /\ InCalls(t)' = {<<"call", s>>}
          /\ fate'[t] = "live"
      BY <2>2, <2>5, <2>8, <2>9, <2>10
    <3> QED
      BY <3>1, ToCall
  <2>11. CASE t # u
    <3>1. InComposers(t)' = InComposers(t)
      BY <2>8, <2>11
    <3>2. InCalls(t)' = InCalls(t)
      BY <2>5, <2>11
    <3> QED
      BY <2>9, <3>1, <3>2, StaysPlaced DEF TurnsPlaced
  <2> QED
    BY <2>10, <2>11
<1>5. ASSUME NEW u \in Turn, EditQueued(u) PROVE TurnsPlaced'
  <2> DEFINE d == draft[current]
             q == IF d = None THEN queue[current]
                  ELSE IF slot.conv = current THEN InsertAtSlot(queue[current], d, slot)
                  ELSE Enqueue(queue[current], d)
             r == Without(q, u)
  <2>1. u \in Range(queue[current])
    BY <1>5 DEF EditQueued, Queued
  <2>2. q \in Seq(OwnTurn(current) \cup strayed) /\ Distinct(q)
    BY <1>0, InsertAtSlotQueue, EnqueueQueue
  <2>3. Range(q) = IF d = None THEN Range(queue[current]) ELSE Range(queue[current]) \cup {d}
    <3>1. CASE d = None
      BY <3>1
    <3>2. CASE d # None
      <4>1. d \in OwnTurn(current) \cup strayed
        BY <1>0, <3>2
      <4> HIDE DEF d
      <4>2. /\ Range(InsertAtSlot(queue[current], d, slot)) = Range(queue[current]) \cup {d}
            /\ Range(Enqueue(queue[current], d)) = Range(queue[current]) \cup {d}
        BY <1>0, <4>1, InsertAtSlotRange, EnqueueRange
      <4> QED
        BY <3>2, <4>2
    <3> QED
      BY <3>1, <3>2
  <2>4. queue' = [queue EXCEPT ![current] = r] /\ draft' = [draft EXCEPT ![current] = u]
        /\ UNCHANGED <<phase, turnOf, fate>>
    BY <1>5 DEF EditQueued, ComposerChanged
  <2>5. /\ InQueues(u) = {<<"queue", current>>} /\ InComposers(u) = {} /\ InCalls(u) = {}
        /\ fate[u] = "live"
    BY <1>0, <2>1, QueueAt DEF TurnsPlaced, Queued
  <2>6. d \in Turn => /\ InComposers(d) = {<<"composer", current>>} /\ InQueues(d) = {}
                      /\ InCalls(d) = {} /\ fate[d] = "live"
    BY <1>0, ComposerAt DEF TurnsPlaced
  <2>7. \A t \in Turn : t # d => <<"composer", current>> \notin InComposers(t)
    BY <1>0, ComposerFree
  <2> HIDE DEF d, q
  <2>8. Range(r) = Range(q) \ {u}
    BY <2>2, WithoutRange
  <2> HIDE DEF r
  <2>9. SUFFICES ASSUME NEW t \in Turn PROVE Placed(t)'
    BY DEF TurnsPlaced
  <2>10. /\ InQueues(t)' = (InQueues(t) \ {<<"queue", current>>})
                           \cup IF t \in Range(r) THEN {<<"queue", current>>} ELSE {}
         /\ <<"queue", current>> \in InQueues(t) <=> t \in Range(queue[current])
    BY <1>0, <2>4, QueueChanges, InQueue
  <2>11. InComposers(t)' = (InComposers(t) \ {<<"composer", current>>})
                           \cup IF t = u THEN {<<"composer", current>>} ELSE {}
    BY <1>0, <2>4, ComposerChanges
  <2>12. InCalls(t)' = InCalls(t) /\ fate'[t] = fate[t]
    BY <2>4, SameCalls
  <2>13. CASE t = u
    <3>1. /\ InComposers(t)' = {<<"composer", current>>}
          /\ InQueues(t)' = {} /\ InCalls(t)' = {} /\ fate'[t] = "live"
      BY <2>5, <2>8, <2>10, <2>11, <2>12, <2>13
    <3> QED
      BY <3>1, ToComposer
  <2>14. CASE t # u /\ t = d
    <3>1. t \in Range(r)
      BY <1>0, <2>3, <2>8, <2>14
    <3>2. /\ InQueues(t)' = {<<"queue", current>>}
          /\ InComposers(t)' = {} /\ InCalls(t)' = {} /\ fate'[t] = "live"
      BY <2>6, <2>10, <2>11, <2>12, <2>14, <3>1
    <3> QED
      BY <3>2, ToQueue
  <2>15. CASE t # u /\ t # d
    <3>1. t \in Range(r) <=> t \in Range(queue[current])
      BY <2>3, <2>8, <2>15
    <3>2. InQueues(t)' = InQueues(t)
      BY <2>10, <3>1
    <3>3. InComposers(t)' = InComposers(t)
      BY <2>7, <2>11, <2>15
    <3> QED
      BY <2>12, <3>2, <3>3, StaysPlaced DEF TurnsPlaced
  <2> QED
    BY <2>13, <2>14, <2>15
<1>6. ASSUME NEW u \in Turn, RemoveQueued(u) PROVE TurnsPlaced'
  <2> DEFINE q == Without(queue[current], u)
  <2>1. u \in Range(queue[current]) /\ queue' = [queue EXCEPT ![current] = q]
        /\ UNCHANGED <<draft, phase, turnOf>>
    BY <1>6 DEF RemoveQueued, Queued
  <2>2. Range(q) = Range(queue[current]) \ {u}
    BY <1>0, WithoutRange
  <2> HIDE DEF q
  <2>3. InQueues(u) = {<<"queue", current>>} /\ InComposers(u) = {} /\ InCalls(u) = {}
    BY <1>0, <2>1, QueueAt DEF TurnsPlaced, Queued
  <2>4. \A t \in Turn : fate'[t] = IF t = u THEN "done" ELSE fate[t]
    BY <1>6, TypedParts DEF RemoveQueued, PlaceTyped
  <2>5. SUFFICES ASSUME NEW t \in Turn PROVE Placed(t)'
    BY DEF TurnsPlaced
  <2>6. /\ InQueues(t)' = (InQueues(t) \ {<<"queue", current>>})
                          \cup IF t \in Range(q) THEN {<<"queue", current>>} ELSE {}
        /\ <<"queue", current>> \in InQueues(t) <=> t \in Range(queue[current])
    BY <1>0, <2>1, QueueChanges, InQueue
  <2>7. InComposers(t)' = InComposers(t) /\ InCalls(t)' = InCalls(t)
    BY <2>1, SameComposers, SameCalls
  <2>8. CASE t = u
    BY <2>2, <2>3, <2>4, <2>6, <2>7, <2>8, LeavesPlaced
  <2>9. CASE t # u
    BY <2>2, <2>4, <2>6, <2>7, <2>9, StaysPlaced DEF TurnsPlaced
  <2> QED
    BY <2>8, <2>9
<1>7. ASSUME NEW u \in Turn, MoveQueuedUp(u) \/ RunNow(u) PROVE TurnsPlaced'
  <2>1. PICK q : queue' = [queue EXCEPT ![current] = q] /\ Range(q) = Range(queue[current])
    BY <1>0, <1>7, MoveRange, PromoteRange DEF MoveQueuedUp, RunNow
  <2>2. UNCHANGED <<draft, phase, turnOf, fate>>
    BY <1>7 DEF MoveQueuedUp, RunNow
  <2>3. SUFFICES ASSUME NEW t \in Turn PROVE Placed(t)'
    BY DEF TurnsPlaced
  <2>4. /\ InQueues(t)' = (InQueues(t) \ {<<"queue", current>>})
                          \cup IF t \in Range(q) THEN {<<"queue", current>>} ELSE {}
        /\ <<"queue", current>> \in InQueues(t) <=> t \in Range(queue[current])
    BY <1>0, <2>1, QueueChanges, InQueue
  <2> QED
    BY <2>1, <2>2, <2>4, SameComposers, SameCalls, StaysPlaced DEF TurnsPlaced
<1>8. CASE UNCHANGED <<draft, queue, phase, turnOf, fate>>
  BY <1>8, SameComposers, SameQueues, SameCalls, StaysPlaced DEF TurnsPlaced
<1> QED
  BY <1>1, <1>2, <1>3, <1>4, <1>5, <1>6, <1>7, <1>8 DEF UserStep, OpenConversation, Stop

LEMMA TurnsStayPlaced ==
  ASSUME Pasted = {}, Command = {}
  PROVE  Spec => []TurnsPlaced
<1>1. Init => SingleFlight
  BY DEF Init, SingleFlight
<1>2. Init => TurnsPlaced
  <2> SUFFICES ASSUME Init, NEW t \in Turn PROVE Placed(t)
    BY DEF TurnsPlaced
  <2>1. t # None /\ fate[t] # "live"
    BY DEF Init
  <2>2. InComposers(t) = {} /\ InCalls(t) = {}
    BY <2>1 DEF Init, InComposers, InCalls
  <2>3. InQueues(t) = {}
    BY DEF Init, InQueues, Queued, Range
  <2> QED
    BY <2>1, <2>2, <2>3 DEF Placed, Places
<1>3. Typed /\ SingleFlight /\ [Next]_vars => SingleFlight'
  BY NextSingleFlight, KeepsSingleFlight DEF vars
<1>4. Typed /\ SingleFlight /\ TurnsPlaced /\ [Next]_vars => TurnsPlaced'
  <2> SUFFICES ASSUME Typed, SingleFlight, TurnsPlaced, [Next]_vars PROVE TurnsPlaced'
    OBVIOUS
  <2>1. CASE Next
    BY <2>1, SystemPlaced, UserPlaced DEF Next
  <2>2. CASE UNCHANGED vars
    BY <2>2, SameComposers, SameQueues, SameCalls, StaysPlaced DEF vars, TurnsPlaced
  <2> QED
    BY <2>1, <2>2
<1> QED
  BY <1>1, <1>2, <1>3, <1>4, TypedAlways, PTL DEF Spec

(* Without pastes and commands no turn is lost before it fails, and a failed  *)
(* one is lost only where no empty composer or cache entry takes its text:    *)
(* any other turn the user wrote and has not discarded is in a composer, a    *)
(* queue or a call.                                                           *)
THEOREM NothingLost ==
  ASSUME Pasted = {}, Command = {}
  PROVE  Spec => []NoTurnLost
BY TurnsStayPlaced, PlacedMeans, PTL

(* ... and it is in one of them only, even after its text went to another     *)
(* conversation: none is queued and sent, in two conversations, sent twice,   *)
(* or back after its end.                                                     *)
THEOREM NothingTwice ==
  ASSUME Pasted = {}, Command = {}
  PROVE  Spec => []NoTurnTwice
BY TurnsStayPlaced, PlacedMeans, PTL
=============================================================================
