----------------------------- MODULE ChatTurns ------------------------------
(***************************************************************************)
(* The life of a chat turn in the desktop GUI: composed, queued while its  *)
(* conversation is running, edited or moved in the queue, drained, sent to *)
(* GenericAgent and observed until the session is terminal.                *)
(* useChatTurnQueue.ts, useSendChatTurn.ts, runGaChatTurn.ts and the       *)
(* running/abort bookkeeping of useChatPageRuntimeStore.ts.                *)
(*                                                                         *)
(* JavaScript runs to completion: an action is one task (a user event, a   *)
(* network reply, an effect) with the promise continuations that run       *)
(* before the next task.  A drain request is such a continuation: while    *)
(* wake is not empty no task runs (Quiet).                                 *)
(***************************************************************************)
EXTENDS TurnQueueOps

CONSTANTS
  Conv,           \* conversations
  Turn,           \* turns (a message with its attachments)
  ConvOf,         \* the conversation a turn is composed in at first
  Send,           \* identities of send() calls, each with its AbortController
  Pasted,         \* turns with a large paste: send() awaits the import
  Command,        \* turns that start with /command: send() awaits the bridge
  CommandResult,  \* what a command may come back with
  Openable,       \* conversations the user opens from the sidebar
  Recoverable,    \* conversations whose session may run without a local send
  EarlyIdle,      \* conversations the sidebar may report idle before their
                  \* recovered-turn observer has seen the end itself
  Observer        \* the AbortController of a recovered-turn observer

ASSUME ChatTurnsAssumption ==
  /\ ConvOf \in [Turn -> Conv]
  /\ Pasted \subseteq Turn
  /\ Command \subseteq Turn
  /\ CommandResult \subseteq {"control", "prompt", "failed"}
  /\ Openable \subseteq Conv
  /\ Recoverable \subseteq Conv
  /\ EarlyIdle \subseteq Conv
  /\ None \notin Turn \cup Conv \cup Send \cup {Observer}
  /\ Observer \notin Send

VARIABLES
  current,     \* currentConversationIdRef
  hydrating,   \* hydratingConversationIdRef
  draft,       \* what the composer (or the draft cache) holds per conversation
  queue,       \* queuedChatTurnsRef, per conversation
  slot,        \* queuedChatTurnEditSlotRef
  processing,  \* queuedChatProcessingConversationIdsRef
  wake,        \* drains requested whose continuation has not run yet
  phase,       \* where each send() is
  turnOf,      \* the turn it sends
  home,        \* its conversationId, the conversation it sends the turn to
  fromQueue,   \* whether the queue called it
  visible,     \* whether that conversation was the displayed one at its commit
  running,     \* runningConversationIdsRef; isSending of the runtime entry
  controller,  \* conversationAbortControllersRef
  aborted,     \* sends whose controller was aborted
  rendered,    \* the running set the last queue effect saw
  observed,    \* recovered-turn observers: "none", "active", "settled"
  fate,        \* history: "new", "live" (the user's, not settled), "done",
               \* or "dropped": it failed and its text was given back nowhere
  strayed      \* history: turns whose text a failure put in the composer of
               \* another conversation

vars == <<current, hydrating, draft, queue, slot, processing, wake, phase, turnOf, home,
          fromQueue, visible, strayed, running, controller, aborted, rendered, observed, fate>>

Phase     == {"off", "importing", "command", "prompting", "observing", "persisting"}
Committed == {"prompting", "observing", "persisting"}

TypeOK ==
  /\ current \in Conv
  /\ hydrating \in Conv \cup {None}
  /\ draft \in [Conv -> Turn \cup {None}]
  /\ queue \in [Conv -> Seq(Turn)]
  /\ slot \in [conv : Conv \cup {None}, prev : Turn \cup {None},
               next : Turn \cup {None}, index : Nat]
  /\ processing \subseteq Conv
  /\ wake \subseteq Conv
  /\ phase \in [Send -> Phase]
  /\ turnOf \in [Send -> Turn \cup {None}]
  /\ home \in [Send -> Conv \cup {None}]
  /\ fromQueue \in [Send -> BOOLEAN]
  /\ visible \in [Send -> BOOLEAN]
  /\ running \subseteq Conv
  /\ controller \in [Conv -> Send \cup {Observer, None}]
  /\ aborted \subseteq Send
  /\ rendered \subseteq Conv
  /\ observed \in [Conv -> {"none", "active", "settled"}]
  /\ fate \in [Turn -> {"new", "live", "done", "dropped"}]
  /\ strayed \subseteq Turn

Init ==
  /\ current \in Conv
  /\ hydrating = None
  /\ draft = [c \in Conv |-> None]
  /\ queue = [c \in Conv |-> <<>>]
  /\ slot = NoSlot
  /\ processing = {}
  /\ wake = {}
  /\ phase = [s \in Send |-> "off"]
  /\ turnOf = [s \in Send |-> None]
  /\ home = [s \in Send |-> None]
  /\ fromQueue = [s \in Send |-> FALSE]
  /\ visible = [s \in Send |-> FALSE]
  /\ running = {}
  /\ controller = [c \in Conv |-> None]
  /\ aborted = {}
  /\ rendered = {}
  /\ observed = [c \in Conv |-> "none"]
  /\ fate = [t \in Turn |-> "new"]
  /\ strayed = {}

-----------------------------------------------------------------------------
(* Shared conditions *)

Quiet == wake = {}

Importing == \E s \in Send : phase[s] = "importing"   \* isImportingPastedTextRef

(* The conversation whose draft the composer shows: that of a conversation    *)
(* being opened is there from the click on.  draft[c] of the others is their  *)
(* entry in the draft cache.                                                  *)
Shown == IF hydrating = None THEN current ELSE hydrating

(* isComposerInputDisabled.  Abstraction: what the user types while ANOTHER   *)
(* conversation is being opened is the subject of ComposerDrafts, here the    *)
(* user waits for the conversation.                                           *)
InputEnabled == hydrating = None /\ ~Importing

Queued(c, t) == t \in Range(queue[c])

(* The guards of requestQueuedChatTurnProcessing, but for `processing`. *)
Drainable(c) ==
  /\ c \notin running
  /\ ~Blocks(c, queue[c], slot)
  /\ queue[c] # <<>>

(* requestQueuedChatTurnProcessing for each conversation of C, `held` being *)
(* what is left of the processing set.                                      *)
RequestDrain(C, held) ==
  LET requested == {c \in C \ held : Drainable(c)'} IN
  /\ processing' = held \cup requested
  /\ wake' = wake \cup requested

(* stopConversation: abort the registered controller, if there is one. *)
AbortRun(c) == aborted' = aborted \cup ({controller[c]} \cap Send)

-----------------------------------------------------------------------------
(* send() *)

(* clearCachedComposerDraft and resetVisibleTransientState: a conversation's  *)
(* cached draft goes, and what the composer shows when the conversation is    *)
(* the displayed one, be it the draft of one that is being opened.            *)
Cleared(c) ==
  [d \in Conv |-> IF d = Shown THEN IF current = c THEN None ELSE draft[d]
                 ELSE IF d = c THEN None ELSE draft[d]]

(* From setConversationAbortController to setConversationSendingState: from *)
(* here the turn runs.  A direct send clears the draft of its conversation, *)
(* whatever it holds by now; a queued one preserves it.                     *)
Commit(s, c, viaQueue) ==
  /\ visible' = [visible EXCEPT ![s] = current = c]
  /\ running' = running \cup {c}
  /\ controller' = [controller EXCEPT ![c] = s]
  /\ draft' = IF viaQueue THEN draft ELSE Cleared(c)

NotCommitted == UNCHANGED <<visible, running, controller, draft>>

(* The first await of send(): the import of large pastes, then the command, *)
(* else the turn commits in the same task.                                  *)
EnterSend(s, c, t, viaQueue) ==
  /\ phase[s] = "off"
  /\ turnOf' = [turnOf EXCEPT ![s] = t]
  /\ home' = [home EXCEPT ![s] = c]
  /\ fromQueue' = [fromQueue EXCEPT ![s] = viaQueue]
  /\ \/ /\ t \in Pasted
        /\ phase' = [phase EXCEPT ![s] = "importing"]
        /\ NotCommitted
     \/ /\ t \in Command \ Pasted
        /\ phase' = [phase EXCEPT ![s] = "command"]
        /\ NotCommitted
     \/ /\ t \notin Command \cup Pasted
        /\ phase' = [phase EXCEPT ![s] = "prompting"]
        /\ Commit(s, c, viaQueue)

(* The call is over: its identity is free for another one. *)
Release(s) ==
  /\ phase' = [phase EXCEPT ![s] = "off"]
  /\ turnOf' = [turnOf EXCEPT ![s] = None]
  /\ home' = [home EXCEPT ![s] = None]
  /\ fromQueue' = [fromQueue EXCEPT ![s] = FALSE]
  /\ visible' = [visible EXCEPT ![s] = FALSE]

(* Mutant: releases the conversation only when a turn was accepted. *)
NotAcceptedHeld(s) ==
  LET c == home[s] IN
  /\ Release(s)
  /\ queue' = IF fromQueue[s] THEN [queue EXCEPT ![c] = Requeue(@, turnOf[s])] ELSE queue
  /\ UNCHANGED processing
  /\ UNCHANGED <<current, hydrating, slot, wake, running, controller, aborted, rendered,
                 observed, strayed>>

(* Mutant: puts the turn back into the queue that is displayed by now. *)
NotAcceptedHere(s) ==
  LET c == home[s] IN
  /\ Release(s)
  /\ queue' = IF fromQueue[s] THEN [queue EXCEPT ![current] = Requeue(@, turnOf[s])]
              ELSE queue
  /\ processing' = IF fromQueue[s] THEN processing \ {c} ELSE processing
  /\ UNCHANGED <<current, hydrating, slot, wake, running, controller, aborted, rendered,
                 observed, strayed>>

(* send() resolves to false.  A queued turn goes back to the head of its    *)
(* queue and the queue is not asked to go on.                               *)
NotAccepted(s) ==
  LET c == home[s] IN
  /\ Release(s)
  /\ queue' = IF fromQueue[s] THEN [queue EXCEPT ![c] = Requeue(@, turnOf[s])] ELSE queue
  /\ processing' = IF fromQueue[s] THEN processing \ {c} ELSE processing
  /\ UNCHANGED <<current, hydrating, slot, wake, running, controller, aborted, rendered,
                 observed, strayed>>

(* Mutant: a stopped turn returns before the flag is cleared. *)
FinishUnlessStopped(s) ==
  LET c == home[s] IN
  /\ Release(s)
  /\ controller' = [controller EXCEPT ![c] = None]
  /\ running' = IF s \in aborted THEN running ELSE running \ {c}
  /\ aborted' = aborted \ {s}
  /\ UNCHANGED <<current, hydrating, queue, slot, rendered, observed>>
  /\ RequestDrain({c}, IF fromQueue[s] THEN processing \ {c} ELSE processing)

(* The finally block of send() and, for a queued turn, the continuation     *)
(* that releases `processing` and asks for the next one.                    *)
Finish(s) ==
  LET c == home[s] IN
  /\ Release(s)
  /\ controller' = [controller EXCEPT ![c] = None]
  /\ running' = running \ {c}
  /\ aborted' = aborted \ {s}
  /\ UNCHANGED <<current, hydrating, queue, slot, rendered, observed>>
  /\ RequestDrain({c}, IF fromQueue[s] THEN processing \ {c} ELSE processing)

(* Where a failed turn's text goes: to composer or cache entry d. *)
GiveBack(t, d) ==
  /\ draft' = [draft EXCEPT ![d] = t]
  /\ strayed' = strayed \cup {u \in {t} : ConvOf[u] # d}
  /\ UNCHANGED fate

NotGivenBack(t, end) ==
  /\ fate' = [fate EXCEPT ![t] = end]
  /\ UNCHANGED <<draft, strayed>>

(* Mutant: writes to the draft cache only, also for the composer on screen. *)
FailTurnToCache(s) ==
  /\ Finish(s)
  /\ \/ s \in aborted /\ NotGivenBack(turnOf[s], "done")
     \/ /\ s \notin aborted
        /\ home[s] # Shown /\ draft[home[s]] = None
        /\ GiveBack(turnOf[s], home[s])
     \/ /\ s \notin aborted
        /\ ~(home[s] # Shown /\ draft[home[s]] = None)
        /\ UNCHANGED <<draft, strayed, fate>>

(* The catch block.  Unless it was stopped, a turn whose conversation was   *)
(* displayed at the commit goes to the composer on screen when that is      *)
(* empty, whichever conversation it is of by now; else the turn goes to its *)
(* conversation's cache entry.  An entry of the conversation on screen is   *)
(* overwritten when the user leaves it: the text is dropped.                *)
FailTurn(s) ==
  LET toScreen == visible[s] /\ draft[Shown] = None
      toCache  == ~toScreen /\ home[s] # Shown /\ draft[home[s]] = None
  IN /\ Finish(s)
     /\ \/ s \in aborted /\ NotGivenBack(turnOf[s], "done")
        \/ s \notin aborted /\ toScreen /\ GiveBack(turnOf[s], Shown)
        \/ s \notin aborted /\ toCache /\ GiveBack(turnOf[s], home[s])
        \/ s \notin aborted /\ ~toScreen /\ ~toCache /\ NotGivenBack(turnOf[s], "dropped")

ImportDone(s) ==
  LET t == turnOf[s] IN
  /\ Quiet /\ phase[s] = "importing"
  /\ \/ /\ t \in Command
        /\ phase' = [phase EXCEPT ![s] = "command"]
        /\ NotCommitted
     \/ /\ t \notin Command
        /\ phase' = [phase EXCEPT ![s] = "prompting"]
        /\ Commit(s, home[s], fromQueue[s])
  /\ UNCHANGED <<current, hydrating, queue, slot, processing, wake, turnOf, home,
                 fromQueue, strayed, aborted, rendered, observed, fate>>

ImportFailed(s) ==
  /\ Quiet /\ phase[s] = "importing"
  /\ NotAccepted(s)
  /\ UNCHANGED <<draft, fate>>

(* A command that expands to a prompt, or that the registry does not know:  *)
(* the turn goes on as a prompt.                                            *)
CommandExpands(s) ==
  /\ Quiet /\ phase[s] = "command" /\ "prompt" \in CommandResult
  /\ phase' = [phase EXCEPT ![s] = "prompting"]
  /\ Commit(s, home[s], fromQueue[s])
  /\ UNCHANGED <<current, hydrating, queue, slot, processing, wake, turnOf, home,
                 fromQueue, strayed, aborted, rendered, observed, fate>>

(* A control command has taken effect; send() still resolves to false. *)
CommandHandled(s) ==
  /\ Quiet /\ phase[s] = "command" /\ "control" \in CommandResult
  /\ draft' = IF fromQueue[s] THEN draft ELSE Cleared(home[s])
  /\ fate' = [fate EXCEPT ![turnOf[s]] = "done"]
  /\ NotAccepted(s)

CommandFailed(s) ==
  /\ Quiet /\ phase[s] = "command" /\ "failed" \in CommandResult
  /\ NotAccepted(s)
  /\ UNCHANGED <<draft, fate>>

(* The reply to promptSession *)
PromptAccepted(s) ==
  /\ Quiet /\ phase[s] = "prompting"
  /\ phase' = [phase EXCEPT ![s] = "observing"]
  /\ UNCHANGED <<current, hydrating, draft, queue, slot, processing, wake, turnOf, home,
                 fromQueue, visible, strayed, running, controller, aborted, rendered,
                 observed, fate>>

PromptFailed(s) == Quiet /\ phase[s] = "prompting" /\ FailTurn(s)

(* The poll loop sees a terminal snapshot, or the abort (it then cancels    *)
(* the session first); the finished turn is persisted.                      *)
TurnEnds(s) ==
  /\ Quiet /\ phase[s] = "observing"
  /\ phase' = [phase EXCEPT ![s] = "persisting"]
  /\ UNCHANGED <<current, hydrating, draft, queue, slot, processing, wake, turnOf, home,
                 fromQueue, visible, strayed, running, controller, aborted, rendered,
                 observed, fate>>

(* The snapshot says error, or it cannot be fetched. *)
TurnFails(s) == Quiet /\ phase[s] = "observing" /\ FailTurn(s)

Persisted(s) ==
  /\ Quiet /\ phase[s] = "persisting"
  /\ fate' = [fate EXCEPT ![turnOf[s]] = "done"]
  /\ UNCHANGED <<draft, strayed>>
  /\ Finish(s)

-----------------------------------------------------------------------------
(* The queue: the continuation of a drain request *)

(* The continuation finds the conversation running, or send() refuses       *)
(* before its first await: an import is under way for any conversation, or  *)
(* this one is being hydrated.  The turn returns to the head, so the queue  *)
(* is as it was.                                                            *)
Refused(c) == c \in running \/ Importing \/ hydrating = c

DrainRefused(c) ==
  /\ c \in wake
  /\ Refused(c)
  /\ wake' = wake \ {c}
  /\ processing' = processing \ {c}
  /\ UNCHANGED <<current, hydrating, draft, queue, slot, phase, turnOf, home, fromQueue,
                 visible, strayed, running, controller, aborted, rendered, observed,
                 fate>>

DrainTakes(c, s) ==
  /\ c \in wake
  /\ ~Refused(c)
  /\ wake' = wake \ {c}
  /\ queue' = [queue EXCEPT ![c] = Tail(@)]
  /\ EnterSend(s, c, Head(queue[c]), TRUE)
  /\ UNCHANGED <<current, hydrating, slot, processing, aborted, rendered, observed,
                 fate, strayed>>

(* Mutant: asks the conversations that started to run. *)
RunningEffectStarts ==
  /\ Quiet
  /\ rendered # running
  /\ rendered' = running
  /\ UNCHANGED <<current, hydrating, draft, queue, slot, phase, turnOf, home, fromQueue,
                 visible, strayed, running, controller, aborted, observed, fate>>
  /\ RequestDrain(running \ rendered, processing)

(* The effect on the rendered running set: every conversation that left it  *)
(* since the last render is asked to drain.                                 *)
RunningEffect ==
  /\ Quiet
  /\ rendered # running
  /\ rendered' = running
  /\ UNCHANGED <<current, hydrating, draft, queue, slot, phase, turnOf, home, fromQueue,
                 visible, strayed, running, controller, aborted, observed, fate>>
  /\ RequestDrain(rendered \ running, processing)

-----------------------------------------------------------------------------
(* The user, on the conversation that is displayed *)

ComposerChanged(t) == draft' = [draft EXCEPT ![current] = t]

Compose(t) ==
  /\ Quiet /\ InputEnabled
  /\ ConvOf[t] = current /\ draft[current] = None
  /\ fate[t] = "new"
  /\ ComposerChanged(t)
  /\ fate' = [fate EXCEPT ![t] = "live"]
  /\ UNCHANGED <<current, hydrating, queue, slot, processing, wake, phase, turnOf, home,
                 fromQueue, visible, strayed, running, controller, aborted, rendered,
                 observed>>

DiscardDraft ==
  /\ Quiet /\ InputEnabled
  /\ draft[current] # None
  /\ fate' = [fate EXCEPT ![draft[current]] = "done"]
  /\ ComposerChanged(None)
  /\ UNCHANGED <<current, hydrating, queue, slot, processing, wake, phase, turnOf, home,
                 fromQueue, visible, strayed, running, controller, aborted, rendered,
                 observed>>

(* handleSend with the edit slot open on this conversation *)
SendEdited ==
  /\ Quiet /\ InputEnabled
  /\ draft[current] # None /\ slot.conv = current
  /\ queue' = [queue EXCEPT ![current] = InsertAtSlot(@, draft[current], slot)]
  /\ slot' = NoSlot
  /\ ComposerChanged(None)
  /\ UNCHANGED <<current, hydrating, phase, turnOf, home, fromQueue, visible, strayed,
                 running, controller, aborted, rendered, observed, fate>>
  /\ RequestDrain({current}, processing)

(* Mutant: leaves the queued turn in the composer. *)
SendQueuedKeepsDraft ==
  /\ Quiet /\ InputEnabled
  /\ draft[current] # None /\ slot.conv # current
  /\ current \in running
  /\ queue' = [queue EXCEPT ![current] = Enqueue(@, draft[current])]
  /\ UNCHANGED draft
  /\ UNCHANGED <<current, hydrating, slot, processing, wake, phase, turnOf, home,
                 fromQueue, visible, strayed, running, controller, aborted, rendered,
                 observed, fate>>

(* handleSend while the conversation runs *)
SendQueued ==
  /\ Quiet /\ InputEnabled
  /\ draft[current] # None /\ slot.conv # current
  /\ current \in running
  /\ queue' = [queue EXCEPT ![current] = Enqueue(@, draft[current])]
  /\ ComposerChanged(None)
  /\ UNCHANGED <<current, hydrating, slot, processing, wake, phase, turnOf, home,
                 fromQueue, visible, strayed, running, controller, aborted, rendered,
                 observed, fate>>

(* Bound: identities are kept free for the drains that may need one. *)
RoomForDirect ==
  Cardinality({s \in Send : phase[s] = "off"}) > Cardinality(Conv \ processing)

(* Mutant: does not look whether the conversation is running. *)
SendDirectUnchecked(s) ==
  /\ Quiet /\ InputEnabled /\ RoomForDirect
  /\ draft[current] # None /\ slot.conv # current
  /\ EnterSend(s, current, draft[current], FALSE)
  /\ UNCHANGED <<current, hydrating, queue, slot, processing, wake, aborted, rendered,
                 observed, fate, strayed>>

(* handleSend otherwise: send() is called directly *)
SendDirect(s) ==
  /\ Quiet /\ InputEnabled /\ RoomForDirect
  /\ draft[current] # None /\ slot.conv # current
  /\ current \notin running
  /\ EnterSend(s, current, draft[current], FALSE)
  /\ UNCHANGED <<current, hydrating, queue, slot, processing, wake, aborted, rendered,
                 observed, fate, strayed>>

(* Mutant: overwrites the draft in the composer. *)
EditQueuedOverDraft(t) ==
  /\ Quiet /\ hydrating = None
  /\ Queued(current, t)
  /\ slot' = SlotFor(current, queue[current], t)
  /\ queue' = [queue EXCEPT ![current] = Without(@, t)]
  /\ ComposerChanged(t)
  /\ UNCHANGED <<current, hydrating, processing, wake, phase, turnOf, home, fromQueue,
                 visible, strayed, running, controller, aborted, rendered, observed,
                 fate>>

(* editQueuedTurn: the composer's own draft is queued first, at the open    *)
(* slot if that is this conversation's, else at the end; then the turn      *)
(* leaves the queue for the composer.                                       *)
EditQueued(t) ==
  LET q == IF draft[current] = None THEN queue[current]
           ELSE IF slot.conv = current THEN InsertAtSlot(queue[current], draft[current], slot)
           ELSE Enqueue(queue[current], draft[current])
  IN /\ Quiet /\ hydrating = None
     /\ Queued(current, t)
     /\ slot' = SlotFor(current, q, t)
     /\ queue' = [queue EXCEPT ![current] = Without(q, t)]
     /\ ComposerChanged(t)
     /\ UNCHANGED <<current, hydrating, processing, wake, phase, turnOf, home,
                    fromQueue, visible, strayed, running, controller, aborted, rendered,
                    observed, fate>>

RemoveQueued(t) ==
  /\ Quiet
  /\ Queued(current, t)
  /\ queue' = [queue EXCEPT ![current] = Without(@, t)]
  /\ fate' = [fate EXCEPT ![t] = "done"]
  /\ UNCHANGED <<current, hydrating, draft, slot, processing, wake, phase, turnOf, home,
                 fromQueue, visible, strayed, running, controller, aborted, rendered,
                 observed>>

MoveQueuedUp(t) ==
  /\ Quiet
  /\ Queued(current, t)
  /\ IndexOf(queue[current], t) > 1   \* otherwise nothing changes
  /\ queue' = [queue EXCEPT ![current] = MoveUp(@, t)]
  /\ UNCHANGED <<current, hydrating, draft, slot, processing, wake, phase, turnOf, home,
                 fromQueue, visible, strayed, running, controller, aborted, rendered,
                 observed, fate>>

(* runQueuedTurnNow: to the head; abort the run, or drain if there is none. *)
RunNow(t) ==
  /\ Quiet
  /\ Queued(current, t)
  /\ queue' = [queue EXCEPT ![current] = Promote(@, t)]
  /\ UNCHANGED <<current, hydrating, draft, slot, phase, turnOf, home, fromQueue,
                 visible, strayed, running, controller, rendered, observed, fate>>
  /\ \/ /\ current \in running
        /\ AbortRun(current)
        /\ UNCHANGED <<processing, wake>>
     \/ /\ current \notin running
        /\ UNCHANGED aborted
        /\ RequestDrain({current}, processing)

(* stopSending with nothing queued; with queued turns it is RunNow of the first. *)
Stop ==
  /\ Quiet
  /\ current \in running /\ queue[current] = <<>>
  /\ AbortRun(current)
  /\ UNCHANGED <<current, hydrating, draft, queue, slot, processing, wake, phase,
                 turnOf, home, fromQueue, visible, strayed, running, controller,
                 rendered, observed, fate>>

(* openInitial: the conversation hydrates; it is displayed when the bridge   *)
(* answers, or before that from the local history (OpenPainted).             *)
OpenConversation(c) ==
  /\ Quiet
  /\ c \in Openable /\ hydrating # c
  /\ hydrating' = c
  /\ UNCHANGED <<current, draft, queue, slot, processing, wake, phase, turnOf, home,
                 fromQueue, visible, strayed, running, controller, aborted, rendered,
                 observed, fate>>

OpenPainted ==
  /\ Quiet
  /\ hydrating \notin {None, current}
  /\ current' = hydrating
  /\ UNCHANGED <<hydrating, draft, queue, slot, processing, wake, phase, turnOf, home,
                 fromQueue, visible, strayed, running, controller, aborted, rendered,
                 observed, fate>>

(* Mutant: clears the id before it is read. *)
OpenedClearedFirst ==
  /\ Quiet
  /\ hydrating # None
  /\ hydrating' = None
  /\ current' = hydrating'
  /\ UNCHANGED <<draft, queue, slot, processing, wake, phase, turnOf, home, fromQueue,
                 visible, strayed, running, controller, aborted, rendered, observed,
                 fate>>

Opened ==
  /\ Quiet
  /\ hydrating # None
  /\ current' = hydrating
  /\ hydrating' = None
  /\ UNCHANGED <<draft, queue, slot, processing, wake, phase, turnOf, home, fromQueue,
                 visible, strayed, running, controller, aborted, rendered, observed,
                 fate>>

-----------------------------------------------------------------------------
(* Recovered turns: the sidebar reports a session running that no local     *)
(* send() drives; an observer follows it.  Its end only clears the flags:   *)
(* the effect is what drains the queue.  It ends on a reply of the bridge,   *)
(* by which time React has rendered its start.  A settled observer stays as  *)
(* a tombstone until the sidebar reports the session idle.                   *)
Recover(c) ==
  /\ Quiet
  /\ c \in Recoverable
  /\ observed[c] = "none" /\ controller[c] = None
  /\ observed' = [observed EXCEPT ![c] = "active"]
  /\ controller' = [controller EXCEPT ![c] = Observer]
  /\ running' = running \cup {c}
  /\ UNCHANGED <<current, hydrating, draft, queue, slot, processing, wake, phase,
                 turnOf, home, fromQueue, visible, strayed, aborted, rendered, fate>>

(* Mutant: the ended observer stays registered. *)
RecoveredEndsRegistered(c) ==
  /\ Quiet
  /\ observed[c] = "active" /\ c \in rendered
  /\ observed' = [observed EXCEPT ![c] = "settled"]
  /\ UNCHANGED controller
  /\ running' = running \ {c}
  /\ UNCHANGED <<current, hydrating, draft, queue, slot, processing, wake, phase,
                 turnOf, home, fromQueue, visible, strayed, aborted, rendered, fate>>

RecoveredEnds(c) ==
  /\ Quiet
  /\ observed[c] = "active" /\ c \in rendered
  /\ observed' = [observed EXCEPT ![c] = "settled"]
  /\ controller' = [controller EXCEPT ![c] = None]
  /\ running' = running \ {c}
  /\ UNCHANGED <<current, hydrating, draft, queue, slot, processing, wake, phase,
                 turnOf, home, fromQueue, visible, strayed, aborted, rendered, fate>>

(* The sidebar's running set, refreshed by a request of its own, no longer   *)
(* has the session: the tombstone goes, or an observer still at work is      *)
(* aborted and forgotten, and its end will not clear the flags.              *)
SidebarIdle(c) ==
  /\ Quiet
  /\ observed[c] = "settled" \/ (observed[c] = "active" /\ c \in EarlyIdle)
  /\ observed' = [observed EXCEPT ![c] = "none"]
  /\ UNCHANGED <<current, hydrating, draft, queue, slot, processing, wake, phase,
                 turnOf, home, fromQueue, visible, strayed, running, controller,
                 aborted, rendered, fate>>

-----------------------------------------------------------------------------
SendStep(s) ==
  \/ ImportDone(s) \/ ImportFailed(s)
  \/ CommandExpands(s) \/ CommandHandled(s) \/ CommandFailed(s)
  \/ PromptAccepted(s) \/ PromptFailed(s)
  \/ TurnEnds(s) \/ TurnFails(s)
  \/ Persisted(s)

DrainStep(c) == DrainRefused(c) \/ \E s \in Send : DrainTakes(c, s)

(* What happens without the user *)
SystemStep ==
  \/ \E s \in Send : SendStep(s)
  \/ \E c \in Conv : DrainStep(c) \/ Recover(c) \/ RecoveredEnds(c) \/ SidebarIdle(c)
  \/ RunningEffect
  \/ OpenPainted \/ Opened

UserStep ==
  \/ \E t \in Turn : \/ Compose(t) \/ EditQueued(t) \/ RemoveQueued(t)
                     \/ MoveQueuedUp(t) \/ RunNow(t)
  \/ \E s \in Send : SendDirect(s)
  \/ \E c \in Conv : OpenConversation(c)
  \/ DiscardDraft \/ SendEdited \/ SendQueued \/ Stop

Next == SystemStep \/ UserStep

Spec == Init /\ [][Next]_vars

(* Continuations run; tasks run however often continuations run between them *)
(* (so strongly fair: Quiet keeps turning them off); requests are answered    *)
(* and GenericAgent sessions reach a terminal status (the ways to leave a     *)
(* phase are one action for this purpose: an error is an answer).             *)
Fairness ==
  /\ \A c \in Conv : WF_vars(DrainStep(c)) /\ SF_vars(RecoveredEnds(c))
  /\ \A s \in Send : SF_vars(SendStep(s))
  /\ SF_vars(RunningEffect)
  /\ SF_vars(Opened)

FairSpec == Spec /\ Fairness

-----------------------------------------------------------------------------
(* Safety *)

Draining(c, s) == phase[s] # "off" /\ fromQueue[s] /\ home[s] = c

(* The processing set is exactly the conversations with a drain pending or   *)
(* in flight, and there is at most one: a forgotten release would stop the   *)
(* queue for good, an early one would start a second drain.                  *)
OneDrainPerConversation ==
  \A c \in Conv :
    /\ c \in processing <=> c \in wake \/ \E s \in Send : Draining(c, s)
    /\ c \in wake => \A s \in Send : ~Draining(c, s)
    /\ \A s1, s2 \in Send : Draining(c, s1) /\ Draining(c, s2) => s1 = s2

(* A turn that is in flight is the one its conversation counts as running    *)
(* and whose controller Stop would abort; so there is one at a time.         *)
StopReachesTurn ==
  \A s \in Send : phase[s] \in Committed =>
    home[s] \in running /\ controller[home[s]] = s

(* While a conversation runs there is a controller for Stop to abort, and    *)
(* an idle one has none left from an earlier run.                            *)
RunningHasController == \A c \in Conv : c \in running <=> controller[c] # None

(* Queues, composers and calls are not mixed up between conversations: each  *)
(* holds turns of its own and turns whose text a failure put in another      *)
(* conversation's composer, and nothing else does; none is queued twice; a    *)
(* call at work has its turn and its conversation; and a drain that was       *)
(* requested still finds a turn when its continuation runs.                   *)
OwnTurn(c) == {t \in Turn : ConvOf[t] = c}

QueuesOwned ==
  /\ \A c \in Conv : /\ queue[c] \in Seq(OwnTurn(c) \cup strayed)
                     /\ IsInjective(queue[c])
                     /\ draft[c] \in OwnTurn(c) \cup strayed \cup {None}
                     /\ c \in wake => queue[c] # <<>>
  /\ \A s \in Send : /\ phase[s] # "off" <=> turnOf[s] # None
                     /\ phase[s] # "off" <=> home[s] # None
                     /\ phase[s] # "off" => turnOf[s] \in OwnTurn(home[s]) \cup strayed

(* Where a turn is: composers (or their cache entries), queues and calls. *)
InComposers(t) == {<<"composer", c>> : c \in {d \in Conv : draft[d] = t}}
InQueues(t)    == {<<"queue", c>> : c \in {d \in Conv : Queued(d, t)}}
InCalls(t)     == {<<"call", s>> : s \in {z \in Send : phase[z] # "off" /\ turnOf[z] = t}}
Places(t)      == InComposers(t) \cup InQueues(t) \cup InCalls(t)

(* A turn the user wrote and nobody discarded, stopped or finished is        *)
(* somewhere, in whichever conversation: in a composer, in a queue or in a    *)
(* send() call.  Excepted is a failed turn that finds no empty place          *)
(* ("dropped": the composer on screen holds another text, or shows the        *)
(* turn's conversation which it did not when the turn was sent).              *)
NoTurnLost == \A t \in Turn : fate[t] = "live" => Places(t) # {}

(* ... and in one place only: it is not queued and sent, queued or sent for   *)
(* two conversations, or sent twice, and one that is over does not come back. *)
NoTurnTwice ==
  \A t \in Turn : /\ \A p, q \in Places(t) : p = q
                  /\ fate[t] # "live" => Places(t) = {}

(* Not so: the edit slot stays with its conversation until the user, there,   *)
(* restores the edited turn or takes out another one. There is one slot for   *)
(* the page, so an edit in a second conversation forgets that of the first.   *)
EditSlotKept == [][slot.conv # None => slot' = slot \/ slot.conv = current]_vars

-----------------------------------------------------------------------------
(* Liveness *)

(* FIFO drain on run end: a conversation that is idle and has turns queued   *)
(* starts to run again, unless the user empties the queue or holds its edit   *)
(* slot open.                                                                 *)
QueueDrains ==
  \A c \in Conv : queue[c] # <<>> /\ c \notin running ~>
                  queue[c] = <<>> \/ c \in running \/ slot.conv = c

(* A running conversation becomes idle, whatever the turn comes to, so its   *)
(* composer sends again.                                                     *)
RunEnds == \A c \in Conv : c \in running ~> c \notin running
=============================================================================
