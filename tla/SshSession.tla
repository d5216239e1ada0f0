----------------------------- MODULE SshSession -----------------------------
(***************************************************************************)
(* runtime/terminal: one SSH session, from its first connection to its      *)
(* close.  Every connection has an I/O task and a writer task; whoever       *)
(* holds the reconnect flag, a runner for a lost connection or the user's    *)
(* ssh_reconnect, replaces the connection; close() runs on the main thread.  *)
(* They share the slots of SshSessionRuntime, the record and the tabs, each  *)
(* behind a lock of its own, and the webview keeps a row from the events.    *)
(* A step is what a task does between two points where another can run; a    *)
(* broadcast reaches the row in the step that sends it.                      *)
(***************************************************************************)
EXTENDS Absent, Naturals

CONSTANTS
  MaxConnections,  \* bound: how often a connection can be made
  MaxAttempts,     \* SSH_RECONNECT_MAX_ATTEMPTS
  Kind             \* the kinds of tab the session allows

ASSUME SshAssumption ==
  /\ MaxConnections \in Nat \ {0} /\ MaxAttempts \in Nat \ {0}
  /\ None \notin Nat

Connection == 1 .. MaxConnections
Manual == 0   \* the holder of the flag that is a call of ssh_reconnect

VARIABLES
  registered,  \* the registry has the session
  record,      \* its status, and whether it counts as running
  tabs,        \* the kinds of its open tabs
  closing, current, sshHandle, senders,  \* SshSessionRuntime
  runner,      \* who set reconnect_runner_active, or None
  step,        \* where that holder is
  attempt,     \* its attempt
  waiting,     \* connections whose runner was spawned and has not begun
  signal,      \* connections whose shutdown channel holds a message
  link,        \* [Connection -> the state of the transport]
  io,          \* [Connection -> where run_ssh_session_io is]
  writer,      \* [Connection -> where its writer task is]
  closeAt,     \* where close() is
  row,         \* the status the webview's list shows, or None
  raced        \* history: an end was dropped, or handled too late

runtime == <<closing, current, sshHandle, senders>>
reconnect == <<runner, step, attempt>>
tasks == <<signal, link, io, writer>>
shared == <<registered, record, tabs, row>>
sshVars == <<shared, runtime, reconnect, waiting, tasks, closeAt, raced>>

Status == {"connected", "reconnecting", "disconnected"}
Step == {"idle", "check", "clear", "teardown", "attempt", "mark", "wait", "reconnect",
         "connecting", "recheck", "revive", "failed", "release"}
Io == {"none", "reading", "ended", "clear", "disconnect", "done"}
Writer == {"none", "running", "disconnect", "quiet", "failed"}

(* finish_create_ssh_session: the first connection is in place and read from. *)
SshInit ==
  /\ registered = TRUE
  /\ record = [status |-> "connected", running |-> TRUE]
  /\ tabs = {} /\ row = "connected"
  /\ closing = FALSE /\ current = 1 /\ sshHandle = 1 /\ senders = 1
  /\ runner = None /\ step = "idle" /\ attempt = 0
  /\ waiting = {} /\ signal = {}
  /\ link = [c \in Connection |-> IF c = 1 THEN "open" ELSE "none"]
  /\ io = [c \in Connection |-> IF c = 1 THEN "reading" ELSE "none"]
  /\ writer = [c \in Connection |-> IF c = 1 THEN "running" ELSE "none"]
  /\ closeAt = "open"
  /\ raced = FALSE

(* applyTerminalEventToSessions: any event but "closed" replaces or adds it. *)
Broadcast(status) == row' = status

(* clear_connection_if_current, past its test. *)
ClearConnection == sshHandle' = None /\ senders' = None

(* Mutant: the tabs are left to the next list. *)
MarkDisconnectedKeepsTabs ==
  /\ record' = [status |-> "disconnected", running |-> FALSE]
  /\ Broadcast("disconnected")
  /\ UNCHANGED <<registered, tabs>>

(* mark_ssh_disconnected: under the lock of the tabs. *)
MarkDisconnected ==
  /\ record' = [status |-> "disconnected", running |-> FALSE]
  /\ tabs' = {}
  /\ Broadcast("disconnected")
  /\ UNCHANGED registered

-----------------------------------------------------------------------------
(* Commands on the main thread: the tabs, and close(). *)

(* ssh_terminal_tab_open: the session is validated under the lock of the tabs. *)
OpenTab(kind) ==
  /\ registered /\ record.status # "disconnected"
  /\ tabs' = tabs \cup {kind}
  /\ UNCHANGED <<registered, record, row, runtime, reconnect, waiting, tasks, closeAt, raced>>

CloseTab(kind) ==
  /\ kind \in tabs
  /\ tabs' = tabs \ {kind}
  /\ UNCHANGED <<registered, record, row, runtime, reconnect, waiting, tasks, closeAt, raced>>

(* terminate_terminal_entry: closing first, then the shutdown sender. *)
CloseBegin ==
  /\ closeAt = "open"
  /\ closing' = TRUE
  /\ closeAt' = "signal"
  /\ UNCHANGED <<shared, current, sshHandle, senders, reconnect, waiting, tasks, raced>>

CloseSignal ==
  /\ closeAt = "signal"
  /\ signal' = signal \cup ({senders} \ {None})
  /\ closeAt' = "remove"
  /\ UNCHANGED <<shared, runtime, reconnect, waiting, link, io, writer, raced>>

(* Under the lock of the tabs: mark_finished with its event, remove, prune. *)
CloseRemove ==
  /\ closeAt = "remove"
  /\ record' = [record EXCEPT !.running = FALSE]
  /\ Broadcast(record.status)
  /\ registered' = FALSE
  /\ tabs' = {}
  /\ closeAt' = "announce"
  /\ UNCHANGED <<runtime, reconnect, waiting, tasks, raced>>

CloseAnnounce ==
  /\ closeAt = "announce"
  /\ row' = None
  /\ closeAt' = "done"
  /\ UNCHANGED <<registered, record, tabs, runtime, reconnect, waiting, tasks, raced>>

-----------------------------------------------------------------------------
(* The network. *)

Lose(c) ==
  /\ link[c] = "open"
  /\ link' = [link EXCEPT ![c] = "down"]
  /\ UNCHANGED <<shared, runtime, reconnect, waiting, signal, io, writer, closeAt, raced>>

(* The transport of a connection nothing refers to any more goes down. *)
Dropped(c) ==
  /\ link[c] = "open" /\ sshHandle # c
  /\ io[c] \notin {"none", "reading"} /\ writer[c] \notin {"running", "disconnect"}
  /\ link' = [link EXCEPT ![c] = "down"]
  /\ UNCHANGED <<shared, runtime, reconnect, waiting, signal, io, writer, closeAt, raced>>

-----------------------------------------------------------------------------
(* The writer task of a connection. *)

(* shutdown_rx.recv() returns for a message and for a dropped sender alike. *)
WriterWakes(c) ==
  /\ writer[c] = "running" /\ (c \in signal \/ senders # c)
  /\ writer' = [writer EXCEPT ![c] = "disconnect"]
  /\ UNCHANGED <<shared, runtime, reconnect, waiting, signal, link, io, closeAt, raced>>

(* It disconnects the handle that is in the slot by then. *)
WriterDisconnects(c) ==
  /\ writer[c] = "disconnect"
  /\ link' = [d \in Connection |-> IF d = sshHandle THEN "down" ELSE link[d]]
  /\ writer' = [writer EXCEPT ![c] = "quiet"]
  /\ UNCHANGED <<shared, runtime, reconnect, waiting, signal, io, closeAt, raced>>

(* input_rx.recv() returned None, or a write failed. *)
WriterEnds(c) ==
  /\ writer[c] = "running"
  /\ \/ senders # c /\ writer' = [writer EXCEPT ![c] = "quiet"]
     \/ link[c] = "down" /\ writer' = [writer EXCEPT ![c] = "failed"]
  /\ UNCHANGED <<shared, runtime, reconnect, waiting, signal, link, io, closeAt, raced>>

-----------------------------------------------------------------------------
(* The I/O task of a connection: run_ssh_session_io and what follows.        *)

IoEnds(c, place) ==
  /\ io[c] = "reading"
  /\ io' = [io EXCEPT ![c] = IF closing THEN "done" ELSE place]
  /\ UNCHANGED <<shared, runtime, reconnect, signal, link, writer, closeAt, raced>>

SpawnRunner(c) == waiting' = IF closing THEN waiting ELSE waiting \cup {c}

(* finish_ssh_session_io: the shell ended, or the channel did while the      *)
(* connection still answers.                                                 *)
ShellExits(c) ==
  /\ link[c] = "open"
  /\ IoEnds(c, "ended")
  /\ UNCHANGED waiting

(* Mutant: a connection that is gone is told like a shutdown. *)
ConnectionLostQuietly(c) ==
  /\ link[c] = "down" \/ writer[c] = "failed"
  /\ IoEnds(c, "done")
  /\ UNCHANGED waiting

(* The connection is gone, or a write failed. *)
ConnectionLost(c) ==
  /\ link[c] = "down" \/ writer[c] = "failed"
  /\ IoEnds(c, "done")
  /\ SpawnRunner(c)

(* The writer was told to stop, or nobody can send to it any more. *)
WriterStopped(c) ==
  /\ writer[c] = "quiet"
  /\ IoEnds(c, "done")
  /\ UNCHANGED waiting

(* mark_ssh_shell_ended does not take the flag: it tests, clears and marks;  *)
(* what another connection brings meanwhile may be cleared or not.           *)
ShellEnded(c) ==
  /\ io[c] = "ended"
  /\ io' = [io EXCEPT ![c] = IF current # c \/ closing THEN "done" ELSE "clear"]
  /\ UNCHANGED <<shared, runtime, reconnect, waiting, signal, link, writer, closeAt, raced>>

ShellEndedClears(c) ==
  /\ io[c] = "clear"
  /\ \/ ClearConnection
     \/ current # c /\ UNCHANGED <<sshHandle, senders>>
  /\ io' = [io EXCEPT ![c] = "disconnect"]
  /\ raced' = (raced \/ current # c)
  /\ UNCHANGED <<shared, closing, current, reconnect, waiting, signal, link, writer, closeAt>>

ShellEndedMarks(c) ==
  /\ io[c] = "disconnect"
  /\ IF registered THEN MarkDisconnected ELSE UNCHANGED shared
  /\ io' = [io EXCEPT ![c] = "done"]
  /\ raced' = (raced \/ current # c)
  /\ UNCHANGED <<runtime, reconnect, waiting, signal, link, writer, closeAt>>

-----------------------------------------------------------------------------
(* Who holds the reconnect flag: handle_ssh_unexpected_disconnect for a lost *)
(* connection, or ssh_reconnect; reconnect_ssh_session in both.              *)

Release == runner' = None /\ step' = "idle" /\ attempt' = 0
To(place) == step' = place /\ UNCHANGED <<runner, attempt>>

(* A runner that finds the flag taken returns at once. *)
Begin(c) ==
  /\ c \in waiting
  /\ waiting' = waiting \ {c}
  /\ IF runner = None
     THEN runner' = c /\ step' = "check" /\ UNCHANGED <<attempt, raced>>
     ELSE raced' = (raced \/ current = c) /\ UNCHANGED reconnect
  /\ UNCHANGED <<shared, runtime, tasks, closeAt>>

Check ==
  /\ step = "check"
  /\ IF current # runner THEN Release ELSE To("clear")
  /\ UNCHANGED <<shared, runtime, waiting, tasks, closeAt, raced>>

Clear ==
  /\ step = "clear"
  /\ ClearConnection
  /\ IF closing \/ ~registered
     THEN Release
     ELSE step' = "attempt" /\ attempt' = 1 /\ UNCHANGED runner
  /\ UNCHANGED <<shared, closing, current, waiting, tasks, closeAt, raced>>

(* ssh_reconnect: refused while closing or while the flag is taken. *)
ReconnectCall ==
  /\ registered /\ ~closing /\ runner = None
  /\ runner' = Manual /\ step' = "teardown" /\ attempt' = 1
  /\ UNCHANGED <<shared, runtime, waiting, tasks, closeAt, raced>>

Teardown ==
  /\ step = "teardown"
  /\ link' = [c \in Connection |-> IF c = sshHandle THEN "down" ELSE link[c]]
  /\ ClearConnection
  /\ To("mark")
  /\ UNCHANGED <<shared, closing, current, waiting, signal, io, writer, closeAt, raced>>

(* The two tests of closing around the delay, which give up silently. *)
Proceed ==
  /\ step \in {"attempt", "wait"}
  /\ IF closing THEN Release ELSE To(IF step = "attempt" THEN "mark" ELSE "reconnect")
  /\ UNCHANGED <<shared, runtime, waiting, tasks, closeAt, raced>>

MarkReconnecting ==
  /\ step = "mark"
  /\ record' = [status |-> "reconnecting", running |-> FALSE]
  /\ Broadcast("reconnecting")
  /\ To(IF runner = Manual THEN "reconnect" ELSE "wait")
  /\ UNCHANGED <<registered, tabs, runtime, waiting, tasks, closeAt, raced>>

ReconnectStart ==
  /\ step = "reconnect"
  /\ To(IF closing THEN "failed" ELSE "connecting")
  /\ UNCHANGED <<shared, runtime, waiting, tasks, closeAt, raced>>

(* No connection, no authentication, no shell, or the time is over. *)
ConnectFails ==
  /\ step = "connecting"
  /\ To("failed")
  /\ UNCHANGED <<shared, runtime, waiting, tasks, closeAt, raced>>

(* install_connection *)
Connect ==
  /\ step = "connecting" /\ current < MaxConnections
  /\ current' = current + 1
  /\ sshHandle' = current + 1 /\ senders' = current + 1
  /\ link' = [link EXCEPT ![current + 1] = "open"]
  /\ To("recheck")
  /\ UNCHANGED <<shared, closing, waiting, signal, io, writer, closeAt, raced>>

(* The time is over while install_connection waits for the lock of the slot. *)
InstallInterrupted ==
  /\ step = "connecting" /\ current < MaxConnections
  /\ current' = current + 1
  /\ To("failed")
  /\ UNCHANGED <<shared, closing, sshHandle, senders, waiting, tasks, closeAt, raced>>

(* Mutant: the second test of closing is left out. *)
RecheckSkipped ==
  /\ step = "recheck"
  /\ To("revive")
  /\ UNCHANGED <<shared, runtime, waiting, tasks, closeAt, raced>>

(* A close() that missed the new handle is made good. *)
Recheck ==
  /\ step = "recheck"
  /\ IF closing
     THEN /\ link' = [link EXCEPT ![current] = "down"]
          /\ ClearConnection
          /\ To("failed")
     ELSE To("revive") /\ UNCHANGED <<link, sshHandle, senders>>
  /\ UNCHANGED <<shared, closing, current, waiting, signal, io, writer, closeAt, raced>>

(* The record, the event and the tasks; the flag is still held. *)
Revive ==
  /\ step = "revive"
  /\ record' = [status |-> "connected", running |-> TRUE]
  /\ Broadcast("connected")
  /\ io' = [io EXCEPT ![current] = "reading"]
  /\ writer' = [writer EXCEPT ![current] = "running"]
  /\ To("release")
  /\ UNCHANGED <<registered, tabs, runtime, waiting, signal, link, closeAt, raced>>

(* The next attempt of a runner; after the last, and after the user's one, *)
(* the session is disconnected, whether or not it has been closed.         *)
AttemptFailed ==
  /\ step = "failed"
  /\ IF runner # Manual /\ attempt < MaxAttempts
     THEN /\ attempt' = attempt + 1 /\ step' = "attempt"
          /\ UNCHANGED <<runner, shared>>
     ELSE To("release") /\ MarkDisconnected
  /\ UNCHANGED <<runtime, waiting, tasks, closeAt, raced>>

FinishRunner ==
  /\ step = "release"
  /\ Release
  /\ UNCHANGED <<shared, runtime, waiting, tasks, closeAt, raced>>

-----------------------------------------------------------------------------
User == CloseBegin \/ ReconnectCall \/ (\E kind \in Kind : OpenTab(kind) \/ CloseTab(kind))
Network == \E c \in Connection : Lose(c) \/ ShellExits(c)
Close == CloseSignal \/ CloseRemove \/ CloseAnnounce
Holder ==
  \/ Check \/ Clear \/ Teardown \/ Proceed \/ MarkReconnecting \/ ReconnectStart
  \/ ConnectFails \/ Connect \/ InstallInterrupted \/ Recheck \/ Revive \/ AttemptFailed \/ FinishRunner
WriterTask(c) == WriterWakes(c) \/ WriterDisconnects(c) \/ WriterEnds(c)
IoTask(c) ==
  \/ ConnectionLost(c) \/ WriterStopped(c)
  \/ ShellEnded(c) \/ ShellEndedClears(c) \/ ShellEndedMarks(c)

SshNext ==
  \/ User \/ Network \/ Close \/ Holder
  \/ \E c \in Connection : Dropped(c) \/ WriterTask(c) \/ IoTask(c) \/ Begin(c)

SshSpec == SshInit /\ [][SshNext]_sshVars

(* The runtime runs every task that can run, and an attempt ends within its  *)
(* time limit; nobody has to close, to reconnect or to lose a connection.    *)
SshFairSpec ==
  /\ SshSpec
  /\ WF_sshVars(Close) /\ WF_sshVars(Holder)
  /\ \A c \in Connection :
       WF_sshVars(Dropped(c)) /\ WF_sshVars(WriterTask(c)) /\ WF_sshVars(IoTask(c)) /\ WF_sshVars(Begin(c))

-----------------------------------------------------------------------------
TypeOK ==
  /\ registered \in BOOLEAN /\ closing \in BOOLEAN /\ raced \in BOOLEAN
  /\ record \in [status : Status, running : BOOLEAN]
  /\ tabs \subseteq Kind /\ row \in Status \cup {None}
  /\ current \in Connection
  /\ sshHandle \in Connection \cup {None} /\ senders \in Connection \cup {None}
  /\ runner \in Connection \cup {Manual, None} /\ step \in Step
  /\ attempt \in 0 .. MaxAttempts
  /\ waiting \subseteq Connection /\ signal \subseteq Connection
  /\ link \in [Connection -> {"none", "open", "down"}]
  /\ io \in [Connection -> Io] /\ writer \in [Connection -> Writer]
  /\ closeAt \in {"open", "signal", "remove", "announce", "done"}

(* A tab belongs to a session that is registered and not disconnected, so   *)
(* that the prune of ssh_terminal_tabs_list never finds a tab to remove: a   *)
(* close and a failed reconnect take the tabs with them, and none is opened  *)
(* on a session that is about to go.                                        *)
TabsLive == tabs # {} => registered /\ record.status # "disconnected"

(* Once a session is closing, no connection of it stays up, the one that a   *)
(* reconnect was making at that moment included.                             *)
ConnectionsEnd == closing ~> [](\A c \in Connection : link[c] # "open")

(* A session whose connection is gone does not go on as connected: the end   *)
(* is noticed, unless it fell together with another holder of the flag or    *)
(* with the late end of an earlier shell.                                    *)
LossNoticed ==
  \A c \in Connection :
    (current = c /\ link[c] = "down") ~>
      (current # c \/ record.status # "connected" \/ closing \/ raced)

(* Not so: once "closed" was announced the webview lists the session no more *)
(* (ssh_session.rs:329: a reconnect does not resurrect "a session that is     *)
(* already gone"). A reconnect that fails announces it as disconnected.       *)
ClosedStaysClosed == closeAt = "done" => row = None
=============================================================================
