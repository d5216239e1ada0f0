---------------------------- MODULE GaSupervisor ----------------------------
(***************************************************************************)
(* ga_supervisor.rs: the one runtime process of the application.  The main  *)
(* thread runs ga_runtime_start and, at exit, stop; every start that        *)
(* succeeds leaves a monitor thread, named by its generation, that restarts *)
(* a process that died.  The process and the status have a mutex each, so a *)
(* step is what one thread does under one of them; the status is read in    *)
(* one step and published in another.                                      *)
(***************************************************************************)
EXTENDS Integers, FiniteSets

CONSTANTS MaxSpawns, MaxRestarts, None, Error

Main == 0
Child == 1 .. MaxSpawns
Generation == 1 .. MaxSpawns
(* A monitor is named by the first child it watches. *)
Thread == {Main} \cup Child

(* A port belongs to one child, and the token to the start that made it. *)
Process == [child : Child, token : Generation]

Phase == {"stopped", "starting", "running", "restarting", "failed", "stopping"}
Status == [phase : Phase, generation : Generation \cup {0}, port : Child \cup {None}]

ASSUME SupervisorAssumption ==
  /\ MaxSpawns \in Nat \ {0} /\ MaxRestarts \in Nat \ {0}
  /\ None \notin Nat \cup Process \cup Status

VARIABLES
  slot,      \* GaRuntimeSupervisor.process
  status,    \* GaRuntimeSupervisor.status
  at,        \* [Thread -> where it is]
  edit,      \* [Thread -> a status it has prepared and not published yet, or None]
  hold,      \* [Thread -> a process in a local variable, or None]
  watches,   \* [Child -> the generation its monitor is for, or 0]
  attempt,   \* [Child -> the attempt its monitor's restart is at]
  current,   \* the local status of stop_internal
  alive,     \* the children that run
  spawned,   \* the number of children so far
  reply,     \* what the last ga_runtime_start returned: a record, Error or None
  raced      \* history: a start or a stop and a restart were under way together

vars == <<slot, status, at, edit, hold, watches, attempt, current, alive, spawned,
          reply, raced>>

Starts == {"spawn", "place", "health", "ready", "monitor", "failing", "failTake",
           "stopTake", "stopped"}
MainAt == {"idle", "awaiting", "port", "start", "credentials", "gone"} \cup Starts
Restarts == {"restart", "install", "announce", "health", "confirm", "take", "terminate",
             "fail"}
MonitorAt == {"none", "sleep", "probe", "done"} \cup Restarts

Init ==
  /\ slot = None
  /\ status = [phase |-> "stopped", generation |-> 0, port |-> None]
  /\ at = [t \in Thread |-> IF t = Main THEN "idle" ELSE "none"]
  /\ edit = [t \in Thread |-> None]
  /\ hold = [t \in Thread |-> None]
  /\ watches = [m \in Child |-> 0]
  /\ attempt = [m \in Child |-> 0]
  /\ current = status
  /\ alive = {} /\ spawned = 0
  /\ reply = None
  /\ raced = FALSE

(* Two of the changes that are published: of the state alone, or the process *)
(* with it.                                                                  *)
InPhase(s, phase) == [s EXCEPT !.phase = phase]
AtPort(s, phase, port) == [s EXCEPT !.phase = phase, !.port = port]

Go(t, place) == at' = [at EXCEPT ![t] = place]
Prepare(t, s) == edit' = [edit EXCEPT ![t] = s]
At(t, place) == at[t] = place /\ edit[t] = None

(* publish(): the second half of every change of the status. *)
Publish(t) ==
  /\ edit[t] # None
  /\ status' = edit[t]
  /\ Prepare(t, None)
  /\ UNCHANGED <<slot, at, hold, watches, attempt, current, alive, spawned, reply>>

-----------------------------------------------------------------------------
(* The main thread: start_with_credentials, start and stop_internal.         *)

Return(answer) ==
  /\ reply' = answer
  /\ hold' = [hold EXCEPT ![Main] = None]
  /\ Go(Main, "idle")
Continue(place) == Go(Main, place) /\ UNCHANGED <<reply, hold>>

(* ga_runtime_start: is there a process to wait for? *)
CallStart ==
  /\ At(Main, "idle")
  /\ Go(Main, IF slot = None THEN "start" ELSE "awaiting")
  /\ hold' = [hold EXCEPT ![Main] = slot]
  /\ reply' = None
  /\ UNCHANGED <<slot, status, edit, watches, attempt, current, alive, spawned>>

(* The loop over status(): running, neither running nor restarting, time out. *)
Await ==
  /\ At(Main, "awaiting")
  /\ \/ status.phase = "running" /\ Continue("port")
     \/ status.phase \notin {"running", "restarting"} /\ Continue("start")
     \/ status.phase = "restarting" /\ Return(Error)
  /\ UNCHANGED <<slot, status, edit, watches, attempt, current, alive, spawned>>

(* The port of the process that is there now, with the token of before. *)
ReadPort ==
  /\ At(Main, "port")
  /\ Return(IF slot = None THEN Error
            ELSE [phase |-> "running", port |-> slot.child, token |-> hold[Main].token])
  /\ UNCHANGED <<slot, status, edit, watches, attempt, current, alive, spawned>>

(* Mutant: start() trusts the test its caller made. *)
StartUnchecked ==
  /\ At(Main, "start")
  /\ Go(Main, "spawn")
  /\ UNCHANGED <<slot, status, edit, hold, watches, attempt, current, alive, spawned, reply>>

(* start(): a process that appeared meanwhile is answered with the status. *)
StartCheck ==
  /\ At(Main, "start")
  /\ IF slot # None
     THEN /\ Go(Main, "credentials") /\ current' = status
     ELSE /\ Go(Main, "spawn") /\ UNCHANGED current
  /\ UNCHANGED <<slot, status, edit, hold, watches, attempt, alive, spawned, reply>>

(* The manifest, the port and the spawn may all fail; no process then. *)
Spawn ==
  /\ At(Main, "spawn")
  /\ \/ /\ spawned < MaxSpawns
        /\ spawned' = spawned + 1
        /\ alive' = alive \cup {spawned'}
        /\ hold' = [hold EXCEPT ![Main] = [child |-> spawned', token |-> status.generation + 1]]
        /\ Prepare(Main, [phase |-> "starting", generation |-> status.generation + 1,
                          port |-> spawned'])
        /\ Go(Main, "place")
        /\ UNCHANGED reply
     \/ /\ Return(Error)
        /\ UNCHANGED <<edit, alive, spawned>>
  /\ UNCHANGED <<slot, status, watches, attempt, current>>

(* A process this replaces is forgotten: dropping a Child does not kill it. *)
Place ==
  /\ At(Main, "place")
  /\ slot' = hold[Main]
  /\ Go(Main, "health")
  /\ UNCHANGED <<status, edit, hold, watches, attempt, current, alive, spawned, reply>>

(* wait_until_healthy, on whatever process is in the slot: healthy only if   *)
(* it runs; gone, exited or timed out otherwise.                             *)
Healthy(t, good, bad) ==
  /\ At(t, "health")
  /\ \/ slot # None /\ slot.child \in alive /\ Go(t, good)
     \/ Go(t, bad)
  /\ UNCHANGED <<slot, status, edit, hold, watches, attempt, current, alive, spawned, reply>>

(* The status becomes running and a monitor is left behind. *)
Ready ==
  /\ At(Main, "ready")
  /\ current' = InPhase(status, "running")
  /\ Prepare(Main, current')
  /\ Go(Main, "monitor")
  /\ UNCHANGED <<slot, status, hold, watches, attempt, alive, spawned, reply>>

LeaveMonitor ==
  /\ At(Main, "monitor")
  /\ at' = [at EXCEPT ![Main] = "credentials", ![hold[Main].child] = "sleep"]
  /\ watches' = [watches EXCEPT ![hold[Main].child] = hold[Main].token]
  /\ UNCHANGED <<slot, status, edit, hold, attempt, current, alive, spawned, reply>>

(* The token of the process that is there now, with the status of before. *)
Credentials ==
  /\ At(Main, "credentials")
  /\ Return(IF slot = None \/ current.port = None THEN Error
            ELSE [phase |-> current.phase, port |-> current.port, token |-> slot.token])
  /\ UNCHANGED <<slot, status, edit, watches, attempt, current, alive, spawned>>

(* stop_internal, for a failed start and for the exit: announce, take the    *)
(* process and end it with the lock held, announce the end.                  *)
StopBegin(from, next) ==
  /\ At(Main, from)
  /\ current' = InPhase(status, "stopping")
  /\ Prepare(Main, current')
  /\ Go(Main, next)
  /\ UNCHANGED <<slot, status, hold, watches, attempt, alive, spawned, reply>>

StopTake(from, phase) ==
  /\ At(Main, from)
  /\ slot' = None
  /\ alive' = IF slot = None THEN alive ELSE alive \ {slot.child}
  /\ Prepare(Main, AtPort(current, phase, None))
  /\ IF phase = "failed" THEN Return(Error) ELSE Continue("stopped")
  /\ UNCHANGED <<status, watches, attempt, current, spawned>>

(* The application exits: its threads are gone, its children are not. *)
Exit ==
  /\ At(Main, "stopped")
  /\ at' = [t \in Thread |-> IF t = Main THEN "gone" ELSE "done"]
  /\ edit' = [t \in Thread |-> None]
  /\ UNCHANGED <<slot, status, hold, watches, attempt, current, alive, spawned, reply>>

-----------------------------------------------------------------------------
(* The monitor m: spawn_monitor.                             *)

Watch(m) ==
  /\ At(m, "sleep")
  /\ Go(m, IF status.generation = watches[m] /\ status.phase = "running" THEN "probe" ELSE "done")
  /\ UNCHANGED <<slot, status, edit, hold, watches, attempt, current, alive, spawned, reply>>

Probe(m) ==
  /\ At(m, "probe")
  /\ IF slot # None /\ slot.child \notin alive
     THEN /\ hold' = [hold EXCEPT ![m] = slot]
          /\ slot' = None
          /\ attempt' = [attempt EXCEPT ![m] = 1]
          /\ Go(m, "restart")
     ELSE /\ Go(m, "sleep")
          /\ UNCHANGED <<slot, hold, attempt>>
  /\ UNCHANGED <<status, edit, watches, current, alive, spawned, reply>>

(* A port that cannot be had skips the end of the loop, where the failure of *)
(* the last attempt is announced; a spawn that fails does not.               *)
Restart(m) ==
  /\ At(m, "restart")
  /\ \/ /\ spawned < MaxSpawns
        /\ spawned' = spawned + 1
        /\ alive' = alive \cup {spawned'}
        /\ hold' = [hold EXCEPT ![m].child = spawned']
        /\ Go(m, "install")
        /\ UNCHANGED attempt
     \/ /\ IF attempt[m] = MaxRestarts
           THEN Go(m, "sleep") \/ Go(m, "fail")
           ELSE UNCHANGED at
        /\ attempt' = [attempt EXCEPT ![m] = IF @ = MaxRestarts THEN @ ELSE @ + 1]
        /\ UNCHANGED <<hold, alive, spawned>>
  /\ UNCHANGED <<slot, status, edit, watches, current, reply>>

(* Whatever is in the slot by now is replaced. *)
Install(m) ==
  /\ At(m, "install")
  /\ slot' = hold[m]
  /\ Go(m, "announce")
  /\ UNCHANGED <<status, edit, hold, watches, attempt, current, alive, spawned, reply>>

(* Mutant: the status keeps the port of the process that died. *)
AnnounceOldPort(m) ==
  /\ At(m, "announce")
  /\ Prepare(m, InPhase(status, "restarting"))
  /\ hold' = [hold EXCEPT ![m] = None]
  /\ Go(m, "health")
  /\ UNCHANGED <<slot, status, watches, attempt, current, alive, spawned, reply>>

Announce(m) ==
  /\ At(m, "announce")
  /\ Prepare(m, AtPort(status, "restarting", hold[m].child))
  /\ hold' = [hold EXCEPT ![m] = None]
  /\ Go(m, "health")
  /\ UNCHANGED <<slot, status, watches, attempt, current, alive, spawned, reply>>

(* Mutant: the monitor returns after the first restart that succeeds. *)
ConfirmOnce(m) ==
  /\ At(m, "confirm")
  /\ IF status.generation = watches[m] /\ status.phase = "restarting"
     THEN Prepare(m, InPhase(status, "running")) /\ Go(m, "done")
     ELSE Go(m, "done") /\ UNCHANGED edit
  /\ UNCHANGED <<slot, status, hold, watches, attempt, current, alive, spawned, reply>>

Confirm(m) ==
  /\ At(m, "confirm")
  /\ IF status.generation = watches[m] /\ status.phase = "restarting"
     THEN Prepare(m, InPhase(status, "running")) /\ Go(m, "sleep")
     ELSE Go(m, "done") /\ UNCHANGED edit
  /\ UNCHANGED <<slot, status, hold, watches, attempt, current, alive, spawned, reply>>

(* An unhealthy process is taken out; none there: the monitor returns. *)
Take(m) ==
  /\ At(m, "take")
  /\ slot' = None
  /\ hold' = [hold EXCEPT ![m] = slot]
  /\ Go(m, IF slot = None THEN "done" ELSE "terminate")
  /\ UNCHANGED <<status, edit, watches, attempt, current, alive, spawned, reply>>

Terminate(m) ==
  /\ At(m, "terminate")
  /\ alive' = alive \ {hold[m].child}
  /\ Go(m, IF attempt[m] = MaxRestarts THEN "fail" ELSE "restart")
  /\ attempt' = [attempt EXCEPT ![m] = IF @ = MaxRestarts THEN @ ELSE @ + 1]
  /\ UNCHANGED <<slot, status, edit, hold, watches, current, spawned, reply>>

Fail(m) ==
  /\ At(m, "fail")
  /\ Prepare(m, AtPort(status, "failed", None))
  /\ Go(m, "done")
  /\ UNCHANGED <<slot, status, hold, watches, attempt, current, alive, spawned, reply>>

-----------------------------------------------------------------------------
(* A child may end at any time. *)
Dies(c) ==
  /\ c \in alive
  /\ alive' = alive \ {c}
  /\ UNCHANGED <<slot, status, at, edit, hold, watches, attempt, current, spawned, reply>>

(* What ends a start, or the stop, once it is under way. *)
MainStep ==
  \/ Publish(Main) \/ Await \/ ReadPort \/ StartCheck \/ Spawn \/ Place
  \/ Healthy(Main, "ready", "failing") \/ Ready \/ LeaveMonitor \/ Credentials
  \/ StopBegin("failing", "failTake") \/ StopTake("failTake", "failed")
  \/ StopTake("stopTake", "stopped") \/ Exit

MonitorStep(m) ==
  \/ Publish(m) \/ Watch(m) \/ Probe(m) \/ Restart(m) \/ Install(m) \/ Announce(m)
  \/ Healthy(m, "confirm", "take") \/ Confirm(m) \/ Take(m) \/ Terminate(m) \/ Fail(m)

Step ==
  \/ CallStart
  \/ StopBegin("idle", "stopTake")
  \/ MainStep
  \/ \E m \in Child : MonitorStep(m)
  \/ \E c \in Child : Dies(c)

(* A start or a stop at work while a monitor is, past its look at the status. *)
AtWork(m) == at[m] \in {"probe"} \cup Restarts \/ edit[m] # None
Overlap == at[Main] \in Starts /\ \E m \in Child : AtWork(m)

Next == Step /\ raced' = (raced \/ Overlap')

Spec == Init /\ [][Next]_vars

(* The threads of the supervisor run; nobody has to start, stop or crash. *)
FairSpec ==
  /\ Spec
  /\ WF_vars(MainStep /\ raced' = (raced \/ Overlap'))
  /\ \A m \in Child : WF_vars(MonitorStep(m) /\ raced' = (raced \/ Overlap'))

-----------------------------------------------------------------------------
ReplyOK == reply \in [phase : Phase, port : Child, token : Generation] \cup {None, Error}

TypeOK ==
  /\ slot \in Process \cup {None}
  /\ status \in Status /\ current \in Status
  /\ at \in [Thread -> MainAt \cup MonitorAt]
  /\ edit \in [Thread -> Status \cup {None}]
  /\ hold \in [Thread -> Process \cup {None}]
  /\ watches \in [Child -> Generation \cup {0}]
  /\ attempt \in [Child -> 0 .. MaxRestarts]
  /\ alive \subseteq 1 .. spawned
  /\ spawned \in 0 .. MaxSpawns
  /\ ReplyOK
  /\ raced \in BOOLEAN

(* The processes a thread has in its hands: spawned and not yet in the slot, *)
(* or taken out of it and not yet ended.                                    *)
Owned == {hold[t].child : t \in {u \in Thread : at[u] \in {"place", "install", "terminate"}}}
         \cup (IF slot = None THEN {} ELSE {slot.child})

(* There is one runtime at most, and the supervisor can end it: as long as    *)
(* no start or stop ran into a restart, a child that lives is in the slot or *)
(* in the hands of the thread that is putting it there or ending it.         *)
OneOwnedRuntime == raced \/ (alive \subseteq Owned /\ Cardinality(alive) <= 1)

AtRest == \A t \in Thread : edit[t] = None /\ at[t] \in {"idle", "none", "sleep", "probe", "done"}

(* When nobody is at work, a process in the slot is the one the status names *)
(* and is reported as running.                                              *)
StatusNamesProcess ==
  ~raced /\ AtRest /\ slot # None => status.phase = "running" /\ status.port = slot.child

(* A process that died does not stay in the slot: the thread that watches it *)
(* is there, and takes it out.                                              *)
Dead == slot # None /\ slot.child \notin alive
CrashNoticed == Dead ~> (~Dead \/ raced \/ at[Main] = "gone")
=============================================================================
