------------------------- MODULE GaSupervisorProofs -------------------------
(***************************************************************************)
(* What holds of the supervisor for any number of processes and restarts.   *)
(* The status and the slot have a lock each and threads act on what they    *)
(* read before, so nothing in the code keeps the two together: they stay     *)
(* together because, as long as no start or stop meets a restart, one thread *)
(* at a time is past its look at the status.                                *)
(***************************************************************************)
EXTENDS GaSupervisor, FiniteSetTheorems, TLAPS

(* Threads are where their code is, and hold a process where they use one. *)
Placed ==
  /\ at[Main] \in MainAt
  /\ \A m \in Child : at[m] \in MonitorAt
  /\ at[Main] \in {"awaiting", "port", "place", "health", "ready", "monitor"}
       => hold[Main] \in Process
  /\ \A m \in Child : at[m] \in {"restart", "install", "announce", "terminate"}
       => hold[m] \in Process

(* No more generations than processes. *)
Counted ==
  /\ status.generation <= spawned /\ current.generation <= spawned
  /\ \A t \in Thread : edit[t] # None => edit[t].generation <= spawned

Typed == TypeOK /\ Placed /\ Counted

(* A start that is under way has a generation above every monitor's. *)
Starting == at[Main] \in {"place", "health", "ready", "monitor"}
NewGeneration ==
  /\ at[hold[Main].child] = "none" /\ hold[Main].child <= spawned
  /\ \A m \in Child : watches[m] < hold[Main].token
  /\ IF edit[Main] = None THEN status.generation = hold[Main].token
     ELSE edit[Main].generation = hold[Main].token

(* What the main thread has prepared, and what it will prepare at its stop. *)
MainPending ==
  /\ edit[Main] # None => at[Main] \in {"place", "monitor", "failTake", "stopTake", "idle", "stopped"}
  /\ edit[Main] # None /\ at[Main] = "idle" => status.phase = "stopping" /\ slot = None
  /\ edit[Main] # None /\ ~Starting => edit[Main].generation = status.generation
  /\ at[Main] \in {"failTake", "stopTake"} =>
       /\ current.generation = status.generation
       /\ IF edit[Main] = None THEN status.phase = "stopping" ELSE edit[Main].phase = "stopping"

(* Monitors are told apart by their generation, and only that of the status *)
(* has one at work.                                                         *)
Generations ==
  /\ \A m \in Child : watches[m] <= status.generation
  /\ \A m, n \in Child : watches[m] = watches[n] /\ watches[m] # 0 => m = n
  /\ \A m \in Child : at[m] = "none" => edit[m] = None
  /\ \A m \in Child : at[m] = "sleep" => watches[m] # 0
  /\ \A m \in Child :
       IF at[Main] = "gone" THEN at[m] = "done" /\ edit[m] = None
       ELSE m > spawned => at[m] = "none"

AtWorkAlone ==
  \A m \in Child : AtWork(m) =>
    /\ watches[m] = status.generation /\ watches[m] # 0
    /\ edit[Main] = None
    /\ edit[m] # None => /\ edit[m].generation = status.generation
                         /\ at[m] \in {"health", "sleep", "done"}

(* The slot is empty where a thread is about to fill it, or to end what was *)
(* there.                                                                   *)
Empty ==
  /\ at[Main] \in {"spawn", "place", "stopped", "gone"} => slot = None
  /\ \A m \in Child : at[m] \in {"restart", "install", "terminate", "fail"} => slot = None
  /\ \A m \in Child : at[m] = "announce" => slot = hold[m]
  /\ \A m \in Child : at[m] = "done" /\ edit[m] # None => slot = None

(* OneOwnedRuntime, child by child. *)
InHand(c) ==
  \/ slot # None /\ c = slot.child
  \/ at[Main] = "place" /\ c = hold[Main].child
  \/ \E m \in Child : at[m] \in {"install", "terminate"} /\ c = hold[m].child
OwnedChildren == \A c \in alive : InHand(c)

(* Which status names the process in the slot: the one published, or the one *)
(* that is about to be.                                                     *)
Names(s, phase) == s.phase = phase /\ s.port = slot.child
Coming(t, phase) == IF edit[t] = None THEN Names(status, phase) ELSE Names(edit[t], phase)
Named ==
  /\ at[Main] = "place" =>
       IF edit[Main] = None THEN status.port = hold[Main].child
       ELSE edit[Main].port = hold[Main].child
  /\ at[Main] \in {"health", "ready"} => slot = hold[Main] /\ status.port = slot.child
  /\ at[Main] = "monitor" => slot = hold[Main] /\ Coming(Main, "running")
  /\ \A m \in Child : at[m] \in {"health", "confirm", "take"} =>
       slot # None /\ Coming(m, "restarting")
  /\ \A m \in Child : at[m] = "sleep" /\ edit[m] # None => slot # None /\ Names(edit[m], "running")
  /\ slot # None /\ at[Main] \notin Starts
     /\ (\A m \in Child : AtWork(m) => at[m] = "probe") => Names(status, "running")

Unraced ==
  /\ ~Overlap
  /\ Starting => NewGeneration
  /\ MainPending /\ Generations /\ AtWorkAlone /\ Empty /\ OwnedChildren /\ Named

IInv == Typed /\ (raced \/ Unraced)
-----------------------------------------------------------------------------
(* The threads, and the fields of a process and of a status. *)
LEMMA Threads == Main \in Thread /\ Main \notin Child /\ \A m \in Child : m \in Thread
  BY SupervisorAssumption DEF Thread, Main, Child, SupervisorAssumption

LEMMA ProcessFields ==
  ASSUME NEW p \in Process PROVE p.child \in Child /\ p.token \in Generation /\ p # None
  BY SupervisorAssumption DEF Process, SupervisorAssumption

LEMMA ProcessMade ==
  ASSUME NEW c \in Child, NEW g \in Generation PROVE [child |-> c, token |-> g] \in Process
  BY DEF Process

LEMMA StatusFields ==
  ASSUME NEW s \in Status
  PROVE  /\ s.phase \in Phase /\ s.generation \in Nat /\ s.generation <= MaxSpawns
         /\ s.port \in Child \cup {None} /\ s # None
  BY SupervisorAssumption DEF Status, Generation, SupervisorAssumption

LEMMA StatusChanged ==
  ASSUME NEW s \in Status, NEW phase \in Phase
  PROVE  /\ InPhase(s, phase) \in Status
         /\ InPhase(s, phase).phase = phase
         /\ InPhase(s, phase).generation = s.generation
         /\ InPhase(s, phase).port = s.port
  BY DEF Status, InPhase

LEMMA StatusMoved ==
  ASSUME NEW s \in Status, NEW phase \in Phase, NEW port \in Child \cup {None}
  PROVE  /\ AtPort(s, phase, port) \in Status
         /\ AtPort(s, phase, port).phase = phase
         /\ AtPort(s, phase, port).generation = s.generation
         /\ AtPort(s, phase, port).port = port
  BY DEF Status, AtPort

LEMMA InitTyped == Init => Typed
<1> SUFFICES ASSUME Init PROVE Typed
  OBVIOUS
<1>1. status \in Status /\ current \in Status
  BY DEF Init, Status, Phase
<1>2. Placed /\ Counted
  BY Threads, SupervisorAssumption DEF Init, Placed, Counted, MainAt, MonitorAt, SupervisorAssumption
<1>3. /\ at \in [Thread -> MainAt \cup MonitorAt]
      /\ edit \in [Thread -> Status \cup {None}] /\ hold \in [Thread -> Process \cup {None}]
  BY DEF Init, MainAt, MonitorAt
<1>4. /\ watches \in [Child -> Generation \cup {0}] /\ attempt \in [Child -> 0 .. MaxRestarts]
      /\ alive \subseteq 1 .. spawned /\ spawned \in 0 .. MaxSpawns
  BY SupervisorAssumption DEF Init, SupervisorAssumption
<1>5. QED BY <1>1, <1>2, <1>3, <1>4 DEF Typed, TypeOK, Init, ReplyOK

(* What a thread prepares from the status of before has its generation. *)
LEMMA PrepareTyped ==
  ASSUME Typed, NEW t \in Thread, NEW s \in Status, s.generation <= spawned, Prepare(t, s)
  PROVE  /\ edit' \in [Thread -> Status \cup {None}]
         /\ \A u \in Thread : edit'[u] # None => edit'[u].generation <= spawned
  BY DEF Typed, TypeOK, Counted, Prepare

(* The main thread, and publish(), keep the types. *)
LEMMA MainTyped ==
  ASSUME Typed, raced' \in BOOLEAN,
         CallStart \/ StopBegin("idle", "stopTake") \/ MainStep
  PROVE  Typed'
<1> USE Threads DEF Typed, TypeOK, Placed, Counted, At, Go
<1>1. CASE CallStart BY <1>1 DEF CallStart, ReplyOK, MainAt
<1>2. CASE Publish(Main) BY <1>2 DEF Publish, Prepare, ReplyOK
<1>3. CASE Await BY <1>3 DEF Await, Return, Continue, ReplyOK, MainAt
<1>4. CASE ReadPort
  BY <1>4, ProcessFields DEF ReadPort, Return, ReplyOK, Phase, MainAt
<1>5. CASE StartCheck BY <1>5 DEF StartCheck, ReplyOK, MainAt, Starts
<1>6. CASE Spawn
  <2>1. CASE Return(Error)
    BY <1>6, <2>1, ProcessFields DEF Spawn, Return, ReplyOK, MainAt, Starts
  <2>2. CASE ~Return(Error)
    <3> DEFINE p == [child |-> spawned', token |-> status.generation + 1]
               s == [phase |-> "starting", generation |-> status.generation + 1,
                     port |-> spawned']
    <3>1. /\ spawned < MaxSpawns /\ spawned' = spawned + 1 /\ alive' = alive \cup {spawned'}
          /\ hold' = [hold EXCEPT ![Main] = p] /\ edit' = [edit EXCEPT ![Main] = s]
          /\ at' = [at EXCEPT ![Main] = "place"]
      BY <1>6, <2>2 DEF Spawn, Prepare
    <3>2. spawned' \in Child /\ status.generation + 1 \in Generation
      BY <3>1, StatusFields, SupervisorAssumption DEF Child, Generation, SupervisorAssumption
    <3>3. p \in Process
      BY <3>2 DEF Process
    <3>4. s \in Status /\ s.generation = status.generation + 1
      BY <3>2 DEF Status, Phase, Generation
    <3> HIDE DEF p, s
    <3>5. Counted'
      <4>1. /\ status' = status /\ current' = current /\ status.generation \in Nat
            /\ current.generation \in Nat /\ spawned \in Nat
        BY <1>6, StatusFields, SupervisorAssumption DEF Spawn, SupervisorAssumption
      <4>2. \A t \in Thread : edit[t] # None => edit[t].generation \in Nat
        BY StatusFields
      <4>3. \A t \in Thread : t # Main => edit'[t] = edit[t]
        BY <3>1
      <4>4. edit'[Main] = s
        BY <3>1
      <4>5. QED BY <3>1, <3>4, <4>1, <4>2, <4>3, <4>4
    <3>6. alive' \subseteq 1 .. spawned' /\ spawned' \in 0 .. MaxSpawns
      BY <3>1, SupervisorAssumption DEF SupervisorAssumption
    <3>7. Placed'
      BY <3>1, <3>3 DEF MainAt, Starts
    <3>8. /\ at' \in [Thread -> MainAt \cup MonitorAt] /\ hold' \in [Thread -> Process \cup {None}]
          /\ edit' \in [Thread -> Status \cup {None}]
      BY <3>1, <3>3, <3>4 DEF MainAt, Starts
    <3>9. QED
      BY <1>6, <2>2, <3>5, <3>6, <3>7, <3>8 DEF Spawn, ReplyOK
  <2>3. QED BY <2>1, <2>2
<1>7. CASE Place BY <1>7 DEF Place, ReplyOK, MainAt, Starts
<1>8. CASE Healthy(Main, "ready", "failing") BY <1>8 DEF Healthy, ReplyOK, MainAt, Starts
<1>9. CASE Ready
  <2>1. /\ current' \in Status /\ current'.generation <= spawned
        /\ edit' \in [Thread -> Status \cup {None}]
        /\ \A u \in Thread : edit'[u] # None => edit'[u].generation <= spawned
    BY <1>9, StatusChanged, PrepareTyped DEF Ready, Typed, TypeOK, Counted, Phase
  <2>2. QED BY <1>9, <2>1 DEF Ready, ReplyOK, MainAt, Starts
<1>10. CASE LeaveMonitor
  BY <1>10, ProcessFields DEF LeaveMonitor, ReplyOK, MonitorAt, MainAt
<1>11. CASE Credentials
  BY <1>11, ProcessFields, StatusFields DEF Credentials, Return, ReplyOK, MainAt
<1>12. CASE StopBegin("idle", "stopTake")
  <2>1. /\ current' \in Status /\ current'.generation <= spawned
        /\ edit' \in [Thread -> Status \cup {None}]
        /\ \A u \in Thread : edit'[u] # None => edit'[u].generation <= spawned
    BY <1>12, StatusChanged, PrepareTyped DEF StopBegin, Typed, TypeOK, Counted, Phase
  <2>2. QED BY <1>12, <2>1 DEF StopBegin, ReplyOK, MainAt, Starts
<1>13. CASE StopBegin("failing", "failTake")
  <2>1. /\ current' \in Status /\ current'.generation <= spawned
        /\ edit' \in [Thread -> Status \cup {None}]
        /\ \A u \in Thread : edit'[u] # None => edit'[u].generation <= spawned
    BY <1>13, StatusChanged, PrepareTyped DEF StopBegin, Typed, TypeOK, Counted, Phase
  <2>2. QED BY <1>13, <2>1 DEF StopBegin, ReplyOK, MainAt, Starts
<1>14. CASE StopTake("failTake", "failed")
  <2>1. /\ edit' \in [Thread -> Status \cup {None}]
        /\ \A u \in Thread : edit'[u] # None => edit'[u].generation <= spawned
    BY <1>14, StatusMoved, PrepareTyped DEF StopTake, Typed, TypeOK, Counted, Phase
  <2>2. QED BY <1>14, <2>1 DEF StopTake, Return, ReplyOK, MainAt
<1>15. CASE StopTake("stopTake", "stopped")
  <2>1. /\ edit' \in [Thread -> Status \cup {None}]
        /\ \A u \in Thread : edit'[u] # None => edit'[u].generation <= spawned
    BY <1>15, StatusMoved, PrepareTyped DEF StopTake, Typed, TypeOK, Counted, Phase
  <2>2. QED BY <1>15, <2>1 DEF StopTake, Continue, ReplyOK, MainAt, Starts
<1>16. CASE Exit BY <1>16 DEF Exit, ReplyOK, MainAt, MonitorAt
<1>17. QED
  BY <1>1, <1>2, <1>3, <1>4, <1>5, <1>6, <1>7, <1>8, <1>9, <1>10, <1>11, <1>12, <1>13,
     <1>14, <1>15, <1>16 DEF MainStep

(* A monitor and the end of a child keep the types. *)
LEMMA MonitorTyped ==
  ASSUME Typed, raced' \in BOOLEAN, NEW m \in Child, MonitorStep(m) \/ Dies(m)
  PROVE  Typed'
<1> USE Threads DEF Typed, TypeOK, ReplyOK, Placed, Counted, At, Go, MonitorAt, Restarts
<1>1. CASE Publish(m) BY <1>1 DEF Publish, Prepare
<1>2. CASE Watch(m) BY <1>2 DEF Watch
<1>3. CASE Probe(m) BY <1>3, SupervisorAssumption DEF Probe, SupervisorAssumption
<1>4. CASE Restart(m)
  <2>1. attempt' \in [Child -> 0 .. MaxRestarts]
    BY <1>4, SupervisorAssumption DEF Restart, SupervisorAssumption
  <2>2. CASE at'[m] = "install"
    <3>1. /\ spawned < MaxSpawns /\ spawned' = spawned + 1 /\ alive' = alive \cup {spawned'}
          /\ hold' = [hold EXCEPT ![m] = [hold[m] EXCEPT !.child = spawned']]
          /\ at' = [at EXCEPT ![m] = "install"]
      BY <1>4, <2>2 DEF Restart
    <3>2. spawned' \in Child /\ hold[m] \in Process
      BY <1>4, <3>1, SupervisorAssumption DEF Child, SupervisorAssumption, Restart
    <3>3. [hold[m] EXCEPT !.child = spawned'] \in Process
      BY <3>2 DEF Process
    <3>4. hold' \in [Thread -> Process \cup {None}] /\ \A n \in Child : n # m => hold'[n] = hold[n]
      BY <3>1, <3>3
    <3>5. Counted' /\ alive' \subseteq 1 .. spawned' /\ spawned' \in 0 .. MaxSpawns
      <4>1. /\ status' = status /\ current' = current /\ edit' = edit
            /\ \A t \in Thread : edit[t] \in Status \cup {None}
        BY <1>4 DEF Restart
      <4>2. Counted'
        BY <3>1, <4>1, StatusFields
      <4>3. QED BY <3>1, <4>2, SupervisorAssumption DEF SupervisorAssumption
    <3>6. Placed'
      BY <1>4, <3>1, <3>3 DEF Restart
    <3>7. QED
      BY <1>4, <2>1, <3>1, <3>4, <3>5, <3>6 DEF Restart
  <2>3. CASE at'[m] # "install"
    BY <1>4, <2>1, <2>3 DEF Restart
  <2>4. QED BY <2>2, <2>3
<1>5. CASE Install(m) BY <1>5 DEF Install
<1>6. CASE Announce(m)
  <2>0. AtPort(status, "restarting", hold[m].child) \in Status
        /\ AtPort(status, "restarting", hold[m].child).generation = status.generation
    <3>1. "restarting" \in Phase /\ hold[m].child \in Child \cup {None} /\ status \in Status
      BY <1>6, ProcessFields DEF Announce, Phase
    <3> DEFINE port == hold[m].child
    <3> HIDE DEF port
    <3>2. port \in Child \cup {None}
      BY <3>1 DEF port
    <3>3. AtPort(status, "restarting", port) \in Status
          /\ AtPort(status, "restarting", port).generation = status.generation
      BY <3>1, <3>2, StatusMoved
    <3>4. QED BY <3>3 DEF port
  <2>1. /\ edit' \in [Thread -> Status \cup {None}]
        /\ \A u \in Thread : edit'[u] # None => edit'[u].generation <= spawned
    BY <1>6, <2>0, PrepareTyped DEF Announce
  <2>2. QED BY <1>6, <2>1 DEF Announce
<1>7. CASE Healthy(m, "confirm", "take") BY <1>7 DEF Healthy
<1>8. CASE Confirm(m)
  <2>1. /\ edit' \in [Thread -> Status \cup {None}]
        /\ \A u \in Thread : edit'[u] # None => edit'[u].generation <= spawned
    BY <1>8, Threads, StatusChanged, PrepareTyped DEF Confirm, Typed, TypeOK, Counted, Phase
  <2>2. QED BY <1>8, <2>1 DEF Confirm
<1>9. CASE Take(m) BY <1>9 DEF Take
<1>10. CASE Terminate(m)
  <2>1. attempt' \in [Child -> 0 .. MaxRestarts]
    BY <1>10, SupervisorAssumption DEF Terminate, SupervisorAssumption
  <2>2. QED BY <1>10, <2>1 DEF Terminate
<1>11. CASE Fail(m)
  <2>0. AtPort(status, "failed", None) \in Status
        /\ AtPort(status, "failed", None).generation = status.generation
    <3>1. "failed" \in Phase /\ None \in Child \cup {None} /\ status \in Status
      BY DEF Phase
    <3>2. QED BY <3>1, StatusMoved
  <2>1. /\ edit' \in [Thread -> Status \cup {None}]
        /\ \A u \in Thread : edit'[u] # None => edit'[u].generation <= spawned
    BY <1>11, <2>0, PrepareTyped DEF Fail
  <2>2. QED BY <1>11, <2>1 DEF Fail
<1>12. CASE Dies(m) BY <1>12 DEF Dies
<1>13. QED
  BY <1>1, <1>2, <1>3, <1>4, <1>5, <1>6, <1>7, <1>8, <1>9, <1>10, <1>11, <1>12
  DEF MonitorStep
-----------------------------------------------------------------------------
(* The rest of the invariant from where a monitor at work sees it.           *)
Alone(m) ==
  /\ at[Main] \notin Starts /\ at[Main] # "gone" /\ edit[Main] = None
  /\ \A n \in Child : n # m => ~AtWork(n)
  /\ watches[m] = status.generation /\ watches[m] # 0

MonitorOK(m) ==
  /\ edit[m] # None => /\ edit[m].generation = status.generation
                       /\ at[m] \in {"health", "sleep", "done"}
  /\ at[m] \in {"restart", "install", "terminate", "fail"} => slot = None
  /\ at[m] = "announce" => slot = hold[m]
  /\ at[m] = "done" /\ edit[m] # None => slot = None
  /\ \A c \in alive : \/ slot # None /\ c = slot.child
                      \/ at[m] \in {"install", "terminate"} /\ c = hold[m].child
  /\ at[m] \in {"health", "confirm", "take"} => slot # None /\ Coming(m, "restarting")
  /\ at[m] = "sleep" /\ edit[m] # None => slot # None /\ Names(edit[m], "running")
  /\ slot # None /\ (AtWork(m) => at[m] = "probe") => Names(status, "running")

LEMMA WorkAlone ==
  ASSUME Typed, Unraced, NEW m \in Child, AtWork(m) PROVE Alone(m)
<1>1. at[Main] \notin Starts
  BY DEF Unraced, Overlap
<1>2. at[Main] # "gone"
  BY DEF Unraced, Generations, AtWork, Restarts
<1>3. edit[Main] = None /\ watches[m] = status.generation /\ watches[m] # 0
  BY DEF Unraced, AtWorkAlone
<1>4. ASSUME NEW n \in Child, AtWork(n) PROVE n = m
  <2>1. watches[n] = status.generation /\ watches[n] # 0
    BY <1>4 DEF Unraced, AtWorkAlone
  <2>2. QED BY <1>3, <2>1 DEF Unraced, Generations
<1>5. QED BY <1>1, <1>2, <1>3, <1>4 DEF Alone

LEMMA MonitorReduced ==
  ASSUME Unraced, NEW m \in Child, Alone(m) PROVE MonitorOK(m)
<1>1. /\ edit[m] # None => /\ edit[m].generation = status.generation
                           /\ at[m] \in {"health", "sleep", "done"}
      /\ at[m] \in {"restart", "install", "terminate", "fail"} => slot = None
      /\ at[m] = "announce" => slot = hold[m]
      /\ at[m] = "done" /\ edit[m] # None => slot = None
  BY DEF Unraced, AtWorkAlone, AtWork, Empty
<1>2. \A c \in alive : \/ slot # None /\ c = slot.child
                       \/ at[m] \in {"install", "terminate"} /\ c = hold[m].child
  <2> SUFFICES ASSUME NEW c \in alive
               PROVE  \/ slot # None /\ c = slot.child
                      \/ at[m] \in {"install", "terminate"} /\ c = hold[m].child
    OBVIOUS
  <2>1. InHand(c)
    BY DEF Unraced, OwnedChildren
  <2>2. at[Main] # "place"
    BY DEF Alone, Starts
  <2>3. ASSUME NEW n \in Child, at[n] \in {"install", "terminate"} PROVE n = m
    BY <2>3 DEF Alone, AtWork, Restarts
  <2>4. QED BY <2>1, <2>2, <2>3 DEF InHand
<1>3. /\ at[m] \in {"health", "confirm", "take"} => slot # None /\ Coming(m, "restarting")
      /\ at[m] = "sleep" /\ edit[m] # None => slot # None /\ Names(edit[m], "running")
  BY DEF Unraced, Named
<1>4. slot # None /\ (AtWork(m) => at[m] = "probe") => Names(status, "running")
  BY DEF Unraced, Named, Alone
<1>5. QED BY <1>1, <1>2, <1>3, <1>4 DEF MonitorOK

LEMMA MonitorRestored ==
  ASSUME NEW m \in Child, Alone(m)', MonitorOK(m)', Generations' PROVE Unraced'
<1>1. ~Overlap' /\ ~Starting'
  BY DEF Alone, Overlap, Starting, Starts
<1>2. MainPending'
  BY DEF Alone, MainPending, Starts
<1>3. AtWorkAlone'
  BY DEF Alone, MonitorOK, AtWorkAlone
<1>4. Empty'
  BY DEF Alone, MonitorOK, Empty, Starts, AtWork, Restarts
<1>5. OwnedChildren'
  BY DEF MonitorOK, OwnedChildren, InHand
<1>6. Named'
  <2>1. \A n \in Child : at'[n] \in {"health", "confirm", "take"} => n = m
    BY DEF Alone, AtWork, Restarts
  <2>2. \A n \in Child : edit'[n] # None => n = m
    BY DEF Alone, AtWork
  <2>3. (\A n \in Child : AtWork(n) => at[n] = "probe")' => (AtWork(m) => at[m] = "probe")'
    OBVIOUS
  <2>4. at'[Main] \notin {"place", "health", "ready", "monitor"}
    BY DEF Alone, Starts
  <2>5. QED BY <2>1, <2>2, <2>3, <2>4 DEF MonitorOK, Named
<1>7. QED BY <1>1, <1>2, <1>3, <1>4, <1>5, <1>6 DEF Unraced
(* A monitor at work keeps what concerns it.                                *)
LEMMA MonitorActs ==
  ASSUME Typed, Typed', Generations, NEW m \in Child, Alone(m), MonitorOK(m),
         \/ Publish(m) \/ Probe(m) \/ Restart(m) \/ Install(m) \/ Announce(m)
         \/ Healthy(m, "confirm", "take") \/ Confirm(m) \/ Take(m) \/ Terminate(m) \/ Fail(m)
  PROVE  Alone(m)' /\ MonitorOK(m)' /\ Generations'
<1> USE Threads DEF At, Go
<1>1. /\ watches' = watches
      /\ \A t \in Thread : t # m => at'[t] = at[t] /\ edit'[t] = edit[t]
      /\ at \in [Thread -> MainAt \cup MonitorAt] /\ edit \in [Thread -> Status \cup {None}]
      /\ hold \in [Thread -> Process \cup {None}]
      /\ status \in Status /\ spawned' >= spawned /\ spawned \in Nat /\ spawned' \in Nat
  BY DEF Publish, Probe, Restart, Install, Announce, Healthy, Confirm, Take, Terminate, Fail,
         Typed, TypeOK, Prepare
<1>2. status'.generation = status.generation
  BY DEF Publish, Probe, Restart, Install, Announce, Healthy, Confirm, Take, Terminate, Fail,
         MonitorOK
<1>3. at'[m] # "none" /\ (at'[m] = at[m] \/ edit[m] = None)
  BY <1>1 DEF Publish, Probe, Restart, Install, Announce, Healthy, Confirm, Take, Terminate, Fail,
         Generations
<1>4. Alone(m)'
  BY <1>1, <1>2 DEF Alone, AtWork
<1>5. Generations'
  <2>1. at'[Main] # "gone" /\ at[Main] # "gone"
    BY <1>1 DEF Alone
  <2>2. at[m] # "none" /\ m <= spawned
    BY <1>3, <2>1, SupervisorAssumption
    DEF Generations, Typed, TypeOK, Child, SupervisorAssumption, Publish, Probe, Restart,
        Install, Announce, Healthy, Confirm, Take, Terminate, Fail
  <2>3. \A n \in Child : n > spawned' => n > spawned
    BY <1>1, SupervisorAssumption DEF Child, SupervisorAssumption
  <2>4. \A n \in Child : n > spawned' => at'[n] = "none"
    BY <1>1, <2>1, <2>2, <2>3 DEF Generations
  <2>5. \A n \in Child : /\ at'[n] = "none" => edit'[n] = None
                         /\ at'[n] = "sleep" => watches'[n] # 0
    BY <1>1, <1>3 DEF Generations, Alone
  <2>6. QED BY <1>1, <1>2, <2>1, <2>4, <2>5 DEF Generations
<1>6. MonitorOK(m)'
  <2> USE <1>1, <1>2 DEF MonitorOK, AtWork, Restarts
  <2>1. CASE Publish(m) BY <2>1 DEF Publish, Prepare, Names, Coming
  <2>2. CASE Probe(m) BY <2>2 DEF Probe, Names, Coming
  <2>3. CASE Restart(m)
    <3>1. at[m] = "restart" /\ edit[m] = None /\ slot = None /\ alive = {}
      BY <2>3 DEF Restart
    <3>2. edit' = edit /\ slot' = None
      BY <2>3, <3>1 DEF Restart
    <3>3. CASE at'[m] = "install"
      <4>1. alive' = {spawned'} /\ hold' = [hold EXCEPT ![m] = [hold[m] EXCEPT !.child = spawned']]
        BY <2>3, <3>1, <3>3 DEF Restart
      <4>2. hold[m] \in Process
        BY <3>1 DEF Typed, Placed
      <4>3. hold'[m].child = spawned'
        BY <4>1, <4>2 DEF Process
      <4>4. QED BY <3>1, <3>2, <3>3, <4>1, <4>3
    <3>4. CASE at'[m] # "install"
      <4>1. alive' = {} /\ at'[m] \in {"restart", "sleep", "fail"}
        BY <2>3, <3>1, <3>4 DEF Restart
      <4>2. QED BY <3>1, <3>2, <4>1
    <3>5. QED BY <3>3, <3>4
  <2>4. CASE Install(m)
    <3>1. hold[m] \in Process /\ slot' = hold[m] /\ hold[m] # None
      BY <2>4, ProcessFields DEF Install, Typed, Placed
    <3>2. QED BY <2>4, <3>1 DEF Install
  <2>5. CASE Announce(m)
    <3>1. slot \in Process /\ slot = hold[m] /\ slot # None /\ slot.child \in Child \cup {None}
      BY <2>5, ProcessFields DEF Announce, Typed, Placed
    <3> DEFINE s == AtPort(status, "restarting", slot.child)
    <3>2. "restarting" \in Phase
      BY DEF Phase
    <3>3. /\ s \in Status /\ s.phase = "restarting"
          /\ s.generation = status.generation /\ s.port = slot.child
      BY <3>1, <3>2, StatusMoved
    <3> HIDE DEF s
    <3>4. edit' = [edit EXCEPT ![m] = s] /\ at' = [at EXCEPT ![m] = "health"]
      BY <2>5, <3>1 DEF Announce, Prepare, s
    <3>5. slot' = slot /\ alive' = alive /\ at[m] = "announce" /\ s # None
      BY <2>5, <3>3, StatusFields DEF Announce
    <3>6. QED BY <3>1, <3>3, <3>4, <3>5 DEF Names, Coming
  <2>6. CASE Healthy(m, "confirm", "take") BY <2>6 DEF Healthy, Names, Coming
  <2>7. CASE Confirm(m)
    <3>1. at[m] = "confirm" /\ edit[m] = None /\ slot # None /\ Names(status, "restarting")
      BY <2>7 DEF Confirm, Coming
    <3>2. "running" \in Phase
      BY DEF Phase
    <3> DEFINE s == InPhase(status, "running")
    <3>3. /\ s \in Status /\ s.phase = "running"
          /\ s.generation = status.generation /\ s.port = slot.child
      BY <3>1, <3>2, StatusChanged DEF Names
    <3> HIDE DEF s
    <3>4. edit' = [edit EXCEPT ![m] = s] /\ at' = [at EXCEPT ![m] = "sleep"]
      BY <2>7, <3>1 DEF Confirm, Prepare, s, Alone, Names
    <3>5. slot' = slot /\ alive' = alive /\ s # None
      BY <2>7, <3>3, StatusFields DEF Confirm
    <3>6. QED BY <3>1, <3>3, <3>4, <3>5 DEF Names, Coming
  <2>8. CASE Take(m) BY <2>8 DEF Take
  <2>9. CASE Terminate(m) BY <2>9 DEF Terminate
  <2>10. CASE Fail(m)
    <3>1. "failed" \in Phase /\ None \in Child \cup {None}
      BY DEF Phase
    <3> DEFINE s == AtPort(status, "failed", None)
    <3>2. s.generation = status.generation
      BY <3>1, StatusMoved
    <3> HIDE DEF s
    <3>3. edit' = [edit EXCEPT ![m] = s] /\ at' = [at EXCEPT ![m] = "done"]
      BY <2>10 DEF Fail, Prepare, s
    <3>4. slot = None /\ slot' = slot /\ alive' = alive /\ at[m] = "fail"
      BY <2>10 DEF Fail
    <3>5. QED BY <3>2, <3>3, <3>4
  <2>11. QED BY <2>1, <2>2, <2>3, <2>4, <2>5, <2>6, <2>7, <2>8, <2>9, <2>10
<1>7. QED BY <1>4, <1>5, <1>6
(* A monitor that looks at the status takes up work only if nobody has any.  *)
LEMMA MonitorWatches ==
  ASSUME Typed, Typed', Unraced, NEW m \in Child, Watch(m), ~Overlap' PROVE Unraced'
<1> USE Threads DEF At, Go
<1>1. /\ at[m] = "sleep" /\ edit[m] = None /\ watches[m] # 0
      /\ at[Main] # "gone"
  BY DEF Watch, Unraced, Generations
<1>2. UNCHANGED <<slot, status, edit, hold, watches, current, alive, spawned>>
  BY DEF Watch
<1>3. at' = [at EXCEPT ![m] = at'[m]] /\ at \in [Thread -> MainAt \cup MonitorAt]
  BY DEF Watch, Typed, TypeOK
<1>4. \A n \in Thread : n # m => at'[n] = at[n]
  BY <1>3
<1>5. at'[m] \in {"probe", "done"}
  BY <1>3 DEF Watch, Typed, TypeOK
<1>6. Generations'
  BY <1>1, <1>2, <1>4, <1>5 DEF Unraced, Generations
<1>7. CASE at'[m] = "probe"
  <2>1. status.generation = watches[m] /\ status.phase = "running"
    BY <1>3, <1>7 DEF Watch, Typed, TypeOK
  <2>2. at[Main] \notin Starts
    BY <1>4, <1>7 DEF Overlap, AtWork
  <2>3. edit[Main] = None
    BY <2>1, <2>2 DEF Unraced, MainPending, Starts
  <2>4. \A n \in Child : n # m => ~AtWork(n)
    BY <1>1, <2>1 DEF Unraced, AtWorkAlone, Generations
  <2>5. Alone(m) /\ MonitorOK(m)
    BY <1>1, <2>1, <2>2, <2>3, <2>4, MonitorReduced DEF Alone
  <2>6. Alone(m)'
    BY <1>2, <1>4, <2>5 DEF Alone, AtWork
  <2>7. MonitorOK(m)'
    BY <1>1, <1>2, <1>7, <2>5 DEF MonitorOK, Names, AtWork, Restarts
  <2>8. QED BY <1>6, <2>6, <2>7, MonitorRestored
<1>8. CASE at'[m] = "done"
  <2>1. \A n \in Child : AtWork(n)' <=> AtWork(n)
    BY <1>1, <1>2, <1>4, <1>8 DEF AtWork, Restarts
  <2>2. Starting' => NewGeneration'
    <3>1. ASSUME Starting' PROVE Starting /\ hold[Main].child # m
      BY <1>1, <1>4, <3>1 DEF Unraced, Starting, NewGeneration
    <3>2. Starting => hold[Main].child \in Child
      BY ProcessFields DEF Typed, Placed, Starting
    <3>3. QED BY <1>2, <1>4, <3>1, <3>2 DEF Unraced, NewGeneration
  <2>3. MainPending' /\ AtWorkAlone'
    BY <1>1, <1>2, <1>4, <2>1 DEF Unraced, MainPending, AtWorkAlone, Starting
  <2>4. Empty'
    BY <1>1, <1>2, <1>4, <1>8 DEF Unraced, Empty
  <2>5. OwnedChildren'
    <3>1. ASSUME NEW c \in alive PROVE InHand(c)'
      <4>1. InHand(c)
        BY DEF Unraced, OwnedChildren
      <4>2. QED BY <1>1, <1>2, <1>4, <4>1 DEF InHand
    <3>2. QED BY <1>2, <3>1 DEF OwnedChildren
  <2>6. Named'
    <3>1. (\A n \in Child : AtWork(n) => at[n] = "probe")'
            => \A n \in Child : AtWork(n) => at[n] = "probe"
      BY <1>1, <1>4, <2>1 DEF AtWork, Restarts
    <3>2. QED
      BY <1>1, <1>2, <1>4, <1>8, <3>1 DEF Unraced, Named, Names, Coming
  <2>7. QED BY <1>6, <2>2, <2>3, <2>4, <2>5, <2>6 DEF Unraced
<1>9. QED BY <1>5, <1>7, <1>8

LEMMA MonitorUnraced ==
  ASSUME Typed, Typed', Unraced, NEW m \in Child, MonitorStep(m), ~Overlap' PROVE Unraced'
<1>1. CASE Watch(m)
  BY <1>1, MonitorWatches
<1>2. CASE ~Watch(m)
  <2>1. AtWork(m)
    BY <1>2 DEF MonitorStep, AtWork, Restarts, At, Publish, Probe, Restart, Install, Announce,
                Healthy, Confirm, Take, Terminate, Fail
  <2>2. Alone(m) /\ MonitorOK(m)
    BY <2>1, WorkAlone, MonitorReduced
  <2>3. Alone(m)' /\ MonitorOK(m)' /\ Generations'
    BY <1>2, <2>2, MonitorActs DEF MonitorStep, Unraced
  <2>4. QED BY <2>3, MonitorRestored
<1>3. QED BY <1>1, <1>2
-----------------------------------------------------------------------------
(* The rest of the invariant from where the main thread sees it, with no     *)
(* monitor at work.                                                         *)
NoneAtWork == \A m \in Child : ~AtWork(m)

MainOK ==
  /\ at[Main] \in {"spawn", "place", "stopped", "gone"} => slot = None
  /\ \A c \in alive : \/ slot # None /\ c = slot.child
                      \/ at[Main] = "place" /\ c = hold[Main].child
  /\ at[Main] = "place" =>
       IF edit[Main] = None THEN status.port = hold[Main].child
       ELSE edit[Main].port = hold[Main].child
  /\ at[Main] \in {"health", "ready"} => slot = hold[Main] /\ status.port = slot.child
  /\ at[Main] = "monitor" => slot = hold[Main] /\ Coming(Main, "running")
  /\ slot # None /\ at[Main] \notin Starts => Names(status, "running")

LEMMA MainReduced == ASSUME Unraced, NoneAtWork PROVE MainOK
<1>1. \A c \in alive : \/ slot # None /\ c = slot.child
                       \/ at[Main] = "place" /\ c = hold[Main].child
  BY DEF Unraced, OwnedChildren, InHand, NoneAtWork, AtWork, Restarts
<1>2. QED BY <1>1 DEF Unraced, Empty, Named, NoneAtWork, MainOK

LEMMA MainRestored ==
  ASSUME NoneAtWork', MainOK', Starting' => NewGeneration', MainPending', Generations'
  PROVE  Unraced'
<1>1. ~Overlap' /\ AtWorkAlone'
  BY DEF NoneAtWork, Overlap, AtWorkAlone
<1>2. Empty'
  BY DEF NoneAtWork, AtWork, Restarts, MainOK, Empty
<1>3. OwnedChildren'
  BY DEF MainOK, OwnedChildren, InHand
<1>4. Named'
  BY DEF NoneAtWork, AtWork, Restarts, MainOK, Named
<1>5. QED BY <1>1, <1>2, <1>3, <1>4 DEF Unraced

(* The steps of the main thread that only look. *)
LEMMA MainWaits ==
  ASSUME Typed, Typed', Unraced, edit[Main] = None,
         UNCHANGED <<slot, status, edit, watches, alive, spawned>>,
         \A m \in Child : at'[m] = at[m] /\ hold'[m] = hold[m],
         at[Main] \in {"idle", "awaiting", "port", "start", "credentials"},
         at'[Main] \in {"idle", "awaiting", "port", "start", "credentials"}
  PROVE  Unraced'
<1> USE Threads
<1>1. \A m \in Child : AtWork(m)' <=> AtWork(m)
  BY DEF AtWork
<1>2. ~Overlap' /\ ~Starting'
  BY DEF Overlap, Starting, Starts
<1>3. MainPending' /\ AtWorkAlone'
  BY <1>1 DEF Unraced, MainPending, AtWorkAlone
<1>4. Generations' /\ Empty'
  BY DEF Unraced, Generations, Empty
<1>5. OwnedChildren'
  <2>1. ASSUME NEW c \in alive PROVE InHand(c)'
    BY DEF Unraced, OwnedChildren, InHand
  <2>2. QED BY <2>1 DEF OwnedChildren
<1>6. Named'
  <2>1. at[Main] \notin Starts
    BY DEF Starts
  <2>2. (\A m \in Child : AtWork(m) => at[m] = "probe")'
          => \A m \in Child : AtWork(m) => at[m] = "probe"
    BY <1>1
  <2>3. QED BY <2>1, <2>2 DEF Unraced, Named, Names, Coming
<1>7. QED BY <1>2, <1>3, <1>4, <1>5, <1>6 DEF Unraced
(* While the main thread starts, stops or has a status to publish, no        *)
(* monitor is at work.                                                      *)
LEMMA MainAlone ==
  ASSUME Unraced, ~Overlap',
         \A m \in Child : at'[m] = at[m] /\ edit'[m] = edit[m],
         at[Main] \in Starts \/ at'[Main] \in Starts \/ edit[Main] # None
  PROVE  NoneAtWork /\ NoneAtWork'
<1>1. \A m \in Child : AtWork(m)' <=> AtWork(m)
  BY DEF AtWork
<1>2. QED BY <1>1 DEF Unraced, Overlap, AtWorkAlone, NoneAtWork

LEMMA GenerationsKept ==
  ASSUME Typed, Typed', Generations, watches' = watches, spawned' >= spawned,
         \A m \in Child : at'[m] = at[m] /\ edit'[m] = edit[m],
         at[Main] # "gone", at'[Main] # "gone",
         \A m \in Child : watches[m] <= status'.generation
  PROVE  Generations'
<1>1. \A m \in Child : m > spawned' => m > spawned
  BY SupervisorAssumption DEF Child, SupervisorAssumption, Typed, TypeOK
<1>2. QED BY <1>1 DEF Generations

LEMMA MainPublishes ==
  ASSUME Typed, Typed', Unraced, Publish(Main), ~Overlap' PROVE Unraced'
<1> USE Threads
<1>1. /\ edit[Main] # None /\ status' = edit[Main] /\ edit'[Main] = None
      /\ \A m \in Child : at'[m] = at[m] /\ edit'[m] = edit[m]
      /\ at'[Main] = at[Main] /\ hold'[Main] = hold[Main]
      /\ UNCHANGED <<slot, watches, current, alive, spawned>>
  BY DEF Publish, Prepare, Typed, TypeOK
<1>2. NoneAtWork /\ NoneAtWork'
  BY <1>1, MainAlone
<1>3. MainOK
  BY <1>2, MainReduced
<1>4. at[Main] \in {"place", "monitor", "failTake", "stopTake", "idle", "stopped"}
  BY <1>1 DEF Unraced, MainPending
<1>5. Starting' => NewGeneration'
  <2>1. Starting' => Starting
    BY <1>1 DEF Starting
  <2>2. Starting => hold[Main].child \in Child
    BY ProcessFields DEF Typed, Placed, Starting
  <2>3. QED BY <1>1, <2>1, <2>2 DEF Unraced, NewGeneration
<1>6. \A m \in Child : watches[m] <= status'.generation
  <2>1. CASE Starting
    <3>1. hold[Main].token \in Nat /\ \A m \in Child : watches[m] \in Nat
      BY <2>1, ProcessFields, SupervisorAssumption
      DEF Typed, Placed, TypeOK, Starting, Generation, SupervisorAssumption
    <3>2. QED BY <1>1, <2>1, <3>1 DEF Unraced, NewGeneration
  <2>2. CASE ~Starting
    BY <1>1, <2>2 DEF Unraced, MainPending, Generations
  <2>3. QED BY <2>1, <2>2
<1>7. Generations'
  BY <1>1, <1>4, <1>6, GenerationsKept DEF Unraced, Typed, TypeOK
<1>8. MainPending'
  BY <1>1, <1>4 DEF Unraced, MainPending, Starting
<1>9. MainOK'
  BY <1>1, <1>3, <1>4 DEF Unraced, MainPending, MainOK, Coming, Names, Starts
<1>10. QED BY <1>2, <1>5, <1>7, <1>8, <1>9, MainRestored

LEMMA MainSpawns ==
  ASSUME Typed, Typed', Unraced, Spawn, ~Overlap' PROVE Unraced'
<1> USE Threads
<1>1. /\ at[Main] = "spawn" /\ edit[Main] = None
      /\ \A m \in Child : at'[m] = at[m] /\ edit'[m] = edit[m]
      /\ UNCHANGED <<slot, status, watches, current>>
  BY DEF Spawn, At, Go, Return, Prepare, Typed, TypeOK
<1>2. NoneAtWork /\ NoneAtWork' /\ MainOK
  BY <1>1, MainAlone, MainReduced DEF Starts
<1>3. slot = None /\ alive = {}
  BY <1>1, <1>2 DEF MainOK
<1>4. CASE Return(Error)
  <2>1. at'[Main] = "idle" /\ edit' = edit /\ alive' = {} /\ spawned' = spawned
    BY <1>1, <1>3, <1>4 DEF Spawn, Return, Go, Typed, TypeOK
  <2>2. Generations'
    BY <1>1, <2>1, GenerationsKept DEF Unraced, Generations, Typed, TypeOK
  <2>3. MainPending' /\ ~Starting'
    BY <1>1, <2>1 DEF MainPending, Starting
  <2>4. MainOK'
    BY <1>1, <1>3, <2>1 DEF MainOK
  <2>5. QED BY <1>2, <2>2, <2>3, <2>4, MainRestored
<1>5. CASE ~Return(Error)
  <2> DEFINE p == [child |-> spawned', token |-> status.generation + 1]
             s == [phase |-> "starting", generation |-> status.generation + 1,
                   port |-> spawned']
  <2>1. /\ spawned' = spawned + 1 /\ alive' = {spawned'} /\ hold'[Main] = p /\ edit'[Main] = s
        /\ at'[Main] = "place"
    BY <1>3, <1>5 DEF Spawn, Prepare, Go, Typed, TypeOK
  <2>2. /\ p.child = spawned' /\ p.token = status.generation + 1
        /\ s.generation = status.generation + 1 /\ s.port = spawned'
    OBVIOUS
  <2> HIDE DEF p, s
  <2>3. edit'[Main] # None
    <3>1. edit'[Main] \in Status
      BY <2>1, <2>2, ProcessFields, SupervisorAssumption
      DEF s, Status, Phase, Generation, Child, Typed, TypeOK, Placed, SupervisorAssumption
    <3>2. QED BY <3>1, StatusFields
  <2>4. spawned' \in Child /\ spawned \in Nat /\ status.generation \in Nat
        /\ \A m \in Child : watches[m] \in Nat
    BY <2>1, SupervisorAssumption, StatusFields
    DEF Typed, TypeOK, Child, SupervisorAssumption, Generation
  <2>5. NewGeneration'
    <3>1. at'[spawned'] = "none"
      BY <1>1, <2>1, <2>4 DEF Unraced, Generations
    <3>2. \A m \in Child : watches'[m] < status.generation + 1
      BY <1>1, <2>4 DEF Unraced, Generations
    <3>3. QED BY <2>1, <2>2, <2>3, <2>4, <3>1, <3>2 DEF NewGeneration
  <2>6. Generations'
    BY <1>1, <2>1, <2>4, GenerationsKept DEF Unraced, Generations
  <2>7. MainPending'
    BY <2>1 DEF MainPending, Starting
  <2>8. MainOK'
    BY <1>1, <1>3, <2>1, <2>2, <2>3 DEF MainOK, Starts
  <2>9. QED BY <1>2, <2>5, <2>6, <2>7, <2>8, MainRestored
<1>6. QED BY <1>4, <1>5
LEMMA MainStarts ==
  ASSUME Typed, Typed', Unraced, ~Overlap',
         Place \/ Healthy(Main, "ready", "failing") \/ Ready
  PROVE  Unraced'
<1> USE Threads DEF At, Go
<1>1. /\ at[Main] \in {"place", "health", "ready"} /\ edit[Main] = None
      /\ \A m \in Child : at'[m] = at[m] /\ edit'[m] = edit[m]
      /\ UNCHANGED <<status, watches, alive, spawned, hold>>
  BY DEF Place, Healthy, Ready, Prepare, Typed, TypeOK
<1>2. NoneAtWork /\ NoneAtWork' /\ MainOK
  BY <1>1, MainAlone, MainReduced DEF Starts
<1>3. at'[Main] \in {"health", "ready", "monitor", "failing"}
  BY DEF Place, Healthy, Ready, Typed, TypeOK
<1>4. Generations'
  BY <1>1, <1>3, GenerationsKept DEF Unraced, Generations, Typed, TypeOK
<1>5. hold[Main] \in Process /\ hold[Main] # None /\ hold[Main].child \in Child
  BY <1>1, ProcessFields DEF Typed, Placed
<1>6. NewGeneration
  BY <1>1 DEF Unraced, Starting
<1>7. CASE Place
  <2>1. edit' = edit /\ slot' = hold[Main] /\ at'[Main] = "health" /\ at[Main] = "place"
    BY <1>7 DEF Place, Typed, TypeOK
  <2>2. NewGeneration' /\ MainPending'
    BY <1>1, <1>5, <1>6, <2>1 DEF NewGeneration, MainPending
  <2>3. MainOK'
    BY <1>1, <1>2, <1>5, <2>1 DEF MainOK, Starts
  <2>4. QED BY <1>2, <1>4, <2>2, <2>3, MainRestored
<1>8. CASE Healthy(Main, "ready", "failing")
  <2>1. /\ edit' = edit /\ slot' = slot /\ at'[Main] \in {"ready", "failing"}
        /\ at[Main] = "health"
    BY <1>8 DEF Healthy, Typed, TypeOK
  <2>2. NewGeneration' /\ MainPending'
    BY <1>1, <1>5, <1>6, <2>1 DEF NewGeneration, MainPending
  <2>3. MainOK'
    BY <1>1, <1>2, <2>1 DEF MainOK, Starts
  <2>4. QED BY <1>2, <1>4, <2>2, <2>3, MainRestored
<1>9. CASE Ready
  <2> DEFINE s == InPhase(status, "running")
  <2>1. "running" \in Phase /\ status \in Status
    BY DEF Phase, Typed, TypeOK
  <2>2. /\ s \in Status /\ s.phase = "running"
        /\ s.generation = status.generation /\ s.port = status.port
    BY <2>1, StatusChanged
  <2> HIDE DEF s
  <2>3. edit'[Main] = s /\ slot' = slot /\ at'[Main] = "monitor" /\ at[Main] = "ready"
    BY <1>9 DEF Ready, Prepare, s, Typed, TypeOK
  <2>4. s # None
    BY <2>2, StatusFields
  <2>5. NewGeneration' /\ MainPending'
    BY <1>1, <1>5, <1>6, <2>2, <2>3, <2>4 DEF NewGeneration, MainPending, Starting
  <2>6. MainOK'
    BY <1>1, <1>2, <2>2, <2>3, <2>4 DEF MainOK, Starts, Coming, Names
  <2>7. QED BY <1>2, <1>4, <2>5, <2>6, MainRestored
<1>10. QED BY <1>7, <1>8, <1>9

LEMMA MainLeavesMonitor ==
  ASSUME Typed, Typed', Unraced, LeaveMonitor, ~Overlap' PROVE Unraced'
<1> USE Threads DEF At
<1> DEFINE c == hold[Main].child
<1>1. /\ at[Main] = "monitor" /\ edit[Main] = None /\ c \in Child
      /\ hold[Main].token \in Generation
      /\ UNCHANGED <<slot, status, edit, alive, spawned, hold>>
  BY ProcessFields DEF LeaveMonitor, Typed, Placed
<1>2. NewGeneration /\ at[c] = "none" /\ edit[c] = None
  BY <1>1 DEF Unraced, Starting, NewGeneration, Generations
<1>3. /\ at'[Main] = "credentials" /\ at'[c] = "sleep" /\ watches'[c] = hold[Main].token
      /\ \A m \in Child : m # c => at'[m] = at[m] /\ watches'[m] = watches[m]
  BY <1>1 DEF LeaveMonitor, Typed, TypeOK
<1> HIDE DEF c
<1>4. NoneAtWork
  BY <1>1 DEF Unraced, Overlap, Starts, NoneAtWork
<1>5. NoneAtWork' /\ MainOK
  BY <1>1, <1>2, <1>3, <1>4, MainReduced DEF NoneAtWork, AtWork, Restarts
<1>6. Generations'
  <2>1. hold[Main].token = status.generation /\ status.generation # 0 /\ c <= spawned
    BY <1>1, <1>2, SupervisorAssumption DEF NewGeneration, Generation, SupervisorAssumption, c
  <2>2. \A m \in Child : watches[m] < status.generation
    BY <1>1, <1>2, <2>1 DEF NewGeneration
  <2>3. /\ status.generation \in Nat /\ spawned \in Nat /\ c \in Nat
        /\ \A m \in Child : watches[m] \in Nat
    BY <1>1, SupervisorAssumption, StatusFields
    DEF Typed, TypeOK, Generation, Child, SupervisorAssumption
  <2>4. /\ \A m \in Child : watches'[m] <= status.generation
        /\ \A m, n \in Child : watches'[m] = watches'[n] /\ watches'[m] # 0 => m = n
    BY <1>3, <2>1, <2>2, <2>3 DEF Unraced, Generations
  <2>5. \A m \in Child : /\ at'[m] = "none" => edit[m] = None
                         /\ at'[m] = "sleep" => watches'[m] # 0
                         /\ m > spawned => at'[m] = "none"
    BY <1>1, <1>3, <2>1, <2>3 DEF Unraced, Generations
  <2>6. QED BY <1>1, <1>3, <2>4, <2>5 DEF Generations
<1>7. MainPending' /\ ~Starting'
  BY <1>1, <1>3 DEF MainPending, Starting
<1>8. MainOK'
  BY <1>1, <1>3, <1>5 DEF MainOK, Starts, Coming, Names
<1>9. QED BY <1>5, <1>6, <1>7, <1>8, MainRestored

LEMMA MainStops ==
  ASSUME Typed, Typed', Unraced, ~Overlap',
         NEW from \in {"idle", "failing"}, NEW next \in {"stopTake", "failTake"},
         StopBegin(from, next)
  PROVE  Unraced'
<1> USE Threads DEF At, Go
<1>1. /\ at[Main] = from /\ at'[Main] = next /\ edit[Main] = None
      /\ \A m \in Child : at'[m] = at[m] /\ edit'[m] = edit[m]
      /\ UNCHANGED <<slot, status, watches, alive, spawned, hold>>
  BY DEF StopBegin, Prepare, Typed, TypeOK
<1>2. NoneAtWork /\ NoneAtWork' /\ MainOK
  BY <1>1, MainAlone, MainReduced DEF Starts
<1>3. Generations'
  BY <1>1, GenerationsKept DEF Unraced, Generations, Typed, TypeOK
<1> DEFINE s == InPhase(status, "stopping")
<1>4. "stopping" \in Phase /\ status \in Status
  BY DEF Phase, Typed, TypeOK
<1>5. s \in Status /\ s.phase = "stopping" /\ s.generation = status.generation
  BY <1>4, StatusChanged
<1> HIDE DEF s
<1>6. edit'[Main] = s /\ current' = s /\ s # None
  BY <1>5, StatusFields DEF StopBegin, Prepare, s, Typed, TypeOK
<1>7. MainPending' /\ ~Starting'
  BY <1>1, <1>5, <1>6 DEF MainPending, Starting
<1>8. MainOK'
  BY <1>1, <1>2 DEF MainOK, Starts
<1>9. QED BY <1>2, <1>3, <1>7, <1>8, MainRestored

LEMMA MainEnds ==
  ASSUME Typed, Typed', Unraced, ~Overlap',
         StopTake("failTake", "failed") \/ StopTake("stopTake", "stopped")
  PROVE  Unraced'
<1> USE Threads DEF At, Go
<1>1. /\ at[Main] \in {"failTake", "stopTake"} /\ edit[Main] = None /\ slot' = None
      /\ alive' = IF slot = None THEN alive ELSE alive \ {slot.child}
      /\ \A m \in Child : at'[m] = at[m] /\ edit'[m] = edit[m]
      /\ UNCHANGED <<status, watches, spawned, current>>
  BY DEF StopTake, Return, Continue, Prepare, Typed, TypeOK
<1>2. at'[Main] \in {"idle", "stopped"}
  BY DEF StopTake, Return, Continue, Typed, TypeOK
<1>3. NoneAtWork /\ NoneAtWork' /\ MainOK
  BY <1>1, MainAlone, MainReduced DEF Starts
<1>4. Generations'
  BY <1>1, <1>2, GenerationsKept DEF Unraced, Generations, Typed, TypeOK
<1>5. status.phase = "stopping" /\ current.generation = status.generation
  BY <1>1 DEF Unraced, MainPending
<1>6. edit'[Main].generation = status.generation
  <2>1. /\ "failed" \in Phase /\ "stopped" \in Phase /\ None \in Child \cup {None}
        /\ current \in Status
    BY DEF Phase, Typed, TypeOK
  <2>2. /\ AtPort(current, "failed", None).generation = status.generation
        /\ AtPort(current, "stopped", None).generation = status.generation
    BY <1>5, <2>1, StatusMoved
  <2>3. \/ edit'[Main] = AtPort(current, "failed", None)
        \/ edit'[Main] = AtPort(current, "stopped", None)
    BY DEF StopTake, Prepare, Typed, TypeOK
  <2>4. QED BY <2>2, <2>3
<1>7. alive' = {}
  BY <1>1, <1>3 DEF MainOK
<1>8. MainPending' /\ ~Starting'
  BY <1>1, <1>2, <1>5, <1>6 DEF MainPending, Starting
<1>9. MainOK'
  BY <1>1, <1>2, <1>7 DEF MainOK
<1>10. QED BY <1>3, <1>4, <1>8, <1>9, MainRestored

LEMMA MainExits == ASSUME Typed, Typed', Unraced, Exit PROVE Unraced'
<1> USE Threads DEF At
<1>1. /\ at[Main] = "stopped" /\ at'[Main] = "gone" /\ edit'[Main] = None
      /\ \A m \in Child : at'[m] = "done" /\ edit'[m] = None
      /\ UNCHANGED <<slot, status, watches, alive, spawned, hold>>
  BY DEF Exit
<1>2. NoneAtWork /\ NoneAtWork'
  BY <1>1 DEF Unraced, Overlap, Starts, NoneAtWork, AtWork, Restarts
<1>3. MainOK
  BY <1>2, MainReduced
<1>4. Generations'
  BY <1>1 DEF Unraced, Generations
<1>5. MainPending' /\ ~Starting'
  BY <1>1 DEF MainPending, Starting
<1>6. MainOK'
  BY <1>1, <1>3 DEF MainOK
<1>7. QED BY <1>2, <1>4, <1>5, <1>6, MainRestored
(* The steps of the main thread in one. *)
LEMMA MainUnraced ==
  ASSUME Typed, Typed', Unraced, ~Overlap',
         CallStart \/ StopBegin("idle", "stopTake") \/ MainStep
  PROVE  Unraced'
<1>1. ASSUME edit[Main] = None,
             UNCHANGED <<slot, status, edit, watches, alive, spawned>>,
             at[Main] \in {"idle", "awaiting", "port", "start", "credentials"},
             at' = [at EXCEPT ![Main] = at'[Main]],
             at'[Main] \in {"idle", "awaiting", "port", "start", "credentials"},
             hold' = [hold EXCEPT ![Main] = hold'[Main]]
      PROVE  Unraced'
  BY <1>1, Threads, MainWaits DEF Typed, TypeOK
<1>2. ASSUME CallStart \/ Await \/ ReadPort \/ Credentials PROVE Unraced'
  BY <1>1, <1>2, Threads
  DEF CallStart, Await, ReadPort, Credentials, Return, Continue, At, Go, Typed, TypeOK
<1>3. ASSUME StartCheck PROVE Unraced'
  <2>1. CASE slot # None
    BY <1>1, <1>3, <2>1, Threads DEF StartCheck, At, Go, Typed, TypeOK
  <2>2. CASE slot = None
    <3>1. /\ at[Main] = "start" /\ at'[Main] = "spawn" /\ edit[Main] = None
          /\ \A m \in Child : at'[m] = at[m] /\ edit'[m] = edit[m]
          /\ UNCHANGED <<slot, status, edit, watches, alive, spawned, hold>>
      BY <1>3, <2>2, Threads DEF StartCheck, At, Go, Typed, TypeOK
    <3>2. NoneAtWork /\ NoneAtWork' /\ MainOK
      BY <3>1, MainAlone, MainReduced DEF Starts
    <3>3. Generations'
      BY <3>1, GenerationsKept DEF Unraced, Generations, Typed, TypeOK
    <3>4. MainPending' /\ ~Starting'
      BY <3>1 DEF MainPending, Starting
    <3>5. MainOK'
      BY <2>2, <3>1, <3>2 DEF MainOK, Starts
    <3>6. QED BY <3>2, <3>3, <3>4, <3>5, MainRestored
  <2>3. QED BY <2>1, <2>2
<1>4. QED
  BY <1>2, <1>3, MainPublishes, MainSpawns, MainStarts, MainLeavesMonitor, MainStops, MainEnds,
     MainExits DEF MainStep

(* The end of a child takes nothing out of anybody's hands. *)
LEMMA DeathUnraced ==
  ASSUME Unraced, NEW c \in Child, Dies(c) PROVE Unraced'
<1>1. /\ UNCHANGED <<slot, status, at, edit, hold, watches, current, spawned>>
      /\ alive' \subseteq alive
  BY DEF Dies
<1>2. OwnedChildren'
  BY <1>1 DEF Unraced, OwnedChildren, InHand
<1>3. ~Overlap' /\ (Starting' => NewGeneration') /\ MainPending'
  BY <1>1 DEF Unraced, Overlap, AtWork, Starting, NewGeneration, MainPending
<1>4. Generations' /\ AtWorkAlone' /\ Empty' /\ Named'
  BY <1>1 DEF Unraced, Generations, AtWorkAlone, AtWork, Empty, Named, Names, Coming
<1>5. QED BY <1>2, <1>3, <1>4 DEF Unraced

LEMMA InitInvariant == Init => IInv
<1> SUFFICES ASSUME Init PROVE IInv
  OBVIOUS
<1>1. /\ slot = None /\ alive = {} /\ spawned = 0 /\ at[Main] = "idle" /\ edit[Main] = None
      /\ status.generation = 0
      /\ \A m \in Child : at[m] = "none" /\ edit[m] = None /\ watches[m] = 0
  BY Threads DEF Init
<1>2. NoneAtWork /\ ~Overlap /\ AtWorkAlone /\ ~Starting
  BY <1>1 DEF NoneAtWork, AtWork, Restarts, Overlap, Starts, AtWorkAlone, Starting
<1>3. MainPending /\ Generations /\ Empty /\ OwnedChildren /\ Named
  BY <1>1 DEF MainPending, Generations, Empty, OwnedChildren, Named
<1>4. QED BY <1>2, <1>3, InitTyped DEF IInv, Unraced

LEMMA StepInvariant == IInv /\ [Next]_vars => IInv'
<1> SUFFICES ASSUME IInv, [Next]_vars PROVE IInv'
  OBVIOUS
<1>1. CASE Next
  <2>1. raced' \in BOOLEAN /\ (raced' <=> raced \/ Overlap')
    BY <1>1 DEF Next, IInv, Typed, TypeOK
  <2>2. Typed'
    BY <1>1, <2>1, MainTyped, MonitorTyped DEF Next, Step, IInv
  <2>3. CASE raced'
    BY <2>2, <2>3 DEF IInv
  <2>4. CASE ~raced'
    BY <1>1, <2>1, <2>2, <2>4, MainUnraced, MonitorUnraced, DeathUnraced DEF Next, Step, IInv
  <2>5. QED BY <2>1, <2>3, <2>4
<1>2. CASE UNCHANGED vars
  <2>1. Typed'
    BY <1>2 DEF vars, IInv, Typed, TypeOK, ReplyOK, Placed, Counted
  <2>2. ASSUME Unraced PROVE Unraced'
    BY <1>2, <2>2 DEF vars, Unraced, Overlap, AtWork, Starting, NewGeneration, MainPending,
      Generations, AtWorkAlone, Empty, OwnedChildren, InHand, Named, Names, Coming
  <2>3. QED BY <1>2, <2>1, <2>2 DEF vars, IInv
<1>3. QED BY <1>1, <1>2

LEMMA Invariant == Spec => []IInv
  BY InitInvariant, StepInvariant, PTL DEF Spec

-----------------------------------------------------------------------------
(* TypeOK: no attempt beyond MAX_RESTARTS, no generation without a process,  *)
(* whatever starts, stops, restarts and crashes interleave.                 *)
THEOREM SupervisorTypeCorrect == Spec => []TypeOK
<1>1. IInv => TypeOK
  BY DEF IInv, Typed
<1>2. QED BY <1>1, Invariant, PTL

(* OneOwnedRuntime: as long as no start or stop ran into a restart, there is *)
(* one runtime at most and the supervisor can end it; the only way to lose   *)
(* one is the window between the check of start() and its store, or the      *)
(* monitor's.                                                               *)
THEOREM OneRuntime == Spec => []OneOwnedRuntime
<1>1. IInv => OneOwnedRuntime
  <2> SUFFICES ASSUME IInv, ~raced PROVE alive \subseteq Owned /\ Cardinality(alive) <= 1
    BY DEF OneOwnedRuntime
  <2>1. Unraced
    BY DEF IInv
  <2>2. \A c \in alive : InHand(c)
    BY <2>1 DEF Unraced, OwnedChildren
  <2>3. alive \subseteq Owned
    <3>1. ASSUME NEW c \in alive PROVE c \in Owned
      BY <2>2, Threads DEF InHand, Owned
    <3>2. QED BY <3>1
  <2>4. \A c, d \in alive : c = d
    <3>1. CASE NoneAtWork
      BY <2>1, <3>1, MainReduced DEF MainOK
    <3>2. ASSUME NEW m \in Child, AtWork(m) PROVE \A c, d \in alive : c = d
      BY <2>1, <3>2, WorkAlone, MonitorReduced DEF IInv, MonitorOK
    <3>3. QED BY <3>1, <3>2 DEF NoneAtWork
  <2>5. Cardinality(alive) <= 1
    <3>1. CASE alive = {}
      BY <3>1, FS_EmptySet
    <3>2. ASSUME NEW c \in alive PROVE Cardinality(alive) <= 1
      <4>1. alive = {c}
        BY <2>4
      <4>2. Cardinality({c}) = 1
        BY FS_Singleton
      <4>3. QED BY <4>1, <4>2
    <3>3. QED BY <3>1, <3>2
  <2>6. QED BY <2>3, <2>5
<1>2. QED BY <1>1, Invariant, PTL

(* StatusNamesProcess: when no thread is at work, a process in the slot is   *)
(* the one the status names, although slot and status have a lock each.      *)
THEOREM StatusNamesTheProcess == Spec => []StatusNamesProcess
<1>1. IInv => StatusNamesProcess
  <2> SUFFICES ASSUME IInv, ~raced, AtRest, slot # None
               PROVE  status.phase = "running" /\ status.port = slot.child
    BY DEF StatusNamesProcess
  <2>1. Named
    BY DEF IInv, Unraced
  <2>2. at[Main] \notin Starts /\ \A m \in Child : AtWork(m) => at[m] = "probe"
    BY Threads DEF AtRest, Starts, AtWork, Restarts, IInv, Typed, Placed, MainAt
  <2>3. QED BY <2>1, <2>2 DEF Named, Names
<1>2. QED BY <1>1, Invariant, PTL
=============================================================================
