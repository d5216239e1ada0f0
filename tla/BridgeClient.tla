---------------------------- MODULE BridgeClient ----------------------------
(***************************************************************************)
(* GaBridgeClient.ts below its methods: the cached runtime, the starts that *)
(* find it, request() with its one retry, and GaWebSocketManager; with      *)
(* runGaChatTurn.ts, the caller whose turn ends only if a snapshot says so. *)
(* A runtime process is its address, a number that no other process has.    *)
(***************************************************************************)
EXTENDS Absent, Naturals, FiniteSets

CONSTANTS
  MaxRuns,     \* bound: runtime processes
  MaxCalls,    \* bound: invocations of ga_runtime_start that are under way
  MaxSockets,  \* bound: sockets the browser still knows
  Failed,
  Turn, Other, \* who listens: a chat turn, the sidebar
  Manager      \* the socket manager, which needs the runtime as the turn does

Call == 1 .. MaxCalls
(* An invocation of ga_runtime_start: who awaits it, and the address it gave. *)
Invocation == [waits : SUBSET {Turn, Manager}, answer : Nat \cup {None, Failed}]

ASSUME BridgeClientAssumption ==
  /\ {MaxRuns, MaxSockets} \subseteq Nat /\ MaxCalls \in Nat \ {0}
  /\ None \notin Nat \cup Invocation /\ Failed \notin Nat
  /\ Turn # Other /\ Manager \notin {Turn, Other}

Socket == 1 .. MaxSockets

VARIABLES
  up,        \* the address of the runtime that runs, or None
  known,     \* the supervisor's: the address in its slot, of a runtime that may be dead
  runs,      \* the runtimes there were
  session,   \* the turn's session on the bridge: "running" or "idle"
  client,    \* runtime, starting and the invocations under way
  manager,   \* the fields of GaWebSocketManager and the browser's sockets
  req,       \* the turn's request under way, or None
  turn       \* where runGaChatTurn is

clientVars == <<up, known, runs, session, client, manager, req, turn>>

ClientInit ==
  /\ up = None /\ known = None /\ runs = 0 /\ session = "idle"
  /\ client = [runtime |-> None, starting |-> None, calls |-> [c \in Call |-> None]]
  /\ manager = [listeners |-> {}, stopped |-> FALSE, timer |-> FALSE, ws |-> None,
                sockets |-> [s \in Socket |-> None]]
  /\ req = None
  /\ turn = "over"

Unused(f) == {i \in DOMAIN f : f[i] = None}
Fresh(f) == CHOOSE i \in Unused(f) : \A j \in Unused(f) : i <= j
Spare(n) == Cardinality(Unused(client.calls)) >= n

-----------------------------------------------------------------------------
(* ensureRuntime() for who waits, with no runtime at hand: it joins the start  *)
(* in progress or makes one; a forced one forgets both first.                *)

(* Mutant: a refresh waits for a start that was made before it. *)
EnsuredTogether(cl, who, force) ==
  IF cl.starting # None
  THEN [cl EXCEPT !.runtime = IF force THEN None ELSE @, !.calls[cl.starting].waits = @ \cup who]
  ELSE LET c == Fresh(cl.calls)
       IN  [cl EXCEPT !.runtime = IF force THEN None ELSE @, !.starting = c,
                      !.calls[c] = [waits |-> who, answer |-> None]]

Ensured(cl, who, force) ==
  IF cl.starting # None /\ ~force
  THEN [cl EXCEPT !.calls[cl.starting].waits = @ \cup who]
  ELSE LET c == Fresh(cl.calls)
       IN  [cl EXCEPT !.runtime = IF force THEN None ELSE @, !.starting = c,
                      !.calls[c] = [waits |-> who, answer |-> None]]

(* request() up to its first await: the client and the request after it. *)
Requesting(cl) == IF cl.runtime = None THEN Ensured(cl, {Turn}, FALSE) ELSE cl
Requested(cl) == [try |-> 1, at |-> cl.runtime, seen |-> None, since |-> 0]

-----------------------------------------------------------------------------
(* The socket manager, on its record.                                       *)

(* connect(), what it does to the client. *)
Connecting(cl, m) ==
  IF m.ws # None \/ m.listeners = {} THEN cl ELSE Ensured(cl, {Manager}, TRUE)

(* Mutant: a connection that fails or ends is not made again. *)
ScheduledNever(m) == m

Scheduled(m) == IF m.stopped \/ m.listeners = {} THEN m ELSE [m EXCEPT !.timer = TRUE]

Joined(m, l) == [m EXCEPT !.listeners = @ \cup {l}, !.stopped = FALSE]

(* Unsubscribing; the last one stops the manager. *)
Stopped(m) ==
  [m EXCEPT !.stopped = TRUE, !.timer = FALSE, !.ws = None,
            !.sockets = [s \in Socket |-> IF s = m.ws THEN [at |-> None, state |-> "closing"] ELSE @[s]]]
Left(m, l) ==
  LET others == m.listeners \ {l}
  IN  IF others = {} THEN [Stopped(m) EXCEPT !.listeners = {}] ELSE [m EXCEPT !.listeners = others]

(* Mutant: does not look for a socket another connect() has made. *)
SocketMadeAnyway(m, address) ==
  IF m.stopped THEN m
  ELSE LET s == Fresh(m.sockets)
       IN  [m EXCEPT !.ws = s, !.sockets[s] = [at |-> address, state |-> "opening"]]

(* The runtime it asked for is there, or is not. *)
SocketMade(m, address) ==
  IF m.stopped \/ m.ws # None THEN m
  ELSE LET s == Fresh(m.sockets)
       IN  [m EXCEPT !.ws = s, !.sockets[s] = [at |-> address, state |-> "opening"]]

SocketSubscribe ==
  /\ Other \notin manager.listeners /\ Spare(1)
  /\ manager' = Joined(manager, Other)
  /\ client' = Connecting(client, manager')
  /\ UNCHANGED <<up, known, runs, session, req, turn>>

SocketUnsubscribe ==
  /\ Other \in manager.listeners
  /\ manager' = Left(manager, Other)
  /\ UNCHANGED <<up, known, runs, session, client, req, turn>>

Reconnect ==
  /\ manager.timer /\ Spare(1)
  /\ manager' = [manager EXCEPT !.timer = FALSE, !.stopped = FALSE]
  /\ client' = Connecting(client, manager)
  /\ UNCHANGED <<up, known, runs, session, req, turn>>

Opens(s) ==
  /\ manager.sockets[s] # None /\ manager.sockets[s].state = "opening" /\ manager.sockets[s].at = up
  /\ manager' = [manager EXCEPT !.sockets[s].state = "open"]
  /\ UNCHANGED <<up, known, runs, session, client, req, turn>>

(* A socket ends: closed, refused, or lost with its runtime or the network. *)
Closes(s) ==
  /\ manager.sockets[s] # None
  /\ manager' = Scheduled([manager EXCEPT !.sockets[s] = None, !.ws = IF @ = s THEN None ELSE @])
  /\ UNCHANGED <<up, known, runs, session, client, req, turn>>

-----------------------------------------------------------------------------
(* The runtime and what starts it.                                          *)

RuntimeEnds ==
  /\ up # None
  /\ up' = None /\ session' = "idle"
  /\ UNCHANGED <<known, runs, client, manager, req, turn>>

(* The supervisor's monitor polls once a second; until then the slot has the *)
(* dead process and the status says that it is running.                      *)
MonitorNotices ==
  /\ up = None /\ known # None
  /\ known' = None
  /\ UNCHANGED <<up, runs, session, client, manager, req, turn>>

(* A new runtime process, in the slot. *)
NewRuntime ==
  /\ runs < MaxRuns
  /\ runs' = runs + 1 /\ up' = runs' /\ known' = runs'

(* The monitor restarts what it found dead. *)
RuntimeRestarts ==
  /\ known = None /\ runs > 0
  /\ NewRuntime
  /\ UNCHANGED <<session, client, manager, req, turn>>

(* ga_runtime_start: the address in the slot, whether that process is alive  *)
(* or not, or else of a new runtime, or an error.                            *)
StartAnswers(c, good) ==
  /\ client.calls[c] # None /\ client.calls[c].answer = None
  /\ IF good
     THEN /\ IF known = None THEN NewRuntime ELSE UNCHANGED <<up, known, runs>>
          /\ client' = [client EXCEPT !.calls[c].answer = known']
     ELSE client' = [client EXCEPT !.calls[c].answer = Failed] /\ UNCHANGED <<up, known, runs>>
  /\ UNCHANGED <<session, manager, req, turn>>

-----------------------------------------------------------------------------
(* runGaChatTurn().                                                         *)

(* The head of its loop: the next request is for a snapshot or, if the       *)
(* signal was aborted meanwhile, to cancel.                                  *)
AskAgain(cl) ==
  /\ turn' \in {"asking", "cancelling"}
  /\ client' = Requesting(cl)
  /\ req' = Requested(cl)

(* The turn ends; its listener goes if it has subscribed. *)
Listens == turn \in {"asking", "waiting", "cancelling"}
GivesUp(m) == IF Listens THEN Left(m, Turn) ELSE m

Prompt ==
  /\ turn = "over" /\ Spare(1)
  /\ turn' = "prompting"
  /\ client' = Requesting(client)
  /\ req' = Requested(client)
  /\ UNCHANGED <<up, known, runs, session, manager>>

(* The prompt was accepted: subscribe, then ask for the first snapshot. *)
Observe ==
  /\ Spare(2)
  /\ manager' = Joined(manager, Turn)
  /\ AskAgain(Connecting(client, manager'))

Over ==
  /\ turn' = "over"
  /\ manager' = GivesUp(manager)
  /\ req' = None
  /\ UNCHANGED client

(* Mutant: waits for an event only, which needs a socket. *)
PollNever ==
  /\ turn = "waiting" /\ Spare(1)
  /\ manager.ws # None /\ manager.sockets[manager.ws].state = "open"
  /\ AskAgain(client)
  /\ UNCHANGED <<up, known, runs, session, manager>>

(* waitForHintOrPoll() ends by an event, the timer or the signal; an event    *)
(* that comes while a snapshot is under way wakes nobody.                    *)
Poll ==
  /\ turn = "waiting" /\ Spare(1)
  /\ AskAgain(client)
  /\ UNCHANGED <<up, known, runs, session, manager>>

-----------------------------------------------------------------------------
(* request(), once there is a runtime.                                      *)

(* Requests of others, for what they do to the client. *)
OthersRequest(force) ==
  /\ Spare(MaxCalls) /\ (force \/ client.runtime = None)
  /\ client' = Ensured(client, {}, force)
  /\ UNCHANGED <<up, known, runs, session, manager, req, turn>>

(* A start settles: its runtime is cached and whoever waits goes on with it, *)
(* or fails; by then another start may be in progress, which is forgotten.   *)
Settles(c) ==
  /\ client.calls[c] # None /\ client.calls[c].answer # None
  /\ LET answer == client.calls[c].answer
         waits == client.calls[c].waits
         good == answer # Failed
         told == IF Manager \notin waits THEN manager
                 ELSE IF good THEN SocketMade(manager, answer) ELSE Scheduled(manager)
     IN  /\ good /\ Manager \in waits /\ manager.ws = None => Unused(manager.sockets) # {}
         /\ client' = [client EXCEPT !.calls[c] = None, !.starting = None,
                                     !.runtime = IF good THEN answer ELSE @]
         /\ req' = IF Turn \notin waits THEN req
                   ELSE IF good THEN [req EXCEPT !.at = answer] ELSE None
         /\ manager' = IF Turn \in waits /\ ~good THEN GivesUp(told) ELSE told
         /\ turn' = IF Turn \in waits /\ ~good THEN "over" ELSE turn
  /\ UNCHANGED <<up, known, runs, session>>

(* The bridge acts on the turn's request: accepts a prompt, cancels the run. *)
BridgeActs ==
  /\ req # None /\ req.at = up /\ up # None /\ req.seen = None
  /\ session' = CASE turn = "prompting" -> "running"
                  [] turn = "cancelling" -> "idle"
                  [] OTHER -> session
  /\ req' = [req EXCEPT !.seen = session']
  /\ UNCHANGED <<up, known, runs, client, manager, turn>>

SessionEnds ==
  /\ session = "running"
  /\ session' = "idle"
  /\ UNCHANGED <<up, known, runs, client, manager, req, turn>>

(* The answer: a snapshot of a session that runs is not the last, and any     *)
(* request may be refused.                                                   *)
Replies ==
  /\ req # None /\ req.seen # None
  /\ \/ Over
     \/ turn = "prompting" /\ Observe
     \/ /\ turn = "asking" /\ req.seen = "running"
        /\ turn' = "waiting" /\ req' = None
        /\ UNCHANGED <<client, manager>>
  /\ UNCHANGED <<up, known, runs, session>>

(* History: the runtime the supervisor knows of, or the next one. *)
Now == IF known = None THEN runs + 1 ELSE known

(* fetch() fails, before the bridge acted or after: the runtime is found     *)
(* anew and the request is made once more, whatever it was.                  *)
FetchFails ==
  /\ req # None /\ req.at # None /\ Spare(1)
  /\ IF req.try = 1
     THEN /\ client' = Ensured(client, {Turn}, TRUE)
          /\ req' = [try |-> 2, at |-> None, seen |-> None, since |-> Now]
          /\ UNCHANGED <<manager, turn>>
     ELSE Over
  /\ UNCHANGED <<up, known, runs, session>>

ClientNext ==
  \/ RuntimeEnds \/ MonitorNotices \/ RuntimeRestarts \/ SessionEnds
  \/ SocketSubscribe \/ SocketUnsubscribe \/ Reconnect
  \/ Prompt \/ Poll \/ BridgeActs \/ Replies \/ FetchFails
  \/ \E force \in BOOLEAN : OthersRequest(force)
  \/ \E c \in Call : Settles(c) \/ \E good \in BOOLEAN : StartAnswers(c, good)
  \/ \E s \in Socket : Opens(s) \/ Closes(s)

ClientSpec == ClientInit /\ [][ClientNext]_clientVars

(* A socket nobody wants, or whose runtime is gone. *)
Doomed(s) ==
  manager.sockets[s] # None /\ (manager.sockets[s].state = "closing" \/ manager.sockets[s].at # up)

(* Invocations and requests are answered or fail, timers fire, and of a      *)
(* start, or a handshake, that is tried again and again one succeeds.  What   *)
(* makes a call is strongly fair because MaxCalls may delay it.               *)
ClientFairSpec ==
  /\ ClientSpec
  /\ \A c \in Call : WF_clientVars(\E good \in BOOLEAN : StartAnswers(c, good)) /\ WF_clientVars(Settles(c))
  /\ SF_clientVars(\E c \in Call : StartAnswers(c, TRUE) /\ Manager \in client.calls[c].waits)
  /\ SF_clientVars(\E s \in Socket : Opens(s)) /\ \A s \in Socket : WF_clientVars(Doomed(s) /\ Closes(s))
  /\ SF_clientVars(Reconnect) /\ SF_clientVars(Poll \/ BridgeActs \/ Replies \/ FetchFails)

-----------------------------------------------------------------------------
(* However subscribing, its end, reconnects and late starts interleave, the  *)
(* browser has one socket that is not being closed, the manager's, and none  *)
(* once the last listener has gone.                                          *)
OneSocket ==
  /\ \A s \in Socket : manager.sockets[s] # None /\ manager.sockets[s].state # "closing" =>
       manager.ws = s
  /\ manager.listeners = {} => manager.ws = None /\ ~manager.timer

(* The second attempt of a request goes to an address that was asked for      *)
(* after the first had failed: that of the runtime the supervisor knew of     *)
(* then or of a later one, never one that it had given up before.  It may be  *)
(* the dead one again: the supervisor takes up to a second to notice.         *)
SecondTryIsFresh == req # None /\ req.try = 2 /\ req.at # None => req.at >= req.since

(* Who listens is connected again and again, as long as a runtime runs. *)
Connected == manager.ws # None /\ manager.sockets[manager.ws].state = "open"
StaysConnected == []<>(manager.listeners = {} \/ up = None \/ Connected)

(* The end of the session's run ends the turn that observes it, though the   *)
(* event may come while nobody waits for it, or on no socket at all.         *)
EndNoticed == Listens /\ session = "idle" ~> turn = "over" \/ session = "running"
=============================================================================
