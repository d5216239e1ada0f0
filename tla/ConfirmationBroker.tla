------------------------- MODULE ConfirmationBroker -------------------------
(***************************************************************************)
(* confirmationBroker.ts: requests for a human decision are queued and      *)
(* handed one at a time to the only listener.  Here the listener is any     *)
(* that answers each request it is handed once, as the broker's tests do;   *)
(* ExecutionConfirm has the dialog of the program.                         *)
(***************************************************************************)
EXTENDS Absent, Naturals, Sequences

CONSTANT Request

ASSUME BrokerAssumption == None \notin Request

VARIABLES
  waiting,     \* queue
  active,      \* a request was handed out and not answered yet
  listening,   \* listener # null
  shown,       \* the request whose respond callback is out
  answer,      \* [Request -> "none", "pending", "granted", "rejected"]
  asked        \* history: the requests in the order they were made

brokerVars == <<waiting, active, listening, shown, answer, asked>>

BrokerInit ==
  /\ waiting = <<>>
  /\ active = FALSE
  /\ listening = FALSE
  /\ shown = None
  /\ answer = [r \in Request |-> "none"]
  /\ asked = <<>>

(* Mutant: hands out the next request although one is active. *)
PumpAlways(q, busy, listens, out) ==
  IF listens /\ q # <<>>
  THEN waiting' = Tail(q) /\ active' = TRUE /\ shown' = Head(q)
  ELSE waiting' = q /\ active' = busy /\ shown' = out

(* pump(), on the queue, the flag, the listener and the callback that is out. *)
Pump(q, busy, listens, out) ==
  IF ~busy /\ listens /\ q # <<>>
  THEN waiting' = Tail(q) /\ active' = TRUE /\ shown' = Head(q)
  ELSE waiting' = q /\ active' = busy /\ shown' = out

Ask(r) ==
  /\ answer[r] = "none"
  /\ answer' = [answer EXCEPT ![r] = "pending"]
  /\ asked' = Append(asked, r)
  /\ UNCHANGED listening
  /\ Pump(Append(waiting, r), active, listening, shown)

(* Mutant: does not look at the requests that came before the listener. *)
SubscribeSilently ==
  ~listening /\ listening' = TRUE /\ UNCHANGED <<waiting, active, shown, answer, asked>>

Subscribe ==
  /\ ~listening
  /\ listening' = TRUE
  /\ UNCHANGED <<answer, asked>>
  /\ Pump(waiting, active, TRUE, shown)

Unsubscribe ==
  /\ listening
  /\ listening' = FALSE
  /\ UNCHANGED <<waiting, active, shown, answer, asked>>

(* The callback: resolve the promise, then hand out the next request. *)
Respond(granted) ==
  /\ shown # None
  /\ answer' = [answer EXCEPT ![shown] = IF granted THEN "granted" ELSE "rejected"]
  /\ UNCHANGED <<listening, asked>>
  /\ Pump(waiting, FALSE, listening, None)

BrokerNext ==
  \/ \E r \in Request : Ask(r)
  \/ Subscribe \/ Unsubscribe
  \/ \E granted \in BOOLEAN : Respond(granted)

BrokerSpec == BrokerInit /\ [][BrokerNext]_brokerVars

-----------------------------------------------------------------------------
BrokerTypeOK ==
  /\ waiting \in Seq(Request)
  /\ active \in BOOLEAN /\ listening \in BOOLEAN
  /\ shown \in Request \cup {None}
  /\ answer \in [Request -> {"none", "pending", "granted", "rejected"}]
  /\ asked \in Seq(Request)

(* What is out of the broker: the request it is waiting on, then its queue. *)
Outstanding == (IF shown = None THEN <<>> ELSE <<shown>>) \o waiting

(* Requests are answered one by one in the order they were made: what is not *)
(* answered is the tail of what was asked, the one handed out first, and     *)
(* nothing is handed out twice, skipped or forgotten.                        *)
InOrder ==
  /\ active <=> shown # None
  /\ \E n \in 0 .. Len(asked) :
       /\ Outstanding = SubSeq(asked, n + 1, Len(asked))
       /\ \A i \in 1 .. Len(asked) : answer[asked[i]] = "pending" <=> i > n
=============================================================================
