------------------------ MODULE BridgeProofs ------------------------
(***************************************************************************)
(* The client of the GA bridge.  First the confirmation broker alone: it    *)
(* answers requests in the order they were made, whoever asks and listens.   *)
(* Then ExecutionConfirm, which uses it as ConfirmationBroker says: no risky *)
(* target runs without the user's consent, for any number of executions,    *)
(* targets and restarts.  Last the transport, BridgeClient: one socket, and  *)
(* a retry that is worth making.                                           *)
(***************************************************************************)
EXTENDS ExecutionConfirm, BridgeClient, FiniteSetTheorems, SequenceTheorems, TLAPS

(* What is handed out under the name `out` and then queued in q. *)
Line(out, q) == (IF out = None THEN <<>> ELSE <<out>>) \o q

(* s is what is left of asked after its first n requests. *)
Rest(s, n) ==
  /\ Len(s) = Len(asked) - n
  /\ \A i \in 1 .. Len(s) : s[i] = asked[n + i]

(* n requests were answered, in order, and the others are outstanding. *)
Answered(n) ==
  /\ n <= Len(asked)
  /\ Rest(Outstanding, n)
  /\ \A i \in 1 .. Len(asked) : answer[asked[i]] = "pending" <=> i > n

(* A request is made once. *)
AskedOnce ==
  /\ \A i, j \in 1 .. Len(asked) : asked[i] = asked[j] => i = j
  /\ \A i \in 1 .. Len(asked) : answer[asked[i]] # "none"

BrokerInv ==
  /\ BrokerTypeOK
  /\ active <=> shown # None
  /\ \E n \in Nat : Answered(n)
  /\ AskedOnce

-----------------------------------------------------------------------------
(* The line of requests, element by element. *)
LEMMA LineOf ==
  ASSUME NEW out \in Request \cup {None}, NEW q \in Seq(Request)
  PROVE  /\ Line(out, q) \in Seq(Request)
         /\ out = None => Line(out, q) = q
         /\ out # None => /\ Len(Line(out, q)) = Len(q) + 1
                          /\ Line(out, q)[1] = out
                          /\ \A i \in 1 .. Len(q) : Line(out, q)[i + 1] = q[i]
<1>1. CASE out = None
  <2>1. Line(out, q) = q
    BY <1>1 DEF Line
  <2> QED BY <1>1, <2>1
<1>2. CASE out # None
  <2>1. Line(out, q) = <<out>> \o q /\ <<out>> \in Seq(Request)
    BY <1>2 DEF Line
  <2> QED BY <1>2, <2>1
<1> QED BY <1>1, <1>2

(* Handing out the head of the queue moves it in the line to where it was. *)
LEMMA PumpKeepsLine ==
  ASSUME BrokerTypeOK, NEW q \in Seq(Request), NEW busy \in BOOLEAN, NEW listens \in BOOLEAN,
         NEW out \in Request \cup {None}, busy <=> out # None,
         Pump(q, busy, listens, out)
  PROVE  /\ waiting' \in Seq(Request) /\ active' \in BOOLEAN
         /\ shown' \in Request \cup {None}
         /\ active' <=> shown' # None
         /\ Line(shown', waiting') = Line(out, q)
<1>1. CASE ~busy /\ listens /\ q # <<>>
  <2>1. waiting' = Tail(q) /\ active' = TRUE /\ shown' = Head(q) /\ out = None
    BY <1>1 DEF Pump
  <2>2. Head(q) \in Request /\ Tail(q) \in Seq(Request) /\ q = <<Head(q)>> \o Tail(q)
    BY <1>1
  <2>3. Line(shown', waiting') = <<Head(q)>> \o Tail(q)
    BY <2>1, <2>2, BrokerAssumption DEF Line
  <2>4. Line(out, q) = q
    BY <2>1, LineOf
  <2> QED BY <2>1, <2>2, <2>3, <2>4, BrokerAssumption
<1>2. CASE ~(~busy /\ listens /\ q # <<>>)
  BY <1>2 DEF Pump
<1> QED BY <1>1, <1>2

LEMMA BrokerInvInit == BrokerInit => BrokerInv
<1> SUFFICES ASSUME BrokerInit PROVE BrokerInv
  OBVIOUS
<1>1. BrokerTypeOK
  <2>1. <<>> \in Seq(Request)
    OBVIOUS
  <2> QED BY <2>1 DEF BrokerInit, BrokerTypeOK
<1>2. AskedOnce
  <2>1. 1 .. Len(asked) = {}
    BY DEF BrokerInit
  <2> QED BY <2>1 DEF AskedOnce
<1>3. active <=> shown # None
  BY DEF BrokerInit
<1>4. Answered(0)
  BY DEF BrokerInit, Answered, Rest, Outstanding
<1> QED BY <1>1, <1>2, <1>3, <1>4 DEF BrokerInv

(* A new request goes to the end of the line. *)
LEMMA AskKeepsBroker == ASSUME BrokerInv, NEW r \in Request, Ask(r) PROVE BrokerInv'
<1> USE DEF BrokerInv
<1>1. PICK n \in Nat : Answered(n)
  OBVIOUS
<1> DEFINE q == Append(waiting, r)
<1>2. /\ q \in Seq(Request) /\ Len(q) = Len(waiting) + 1 /\ q[Len(q)] = r
      /\ \A i \in 1 .. Len(waiting) : q[i] = waiting[i]
  BY DEF BrokerTypeOK
<1>3. /\ Line(shown', waiting') = Line(shown, q)
      /\ waiting' \in Seq(Request) /\ active' \in BOOLEAN
      /\ shown' \in Request \cup {None} /\ (active' <=> shown' # None)
  <2>1. Pump(q, active, listening, shown)
    BY DEF Ask
  <2> HIDE DEF q
  <2> QED BY <1>2, <2>1, PumpKeepsLine DEF BrokerTypeOK
<1>4. /\ asked \in Seq(Request) /\ asked' \in Seq(Request) /\ Len(asked') = Len(asked) + 1
      /\ asked'[Len(asked')] = r
      /\ \A i \in 1 .. Len(asked) : asked'[i] = asked[i]
  BY DEF BrokerTypeOK, Ask
<1>5. answer[r] = "none" /\ answer' = [answer EXCEPT ![r] = "pending"]
  BY DEF Ask
<1>6. \A i \in 1 .. Len(asked) : asked[i] # r /\ asked[i] \in Request
  BY <1>4, <1>5 DEF AskedOnce
<1>7. BrokerTypeOK'
  BY <1>3, <1>4, <1>5 DEF BrokerTypeOK, Ask
<1>8. AskedOnce'
  <2>1. ASSUME NEW i \in 1 .. Len(asked'), NEW j \in 1 .. Len(asked'), asked'[i] = asked'[j]
        PROVE  i = j
    <3>1. CASE i \in 1 .. Len(asked) /\ j \in 1 .. Len(asked)
      BY <3>1, <2>1, <1>4 DEF AskedOnce
    <3>2. CASE ~(i \in 1 .. Len(asked) /\ j \in 1 .. Len(asked))
      <4>1. i = Len(asked') \/ j = Len(asked')
        BY <3>2, <1>4
      <4> QED BY <4>1, <2>1, <1>4, <1>6
    <3> QED BY <3>1, <3>2
  <2>2. ASSUME NEW i \in 1 .. Len(asked') PROVE answer'[asked'[i]] # "none"
    <3>1. CASE i \in 1 .. Len(asked)
      <4>1. answer'[asked'[i]] = answer[asked[i]]
        BY <3>1, <1>4, <1>5, <1>6 DEF BrokerTypeOK
      <4> QED BY <3>1, <4>1 DEF AskedOnce
    <3>2. CASE i = Len(asked')
      BY <3>2, <1>4, <1>5 DEF BrokerTypeOK
    <3> QED BY <3>1, <3>2, <1>4
  <2> QED BY <2>1, <2>2 DEF AskedOnce
<1>9. Answered(n)'
  <2>1. Outstanding' = Line(shown, q) /\ Outstanding = Line(shown, waiting)
    BY <1>3 DEF Outstanding, Line
  <2>2. /\ Len(Line(shown, q)) = Len(Line(shown, waiting)) + 1
        /\ Line(shown, q)[Len(Line(shown, q))] = r
        /\ \A i \in 1 .. Len(Line(shown, waiting)) : Line(shown, q)[i] = Line(shown, waiting)[i]
    <3> HIDE DEF q
    <3> waiting \in Seq(Request) /\ shown \in Request \cup {None}
      BY DEF BrokerTypeOK
    <3>1. CASE shown = None
      BY <1>2, <3>1, LineOf
    <3>2. CASE shown # None
      <4> DEFINE l == Line(shown, waiting)  k == Line(shown, q)
      <4>1. /\ Len(l) = Len(waiting) + 1 /\ l[1] = shown
            /\ \A i \in 1 .. Len(waiting) : l[i + 1] = waiting[i]
        BY <3>2, LineOf
      <4>2. /\ Len(k) = Len(q) + 1 /\ k[1] = shown
            /\ \A i \in 1 .. Len(q) : k[i + 1] = q[i]
        BY <3>2, <1>2, LineOf
      <4> HIDE DEF l, k
      <4>3. k[Len(k)] = r
        BY <4>2, <1>2
      <4>4. ASSUME NEW i \in 1 .. Len(l) PROVE k[i] = l[i]
        <5>1. CASE i = 1
          BY <5>1, <4>1, <4>2
        <5>2. CASE i # 1
          <6>1. i - 1 \in 1 .. Len(waiting) /\ i - 1 \in 1 .. Len(q) /\ i = (i - 1) + 1
            BY <5>2, <4>1, <1>2
          <6> QED BY <6>1, <4>1, <4>2, <1>2
        <5> QED BY <5>1, <5>2
      <4> QED BY <4>1, <4>2, <4>3, <4>4, <1>2 DEF l, k
    <3> QED BY <3>1, <3>2
  <2>3. Line(shown, waiting) \in Seq(Request)
    BY LineOf DEF BrokerTypeOK
  <2> DEFINE l == Line(shown, waiting)  k == Line(shown, q)
  <2>4. n <= Len(asked) /\ Len(l) = Len(asked) - n /\ \A i \in 1 .. Len(l) : l[i] = asked[n + i]
    BY <1>1, <2>1 DEF Answered, Rest
  <2> HIDE DEF l, k
  <2>5. Len(k) = Len(asked') - n /\ Len(l) \in Nat /\ Len(asked) \in Nat
    BY <2>2, <2>3, <2>4, <1>4 DEF l, k
  <2>6. ASSUME NEW i \in 1 .. Len(k) PROVE k[i] = asked'[n + i]
    <3>1. CASE i = Len(k)
      <4>1. n + i = Len(asked') /\ k[i] = r
        BY <3>1, <2>5, <2>2, <1>4 DEF l, k
      <4> QED BY <4>1, <1>4
    <3>2. CASE i # Len(k)
      <4>1. i \in 1 .. Len(l) /\ n + i \in 1 .. Len(asked) /\ k[i] = l[i]
        BY <3>2, <2>2, <2>4, <2>5 DEF l, k
      <4> QED BY <4>1, <2>4, <1>4
    <3> QED BY <3>1, <3>2
  <2>7. \A i \in 1 .. Len(asked') : answer'[asked'[i]] = "pending" <=> i > n
    <3>1. ASSUME NEW i \in 1 .. Len(asked) PROVE answer'[asked'[i]] = "pending" <=> i > n
      BY <1>1, <1>4, <1>5, <1>6 DEF Answered, BrokerTypeOK
    <3>2. answer'[asked'[Len(asked')]] = "pending" /\ Len(asked') > n
      BY <1>4, <1>5, <2>4, <2>5 DEF BrokerTypeOK
    <3> QED BY <3>1, <3>2, <1>4
  <2>8. n <= Len(asked')
    BY <1>4, <2>4, <2>5
  <2> QED BY <2>1, <2>5, <2>6, <2>7, <2>8 DEF Answered, Rest, k
<1> QED BY <1>3, <1>7, <1>8, <1>9

(* The first of the line is answered; the next one is first. *)
LEMMA RespondKeepsBroker ==
  ASSUME BrokerInv, NEW granted \in BOOLEAN, Respond(granted) PROVE BrokerInv'
<1> USE DEF BrokerInv
<1>1. PICK n \in Nat : Answered(n)
  OBVIOUS
<1>2. /\ waiting \in Seq(Request) /\ shown \in Request /\ shown # None
      /\ listening \in BOOLEAN /\ asked \in Seq(Request) /\ asked' = asked
      /\ listening' = listening
      /\ answer' = [answer EXCEPT ![shown] = IF granted THEN "granted" ELSE "rejected"]
  BY DEF BrokerTypeOK, Respond
<1>3. /\ Line(shown', waiting') = Line(None, waiting)
      /\ waiting' \in Seq(Request) /\ active' \in BOOLEAN
      /\ shown' \in Request \cup {None} /\ (active' <=> shown' # None)
  <2>1. Pump(waiting, FALSE, listening, None)
    BY DEF Respond
  <2> QED BY <1>2, <2>1, PumpKeepsLine
<1>4. Outstanding' = waiting /\ Outstanding = Line(shown, waiting)
  <2>1. Line(None, waiting) = waiting
    BY <1>2, LineOf
  <2> QED BY <1>3, <2>1 DEF Outstanding, Line
<1> DEFINE l == Line(shown, waiting)
<1>5. /\ Len(l) = Len(waiting) + 1 /\ l[1] = shown
      /\ \A i \in 1 .. Len(waiting) : l[i + 1] = waiting[i]
  BY <1>2, LineOf
<1>6. n <= Len(asked) /\ Len(l) = Len(asked) - n /\ \A i \in 1 .. Len(l) : l[i] = asked[n + i]
  BY <1>1, <1>4 DEF Answered, Rest
<1> HIDE DEF l
<1>7. Len(waiting) \in Nat /\ Len(asked) \in Nat /\ n + 1 \in 1 .. Len(asked)
      /\ asked[n + 1] = shown
  BY <1>2, <1>5, <1>6
<1>8. \A i \in 1 .. Len(asked) : asked[i] = shown => i = n + 1
  BY <1>7 DEF AskedOnce
<1>9. \A i \in 1 .. Len(asked) : asked[i] \in Request
  BY <1>2
<1>10. BrokerTypeOK'
  BY <1>2, <1>3 DEF BrokerTypeOK
<1>11. AskedOnce'
  BY <1>2, <1>9 DEF AskedOnce, BrokerTypeOK
<1>12. Answered(n + 1)'
  <2>1. n + 1 <= Len(asked') /\ Len(waiting) = Len(asked') - (n + 1)
    BY <1>2, <1>5, <1>6, <1>7
  <2>2. ASSUME NEW i \in 1 .. Len(waiting) PROVE waiting[i] = asked'[(n + 1) + i]
    <3>1. i + 1 \in 1 .. Len(l) /\ n + (i + 1) = (n + 1) + i
      BY <1>5, <1>7
    <3> QED BY <3>1, <1>2, <1>5, <1>6
  <2>3. ASSUME NEW i \in 1 .. Len(asked)
        PROVE  answer'[asked'[i]] = "pending" <=> i > n + 1
    <3>1. CASE i = n + 1
      <4>1. answer'[asked'[i]] # "pending"
        BY <3>1, <1>2, <1>7 DEF BrokerTypeOK
      <4> QED BY <4>1, <3>1
    <3>2. CASE i # n + 1
      <4>1. answer'[asked'[i]] = answer[asked[i]]
        BY <3>2, <1>2, <1>8, <1>9 DEF BrokerTypeOK
      <4>2. answer[asked[i]] = "pending" <=> i > n
        BY <1>1 DEF Answered
      <4> QED BY <3>2, <4>1, <4>2
    <3> QED BY <3>1, <3>2
  <2> QED BY <2>1, <2>2, <2>3, <1>2, <1>4 DEF Answered, Rest
<1>13. \E m \in Nat : Answered(m)'
  BY <1>12
<1> QED BY <1>3, <1>10, <1>11, <1>13

(* A listener that comes is handed the first of the line, if none is out. *)
LEMMA SubscribeKeepsBroker == ASSUME BrokerInv, Subscribe PROVE BrokerInv'
<1> USE DEF BrokerInv
<1>1. PICK n \in Nat : Answered(n)
  OBVIOUS
<1>2. Pump(waiting, active, TRUE, shown) /\ answer' = answer /\ asked' = asked
      /\ listening' = TRUE
  BY DEF Subscribe
<1>3. /\ Line(shown', waiting') = Line(shown, waiting)
      /\ waiting' \in Seq(Request) /\ active' \in BOOLEAN
      /\ shown' \in Request \cup {None} /\ (active' <=> shown' # None)
  BY <1>2, PumpKeepsLine DEF BrokerTypeOK
<1>4. Outstanding' = Outstanding
  BY <1>3 DEF Outstanding, Line
<1>5. BrokerTypeOK' /\ AskedOnce'
  BY <1>2, <1>3 DEF BrokerTypeOK, AskedOnce
<1>6. Answered(n)'
  BY <1>1, <1>2, <1>4 DEF Answered, Rest
<1> QED BY <1>3, <1>5, <1>6

LEMMA OthersKeepBroker ==
  ASSUME BrokerInv, UNCHANGED <<waiting, active, shown, answer, asked>>, listening' \in BOOLEAN
  PROVE  BrokerInv'
BY DEF BrokerInv, BrokerTypeOK, AskedOnce, Answered, Rest, Outstanding

LEMMA BrokerInvAlways == BrokerSpec => []BrokerInv
<1>1. BrokerInv /\ [BrokerNext]_brokerVars => BrokerInv'
  <2> SUFFICES ASSUME BrokerInv, [BrokerNext]_brokerVars PROVE BrokerInv'
    OBVIOUS
  <2>1. ASSUME NEW r \in Request, Ask(r) PROVE BrokerInv'
    BY <2>1, AskKeepsBroker
  <2>2. CASE Subscribe
    BY <2>2, SubscribeKeepsBroker
  <2>3. CASE Unsubscribe
    BY <2>3, OthersKeepBroker DEF Unsubscribe
  <2>4. ASSUME NEW granted \in BOOLEAN, Respond(granted) PROVE BrokerInv'
    BY <2>4, RespondKeepsBroker
  <2>5. CASE UNCHANGED brokerVars
    BY <2>5, OthersKeepBroker DEF brokerVars, BrokerInv, BrokerTypeOK
  <2> QED BY <2>1, <2>2, <2>3, <2>4, <2>5 DEF BrokerNext
<1> QED BY BrokerInvInit, <1>1, PTL DEF BrokerSpec

-----------------------------------------------------------------------------
(* The variables of the broker keep their types. *)
THEOREM BrokerTypeCorrect == BrokerSpec => []BrokerTypeOK
<1>1. BrokerInv => BrokerTypeOK
  BY DEF BrokerInv
<1> QED BY <1>1, BrokerInvAlways, PTL

(* However requests, answers and listeners come and go, requests are answered *)
(* in the order they were made: pump() hands out nothing twice, skips nothing *)
(* and forgets nothing.                                                       *)
THEOREM RequestsInOrder == BrokerSpec => []InOrder
<1>1. BrokerInv => InOrder
  <2> SUFFICES ASSUME BrokerInv PROVE InOrder
    OBVIOUS
  <2>1. PICK n \in Nat : Answered(n)
    BY DEF BrokerInv
  <2>2. /\ asked \in Seq(Request) /\ Len(asked) \in Nat /\ n \in 0 .. Len(asked)
        /\ Outstanding \in Seq(Request)
    <3>1. Outstanding = Line(shown, waiting)
      BY DEF Outstanding, Line
    <3>2. Outstanding \in Seq(Request)
      BY <3>1, LineOf DEF BrokerInv, BrokerTypeOK
    <3>3. asked \in Seq(Request) /\ Len(asked) \in Nat
      BY DEF BrokerInv, BrokerTypeOK
    <3>4. n <= Len(asked)
      BY <2>1 DEF Answered
    <3> QED BY <3>2, <3>3, <3>4
  <2>3. Outstanding = SubSeq(asked, n + 1, Len(asked))
    <3> DEFINE s == SubSeq(asked, n + 1, Len(asked))
    <3>1. /\ s \in Seq(Request) /\ Len(s) = Len(asked) - n
          /\ \A i \in 1 .. Len(s) : s[i] = asked[n + i]
      <4>1. CASE n = Len(asked)
        BY <4>1, <2>2
      <4>2. CASE n < Len(asked)
        <5>1. n + 1 \in 1 .. Len(asked) + 1 /\ Len(asked) \in n .. Len(asked)
          BY <4>2, <2>2
        <5> QED BY <5>1, <4>2, <2>2
      <4> QED BY <4>1, <4>2, <2>2
    <3> HIDE DEF s
    <3>2. Len(Outstanding) = Len(s) /\ \A i \in 1 .. Len(s) : Outstanding[i] = s[i]
      BY <2>1, <3>1 DEF Answered, Rest
    <3> QED BY <2>2, <3>1, <3>2, SeqEqual DEF s
  <2> QED BY <2>1, <2>2, <2>3 DEF InOrder, BrokerInv, Answered
<1> QED BY <1>1, BrokerInvAlways, PTL

-----------------------------------------------------------------------------
Consented(t) == \E s \in Request : TargetOf[s] = t /\ answer[s] = "granted"

LocalTypes ==
  /\ pending \in Request \cup {None}
  /\ phase \in [Request -> Phase]
  /\ decision \in [Target -> {"required", "approved"}]
  /\ restarts \in 0 .. MaxRestarts

(* Where an execution is and what became of its request. *)
PhaseFitsAnswer ==
  \A r \in Request :
    /\ answer[r] = "pending" <=> phase[r] = "asking"
    /\ answer[r] = "rejected" => phase[r] = "rejected"
    /\ phase[r] \in {"confirming", "retrying"} => answer[r] = "granted"
    /\ phase[r] \in {"idle", "attempting"} => answer[r] = "none"

RunsWithConsent ==
  \A r \in Request :
    phase[r] \in {"running", "executed"} /\ TargetOf[r] \in Risky => Consented(TargetOf[r])

EInv ==
  /\ LocalTypes
  /\ pending # None => pending = shown
  /\ PhaseFitsAnswer
  /\ \A t \in Target : decision[t] = "approved" => Consented(t)
  /\ RunsWithConsent
  /\ ApprovalLasts

(* What the broker guarantees *)
BInv == BrokerTypeOK /\ InOrder

-----------------------------------------------------------------------------
(* The client, the dialog and the adapter do to the broker only what its     *)
(* specification allows: a request is made once and answered when handed out. *)
THEOREM UsesBroker == Spec => BrokerSpec
<1>1. Init => BrokerInit
  BY DEF Init
<1>2. [Next]_vars => [BrokerNext]_brokerVars
  <2> SUFFICES ASSUME [Next]_vars PROVE BrokerNext \/ UNCHANGED brokerVars
    OBVIOUS
  <2>1. CASE Mount
    BY <2>1 DEF Mount, BrokerNext
  <2>2. CASE AdapterRestarts \/ UNCHANGED vars
    BY <2>2 DEF AdapterRestarts, vars, brokerVars
  <2>3. ASSUME NEW r \in Request, AttemptAsks(r) PROVE BrokerNext
    BY <2>3 DEF AttemptAsks, BrokerNext
  <2>4. ASSUME NEW r \in Request,
               Start(r) \/ Runs(r) \/ RunReplies(r) \/ Confirmed(r) \/ RetryRefused(r) \/ RequestFails(r)
        PROVE  UNCHANGED brokerVars
    BY <2>4 DEF Start, Runs, RunReplies, Confirmed, RetryRefused, RequestFails, brokerVars
  <2>5. ASSUME NEW granted \in BOOLEAN, Decide(granted) PROVE BrokerNext
    BY <2>5 DEF Decide, BrokerNext
  <2> QED BY <2>1, <2>2, <2>3, <2>4, <2>5 DEF Next
<1> QED BY <1>1, <1>2, PTL DEF Spec, BrokerSpec

(* What is proved of the broker holds of the one in the composition. *)
LEMMA BrokerAlways == Spec => []BInv
<1>1. BrokerTypeOK /\ InOrder => BInv
  BY DEF BInv
<1> QED BY <1>1, UsesBroker, BrokerTypeCorrect, RequestsInOrder, PTL

-----------------------------------------------------------------------------
LEMMA EInvInit == Init => EInv
BY BrokerAssumption, ExecutionConfirmAssumption
   DEF Init, BrokerInit, EInv, LocalTypes, PhaseFitsAnswer, ApprovalLasts, RunsWithConsent,
       Consented, Phase, Settled

(* A step of one execution that leaves broker, dialog and decisions alone. *)
LEMMA PhaseStep ==
  ASSUME EInv, BInv, NEW r \in Request, NEW p \in Phase, Goes(r, p),
         UNCHANGED <<brokerVars, pending, decision, restarts>>,
         phase[r] # "asking", p # "asking", phase[r] # "rejected",
         p = "rejected" => answer[r] = "rejected",
         p \in {"confirming", "retrying"} =>
           answer[r] = "granted" /\ GateOpen(TargetOf[r]),
         p \in {"idle", "attempting"} => answer[r] = "none",
         p \in {"running", "executed"} => GateOpen(TargetOf[r]) \/ phase[r] = "running"
  PROVE  EInv'
<1>1. LocalTypes' /\ (pending' # None => pending' = shown')
  BY DEF EInv, LocalTypes, Goes, brokerVars
<1>2. \A s \in Request : phase'[s] = IF s = r THEN p ELSE phase[s]
  BY DEF EInv, LocalTypes, Goes
<1>3. PhaseFitsAnswer'
  BY <1>2 DEF EInv, PhaseFitsAnswer, brokerVars
<1>4. \A t \in Target : Consented(t)' <=> Consented(t)
  BY DEF Consented, brokerVars
<1>5. \A t \in Target : decision'[t] = "approved" => Consented(t)'
  BY <1>4 DEF EInv
<1>6. \A s \in Request : TargetOf[s] \in Target
  BY BrokerAssumption, ExecutionConfirmAssumption
<1>7. RunsWithConsent'
  BY <1>2, <1>4, <1>5, <1>6 DEF EInv, RunsWithConsent, GateOpen
<1>8. ApprovalLasts'
  BY <1>2 DEF EInv, ApprovalLasts, GateOpen
<1> QED BY <1>1, <1>3, <1>5, <1>7, <1>8 DEF EInv

(* The dialog displays what the broker hands out, and nothing is handed out  *)
(* while it displays something.                                              *)
LEMMA DisplayStep ==
  ASSUME EInv, BInv, NEW q, NEW listens, Pump(q, active, listens, shown), Displayed,
         BInv'
  PROVE  pending' # None => pending' = shown'
<1>1. active <=> shown # None
  BY DEF BInv, InOrder
<1>2. pending # None => shown' = shown
  BY <1>1 DEF EInv, Pump
<1> QED BY <1>2 DEF EInv, Displayed

(* The answer the broker is waiting for is pending. *)
LEMMA ShownPending == BInv /\ shown # None => shown \in Request /\ answer[shown] = "pending"
<1> SUFFICES ASSUME BInv, shown # None PROVE shown \in Request /\ answer[shown] = "pending"
  OBVIOUS
<1>1. PICK n \in 0 .. Len(asked) :
        /\ Outstanding = SubSeq(asked, n + 1, Len(asked))
        /\ \A i \in 1 .. Len(asked) : answer[asked[i]] = "pending" <=> i > n
  BY DEF BInv, InOrder
<1>2. waiting \in Seq(Request) /\ asked \in Seq(Request) /\ shown \in Request
  BY DEF BInv, BrokerTypeOK
<1>3. Outstanding # <<>> /\ Outstanding[1] = shown
  BY <1>2 DEF Outstanding
<1>4. n < Len(asked)
  BY <1>1, <1>2, <1>3
<1>5. SubSeq(asked, n + 1, Len(asked))[1] = asked[n + 1]
  BY <1>2, <1>4
<1>6. asked[n + 1] = shown
  BY <1>1, <1>3, <1>5
<1>7. n + 1 \in 1 .. Len(asked) /\ n + 1 > n
  BY <1>2, <1>4
<1> QED BY <1>1, <1>2, <1>6, <1>7

-----------------------------------------------------------------------------
LEMMA MountStep == ASSUME EInv, BInv, BInv', Mount PROVE EInv'
<1>1. pending' # None => pending' = shown'
  BY DisplayStep DEF Mount, Subscribe
<1>2. shown' \in Request \cup {None}
  BY DEF BInv, BrokerTypeOK
<1>3. answer' = answer /\ phase' = phase /\ UNCHANGED <<adapterVars, restarts>>
  BY DEF Mount, Subscribe
<1>4. LocalTypes'
  BY <1>2, <1>3 DEF EInv, LocalTypes, Mount, Displayed, adapterVars
<1> QED BY <1>1, <1>3, <1>4
        DEF EInv, PhaseFitsAnswer, ApprovalLasts, RunsWithConsent, Consented, GateOpen, adapterVars

LEMMA AskStep ==
  ASSUME EInv, BInv, BInv', NEW r \in Request, AttemptAsks(r) PROVE EInv'
<1>1. pending' # None => pending' = shown'
  BY DisplayStep DEF AttemptAsks, Ask
<1>2. /\ shown' \in Request \cup {None}
      /\ answer \in [Request -> {"none", "pending", "granted", "rejected"}]
  BY DEF BInv, BrokerTypeOK
<1>3. /\ answer[r] = "none" /\ answer' = [answer EXCEPT ![r] = "pending"]
      /\ phase[r] = "attempting" /\ phase' = [phase EXCEPT ![r] = "asking"]
      /\ UNCHANGED <<decision, restarts>>
  BY DEF AttemptAsks, Ask, Goes
<1>4. LocalTypes'
  BY <1>2, <1>3 DEF EInv, LocalTypes, AttemptAsks, Displayed, Phase
<1>5. PhaseFitsAnswer'
  BY <1>2, <1>3 DEF EInv, PhaseFitsAnswer, LocalTypes
<1>6. \A t \in Target : Consented(t) => Consented(t)'
  BY <1>2, <1>3 DEF Consented
<1>7. \A s \in Request : TargetOf[s] \in Target /\ (s # r => phase'[s] = phase[s])
  BY <1>3, BrokerAssumption, ExecutionConfirmAssumption DEF EInv, LocalTypes
<1>8. phase'[r] = "asking"
  BY <1>3 DEF EInv, LocalTypes
<1>9. \A t \in Target : decision'[t] = "approved" => Consented(t)'
  BY <1>3, <1>6 DEF EInv
<1>10. RunsWithConsent'
  BY <1>6, <1>7, <1>8 DEF EInv, RunsWithConsent
<1>11. ApprovalLasts'
  BY <1>3, <1>7, <1>8 DEF EInv, ApprovalLasts, GateOpen
<1> QED BY <1>1, <1>4, <1>5, <1>9, <1>10, <1>11 DEF EInv

LEMMA DecideStep ==
  ASSUME EInv, BInv, BInv', NEW granted \in BOOLEAN, Decide(granted) PROVE EInv'
<1> DEFINE r == pending
<1>1. r \in Request /\ r = shown /\ answer[r] = "pending" /\ phase[r] = "asking"
  BY ShownPending DEF Decide, EInv, PhaseFitsAnswer
<1>2. answer \in [Request -> {"none", "pending", "granted", "rejected"}]
  BY DEF BInv, BrokerTypeOK
<1>3. /\ answer' = [answer EXCEPT ![r] = IF granted THEN "granted" ELSE "rejected"]
      /\ phase' = [phase EXCEPT ![r] = IF granted THEN "confirming" ELSE "rejected"]
      /\ pending' = None
      /\ UNCHANGED <<adapterVars, restarts>>
  BY <1>1 DEF Decide, Respond, Goes
<1> HIDE DEF r
<1>4. LocalTypes'
  BY <1>1, <1>3 DEF EInv, LocalTypes, adapterVars, Phase, Settled
<1>5. PhaseFitsAnswer'
  BY <1>1, <1>2, <1>3 DEF EInv, PhaseFitsAnswer, LocalTypes
<1>6. \A t \in Target : Consented(t) => Consented(t)'
  BY <1>1, <1>2, <1>3 DEF Consented, adapterVars
<1>7. \A s \in Request : TargetOf[s] \in Target /\ (s # r => phase'[s] = phase[s])
  BY <1>3, BrokerAssumption, ExecutionConfirmAssumption DEF EInv, LocalTypes
<1>8. phase'[r] \in {"confirming", "rejected"}
  BY <1>1, <1>3 DEF EInv, LocalTypes
<1>9. \A t \in Target : decision'[t] = "approved" => Consented(t)'
  BY <1>3, <1>6 DEF EInv, adapterVars
<1>10. RunsWithConsent'
  BY <1>6, <1>7, <1>8 DEF EInv, RunsWithConsent
<1>11. ApprovalLasts'
  BY <1>3, <1>7, <1>8 DEF EInv, ApprovalLasts, GateOpen, adapterVars
<1> QED BY <1>3, <1>4, <1>5, <1>9, <1>10, <1>11 DEF EInv

LEMMA ConfirmedStep == ASSUME EInv, BInv, NEW r \in Request, Confirmed(r) PROVE EInv'
<1> DEFINE t == TargetOf[r]
<1>1. t \in Target /\ answer[r] = "granted" /\ phase[r] = "confirming"
  BY BrokerAssumption, ExecutionConfirmAssumption DEF Confirmed, EInv, PhaseFitsAnswer
<1>2. /\ phase' = [phase EXCEPT ![r] = "retrying"]
      /\ decision' = [decision EXCEPT ![t] = "approved"]
      /\ UNCHANGED <<brokerVars, pending, restarts>>
  BY DEF Confirmed, RecordDecision, Goes
<1> HIDE DEF t
<1>3. LocalTypes' /\ (pending' # None => pending' = shown')
  BY <1>1, <1>2 DEF EInv, LocalTypes, brokerVars, Phase
<1>4. PhaseFitsAnswer'
  BY <1>1, <1>2 DEF EInv, PhaseFitsAnswer, LocalTypes, brokerVars
<1>5. \A u \in Target : Consented(u) => Consented(u)'
  BY <1>2 DEF Consented, brokerVars
<1>6. Consented(t)'
  BY <1>1, <1>2 DEF Consented, brokerVars, t
<1>7. \A u \in Target : decision'[u] = "approved" => Consented(u)'
  BY <1>1, <1>2, <1>5, <1>6 DEF EInv, LocalTypes
<1>8. \A s \in Request : /\ TargetOf[s] \in Target
                         /\ phase'[s] = IF s = r THEN "retrying" ELSE phase[s]
  BY <1>2, BrokerAssumption, ExecutionConfirmAssumption DEF EInv, LocalTypes
<1>9. RunsWithConsent'
  BY <1>5, <1>8 DEF EInv, RunsWithConsent
<1>10. ApprovalLasts'
  <2>1. \A s \in Request : GateOpen(TargetOf[s]) => GateOpen(TargetOf[s])'
    BY <1>1, <1>2, <1>8 DEF GateOpen, EInv, LocalTypes
  <2>2. GateOpen(TargetOf[r])'
    BY <1>1, <1>2 DEF GateOpen, EInv, LocalTypes, t
  <2> QED BY <1>2, <1>8, <2>1, <2>2 DEF EInv, ApprovalLasts
<1> QED BY <1>3, <1>4, <1>7, <1>9, <1>10 DEF EInv

LEMMA RestartStep == ASSUME EInv, AdapterRestarts PROVE EInv'
<1>1. /\ decision' = [t \in Target |-> "required"]
      /\ phase' = [r \in Request |-> IF phase[r] = "running" THEN "failed" ELSE phase[r]]
      /\ restarts' = restarts + 1 /\ restarts < MaxRestarts
      /\ UNCHANGED <<brokerVars, pending>>
  BY DEF AdapterRestarts
<1>2. LocalTypes' /\ restarts' # 0
  BY <1>1, BrokerAssumption, ExecutionConfirmAssumption DEF EInv, LocalTypes, Phase, Settled
<1>3. PhaseFitsAnswer'
  BY <1>1 DEF EInv, PhaseFitsAnswer, brokerVars
<1>4. RunsWithConsent'
  BY <1>1 DEF EInv, RunsWithConsent, Consented, brokerVars
<1> QED BY <1>1, <1>2, <1>3, <1>4 DEF EInv, ApprovalLasts, brokerVars

LEMMA NextStep == EInv /\ BInv /\ BInv' /\ [Next]_vars => EInv'
<1> SUFFICES ASSUME EInv, BInv, BInv', [Next]_vars PROVE EInv'
  OBVIOUS
<1>1. CASE Mount
  BY <1>1, MountStep
<1>2. CASE AdapterRestarts
  BY <1>2, RestartStep
<1>3. ASSUME NEW r \in Request, Start(r) PROVE EInv'
  BY <1>3, PhaseStep DEF Start, EInv, PhaseFitsAnswer, Phase, adapterVars
<1>4. ASSUME NEW r \in Request, Runs(r) \/ RunReplies(r) PROVE EInv'
  <2>1. CASE Runs(r)
    BY <2>1, PhaseStep DEF Runs, Phase, adapterVars
  <2>2. CASE RunReplies(r)
    <3>1. PICK p \in {"executed", "failed"} : Goes(r, p)
      BY <2>2 DEF RunReplies
    <3>2. phase[r] = "running" /\ UNCHANGED <<brokerVars, pending, decision, restarts>>
      BY <2>2 DEF RunReplies
    <3> QED BY <3>1, <3>2, PhaseStep DEF Phase, Settled
  <2> QED BY <1>4, <2>1, <2>2
<1>5. ASSUME NEW r \in Request, AttemptAsks(r) PROVE EInv'
  BY <1>5, AskStep
<1>6. ASSUME NEW r \in Request, Confirmed(r) PROVE EInv'
  BY <1>6, ConfirmedStep
<1>7. ASSUME NEW r \in Request, RetryRefused(r) PROVE EInv'
  BY <1>7, PhaseStep DEF RetryRefused, Phase, Settled
<1>8. ASSUME NEW r \in Request, RequestFails(r) PROVE EInv'
  BY <1>8, PhaseStep DEF RequestFails, Phase, Settled, adapterVars
<1>9. ASSUME NEW granted \in BOOLEAN, Decide(granted) PROVE EInv'
  BY <1>9, DecideStep
<1>10. CASE UNCHANGED vars
  BY <1>10 DEF vars, brokerVars, EInv, LocalTypes, PhaseFitsAnswer, ApprovalLasts,
               RunsWithConsent, Consented, GateOpen
<1> QED BY <1>1, <1>2, <1>3, <1>4, <1>5, <1>6, <1>7, <1>8, <1>9, <1>10 DEF Next

LEMMA EInvAlways == Spec => []EInv
BY BrokerAlways, EInvInit, NextStep, PTL DEF Spec

-----------------------------------------------------------------------------
(* The audit ring: what is approved now is on record, or the ring is full.  *)
Approval(t) == [target |-> t, what |-> "approved"]

OnRecord(t) == Len(audit) = MaxAudit \/ \E j \in 1 .. Len(audit) : audit[j] = Approval(t)

ApprovedBefore(i) == \E j \in 1 .. i - 1 : audit[j] = Approval(audit[i].target)

RanApproved ==
  \A i \in 1 .. Len(audit) :
    audit[i].what = "ran" /\ audit[i].target \in Risky =>
      ApprovedBefore(i) \/ Len(audit) = MaxAudit

AInv ==
  /\ audit \in Seq(AuditItem) /\ Len(audit) <= MaxAudit
  /\ \A t \in Target : decision[t] = "approved" => OnRecord(t)
  /\ \A r \in Request : phase[r] = "running" /\ TargetOf[r] \in Risky => OnRecord(TargetOf[r])
  /\ RanApproved

(* The ring is as full as before or fuller; what is in it keeps its place    *)
(* until it is full.                                                         *)
LEMMA RingGrows ==
  ASSUME audit \in Seq(AuditItem), Len(audit) <= MaxAudit,
         NEW t \in Target, NEW w \in {"approved", "ran", "error"}, RecordAudit(t, w)
  PROVE  /\ audit' \in Seq(AuditItem) /\ Len(audit') <= MaxAudit
         /\ Len(audit) = MaxAudit => Len(audit') = MaxAudit
         /\ Len(audit) < MaxAudit =>
              /\ Len(audit') = Len(audit) + 1
              /\ \A i \in 1 .. Len(audit) : audit'[i] = audit[i]
              /\ audit'[Len(audit')] = [target |-> t, what |-> w]
<1> DEFINE e == [target |-> t, what |-> w]
<1>1. e \in AuditItem
  BY DEF AuditItem
<1>2. MaxAudit \in Nat /\ MaxAudit # 0 /\ Len(audit) \in Nat
  BY ExecutionConfirmAssumption
<1>3. CASE Len(audit) < MaxAudit
  <2>1. audit' = Append(audit, e)
    BY <1>3 DEF RecordAudit
  <2> HIDE DEF e
  <2>2. /\ audit' \in Seq(AuditItem) /\ Len(audit') = Len(audit) + 1
        /\ \A i \in 1 .. Len(audit) : audit'[i] = audit[i]
        /\ audit'[Len(audit) + 1] = e
    BY <1>1, <2>1, AppendProperties
  <2> QED BY <1>2, <1>3, <2>2 DEF e
<1>4. CASE Len(audit) = MaxAudit
  <2>1. audit # <<>> /\ audit' = Append(Tail(audit), e)
    BY <1>2, <1>4 DEF RecordAudit
  <2> HIDE DEF e
  <2>2. Tail(audit) \in Seq(AuditItem) /\ Len(Tail(audit)) = Len(audit) - 1
    BY <2>1, HeadTailProperties
  <2>3. audit' \in Seq(AuditItem) /\ Len(audit') = Len(Tail(audit)) + 1
    BY <1>1, <2>1, <2>2, AppendProperties
  <2> QED BY <1>2, <1>4, <2>2, <2>3
<1> QED BY <1>2, <1>3, <1>4

(* A step that records what an adapter with these decisions may record. *)
LEMMA RecordStep ==
  ASSUME EInv, AInv, NEW t \in Target, NEW w \in {"approved", "ran", "error"}, RecordAudit(t, w),
         w = "ran" /\ t \in Risky => OnRecord(t),
         \A u \in Target : decision'[u] = "approved" =>
           decision[u] = "approved" \/ (u = t /\ w = "approved"),
         \A r \in Request : phase'[r] = "running" => phase[r] = "running"
  PROVE  AInv'
<1>1. /\ audit \in Seq(AuditItem) /\ Len(audit) <= MaxAudit
      /\ Len(audit) \in Nat /\ MaxAudit \in Nat
  BY ExecutionConfirmAssumption DEF AInv
<1>2. /\ audit' \in Seq(AuditItem) /\ Len(audit') <= MaxAudit
      /\ Len(audit) = MaxAudit => Len(audit') = MaxAudit
      /\ Len(audit) < MaxAudit =>
           /\ Len(audit') = Len(audit) + 1
           /\ \A i \in 1 .. Len(audit) : audit'[i] = audit[i]
           /\ audit'[Len(audit')] = [target |-> t, what |-> w]
  BY <1>1, RingGrows
<1>3. \A u : OnRecord(u) => OnRecord(u)'
  <2> SUFFICES ASSUME NEW u, OnRecord(u) PROVE OnRecord(u)'
    OBVIOUS
  <2>1. CASE Len(audit) = MaxAudit
    BY <1>2, <2>1 DEF OnRecord
  <2>2. CASE Len(audit) < MaxAudit
    <3>1. PICK j \in 1 .. Len(audit) : audit[j] = Approval(u)
      BY <1>1, <2>2 DEF OnRecord
    <3>2. j \in 1 .. Len(audit') /\ audit'[j] = Approval(u)
      BY <1>1, <1>2, <2>2, <3>1
    <3> QED BY <3>2 DEF OnRecord, Approval
  <2> QED BY <1>1, <2>1, <2>2
<1>4. w = "approved" => OnRecord(t)'
  <2>1. CASE Len(audit) = MaxAudit
    BY <1>2, <2>1 DEF OnRecord
  <2>2. CASE Len(audit) < MaxAudit
    <3>1. Len(audit') \in 1 .. Len(audit') /\ audit'[Len(audit')] = [target |-> t, what |-> w]
      BY <1>1, <1>2, <2>2
    <3> QED BY <3>1 DEF OnRecord, Approval
  <2> QED BY <1>1, <2>1, <2>2
<1>5. \A u \in Target : decision'[u] = "approved" => OnRecord(u)'
  BY <1>3, <1>4 DEF AInv
<1>6. \A r \in Request : phase'[r] = "running" /\ TargetOf[r] \in Risky => OnRecord(TargetOf[r])'
  BY <1>3 DEF AInv
<1>7. RanApproved'
  <2>1. CASE Len(audit) = MaxAudit
    BY <1>2, <2>1 DEF RanApproved
  <2>2. CASE Len(audit) < MaxAudit
    <3> SUFFICES ASSUME NEW i \in 1 .. Len(audit'), audit'[i].what = "ran",
                        audit'[i].target \in Risky
                 PROVE  ApprovedBefore(i)'
      BY DEF RanApproved
    <3>1. CASE i \in 1 .. Len(audit)
      <4>1. PICK j \in 1 .. i - 1 : audit[j] = Approval(audit[i].target)
        BY <1>1, <1>2, <2>2, <3>1 DEF AInv, RanApproved, ApprovedBefore
      <4>2. j \in 1 .. Len(audit)
        BY <1>1, <3>1, <4>1
      <4>3. audit'[j] = audit[j] /\ audit'[i] = audit[i]
        BY <1>2, <2>2, <3>1, <4>2
      <4> QED BY <4>1, <4>3 DEF ApprovedBefore, Approval
    <3>2. CASE i = Len(audit')
      <4>1. w = "ran" /\ t \in Risky /\ audit'[i].target = t
        BY <1>2, <2>2, <3>2
      <4>2. PICK j \in 1 .. Len(audit) : audit[j] = Approval(t)
        BY <1>1, <2>2, <4>1 DEF OnRecord
      <4>3. j \in 1 .. i - 1 /\ audit'[j] = Approval(t)
        BY <1>1, <1>2, <2>2, <3>2, <4>2
      <4> QED BY <4>1, <4>3 DEF ApprovedBefore, Approval
    <3> QED BY <1>1, <1>2, <2>2, <3>1, <3>2
  <2> QED BY <1>1, <2>1, <2>2
<1> QED BY <1>2, <1>5, <1>6, <1>7 DEF AInv

(* A step that leaves the audit alone. *)
LEMMA QuietStep ==
  ASSUME AInv, UNCHANGED <<audit, decision>>,
         \A r \in Request : phase'[r] = "running" => phase[r] = "running" \/ GateOpen(TargetOf[r])
  PROVE  AInv'
<1>1. \A r \in Request : TargetOf[r] \in Target
  BY ExecutionConfirmAssumption
<1>2. \A u : OnRecord(u)' <=> OnRecord(u)
  BY DEF OnRecord
<1>3. RanApproved'
  BY DEF AInv, RanApproved, ApprovedBefore
<1> QED BY <1>1, <1>2, <1>3 DEF AInv, GateOpen

LEMMA AuditStep == EInv /\ AInv /\ BInv /\ [Next]_vars => AInv'
<1> SUFFICES ASSUME EInv, AInv, BInv, [Next]_vars PROVE AInv'
  OBVIOUS
<1> USE DEF adapterVars
<1>1. phase \in [Request -> Phase] /\ decision \in [Target -> {"required", "approved"}]
  BY DEF EInv, LocalTypes
<1>2. \A r \in Request : TargetOf[r] \in Target
  BY ExecutionConfirmAssumption
<1>3. CASE Mount
  BY <1>3, QuietStep DEF Mount
<1>4. CASE AdapterRestarts
  <2>1. /\ audit' = <<>> /\ decision' = [t \in Target |-> "required"]
        /\ \A r \in Request : phase'[r] # "running"
    BY <1>1, <1>4 DEF AdapterRestarts
  <2>2. <<>> \in Seq(AuditItem) /\ Len(<<>>) = 0 /\ MaxAudit \in Nat
    BY ExecutionConfirmAssumption
  <2>3. RanApproved'
    BY <2>1, <2>2 DEF RanApproved
  <2> QED BY <2>1, <2>2, <2>3 DEF AInv
<1>5. ASSUME NEW r \in Request, Start(r) \/ Runs(r) \/ RequestFails(r) PROVE AInv'
  <2>1. UNCHANGED <<audit, decision>>
    BY <1>5 DEF Start, Runs, RequestFails
  <2>2. \A s \in Request : phase'[s] = "running" => phase[s] = "running" \/ GateOpen(TargetOf[s])
    BY <1>1, <1>5 DEF Start, Runs, RequestFails, Goes
  <2> QED BY <2>1, <2>2, QuietStep
<1>6. ASSUME NEW r \in Request, RunReplies(r) PROVE AInv'
  <2>1. PICK w \in {"ran", "error"} : RecordAudit(TargetOf[r], w)
    BY <1>6 DEF RunReplies
  <2>2. decision' = decision /\ phase[r] = "running"
    BY <1>6 DEF RunReplies
  <2>3. \A s \in Request : phase'[s] = "running" => phase[s] = "running"
    BY <1>1, <1>6 DEF RunReplies, Goes
  <2>4. TargetOf[r] \in Risky => OnRecord(TargetOf[r])
    BY <2>2 DEF AInv
  <2> QED BY <1>2, <2>1, <2>2, <2>3, <2>4, RecordStep
<1>7. ASSUME NEW r \in Request, AttemptAsks(r) \/ RetryRefused(r) PROVE AInv'
  <2>1. RecordAudit(TargetOf[r], "error") /\ decision' = decision
    BY <1>7 DEF AttemptAsks, RetryRefused
  <2>2. \A s \in Request : phase'[s] = "running" => phase[s] = "running"
    BY <1>1, <1>7 DEF AttemptAsks, RetryRefused, Goes
  <2> QED BY <1>2, <2>1, <2>2, RecordStep
<1>8. ASSUME NEW r \in Request, Confirmed(r) PROVE AInv'
  <2>1. /\ RecordAudit(TargetOf[r], "approved")
        /\ decision' = [decision EXCEPT ![TargetOf[r]] = "approved"]
    BY <1>8 DEF Confirmed, RecordDecision
  <2>2. \A s \in Request : phase'[s] = "running" => phase[s] = "running"
    BY <1>1, <1>8 DEF Confirmed, Goes
  <2>3. \A u \in Target : decision'[u] = "approved" => decision[u] = "approved" \/ u = TargetOf[r]
    BY <1>1, <2>1
  <2> QED BY <1>2, <2>1, <2>2, <2>3, RecordStep
<1>9. ASSUME NEW granted \in BOOLEAN, Decide(granted) PROVE AInv'
  <2>1. UNCHANGED <<audit, decision>>
    BY <1>9 DEF Decide
  <2>2. \A s \in Request : phase'[s] = "running" => phase[s] = "running"
    BY <1>1, <1>9 DEF Decide, Goes
  <2> QED BY <2>1, <2>2, QuietStep
<1>10. CASE UNCHANGED vars
  BY <1>10, QuietStep DEF vars
<1> QED BY <1>3, <1>4, <1>5, <1>6, <1>7, <1>8, <1>9, <1>10 DEF Next

LEMMA AInvAlways == Spec => []AInv
<1>1. Init => AInv
  <2> SUFFICES ASSUME Init PROVE AInv
    OBVIOUS
  <2>1. audit = <<>> /\ <<>> \in Seq(AuditItem) /\ Len(<<>>) = 0 /\ MaxAudit \in Nat
    BY ExecutionConfirmAssumption DEF Init
  <2>2. RanApproved
    BY <2>1 DEF RanApproved
  <2> QED BY <2>1, <2>2 DEF Init, AInv
<1> QED BY <1>1, AuditStep, EInvAlways, BrokerAlways, PTL DEF Spec

-----------------------------------------------------------------------------
(* The variables of client, dialog, adapter and broker keep their types. *)
THEOREM ExecutionTypeCorrect == Spec => []TypeOK
<1>1. EInv /\ BInv /\ AInv => TypeOK
  BY DEF EInv, LocalTypes, BInv, AInv, TypeOK
<1> QED BY <1>1, EInvAlways, BrokerAlways, AInvAlways, PTL

(* A risky target runs only if the user approved an execution of that very   *)
(* target and a rejected execution never runs: withExecutionConfirmation and *)
(* _confirmation_gate, whatever interleaves; and of what the audit still     *)
(* holds, an execution has the approval before it, across restarts, which    *)
(* empty it, unless the ring is full.                                        *)
THEOREM ConsentAlways == Spec => []ConsentBeforeExecution
<1>1. EInv /\ AInv => ConsentBeforeExecution
  <2> SUFFICES ASSUME EInv, AInv PROVE ConsentBeforeExecution
    OBVIOUS
  <2>1. ASSUME NEW r \in Request
        PROVE  /\ phase[r] \in {"running", "executed"} /\ TargetOf[r] \in Risky =>
                    \E s \in Request : TargetOf[s] = TargetOf[r] /\ answer[s] = "granted"
               /\ answer[r] = "rejected" => phase[r] = "rejected"
    BY DEF EInv, PhaseFitsAnswer, RunsWithConsent, Consented
  <2>2. DOMAIN audit = 1 .. Len(audit)
    BY DEF AInv
  <2>3. ASSUME NEW i \in DOMAIN audit, audit[i].what = "ran", audit[i].target \in Risky
        PROVE  \/ \E j \in 1 .. i - 1 : audit[j] = [target |-> audit[i].target, what |-> "approved"]
               \/ Len(audit) = MaxAudit
    BY <2>2, <2>3 DEF AInv, RanApproved, ApprovedBefore, Approval
  <2> QED BY <2>1, <2>3 DEF ConsentBeforeExecution
<1> QED BY <1>1, EInvAlways, AInvAlways, PTL

(* What the dialog displays is the request whose decision it will submit. *)
THEOREM DisplayAlwaysMatches == Spec => []DisplayMatchesBroker
<1>1. EInv /\ BInv => DisplayMatchesBroker
  BY ShownPending DEF EInv, PhaseFitsAnswer, DisplayMatchesBroker
<1> QED BY <1>1, EInvAlways, BrokerAlways, PTL

(* The attempt after an approval passes the gate unless the adapter restarted. *)
THEOREM ApprovalsLast == Spec => []ApprovalLasts
<1>1. EInv => ApprovalLasts
  BY DEF EInv
<1> QED BY <1>1, EInvAlways, PTL

-----------------------------------------------------------------------------
(* Last the transport, which the confirmations know nothing of: the start of *)
(* the runtime and the socket, of BridgeClient.                              *)
SocketRecord == [at : Nat \cup {None}, state : {"opening", "open", "closing"}]
RequestRecord == [try : {1, 2}, at : Nat \cup {None}, seen : {"running", "idle", None}, since : Nat]
Busy == {"prompting", "asking", "cancelling"}

(* The start that ensureRuntime() may join is under way. *)
ClientOK(cl) ==
  /\ cl \in [runtime : Nat \cup {None}, starting : Call \cup {None},
             calls : [Call -> Invocation \cup {None}]]
  /\ cl.starting # None => cl.calls[cl.starting] \in Invocation

ManagerOK(m) ==
  /\ m \in [listeners : SUBSET {Turn, Other}, stopped : BOOLEAN, timer : BOOLEAN,
            ws : Socket \cup {None}, sockets : [Socket -> SocketRecord \cup {None}]]
  /\ \A s \in Socket : m.sockets[s] # None /\ m.sockets[s].state # "closing" => m.ws = s
  /\ m.listeners = {} => m.ws = None /\ ~m.timer

Waits(cl, c) == cl.calls[c] # None /\ Turn \in cl.calls[c].waits

RuntimeOK ==
  /\ runs \in Nat /\ {up, known} \subseteq Nat \cup {None} /\ session \in {"running", "idle"}
  /\ up # None => known = up
  /\ known # None => known = runs

RequestOK(r) ==
  /\ r \in RequestRecord
  /\ r.seen # None => r.at # None
  /\ r.since <= Now
  /\ r.try = 2 /\ r.at # None => r.at >= r.since

(* The turn waits for one start at most, and only before its request is made; *)
(* the second time for one that has not answered with an older runtime.      *)
WaitOK(cl, r) ==
  /\ \A c, d \in Call : Waits(cl, c) /\ Waits(cl, d) => c = d
  /\ \A c \in Call : Waits(cl, c) =>
       /\ RequestOK(r) /\ r.at = None
       /\ r.try = 2 /\ cl.calls[c].answer \in Nat => cl.calls[c].answer >= r.since

(* Without listeners it makes no socket: it is stopped, or, before there was *)
(* a listener, waits for nothing.                                           *)
AtRest(cl, m) ==
  m.listeners = {} /\ ~m.stopped =>
    \A c \in Call : cl.calls[c] # None => Manager \notin cl.calls[c].waits

CInv ==
  /\ RuntimeOK /\ ClientOK(client) /\ ManagerOK(manager)
  /\ AtRest(client, manager)
  /\ req = None \/ RequestOK(req)
  /\ WaitOK(client, req)
  /\ turn \in Busy \cup {"over", "waiting"}
  /\ turn \notin Busy => req = None /\ \A c \in Call : ~Waits(client, c)

-----------------------------------------------------------------------------
LEMMA LeastIndex ==
  ASSUME NEW T \in SUBSET Nat, T # {} PROVE \E x \in T : \A y \in T : x <= y
<1>1. \E x \in T : \A y \in T : <<y, x>> \notin OpToRel(<, Nat)
  BY NatLessThanWellFounded, WFMin
<1>2. \A x, y \in Nat : <<y, x>> \notin OpToRel(<, Nat) => x <= y
  BY DEF OpToRel
<1> QED BY <1>1, <1>2

(* What is taken is unused. *)
LEMMA FreshUnused ==
  ASSUME NEW f, DOMAIN f \in SUBSET Nat, Unused(f) # {}
  PROVE  Fresh(f) \in Unused(f)
<1>1. Unused(f) \in SUBSET Nat
  BY DEF Unused
<1>2. \E i \in Unused(f) : \A j \in Unused(f) : i <= j
  BY <1>1, LeastIndex
<1> QED BY <1>2 DEF Fresh

LEMMA ClientCardinality == ASSUME NEW S PROVE Cardinality(S) = Cardinality(S)
BY Zenon DEF Cardinality, Cardinality

LEMMA SpareUnused ==
  ASSUME NEW n \in Nat \ {0}, Spare(n), ClientOK(client)
  PROVE  Unused(client.calls) # {}
<1>1. Unused(client.calls) = {} => Cardinality(Unused(client.calls)) = 0
  BY FS_EmptySet
<1> QED BY <1>1, ClientCardinality DEF Spare

-----------------------------------------------------------------------------
(* There is a start to join, or room for one. *)
CanStart(cl, force) == Unused(cl.calls) # {} \/ (cl.starting # None /\ ~force)

(* From cl to e who asked waits for the start c: a new one, or, unless it is  *)
(* forced, one that was under way.                                          *)
Invoked(cl, e, who, force, c) ==
  /\ \/ cl.calls[c] = None /\ e.calls[c] = [waits |-> who, answer |-> None]
     \/ /\ cl.calls[c] \in Invocation /\ ~force
        /\ e.calls[c] = [cl.calls[c] EXCEPT !.waits = @ \cup who]
  /\ \A d \in Call \ {c} : e.calls[d] = cl.calls[d]

(* ensureRuntime(): one more start at most, which waits for who asked. *)
LEMMA EnsuredOK ==
  ASSUME NEW cl, ClientOK(cl), NEW who \in SUBSET {Turn, Manager}, NEW force \in BOOLEAN,
         CanStart(cl, force)
  PROVE  /\ ClientOK(Ensured(cl, who, force))
         /\ Ensured(cl, who, force).starting # None
         /\ \E c \in Call : Invoked(cl, Ensured(cl, who, force), who, force, c)
<1> DEFINE e == Ensured(cl, who, force)
<1>1. CASE cl.starting # None /\ ~force
  <2> DEFINE c == cl.starting
  <2>1. e = [cl EXCEPT !.calls[c].waits = @ \cup who]
    BY <1>1 DEF Ensured
  <2>2. /\ c \in Call /\ cl.calls[c] \in Invocation
        /\ cl.calls \in [Call -> Invocation \cup {None}]
    BY <1>1 DEF ClientOK
  <2>3. /\ e.calls = [cl.calls EXCEPT ![c].waits = @ \cup who]
        /\ e.starting = cl.starting /\ e.runtime = cl.runtime
        /\ e = [runtime |-> e.runtime, starting |-> e.starting, calls |-> e.calls]
    BY <2>1 DEF ClientOK
  <2> HIDE DEF e, c
  <2>4. /\ e.calls \in [Call -> Invocation \cup {None}]
        /\ e.calls[c] = [cl.calls[c] EXCEPT !.waits = @ \cup who]
        /\ e.calls[c] \in Invocation
        /\ \A d \in Call \ {c} : e.calls[d] = cl.calls[d]
    <3>1. [cl.calls[c] EXCEPT !.waits = @ \cup who] \in Invocation
      BY <2>2 DEF Invocation
    <3> QED BY <2>2, <2>3, <3>1
  <2>5. ClientOK(e)
    BY <2>3, <2>4 DEF ClientOK, c
  <2>6. Invoked(cl, e, who, force, c)
    BY <1>1, <2>2, <2>4 DEF Invoked
  <2> QED BY <1>1, <2>2, <2>3, <2>5, <2>6 DEF e
<1>2. CASE ~(cl.starting # None /\ ~force)
  <2> DEFINE c == Fresh(cl.calls)  r == [waits |-> who, answer |-> None]
  <2>1. c \in Call /\ cl.calls[c] = None
    <3>1. DOMAIN cl.calls = Call /\ Call \in SUBSET Nat
      BY DEF ClientOK, Call
    <3>2. c \in Unused(cl.calls)
      BY <1>2, <3>1, FreshUnused DEF CanStart
    <3> QED BY <3>1, <3>2 DEF Unused
  <2>2. e = [cl EXCEPT !.runtime = IF force THEN None ELSE @, !.starting = c, !.calls[c] = r]
    BY <1>2 DEF Ensured
  <2>3. r \in Invocation
    BY DEF Invocation
  <2> HIDE DEF c, r
  <2>4. /\ e.calls = [cl.calls EXCEPT ![c] = r]
        /\ e.starting = c /\ e.runtime = IF force THEN None ELSE cl.runtime
        /\ e = [runtime |-> e.runtime, starting |-> e.starting, calls |-> e.calls]
    BY <2>2 DEF ClientOK
  <2> HIDE DEF e
  <2>5. /\ e.calls \in [Call -> Invocation \cup {None}] /\ e.calls[c] = r
        /\ \A d \in Call \ {c} : e.calls[d] = cl.calls[d]
    BY <2>1, <2>3, <2>4 DEF ClientOK
  <2>6. ClientOK(e)
    BY <2>1, <2>3, <2>4, <2>5 DEF ClientOK
  <2>7. e.starting # None
    BY <2>1, <2>4, BridgeClientAssumption DEF Call
  <2>8. Invoked(cl, e, who, force, c)
    BY <2>1, <2>5 DEF Invoked, r
  <2> QED BY <2>1, <2>6, <2>7, <2>8 DEF e
<1> QED BY <1>1, <1>2

(* A call that who asked for does not include the turn keeps it out. *)
LEMMA EnsuredWithoutTurn ==
  ASSUME NEW cl, ClientOK(cl), NEW who \in SUBSET {Manager}, NEW force \in BOOLEAN,
         CanStart(cl, force), NEW c \in Call, Waits(Ensured(cl, who, force), c)
  PROVE  Waits(cl, c) /\ Ensured(cl, who, force).calls[c].answer = cl.calls[c].answer
<1> DEFINE e == Ensured(cl, who, force)
<1>1. Turn \notin who /\ None \notin Invocation /\ who \in SUBSET {Turn, Manager}
  BY BridgeClientAssumption
<1>0. PICK b \in Call : Invoked(cl, e, who, force, b)
  BY <1>1, EnsuredOK
<1>2. /\ \/ cl.calls[b] = None /\ e.calls[b] = [waits |-> who, answer |-> None]
         \/ /\ cl.calls[b] \in Invocation
            /\ e.calls[b] = [cl.calls[b] EXCEPT !.waits = @ \cup who]
      /\ \A d \in Call \ {b} : e.calls[d] = cl.calls[d]
  BY <1>0 DEF Invoked
<1>3. e.calls[c] # None /\ Turn \in e.calls[c].waits
  BY DEF Waits
<1> HIDE DEF e
<1>4. CASE c # b
  BY <1>2, <1>3, <1>4 DEF Waits, e
<1>5. CASE c = b
  <2>1. /\ cl.calls[b] \in Invocation
        /\ e.calls[b] = [cl.calls[b] EXCEPT !.waits = @ \cup who]
    BY <1>1, <1>2, <1>3, <1>5
  <2>2. e.calls[b].waits = cl.calls[b].waits \cup who /\ e.calls[b].answer = cl.calls[b].answer
    BY <2>1 DEF Invocation
  <2> QED BY <1>1, <1>3, <1>5, <2>1, <2>2 DEF Waits, e
<1> QED BY <1>4, <1>5

(* The turn waits for one call, which has no answer if it was forced. *)
LEMMA EnsuredForTurn ==
  ASSUME NEW cl, ClientOK(cl), NEW force \in BOOLEAN, CanStart(cl, force),
         \A c \in Call : ~Waits(cl, c)
  PROVE  \E b \in Call :
           /\ \A c \in Call : Waits(Ensured(cl, {Turn}, force), c) => c = b
           /\ force => Ensured(cl, {Turn}, force).calls[b].answer = None
<1> DEFINE who == {Turn}  e == Ensured(cl, who, force)
<1>1. None \notin Invocation /\ who \in SUBSET {Turn, Manager}
  BY BridgeClientAssumption
<1> HIDE DEF who
<1>0. PICK b \in Call : Invoked(cl, e, who, force, b)
  BY <1>1, EnsuredOK
<1>2. /\ \/ cl.calls[b] = None /\ e.calls[b] = [waits |-> who, answer |-> None]
         \/ /\ cl.calls[b] \in Invocation /\ ~force
            /\ e.calls[b] = [cl.calls[b] EXCEPT !.waits = @ \cup who]
      /\ \A d \in Call \ {b} : e.calls[d] = cl.calls[d]
  BY <1>0 DEF Invoked
<1> HIDE DEF e
<1>3. \A c \in Call : Waits(e, c) => c = b
  BY <1>2 DEF Waits
<1>4. force => e.calls[b].answer = None
  BY <1>1, <1>2
<1> QED BY <1>3, <1>4 DEF e, who

(* The manager waits for a call only if it asked. *)
LEMMA EnsuredAtRest ==
  ASSUME NEW cl, ClientOK(cl), NEW who \in SUBSET {Turn}, NEW force \in BOOLEAN,
         CanStart(cl, force), NEW m, AtRest(cl, m)
  PROVE  AtRest(Ensured(cl, who, force), m)
<1> DEFINE e == Ensured(cl, who, force)
<1>1. Manager \notin who /\ None \notin Invocation /\ who \in SUBSET {Turn, Manager}
  BY BridgeClientAssumption
<1>0. PICK b \in Call : Invoked(cl, e, who, force, b)
  BY <1>1, EnsuredOK
<1>2. /\ \/ cl.calls[b] = None /\ e.calls[b] = [waits |-> who, answer |-> None]
         \/ /\ cl.calls[b] \in Invocation
            /\ e.calls[b] = [cl.calls[b] EXCEPT !.waits = @ \cup who]
      /\ \A d \in Call \ {b} : e.calls[d] = cl.calls[d]
  BY <1>0 DEF Invoked
<1> HIDE DEF e
<1>3. SUFFICES ASSUME m.listeners = {}, ~m.stopped, NEW c \in Call, e.calls[c] # None
               PROVE  Manager \notin e.calls[c].waits
  BY DEF AtRest, e
<1>4. CASE c # b
  BY <1>2, <1>3, <1>4 DEF AtRest
<1>5. CASE c = b /\ cl.calls[b] = None /\ e.calls[b] = [waits |-> who, answer |-> None]
  BY <1>1, <1>5
<1>6. CASE c = b /\ cl.calls[b] \in Invocation
           /\ e.calls[b] = [cl.calls[b] EXCEPT !.waits = @ \cup who]
  <2>1. e.calls[b].waits = cl.calls[b].waits \cup who
    BY <1>6 DEF Invocation
  <2>2. Manager \notin cl.calls[b].waits
    BY <1>1, <1>3, <1>6 DEF AtRest
  <2> QED BY <1>1, <1>6, <2>1, <2>2
<1> QED BY <1>2, <1>4, <1>5, <1>6

-----------------------------------------------------------------------------
(* The socket manager's operations, on its record. *)
Fields(m) == m = [listeners |-> m.listeners, stopped |-> m.stopped, timer |-> m.timer,
                  ws |-> m.ws, sockets |-> m.sockets]

LEMMA JoinedOK ==
  ASSUME NEW m, ManagerOK(m), NEW l \in {Turn, Other}
  PROVE  ManagerOK(Joined(m, l)) /\ Joined(m, l).listeners # {}
<1> DEFINE j == Joined(m, l)
<1>1. /\ j.listeners = m.listeners \cup {l} /\ j.stopped = FALSE /\ j.timer = m.timer
      /\ j.ws = m.ws /\ j.sockets = m.sockets /\ Fields(j)
  <2> DEFINE all == m.listeners \cup {l}
  <2>1. j = [m EXCEPT !.listeners = all, !.stopped = FALSE]
    BY DEF Joined
  <2> HIDE DEF j, all
  <2>2. /\ j.listeners = all /\ j.stopped = FALSE /\ j.timer = m.timer
        /\ j.ws = m.ws /\ j.sockets = m.sockets /\ Fields(j)
    BY <2>1 DEF ManagerOK, Fields
  <2> QED BY <2>2 DEF all
<1> HIDE DEF j
<1>2. ManagerOK(j)
  BY <1>1 DEF ManagerOK, Fields
<1> QED BY <1>1, <1>2 DEF j

LEMMA ScheduledOK ==
  ASSUME NEW m, ManagerOK(m)
  PROVE  /\ ManagerOK(Scheduled(m))
         /\ Scheduled(m).listeners = m.listeners /\ Scheduled(m).stopped = m.stopped
<1>1. CASE m.stopped \/ m.listeners = {}
  BY <1>1 DEF Scheduled
<1>2. CASE ~(m.stopped \/ m.listeners = {})
  <2> DEFINE j == Scheduled(m)
  <2>1. /\ j.listeners = m.listeners /\ j.stopped = m.stopped /\ j.timer = TRUE
        /\ j.ws = m.ws /\ j.sockets = m.sockets /\ Fields(j)
    BY <1>2 DEF Scheduled, ManagerOK, Fields
  <2> HIDE DEF j
  <2>2. ManagerOK(j)
    BY <1>2, <2>1 DEF ManagerOK, Fields
  <2> QED BY <2>1, <2>2 DEF j
<1> QED BY <1>1, <1>2

(* The last listener that leaves stops the manager and closes its socket. *)
LEMMA LeftOK ==
  ASSUME NEW m, ManagerOK(m), NEW l \in {Turn, Other}
  PROVE  /\ ManagerOK(Left(m, l))
         /\ Left(m, l).listeners = {} => Left(m, l).stopped
<1> DEFINE others == m.listeners \ {l}  j == Left(m, l)
<1>1. CASE others = {}
  <2>1. /\ j.listeners = {} /\ j.stopped = TRUE /\ j.timer = FALSE /\ j.ws = None
        /\ j.sockets = [s \in Socket |-> IF s = m.ws THEN [at |-> None, state |-> "closing"]
                                                ELSE m.sockets[s]]
        /\ Fields(j)
    BY <1>1 DEF Left, Stopped, ManagerOK, Fields
  <2> HIDE DEF j
  <2>2. [at |-> None, state |-> "closing"] \in SocketRecord
    BY DEF SocketRecord
  <2>3. \A s \in Socket : /\ j.sockets[s] \in SocketRecord \cup {None}
                          /\ j.sockets[s] = None \/ j.sockets[s].state = "closing"
    BY <2>1, <2>2 DEF ManagerOK
  <2>4. ManagerOK(j)
    BY <2>1, <2>3 DEF ManagerOK, Fields
  <2> QED BY <2>1, <2>4 DEF j
<1>2. CASE others # {}
  <2>1. /\ j.listeners = others /\ j.stopped = m.stopped /\ j.timer = m.timer
        /\ j.ws = m.ws /\ j.sockets = m.sockets /\ Fields(j)
    BY <1>2 DEF Left, ManagerOK, Fields
  <2> HIDE DEF j
  <2>2. ManagerOK(j)
    BY <1>2, <2>1 DEF ManagerOK, Fields
  <2> QED BY <1>2, <2>1, <2>2 DEF j
<1> QED BY <1>1, <1>2

(* A socket is made only when the manager has none and wants one. *)
LEMMA SocketMadeOK ==
  ASSUME NEW m, ManagerOK(m), NEW address \in Nat, m.listeners = {} => m.stopped,
         m.ws = None => Unused(m.sockets) # {}
  PROVE  /\ ManagerOK(SocketMade(m, address))
         /\ SocketMade(m, address).listeners = m.listeners
         /\ SocketMade(m, address).stopped = m.stopped
<1>1. CASE m.stopped \/ m.ws # None
  BY <1>1 DEF SocketMade
<1>2. CASE ~(m.stopped \/ m.ws # None)
  <2> DEFINE s == Fresh(m.sockets)  r == [at |-> address, state |-> "opening"]
             j == SocketMade(m, address)
  <2>1. s \in Socket
    <3>1. DOMAIN m.sockets = Socket /\ Socket \in SUBSET Nat
      BY DEF ManagerOK, Socket
    <3>2. s \in Unused(m.sockets)
      BY <1>2, <3>1, FreshUnused
    <3> QED BY <3>1, <3>2 DEF Unused
  <2>2. j = [m EXCEPT !.ws = s, !.sockets[s] = r]
    BY <1>2 DEF SocketMade
  <2> HIDE DEF s
  <2>3. /\ j.listeners = m.listeners /\ j.stopped = m.stopped /\ j.timer = m.timer
        /\ j.ws = s /\ j.sockets = [m.sockets EXCEPT ![s] = r] /\ Fields(j)
    BY <2>2 DEF ManagerOK, Fields
  <2>4. r \in SocketRecord
    BY DEF SocketRecord
  <2> HIDE DEF j, r
  <2>5. \A t \in Socket \ {s} : m.sockets[t] = None \/ m.sockets[t].state = "closing"
    BY <1>2, BridgeClientAssumption DEF ManagerOK, Socket
  <2>6. j.sockets \in [Socket -> SocketRecord \cup {None}]
        /\ \A t \in Socket \ {s} : j.sockets[t] = m.sockets[t]
    BY <2>1, <2>3, <2>4 DEF ManagerOK
  <2>7. \A t \in Socket : j.sockets[t] # None /\ j.sockets[t].state # "closing" => j.ws = t
    BY <2>3, <2>5, <2>6
  <2>8. ManagerOK(j)
    BY <1>2, <2>1, <2>3, <2>6, <2>7 DEF ManagerOK, Fields
  <2> QED BY <2>3, <2>8 DEF j
<1> QED BY <1>1, <1>2

-----------------------------------------------------------------------------
(* connect() asks for the runtime for the manager alone. *)
LEMMA ConnectingOK ==
  ASSUME NEW cl, ClientOK(cl), NEW m, AtRest(cl, m), Unused(cl.calls) # {}
  PROVE  /\ ClientOK(Connecting(cl, m)) /\ CanStart(Connecting(cl, m), FALSE)
         /\ AtRest(Connecting(cl, m), m)
         /\ \A c \in Call : Waits(Connecting(cl, m), c) =>
              Waits(cl, c) /\ Connecting(cl, m).calls[c].answer = cl.calls[c].answer
<1>1. CASE m.ws # None \/ m.listeners = {}
  BY <1>1 DEF Connecting, CanStart
<1>2. CASE ~(m.ws # None \/ m.listeners = {})
  <2> DEFINE who == {Manager}  e == Ensured(cl, who, TRUE)
  <2>1. Connecting(cl, m) = e /\ who \in SUBSET {Manager} /\ who \in SUBSET {Turn, Manager}
        /\ CanStart(cl, TRUE)
    BY <1>2 DEF Connecting, CanStart
  <2> HIDE DEF who
  <2>2. ClientOK(e) /\ e.starting # None
    BY <2>1, EnsuredOK
  <2>3. \A c \in Call : Waits(e, c) => Waits(cl, c) /\ e.calls[c].answer = cl.calls[c].answer
    BY <2>1, EnsuredWithoutTurn
  <2> HIDE DEF e
  <2>4. CanStart(e, FALSE) /\ AtRest(e, m)
    BY <1>2, <2>2 DEF CanStart, AtRest
  <2> QED BY <2>1, <2>2, <2>3, <2>4
<1> QED BY <1>1, <1>2

(* request() before its first await: with the cached runtime, or waiting. *)
LEMMA RequestingOK ==
  ASSUME RuntimeOK, NEW cl, ClientOK(cl), CanStart(cl, FALSE), \A c \in Call : ~Waits(cl, c),
         NEW m, AtRest(cl, m)
  PROVE  /\ ClientOK(Requesting(cl)) /\ AtRest(Requesting(cl), m)
         /\ RequestOK(Requested(cl)) /\ WaitOK(Requesting(cl), Requested(cl))
<1> DEFINE r == Requested(cl)
<1>1. /\ r \in RequestRecord /\ r.try = 1 /\ r.at = cl.runtime /\ r.seen = None /\ r.since = 0
  BY DEF Requested, RequestRecord, ClientOK
<1>2. RequestOK(r)
  BY <1>1 DEF RequestOK, Now, RuntimeOK
<1> HIDE DEF r
<1>3. CASE cl.runtime # None
  <2>1. Requesting(cl) = cl
    BY <1>3 DEF Requesting
  <2>2. WaitOK(cl, r)
    BY DEF WaitOK
  <2> QED BY <1>2, <2>1, <2>2 DEF r
<1>4. CASE cl.runtime = None
  <2> DEFINE who == {Turn}  e == Ensured(cl, who, FALSE)
  <2>1. Requesting(cl) = e /\ who \in SUBSET {Turn} /\ who \in SUBSET {Turn, Manager}
    BY <1>4 DEF Requesting
  <2>2. \A c, d \in Call : Waits(e, c) /\ Waits(e, d) => c = d
    BY EnsuredForTurn
  <2> HIDE DEF who
  <2>3. ClientOK(e) /\ AtRest(e, m)
    BY <2>1, EnsuredOK, EnsuredAtRest
  <2> HIDE DEF e
  <2>4. WaitOK(e, r)
    BY <1>1, <1>2, <1>4, <2>2 DEF WaitOK
  <2> QED BY <1>2, <2>1, <2>3, <2>4 DEF r
<1> QED BY <1>3, <1>4

LEMMA CInvInit == ClientInit => CInv
<1> SUFFICES ASSUME ClientInit PROVE CInv
  OBVIOUS
<1>1. ClientOK(client) /\ \A c \in Call : ~Waits(client, c)
  BY DEF ClientInit, ClientOK, Waits
<1>2. ManagerOK(manager)
  BY DEF ClientInit, ManagerOK
<1>3. RuntimeOK
  BY DEF ClientInit, RuntimeOK
<1>4. AtRest(client, manager)
  BY DEF ClientInit, AtRest
<1>5. WaitOK(client, req)
  BY <1>1 DEF WaitOK
<1>6. req = None /\ turn = "over"
  BY DEF ClientInit
<1> QED BY <1>1, <1>2, <1>3, <1>4, <1>5, <1>6 DEF CInv

LEMMA NaturalSuccessor == \A n \in Nat : n + 1 \in Nat
OBVIOUS

LEMMA NowTyped == (RuntimeOK => Now \in Nat) /\ (RuntimeOK' => Now' \in Nat)
<1>1. RuntimeOK => Now \in Nat
  BY DEF RuntimeOK, Now
<1>2. RuntimeOK' => Now' \in Nat
  <2> SUFFICES ASSUME RuntimeOK' PROVE Now' \in Nat
    OBVIOUS
  <2>1. CASE known' = None
    <3>1. runs' \in Nat
      BY DEF RuntimeOK
    <3>2. Now' = runs' + 1
      BY <2>1 DEF Now
    <3> QED BY <3>1, <3>2, NaturalSuccessor
  <2>2. CASE known' # None
    BY <2>2 DEF RuntimeOK, Now
  <2> QED BY <2>1, <2>2
<1> QED BY <1>1, <1>2

(* The runtime and the session: the next runtime is never an older one. *)
LEMMA RuntimeStep ==
  ASSUME CInv, RuntimeOK', Now' >= Now, UNCHANGED <<client, manager, req, turn>>
  PROVE  CInv'
<1>1. Now \in Nat /\ Now' \in Nat
  BY NowTyped DEF CInv
<1>2. req' = None \/ RequestOK(req)'
  BY <1>1 DEF CInv, RequestOK, RequestRecord
<1>3. RequestOK(req) => RequestOK(req)'
  BY <1>1 DEF RequestOK, RequestRecord
<1>4. WaitOK(client, req)'
  BY <1>3 DEF CInv, WaitOK, Waits
<1> QED BY <1>2, <1>4 DEF CInv, Waits, AtRest

LEMMA RuntimeEndsKeeps == CInv /\ RuntimeEnds => CInv'
<1> SUFFICES ASSUME CInv, RuntimeEnds PROVE CInv'
  OBVIOUS
<1>1. RuntimeOK' /\ Now' >= Now
  BY DEF CInv, RuntimeOK, RuntimeEnds, Now
<1> QED BY <1>1, RuntimeStep DEF RuntimeEnds

LEMMA MonitorNoticesKeeps == CInv /\ MonitorNotices => CInv'
<1> SUFFICES ASSUME CInv, MonitorNotices PROVE CInv'
  OBVIOUS
<1>1. RuntimeOK' /\ Now' >= Now
  BY DEF CInv, RuntimeOK, MonitorNotices, Now
<1> QED BY <1>1, RuntimeStep DEF MonitorNotices

(* A new runtime, when the supervisor knows of none, is the one it waited for. *)
LEMMA NewRuntimeStep ==
  ASSUME RuntimeOK, known = None, NewRuntime, session' = session
  PROVE  RuntimeOK' /\ Now' = Now /\ known' = Now'
<1>1. runs' = runs + 1 /\ up' = runs' /\ known' = runs'
  BY DEF NewRuntime
<1>2. runs' \in Nat /\ Now = runs + 1
  BY <1>1, NaturalSuccessor DEF RuntimeOK, Now
<1>3. known' # None
  BY <1>1, <1>2, BridgeClientAssumption
<1>4. Now' = runs + 1 /\ known' = Now'
  BY <1>1, <1>3 DEF Now
<1>5. RuntimeOK'
  BY <1>1, <1>2 DEF RuntimeOK
<1> QED BY <1>2, <1>4, <1>5

LEMMA RuntimeRestartsKeeps == CInv /\ RuntimeRestarts => CInv'
<1> SUFFICES ASSUME CInv, RuntimeRestarts PROVE CInv'
  OBVIOUS
<1>1. RuntimeOK' /\ Now' = Now
  BY NewRuntimeStep DEF CInv, RuntimeRestarts
<1>2. Now' >= Now
  BY <1>1, NowTyped DEF CInv
<1> QED BY <1>1, <1>2, RuntimeStep DEF RuntimeRestarts

LEMMA SessionEndsKeeps == CInv /\ SessionEnds => CInv'
<1> SUFFICES ASSUME CInv, SessionEnds PROVE CInv'
  OBVIOUS
<1>1. RuntimeOK' /\ Now' >= Now
  BY DEF CInv, RuntimeOK, SessionEnds, Now
<1> QED BY <1>1, RuntimeStep DEF SessionEnds

(* A step of the socket manager alone. *)
LEMMA ManagerStep ==
  ASSUME CInv, UNCHANGED <<up, known, runs, session, client, req, turn>>, ManagerOK(manager'),
         manager'.listeners = {} /\ ~manager'.stopped =>
           manager.listeners = {} /\ ~manager.stopped
  PROVE  CInv'
<1>1. AtRest(client', manager')
  BY DEF CInv, AtRest
<1>2. ManagerOK(manager)'
  BY DEF ManagerOK
<1>3. RuntimeOK' /\ ClientOK(client)' /\ WaitOK(client, req)' /\ (req' = None \/ RequestOK(req)')
  BY DEF CInv, RuntimeOK, ClientOK, WaitOK, Waits, RequestOK, Now
<1> QED BY <1>1, <1>2, <1>3 DEF CInv, Waits, AtRest

(* A step that only asks for a runtime, and not for the turn. *)
LEMMA AsksStep ==
  ASSUME CInv, UNCHANGED <<up, known, runs, session, req, turn>>, ManagerOK(manager'),
         ClientOK(client'), AtRest(client', manager'),
         \A c \in Call : Waits(client', c) =>
           Waits(client, c) /\ client'.calls[c].answer = client.calls[c].answer
  PROVE  CInv'
<1>1. ManagerOK(manager)' /\ ClientOK(client)' /\ AtRest(client, manager)'
  BY DEF ManagerOK, ClientOK, AtRest
<1>2. \A c \in Call : Waits(client, c)' <=> Waits(client', c)
  BY DEF Waits
<1>4. RuntimeOK' /\ (req' = None \/ RequestOK(req)') /\ (RequestOK(req) => RequestOK(req)')
  BY DEF CInv, RuntimeOK, RequestOK, Now
<1>3. WaitOK(client, req)'
  BY <1>2, <1>4 DEF CInv, WaitOK
<1> QED BY <1>1, <1>2, <1>3, <1>4 DEF CInv

LEMMA SubscribeKeeps == CInv /\ SocketSubscribe => CInv'
<1> SUFFICES ASSUME CInv, SocketSubscribe PROVE CInv'
  OBVIOUS
<1> DEFINE m == Joined(manager, Other)
<1>1. ManagerOK(m) /\ m.listeners # {}
  BY JoinedOK DEF CInv
<1>2. ClientOK(client) /\ Unused(client.calls) # {}
  BY SpareUnused DEF CInv, SocketSubscribe
<1>3. manager' = m /\ client' = Connecting(client, m)
  BY DEF SocketSubscribe
<1> HIDE DEF m
<1>4. AtRest(client, m)
  BY <1>1 DEF AtRest
<1>5. /\ ClientOK(client') /\ AtRest(client', manager')
      /\ \A c \in Call : Waits(client', c) =>
           Waits(client, c) /\ client'.calls[c].answer = client.calls[c].answer
  BY <1>2, <1>3, <1>4, ConnectingOK
<1> QED BY <1>1, <1>3, <1>5, AsksStep DEF SocketSubscribe

LEMMA UnsubscribeKeeps == CInv /\ SocketUnsubscribe => CInv'
<1> SUFFICES ASSUME CInv, SocketUnsubscribe PROVE CInv'
  OBVIOUS
<1>1. ManagerOK(Left(manager, Other))
      /\ (Left(manager, Other).listeners = {} => Left(manager, Other).stopped)
  BY LeftOK DEF CInv
<1> QED BY <1>1, ManagerStep DEF SocketUnsubscribe

LEMMA ReconnectKeeps == CInv /\ Reconnect => CInv'
<1> SUFFICES ASSUME CInv, Reconnect PROVE CInv'
  OBVIOUS
<1> DEFINE m == [manager EXCEPT !.timer = FALSE, !.stopped = FALSE]
<1>0. m = [manager EXCEPT !.timer = FALSE, !.stopped = FALSE]
  OBVIOUS
<1>2. manager' = m /\ client' = Connecting(client, manager) /\ manager.timer
  BY DEF Reconnect
<1> HIDE DEF m
<1>1. /\ m.listeners = manager.listeners /\ m.stopped = FALSE /\ m.timer = FALSE
      /\ m.ws = manager.ws /\ m.sockets = manager.sockets /\ Fields(m)
  BY <1>0 DEF CInv, ManagerOK, Fields
<1>3. ManagerOK(m) /\ m.listeners # {}
  BY <1>1, <1>2 DEF CInv, ManagerOK, Fields
<1>4. ClientOK(client) /\ Unused(client.calls) # {} /\ AtRest(client, manager)
  BY SpareUnused DEF CInv, Reconnect
<1>5. /\ ClientOK(client')
      /\ \A c \in Call : Waits(client', c) =>
           Waits(client, c) /\ client'.calls[c].answer = client.calls[c].answer
  BY <1>2, <1>4, ConnectingOK
<1>6. AtRest(client', m)
  BY <1>3 DEF AtRest
<1> QED BY <1>2, <1>3, <1>5, <1>6, AsksStep DEF Reconnect

LEMMA OpensKeeps == ASSUME CInv, NEW s \in Socket, Opens(s) PROVE CInv'
<1> DEFINE m == [manager EXCEPT !.sockets[s].state = "open"]
<1>1. manager.sockets[s] \in SocketRecord /\ manager.sockets[s] # None
      /\ manager.sockets[s].state = "opening"
  BY DEF Opens, CInv, ManagerOK
<1>2. manager' = m
  BY DEF Opens
<1>3. /\ m.listeners = manager.listeners /\ m.stopped = manager.stopped
      /\ m.timer = manager.timer /\ m.ws = manager.ws
      /\ m.sockets = [manager.sockets EXCEPT ![s].state = "open"] /\ Fields(m)
  BY DEF CInv, ManagerOK, Fields
<1> HIDE DEF m
<1>4. m.sockets \in [Socket -> SocketRecord \cup {None}]
      /\ \A t \in Socket \ {s} : m.sockets[t] = manager.sockets[t]
  <2>1. [manager.sockets[s] EXCEPT !.state = "open"] \in SocketRecord
    BY <1>1 DEF SocketRecord
  <2> QED BY <1>3, <2>1 DEF CInv, ManagerOK
<1>5. manager.ws = s
  BY <1>1 DEF CInv, ManagerOK
<1>6. ManagerOK(m)
  BY <1>3, <1>4, <1>5 DEF CInv, ManagerOK, Fields
<1> QED BY <1>2, <1>3, <1>6, ManagerStep DEF Opens

LEMMA ClosesKeeps == ASSUME CInv, NEW s \in Socket, Closes(s) PROVE CInv'
<1> DEFINE m == [manager EXCEPT !.sockets[s] = None, !.ws = IF @ = s THEN None ELSE @]
<1>1. manager' = Scheduled(m)
  BY DEF Closes
<1> DEFINE w == IF manager.ws = s THEN None ELSE manager.ws
<1>0. m = [manager EXCEPT !.sockets[s] = None, !.ws = w]
  OBVIOUS
<1> HIDE DEF m, w
<1>2. /\ m.listeners = manager.listeners /\ m.stopped = manager.stopped
      /\ m.timer = manager.timer /\ m.ws = w
      /\ m.sockets = [manager.sockets EXCEPT ![s] = None] /\ Fields(m)
  BY <1>0 DEF CInv, ManagerOK, Fields
<1>3. ManagerOK(m)
  <2>1. m.sockets \in [Socket -> SocketRecord \cup {None}] /\ m.sockets[s] = None
        /\ \A t \in Socket \ {s} : m.sockets[t] = manager.sockets[t]
    BY <1>2 DEF CInv, ManagerOK
  <2>2. \A t \in Socket : m.sockets[t] # None /\ m.sockets[t].state # "closing" => m.ws = t
    BY <1>2, <2>1 DEF CInv, ManagerOK, w
  <2> QED BY <1>2, <2>1, <2>2 DEF CInv, ManagerOK, Fields, w
<1>4. ManagerOK(manager') /\ manager'.listeners = m.listeners /\ manager'.stopped = m.stopped
  BY <1>1, <1>3, ScheduledOK
<1> QED BY <1>2, <1>4, ManagerStep DEF Closes

LEMMA OthersRequestKeeps ==
  ASSUME CInv, NEW force \in BOOLEAN, OthersRequest(force) PROVE CInv'
<1> DEFINE who == {}
<1>1. ClientOK(client) /\ CanStart(client, force) /\ AtRest(client, manager)
  BY SpareUnused, BridgeClientAssumption DEF CInv, OthersRequest, CanStart
<1>2. client' = Ensured(client, who, force)
  BY DEF OthersRequest
<1>3. who \in SUBSET {Manager} /\ who \in SUBSET {Turn} /\ who \in SUBSET {Turn, Manager}
  OBVIOUS
<1> HIDE DEF who
<1>4. ClientOK(client') /\ AtRest(client', manager)
  BY <1>1, <1>2, <1>3, EnsuredOK, EnsuredAtRest
<1>5. \A c \in Call : Waits(client', c) =>
        Waits(client, c) /\ client'.calls[c].answer = client.calls[c].answer
  BY <1>1, <1>2, <1>3, EnsuredWithoutTurn
<1>6. manager' = manager
  BY DEF OthersRequest
<1> QED BY <1>4, <1>5, <1>6, AsksStep DEF OthersRequest, CInv

-----------------------------------------------------------------------------
(* The turn makes a request, after a client that keeps it out. *)
LEMMA TurnStep ==
  ASSUME CInv, UNCHANGED <<up, known, runs, session>>, turn' \in Busy,
         NEW cl, ClientOK(cl), CanStart(cl, FALSE), \A c \in Call : ~Waits(cl, c),
         AtRest(cl, manager'), ManagerOK(manager'),
         client' = Requesting(cl), req' = Requested(cl)
  PROVE  CInv'
<1>1. /\ ClientOK(client') /\ AtRest(client', manager')
      /\ RequestOK(Requested(cl)) /\ WaitOK(client', req')
  BY RequestingOK DEF CInv
<1>2. RequestOK(req)'
  BY <1>1 DEF RequestOK, Now
<1>3. RuntimeOK' /\ ClientOK(client)' /\ ManagerOK(manager)' /\ AtRest(client, manager)'
  BY <1>1 DEF CInv, RuntimeOK, ClientOK, ManagerOK, AtRest
<1>4. WaitOK(client, req)'
  BY <1>1, <1>2 DEF WaitOK, Waits
<1> QED BY <1>2, <1>3, <1>4 DEF CInv

LEMMA PromptKeeps == CInv /\ Prompt => CInv'
<1> SUFFICES ASSUME CInv, Prompt PROVE CInv'
  OBVIOUS
<1>1. ClientOK(client) /\ CanStart(client, FALSE) /\ \A c \in Call : ~Waits(client, c)
  BY SpareUnused DEF CInv, Prompt, CanStart, Busy
<1>2. turn' \in Busy /\ manager' = manager
  BY DEF Prompt, Busy
<1> QED BY <1>1, <1>2, TurnStep DEF Prompt, CInv

LEMMA PollKeeps == CInv /\ Poll => CInv'
<1> SUFFICES ASSUME CInv, Poll PROVE CInv'
  OBVIOUS
<1>1. ClientOK(client) /\ CanStart(client, FALSE) /\ \A c \in Call : ~Waits(client, c)
  BY SpareUnused DEF CInv, Poll, CanStart, Busy
<1>2. turn' \in Busy /\ manager' = manager
  BY DEF Poll, AskAgain, Busy
<1> QED BY <1>1, <1>2, TurnStep DEF Poll, AskAgain, CInv

(* The request under way has an address, so the turn waits for no start. *)
LEMMA RequestMade ==
  ASSUME CInv, req # None, req.at # None \/ req.seen # None
  PROVE  RequestOK(req) /\ req.at # None /\ \A c \in Call : ~Waits(client, c)
BY DEF CInv, RequestOK, WaitOK

(* The end of the turn. *)
LEMMA OverKeeps ==
  ASSUME CInv, Over, UNCHANGED <<up, known, runs, session>>,
         \A c \in Call : ~Waits(client, c)
  PROVE  CInv'
<1>1. /\ ManagerOK(manager')
      /\ manager'.listeners = {} /\ ~manager'.stopped =>
           manager.listeners = {} /\ ~manager.stopped
  <2>1. CASE Listens
    <3>1. manager' = Left(manager, Turn)
      BY <2>1 DEF Over, GivesUp
    <3> QED BY <3>1, LeftOK DEF CInv
  <2>2. CASE ~Listens
    BY <2>2 DEF Over, GivesUp, CInv
  <2> QED BY <2>1, <2>2
<1>2. RuntimeOK' /\ ClientOK(client)' /\ ManagerOK(manager)'
  BY <1>1 DEF CInv, Over, RuntimeOK, ClientOK, ManagerOK
<1>3. AtRest(client, manager)'
  BY <1>1 DEF CInv, Over, AtRest
<1>4. \A c \in Call : ~Waits(client, c)'
  BY DEF Over, Waits
<1>5. WaitOK(client, req)' /\ req' = None /\ turn' = "over"
  BY <1>4 DEF WaitOK, Over
<1> QED BY <1>2, <1>3, <1>4, <1>5 DEF CInv

LEMMA ObserveKeeps ==
  ASSUME CInv, Observe, UNCHANGED <<up, known, runs, session>>,
         \A c \in Call : ~Waits(client, c)
  PROVE  CInv'
<1> DEFINE m == Joined(manager, Turn)  cl == Connecting(client, m)
<1>1. ManagerOK(m) /\ m.listeners # {}
  BY JoinedOK DEF CInv
<1>2. ClientOK(client) /\ Unused(client.calls) # {}
  BY SpareUnused DEF CInv, Observe
<1>3. /\ manager' = m /\ turn' \in Busy
      /\ client' = Requesting(cl) /\ req' = Requested(cl)
  BY DEF Observe, AskAgain, Busy
<1> HIDE DEF m
<1>4. AtRest(client, m)
  BY <1>1 DEF AtRest
<1>5. ClientOK(cl) /\ CanStart(cl, FALSE) /\ AtRest(cl, m) /\ \A c \in Call : ~Waits(cl, c)
  BY <1>2, <1>4, ConnectingOK
<1> HIDE DEF cl
<1> QED BY <1>1, <1>3, <1>5, TurnStep

LEMMA RepliesKeeps == CInv /\ Replies => CInv'
<1> SUFFICES ASSUME CInv, Replies PROVE CInv'
  OBVIOUS
<1>1. RequestOK(req) /\ req.at # None /\ \A c \in Call : ~Waits(client, c)
  BY RequestMade DEF Replies
<1>2. UNCHANGED <<up, known, runs, session>>
  BY DEF Replies
<1>3. CASE Over
  BY <1>1, <1>2, <1>3, OverKeeps
<1>4. CASE Observe
  BY <1>1, <1>2, <1>4, ObserveKeeps
<1>5. CASE turn' = "waiting" /\ req' = None /\ UNCHANGED <<client, manager>>
  <2>1. RuntimeOK' /\ ClientOK(client)' /\ ManagerOK(manager)' /\ AtRest(client, manager)'
    BY <1>2, <1>5 DEF CInv, RuntimeOK, ClientOK, ManagerOK, AtRest
  <2>2. \A c \in Call : ~Waits(client, c)'
    BY <1>1, <1>5 DEF Waits
  <2>3. WaitOK(client, req)'
    BY <2>2 DEF WaitOK
  <2> QED BY <1>5, <2>1, <2>2, <2>3 DEF CInv
<1> QED BY <1>3, <1>4, <1>5 DEF Replies

(* The second attempt waits for a start that is made now. *)
LEMMA FetchFailsKeeps == CInv /\ FetchFails => CInv'
<1> SUFFICES ASSUME CInv, FetchFails PROVE CInv'
  OBVIOUS
<1>1. RequestOK(req) /\ req.at # None /\ \A c \in Call : ~Waits(client, c)
  BY RequestMade DEF FetchFails
<1>2. UNCHANGED <<up, known, runs, session>>
  BY DEF FetchFails
<1>3. CASE Over
  BY <1>1, <1>2, <1>3, OverKeeps
<1>4. CASE /\ client' = Ensured(client, {Turn}, TRUE)
           /\ req' = [try |-> 2, at |-> None, seen |-> None, since |-> Now]
           /\ UNCHANGED <<manager, turn>>
  <2> DEFINE who == {Turn}  e == Ensured(client, who, TRUE)
  <2>1. ClientOK(client) /\ CanStart(client, TRUE) /\ AtRest(client, manager)
        /\ who \in SUBSET {Turn} /\ who \in SUBSET {Turn, Manager}
    BY SpareUnused DEF CInv, FetchFails, CanStart
  <2>2. PICK b \in Call : /\ \A c \in Call : Waits(e, c) => c = b
                          /\ e.calls[b].answer = None
    BY <1>1, <2>1, EnsuredForTurn
  <2> HIDE DEF who
  <2>3. ClientOK(e) /\ AtRest(e, manager)
    BY <2>1, EnsuredOK, EnsuredAtRest
  <2>4. client' = e
    BY <1>4 DEF who
  <2> HIDE DEF e
  <2>5. Now' = Now /\ Now \in Nat
    BY <1>2, NowTyped DEF CInv, Now
  <2>6. RequestOK(req)' /\ req'.at = None
    BY <1>4, <2>5 DEF RequestOK, RequestRecord
  <2>7. \A c \in Call : Waits(client, c)' <=> Waits(e, c)
    BY <2>4 DEF Waits
  <2>8. WaitOK(client, req)'
    BY <2>2, <2>4, <2>6, <2>7, BridgeClientAssumption DEF WaitOK
  <2>9. turn \in Busy
    BY DEF CInv, FetchFails
  <2>10. RuntimeOK' /\ ClientOK(client)' /\ ManagerOK(manager)' /\ AtRest(client, manager)'
    BY <1>2, <1>4, <2>3, <2>4 DEF CInv, RuntimeOK, ClientOK, ManagerOK, AtRest
  <2> QED BY <1>4, <2>6, <2>8, <2>9, <2>10 DEF CInv
<1> QED BY <1>3, <1>4 DEF FetchFails

LEMMA BridgeActsKeeps == CInv /\ BridgeActs => CInv'
<1> SUFFICES ASSUME CInv, BridgeActs PROVE CInv'
  OBVIOUS
<1>1. RequestOK(req) /\ req.at # None /\ \A c \in Call : ~Waits(client, c)
  BY RequestMade DEF BridgeActs
<1>2. session' \in {"running", "idle"} /\ req' = [req EXCEPT !.seen = session']
      /\ UNCHANGED <<up, known, runs, client, manager, turn>>
  BY DEF BridgeActs, CInv, RuntimeOK
<1>3. RequestOK(req)'
  <2>1. /\ req' \in RequestRecord /\ req'.try = req.try /\ req'.at = req.at
        /\ req'.since = req.since
    BY <1>1, <1>2 DEF RequestOK, RequestRecord
  <2>2. Now' = Now
    BY <1>2 DEF Now
  <2> QED BY <1>1, <2>1, <2>2 DEF RequestOK
<1>4. \A c \in Call : ~Waits(client, c)'
  BY <1>1, <1>2 DEF Waits
<1>5. WaitOK(client, req)'
  BY <1>4 DEF WaitOK
<1>6. RuntimeOK' /\ ClientOK(client)' /\ ManagerOK(manager)' /\ AtRest(client, manager)'
  BY <1>2 DEF CInv, RuntimeOK, ClientOK, ManagerOK, AtRest
<1>7. turn \in Busy
  BY DEF CInv, BridgeActs
<1> QED BY <1>2, <1>3, <1>5, <1>6, <1>7 DEF CInv

(* ga_runtime_start answers with the runtime the supervisor knows of, which  *)
(* none it has given up follows; waiting for it is as before.                *)
LEMMA StartAnswersKeeps ==
  ASSUME CInv, NEW c \in Call, NEW good \in BOOLEAN, StartAnswers(c, good) PROVE CInv'
<1> DEFINE a == IF good THEN known' ELSE Failed
<1>0. RuntimeOK /\ Now \in Nat
  BY NowTyped DEF CInv
<1>1. client.calls[c] \in Invocation /\ client.calls[c] # None
      /\ client.calls[c].answer = None
  BY DEF StartAnswers, CInv, ClientOK
<1>2. /\ RuntimeOK' /\ Now' >= Now
      /\ a \in Nat \cup {None, Failed} /\ (a \in Nat => a = Now')
  <2>1. CASE good /\ known = None
    <3>1. NewRuntime /\ session' = session
      BY <2>1 DEF StartAnswers
    <3>2. RuntimeOK' /\ Now' = Now /\ known' = Now'
      BY <1>0, <2>1, <3>1, NewRuntimeStep
    <3> QED BY <1>0, <2>1, <3>2
  <2>2. CASE good /\ known # None
    <3>1. UNCHANGED <<up, known, runs, session>>
      BY <2>2 DEF StartAnswers
    <3>2. RuntimeOK' /\ Now' = Now /\ known' = Now
      BY <1>0, <2>2, <3>1 DEF RuntimeOK, Now
    <3> QED BY <1>0, <2>2, <3>2
  <2>3. CASE ~good
    <3>1. UNCHANGED <<up, known, runs, session>>
      BY <2>3 DEF StartAnswers
    <3>2. RuntimeOK' /\ Now' = Now
      BY <1>0, <3>1 DEF RuntimeOK, Now
    <3> QED BY <1>0, <2>3, <3>2, BridgeClientAssumption
  <2> QED BY <2>1, <2>2, <2>3
<1>3. client' = [client EXCEPT !.calls[c].answer = a] /\ UNCHANGED <<manager, req, turn>>
  BY DEF StartAnswers
<1>10. Now \in Nat /\ Now' \in Nat /\ Now' >= Now
  <2>1. RuntimeOK' /\ Now' >= Now
    BY <1>2
  <2>2. Now' \in Nat
    BY <2>1, NowTyped
  <2> QED BY <1>0, <2>1, <2>2
<1>14. RuntimeOK' /\ a \in Nat \cup {None, Failed}
  BY <1>2
<1>15. a \in Nat => a >= Now
  BY <1>2, <1>10
<1> HIDE DEF a
<1>4. /\ client'.calls = [client.calls EXCEPT ![c].answer = a]
      /\ client'.starting = client.starting /\ client'.runtime = client.runtime
      /\ client' = [runtime |-> client'.runtime, starting |-> client'.starting,
                    calls |-> client'.calls]
  BY <1>3 DEF CInv, ClientOK
<1>5. /\ [client.calls[c] EXCEPT !.answer = a] \in Invocation
      /\ [client.calls[c] EXCEPT !.answer = a].waits = client.calls[c].waits
      /\ [client.calls[c] EXCEPT !.answer = a].answer = a
  BY <1>1, <1>14 DEF Invocation
<1>6. /\ client'.calls \in [Call -> Invocation \cup {None}]
      /\ client'.calls[c] \in Invocation
      /\ client'.calls[c].waits = client.calls[c].waits /\ client'.calls[c].answer = a
      /\ \A d \in Call \ {c} : client'.calls[d] = client.calls[d]
  BY <1>4, <1>5 DEF CInv, ClientOK
<1>7. ClientOK(client)'
  BY <1>4, <1>6 DEF CInv, ClientOK
<1>8. AtRest(client, manager)'
  BY <1>1, <1>3, <1>6 DEF CInv, AtRest
<1>9. \A d \in Call : Waits(client, d)' => Waits(client, d)
  BY <1>1, <1>6 DEF Waits
<1>11. RequestOK(req) => RequestOK(req)' /\ req.since <= Now'
  BY <1>3, <1>10 DEF RequestOK, RequestRecord
<1>12. WaitOK(client, req)'
  <2>1. ASSUME NEW d \in Call, Waits(client, d)'
        PROVE  /\ RequestOK(req)' /\ req'.at = None
               /\ req'.try = 2 /\ client'.calls[d].answer \in Nat =>
                    client'.calls[d].answer >= req'.since
    <3>1. /\ RequestOK(req) /\ req.at = None
          /\ req.try = 2 /\ client.calls[d].answer \in Nat => client.calls[d].answer >= req.since
      BY <1>9, <2>1 DEF CInv, WaitOK
    <3>2. CASE d = c
      BY <1>3, <1>6, <1>10, <1>11, <1>15, <3>1, <3>2 DEF RequestOK, RequestRecord
    <3>3. CASE d # c
      BY <1>3, <1>6, <1>11, <3>1, <3>3
    <3> QED BY <3>2, <3>3
  <2>2. \A d, b \in Call : Waits(client, d)' /\ Waits(client, b)' => d = b
    BY <1>9 DEF CInv, WaitOK
  <2> QED BY <2>1, <2>2 DEF WaitOK
<1>13. ManagerOK(manager)' /\ (req' = None \/ RequestOK(req)')
  BY <1>3, <1>11 DEF CInv, ManagerOK
<1> QED BY <1>3, <1>7, <1>8, <1>9, <1>12, <1>13, <1>14 DEF CInv

(* A start settles: who waited for it goes on, and no one waits for it. *)
LEMMA SettlesKeeps ==
  ASSUME CInv, NEW c \in Call, Settles(c) PROVE CInv'
<1> DEFINE result == client.calls[c].answer
           waits == client.calls[c].waits
           good == result # Failed
           told == IF Manager \notin waits THEN manager
                   ELSE IF good THEN SocketMade(manager, result)
                   ELSE Scheduled(manager)
<1>1. /\ client.calls[c] \in Invocation /\ client.calls[c] # None
      /\ result \in Nat \cup {Failed} /\ UNCHANGED <<up, known, runs, session>>
  <2>1. client.calls[c] # None /\ result # None /\ UNCHANGED <<up, known, runs, session>>
    BY DEF Settles
  <2>2. client.calls[c] \in Invocation
    BY <2>1 DEF CInv, ClientOK
  <2> QED BY <2>1, <2>2 DEF Invocation
<1>2. Waits(client, c) <=> Turn \in waits
  BY <1>1 DEF Waits
<1>3. /\ good /\ Manager \in waits /\ manager.ws = None => Unused(manager.sockets) # {}
      /\ client' = [client EXCEPT !.calls[c] = None, !.starting = None,
                                  !.runtime = IF good THEN result ELSE @]
      /\ req' = IF Turn \notin waits THEN req
                ELSE IF good THEN [req EXCEPT !.at = result] ELSE None
      /\ manager' = IF Turn \in waits /\ ~good THEN GivesUp(told) ELSE told
      /\ turn' = IF Turn \in waits /\ ~good THEN "over" ELSE turn
  BY DEF Settles
<1>4. /\ ManagerOK(told)
      /\ told.listeners = manager.listeners /\ told.stopped = manager.stopped
  <2>1. CASE Manager \notin waits
    BY <2>1 DEF CInv
  <2>2. CASE Manager \in waits /\ good
    <3>1. manager.listeners = {} => manager.stopped
      BY <1>1, <2>2 DEF CInv, AtRest
    <3>2. result \in Nat /\ (manager.ws = None => Unused(manager.sockets) # {})
      BY <1>1, <1>3, <2>2
    <3>3. told = SocketMade(manager, result)
      BY <2>2
    <3> HIDE DEF result, told
    <3> QED BY <3>1, <3>2, <3>3, SocketMadeOK DEF CInv
  <2>3. CASE Manager \in waits /\ ~good
    BY <2>3, ScheduledOK DEF CInv
  <2> QED BY <2>1, <2>2, <2>3
<1> HIDE DEF told
<1>5. /\ ManagerOK(manager')
      /\ manager'.listeners = {} /\ ~manager'.stopped =>
           manager.listeners = {} /\ ~manager.stopped
  <2>1. CASE Turn \in waits /\ ~good /\ Listens
    <3>1. manager' = Left(told, Turn)
      BY <1>3, <2>1 DEF GivesUp
    <3> QED BY <1>4, <3>1, LeftOK
  <2>2. CASE ~(Turn \in waits /\ ~good /\ Listens)
    BY <1>3, <1>4, <2>2 DEF GivesUp
  <2> QED BY <2>1, <2>2
<1> DEFINE runtime == IF good THEN result ELSE client.runtime
<1>6. runtime \in Nat \cup {None}
  BY <1>1 DEF CInv, ClientOK
<1>7. client' = [client EXCEPT !.calls[c] = None, !.starting = None, !.runtime = runtime]
  BY <1>3
<1> HIDE DEF runtime, result
<1>8. /\ client'.calls = [client.calls EXCEPT ![c] = None]
      /\ client'.starting = None /\ client'.runtime = runtime
      /\ client' = [runtime |-> client'.runtime, starting |-> client'.starting,
                    calls |-> client'.calls]
  BY <1>7 DEF CInv, ClientOK
<1>9. /\ client'.calls \in [Call -> Invocation \cup {None}] /\ client'.calls[c] = None
      /\ \A d \in Call \ {c} : client'.calls[d] = client.calls[d]
  BY <1>8 DEF CInv, ClientOK
<1>10. ClientOK(client)'
  BY <1>6, <1>8, <1>9 DEF ClientOK
<1>11. AtRest(client, manager)' /\ ManagerOK(manager)'
  BY <1>5, <1>9 DEF CInv, AtRest, ManagerOK
<1>12. \A d \in Call : Waits(client, d)' =>
         d # c /\ Waits(client, d) /\ client'.calls[d] = client.calls[d]
  BY <1>9 DEF Waits
<1>13. RuntimeOK' /\ Now' = Now /\ (req' = req /\ RequestOK(req) => RequestOK(req)')
  BY <1>1 DEF CInv, RuntimeOK, RequestOK, Now
<1>14. CASE Turn \notin waits
  <2>1. req' = req /\ turn' = turn
    BY <1>3, <1>14
  <2>2. WaitOK(client, req)'
    BY <1>12, <1>13, <2>1 DEF CInv, WaitOK
  <2> QED BY <1>10, <1>11, <1>12, <1>13, <2>1, <2>2 DEF CInv
<1>15. CASE Turn \in waits
  <2>1. RequestOK(req) /\ req.at = None /\ turn \in Busy
        /\ (req.try = 2 /\ result \in Nat => result >= req.since)
    BY <1>2, <1>15 DEF CInv, WaitOK, result
  <2>2. \A d \in Call : ~Waits(client, d)'
    BY <1>2, <1>12, <1>15 DEF CInv, WaitOK
  <2>3. WaitOK(client, req)'
    BY <2>2 DEF WaitOK
  <2>4. CASE good
    <3>1. result \in Nat /\ req' = [req EXCEPT !.at = result] /\ turn' = turn
      BY <1>1, <1>3, <1>15, <2>4 DEF result
    <3>2. /\ req' \in RequestRecord /\ req'.try = req.try /\ req'.at = result
          /\ req'.since = req.since
      BY <2>1, <3>1 DEF RequestOK, RequestRecord
    <3>3. result # None
      BY <3>1, BridgeClientAssumption
    <3>4. RequestOK(req)'
      BY <1>13, <2>1, <3>1, <3>2, <3>3 DEF RequestOK
    <3> QED BY <1>10, <1>11, <1>13, <2>1, <2>2, <2>3, <3>1, <3>4 DEF CInv
  <2>5. CASE ~good
    <3>1. req' = None /\ turn' = "over"
      BY <1>3, <1>15, <2>5
    <3> QED BY <1>10, <1>11, <1>13, <2>2, <2>3, <3>1 DEF CInv
  <2> QED BY <2>4, <2>5
<1> QED BY <1>14, <1>15

LEMMA CInvAlways == ClientSpec => []CInv
<1>1. CInv /\ [ClientNext]_clientVars => CInv'
  <2> SUFFICES ASSUME CInv, [ClientNext]_clientVars PROVE CInv'
    OBVIOUS
  <2>1. CASE RuntimeEnds \/ MonitorNotices \/ RuntimeRestarts \/ SessionEnds
    BY <2>1, RuntimeEndsKeeps, MonitorNoticesKeeps, RuntimeRestartsKeeps, SessionEndsKeeps
  <2>2. CASE SocketSubscribe \/ SocketUnsubscribe \/ Reconnect
    BY <2>2, SubscribeKeeps, UnsubscribeKeeps, ReconnectKeeps
  <2>3. CASE \/ Prompt \/ Poll \/ BridgeActs
             \/ Replies \/ FetchFails
    BY <2>3, PromptKeeps, PollKeeps, BridgeActsKeeps, RepliesKeeps, FetchFailsKeeps
  <2>4. ASSUME NEW force \in BOOLEAN, OthersRequest(force) PROVE CInv'
    BY <2>4, OthersRequestKeeps
  <2>5. ASSUME NEW c \in Call, Settles(c) PROVE CInv'
    BY <2>5, SettlesKeeps
  <2>6. ASSUME NEW c \in Call, NEW good \in BOOLEAN, StartAnswers(c, good) PROVE CInv'
    BY <2>6, StartAnswersKeeps
  <2>7. ASSUME NEW s \in Socket, Opens(s) \/ Closes(s) PROVE CInv'
    BY <2>7, OpensKeeps, ClosesKeeps
  <2>8. CASE UNCHANGED clientVars
    <3>1. RuntimeOK' /\ Now' >= Now
      <4>1. Now \in Nat /\ Now' = Now
        BY <2>8, NowTyped DEF clientVars, CInv, Now
      <4> QED BY <2>8, <4>1 DEF clientVars, CInv, RuntimeOK
    <3> QED BY <2>8, <3>1, RuntimeStep DEF clientVars
  <2> QED BY <2>1, <2>2, <2>3, <2>4, <2>5, <2>6, <2>7, <2>8 DEF ClientNext
<1> QED BY CInvInit, <1>1, PTL DEF ClientSpec

-----------------------------------------------------------------------------
(* However subscribing, leaving, reconnecting and late starts interleave,    *)
(* GaWebSocketManager has one socket that is not being closed, its ws, and    *)
(* none and no timer once nobody listens.                                    *)
THEOREM OneSocketAlways == ClientSpec => []OneSocket
<1>1. CInv => OneSocket
  BY DEF CInv, ManagerOK, OneSocket
<1> QED BY <1>1, CInvAlways, PTL

(* The one retry of request() goes to a runtime that was asked for after the *)
(* first attempt failed, whichever starts answer late: the one then in the   *)
(* supervisor's slot, dead or alive, or a later one, and never one that the  *)
(* supervisor had given up.                                                  *)
THEOREM SecondTryAlwaysFresh == ClientSpec => []SecondTryIsFresh
<1>1. CInv => SecondTryIsFresh
  BY DEF CInv, RequestOK, SecondTryIsFresh
<1> QED BY <1>1, CInvAlways, PTL
=============================================================================
