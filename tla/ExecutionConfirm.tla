-------------------------- MODULE ExecutionConfirm --------------------------
(***************************************************************************)
(* A high-risk execution from the GUI: GaBridgeClient attempts it, the     *)
(* adapter's gate answers 409 confirmation_required, the broker and the     *)
(* dialog get the user's decision, the client submits it and attempts once  *)
(* more.  Several executions may be under way, each a Request.  Adds to     *)
(* ConfirmationBroker the dialog (ExecutionConfirmDialog.tsx), the client's *)
(* withExecutionConfirmation and the adapter's decision registry.           *)
(***************************************************************************)
EXTENDS ConfirmationBroker

CONSTANTS
  Target,       \* commands and connector tools
  TargetOf,     \* what an execution runs
  Risky,        \* targets with a risk label
  MaxRestarts,  \* bound: restarts of the adapter process
  MaxAudit      \* maxlen of AUDIT_ITEMS

ASSUME ExecutionConfirmAssumption ==
  /\ TargetOf \in [Request -> Target]
  /\ Risky \subseteq Target
  /\ MaxRestarts \in Nat
  /\ MaxAudit \in Nat \ {0}

VARIABLES
  pending,      \* the dialog's React state: the request it displays
  phase,        \* where each execution is
  decision,     \* CONFIRMATION_DECISIONS of the adapter process
  audit,        \* AUDIT_ITEMS, a ring in the memory of that process
  restarts

vars == <<brokerVars, pending, phase, decision, audit, restarts>>

adapterVars == <<decision, audit>>

Settled == {"executed", "rejected", "failed"}
Phase   == {"idle", "attempting", "asking", "confirming", "retrying", "running"} \cup Settled

(* An approval, an execution that was answered with success, or with an error. *)
AuditItem == [target : Target, what : {"approved", "ran", "error"}]

Init ==
  /\ BrokerInit
  /\ pending = None
  /\ phase = [r \in Request |-> "idle"]
  /\ decision = [t \in Target |-> "required"]
  /\ audit = <<>>
  /\ restarts = 0

Goes(r, p) == phase' = [phase EXCEPT ![r] = p]

(* Mutant: lets a call through when any target was approved. *)
GateOpenOnce(t) == t \notin Risky \/ \E u \in Target : decision[u] = "approved"

(* _confirmation_gate *)
GateOpen(t) == t \notin Risky \/ decision[t] = "approved"

(* record_audit: the ring drops its oldest item when it is full. *)
RecordAudit(t, what) ==
  audit' = Append(IF Len(audit) < MaxAudit THEN audit ELSE Tail(audit),
                  [target |-> t, what |-> what])

(* Mutant: the decision is registered, not recorded. *)
RecordDecisionOnly(t) == decision' = [decision EXCEPT ![t] = "approved"] /\ UNCHANGED audit

(* _confirmation_state with a decision, of a target with risks.  The client  *)
(* submits approvals only.                                                   *)
RecordDecision(t) ==
  /\ decision' = [decision EXCEPT ![t] = "approved"]
  /\ RecordAudit(t, "approved")

(* The listener of the dialog is setPending: it displays what it is handed. *)
Displayed == pending' = IF shown' # shown /\ shown' # None THEN shown' ELSE pending

(* The dialog mounts with the chat page and stays. *)
Mount == Subscribe /\ Displayed /\ UNCHANGED <<phase, adapterVars, restarts>>

Start(r) ==
  /\ phase[r] = "idle"
  /\ Goes(r, "attempting")
  /\ UNCHANGED <<brokerVars, pending, adapterVars, restarts>>

(* Mutant: an approval is good for one execution. *)
RunsConsumes(r) ==
  /\ phase[r] \in {"attempting", "retrying"} /\ GateOpen(TargetOf[r])
  /\ Goes(r, "running")
  /\ decision' = [decision EXCEPT ![TargetOf[r]] = "required"]
  /\ UNCHANGED <<brokerVars, pending, audit, restarts>>

(* An attempt, the first or the second, passes the gate: the target runs. *)
Runs(r) ==
  /\ phase[r] \in {"attempting", "retrying"} /\ GateOpen(TargetOf[r])
  /\ Goes(r, "running")
  /\ UNCHANGED <<brokerVars, pending, adapterVars, restarts>>

(* The handler records what its inner handler answered, then replies. *)
RunReplies(r) ==
  /\ phase[r] = "running"
  /\ \/ Goes(r, "executed") /\ RecordAudit(TargetOf[r], "ran")
     \/ Goes(r, "failed") /\ RecordAudit(TargetOf[r], "error")
  /\ UNCHANGED <<brokerVars, pending, decision, restarts>>

(* The 409 of the gate is an answer with an error. *)
AttemptAsks(r) ==
  /\ phase[r] = "attempting" /\ ~GateOpen(TargetOf[r])
  /\ RecordAudit(TargetOf[r], "error")
  /\ Goes(r, "asking")
  /\ Ask(r)
  /\ Displayed
  /\ UNCHANGED <<decision, restarts>>

(* Mutant: a rejection does not settle the call it is for. *)
DecideDropsRejection(granted) ==
  /\ pending # None
  /\ Respond(granted)
  /\ pending' = None
  /\ phase' = IF granted THEN [phase EXCEPT ![pending] = "confirming"] ELSE phase
  /\ UNCHANGED <<adapterVars, restarts>>

(* Mutant: leaves the dialog open. *)
DecideKeepsDialog(granted) ==
  /\ pending # None
  /\ Respond(granted)
  /\ Goes(pending, IF granted THEN "confirming" ELSE "rejected")
  /\ UNCHANGED <<pending, adapterVars, restarts>>

(* decide(): the callback first, which may hand the dialog the next request; *)
(* then setPending(null), the update of the same batch that prevails.        *)
Decide(granted) ==
  /\ pending # None
  /\ Respond(granted)
  /\ pending' = None
  /\ Goes(pending, IF granted THEN "confirming" ELSE "rejected")
  /\ UNCHANGED <<adapterVars, restarts>>

(* The adapter records the approval; the client attempts once more. *)
Confirmed(r) ==
  /\ phase[r] = "confirming"
  /\ RecordDecision(TargetOf[r])
  /\ Goes(r, "retrying")
  /\ UNCHANGED <<brokerVars, pending, restarts>>

(* The second attempt is not confirmed again: if the adapter forgot the      *)
(* approval meanwhile its 409 is the caller's error.                         *)
RetryRefused(r) ==
  /\ phase[r] = "retrying" /\ ~GateOpen(TargetOf[r])
  /\ RecordAudit(TargetOf[r], "error")
  /\ Goes(r, "failed")
  /\ UNCHANGED <<brokerVars, pending, decision, restarts>>

(* Any of the requests may fail on its way to the adapter. *)
RequestFails(r) ==
  /\ phase[r] \in {"attempting", "confirming", "retrying"}
  /\ Goes(r, "failed")
  /\ UNCHANGED <<brokerVars, pending, adapterVars, restarts>>

(* Decisions, audit and what is running last as long as the process. *)
AdapterRestarts ==
  /\ restarts < MaxRestarts
  /\ restarts' = restarts + 1
  /\ decision' = [t \in Target |-> "required"]
  /\ audit' = <<>>
  /\ phase' = [r \in Request |-> IF phase[r] = "running" THEN "failed" ELSE phase[r]]
  /\ UNCHANGED <<brokerVars, pending>>

Next ==
  \/ Mount \/ AdapterRestarts
  \/ \E r \in Request : \/ Start(r) \/ Runs(r) \/ RunReplies(r) \/ AttemptAsks(r)
                        \/ Confirmed(r) \/ RetryRefused(r) \/ RequestFails(r)
  \/ \E granted \in BOOLEAN : Decide(granted)

Spec == Init /\ [][Next]_vars

(* Requests are answered and the user answers the dialog that is displayed. *)
FairSpec ==
  /\ Spec
  /\ WF_vars(Mount)
  /\ WF_vars(\E granted \in BOOLEAN : Decide(granted))
  /\ \A r \in Request :
       WF_vars(\/ Runs(r) \/ RunReplies(r) \/ AttemptAsks(r)
               \/ Confirmed(r) \/ RetryRefused(r))

-----------------------------------------------------------------------------
TypeOK ==
  /\ BrokerTypeOK
  /\ pending \in Request \cup {None}
  /\ phase \in [Request -> Phase]
  /\ decision \in [Target -> {"required", "approved"}]
  /\ audit \in Seq(AuditItem) /\ Len(audit) <= MaxAudit
  /\ restarts \in 0 .. MaxRestarts

(* A risky target runs only if the user approved some execution of that very *)
(* target, and what the user rejected never runs, whichever executions share  *)
(* the dialog, whenever the adapter restarts.  What the audit says ran it     *)
(* says was approved before that, also after a restart, which empties it      *)
(* together with the decisions; a full ring may have dropped the approval.    *)
ConsentBeforeExecution ==
  /\ \A r \in Request :
       /\ phase[r] \in {"running", "executed"} /\ TargetOf[r] \in Risky =>
            \E s \in Request : TargetOf[s] = TargetOf[r] /\ answer[s] = "granted"
       /\ answer[r] = "rejected" => phase[r] = "rejected"
  /\ \A i \in DOMAIN audit :
       audit[i].what = "ran" /\ audit[i].target \in Risky =>
         \/ \E j \in 1 .. i - 1 : audit[j] = [target |-> audit[i].target, what |-> "approved"]
         \/ Len(audit) = MaxAudit

(* The decision goes to the execution the dialog displays. *)
DisplayMatchesBroker == pending # None => pending = shown /\ phase[pending] = "asking"

(* The user is not asked for nothing: the second attempt passes the gate     *)
(* unless the adapter restarted, whatever other executions of the target do. *)
ApprovalLasts == \A r \in Request : phase[r] = "retrying" /\ restarts = 0 => GateOpen(TargetOf[r])

(* An execution whose confirmation is displayed settles. *)
DisplayedSettles == \A r \in Request : pending = r ~> phase[r] \in Settled

(* The broker waits on a request that the dialog does not display: decide()  *)
(* closed the dialog after respond() had displayed it.                       *)
Stranded == listening /\ shown # None /\ pending = None

(* A request for confirmation, made before the dialog is there, while it is   *)
(* open or when it is closed, is answered in the end unless a request is      *)
(* stranded, which the dialog allows: then it and all that follow wait for    *)
(* good.                                                                      *)
AnsweredUnlessStranded ==
  \A r \in Request : answer[r] = "pending" ~> answer[r] # "pending" \/ Stranded
=============================================================================
