------------------------- MODULE MCExecutionConfirm -------------------------
(* Three executions: two of one command and one of another, both with risks. *)
(* The audit holds what two executions that had to ask leave in it.          *)
EXTENDS ExecutionConfirm, TLC

CONSTANTS r1, r2, r3, t1, t2

MCRequest == {r1, r2, r3}
MCTargetOf == (r1 :> t1) @@ (r2 :> t1) @@ (r3 :> t2)
=============================================================================
