------------------------ MODULE MCConfirmationBroker ------------------------
(* Four requests: one handed out, and a queue with a middle. *)
EXTENDS ConfirmationBroker

CONSTANTS r1, r2, r3, r4

MCRequest == {r1, r2, r3, r4}
=============================================================================
