-------------------------- MODULE MCFlatTurnQueue ---------------------------
(* Two conversations with three turns and two, so turns of the other one can *)
(* sit before, between and after the anchors of an edited turn.             *)
EXTENDS FlatTurnQueue

CONSTANTS a, b, a1, a2, a3, b1, b2

MCConv == {a, b}
MCTurn == {a1, a2, a3, b1, b2}
MCConvOf == (a1 :> a) @@ (a2 :> a) @@ (a3 :> a) @@ (b1 :> b) @@ (b2 :> b)
=============================================================================
