---------------------------- MODULE MCChatTurns -----------------------------
(* Instances of ChatTurns: one conversation, and two with the turns composed  *)
(* in the first; what a failed turn leaves in the second is sent from there.  *)
EXTENDS ChatTurns

CONSTANTS a, b, t1, t2, t3, s1, s2, s3

OneConv == {a}
TwoConv == {a, b}

SameConvOf == (t1 :> a) @@ (t2 :> a) @@ (t3 :> a)

(* Where all turns are alike, and where t2 is a paste with a command *)
CallSymmetry  == Permutations(Send) \cup Permutations(Turn)
AwaitSymmetry == Permutations(Send) \cup Permutations({t1, t3})
=============================================================================
