------------------------------- MODULE Absent -------------------------------
(* null, undefined and Option::None, whatever the value that is not there: one *)
(* constant for the components of which a module of proofs has several.       *)
CONSTANT None
=============================================================================
