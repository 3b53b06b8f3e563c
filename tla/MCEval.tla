------------------------------- MODULE MCEval -------------------------------
(* Instances of Eval for TLC. *)
EXTENDS Eval
=============================================================================
