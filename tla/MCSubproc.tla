----------------------------- MODULE MCSubproc -----------------------------
(* Instances of Subproc for TLC. *)
EXTENDS Subproc

OneObject == {1}
TwoPids == {101, 102}
TwoStreams == {"r", "w"}
=============================================================================
