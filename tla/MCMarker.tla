------------------------------ MODULE MCMarker ------------------------------
(* Instances of Marker for TLC: three objects, a mark stack that starts with *)
(* two slots, so that three reachable objects make it grow.                  *)
EXTENDS Marker, TLC

CONSTANTS n1, n2, n3

ThreeNodes == {n1, n2, n3}

(* Two objects with two references and one with one: every shape of cycle,   *)
(* shared object, self reference and repeated reference occurs.              *)
FewFields == n1 :> 2 @@ n2 :> 2 @@ n3 :> 1
=============================================================================
