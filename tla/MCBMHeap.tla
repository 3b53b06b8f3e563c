------------------------------ MODULE MCBMHeap ------------------------------
(* Instances of BMHeap for TLC. *)
EXTENDS BMHeap, TLC

CONSTANTS k1, k2, s1, s2, s3, s4

SmallBits == 2
OneKlass == {k1}
TwoKlasses == {k1, k2}
ThreeSegs == {s1, s2, s3}
FourSegs == {s1, s2, s3, s4}

(* The first pool has two segments, the expansion one (or two). *)
SmallPools == 1 :> {s1, s2} @@ 2 :> {s3}
TwoPools == 1 :> {s1, s2} @@ 2 :> {s3, s4}
OnePool == 1 :> {s1, s2, s3}

(* One word of two bits and a word half taken by the sentinel. *)
Blocks3 == [k \in Klass |-> 3]
(* Class k1 has two objects in a segment, class k2 one. *)
Blocks32 == [k \in Klass |-> IF k = k1 THEN 3 ELSE 2]
(* The level-1 sentinel one bit below the last word, as for classes 9 and 10, *)
(* for class k1.                                                              *)
LowL1 == [k \in Klass |-> IF k = k1 THEN 1 ELSE 2]
ExactL1 == [k \in Klass |-> IF k = k1 THEN 2 ELSE 1]

(* The segments of a pool may be exchanged. *)
SegSymmetry ==
  {f \in Permutations(FourSegs) : {f[s1], f[s2]} = {s1, s2}}
PoolSymmetry == Permutations(ThreeSegs)
=============================================================================
