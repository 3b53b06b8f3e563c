----------------------------- MODULE MCKVProto ------------------------------
(* Instances of KVProto for TLC. *)
EXTENDS KVProto

(* Windows of 3 slots; four keys of which each two share a window after the *)
(* first rehash (modulus 5), all of them before it (modulus 1).             *)
SmallSymbols == {1, 6}
SmallBoxed == 13
TwoValues == {1, 2}

(* The real FN_BOXED, for the real window of 7 slots. *)
RealBoxed == 32768
TwoSymbols == {1, 2}
=============================================================================
