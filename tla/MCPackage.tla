------------------------------ MODULE MCPackage ------------------------------
(* Instances of Package for TLC.  KMap's first arena has 3 entries and 4     *)
(* buckets, so that the fourth and the seventh name make it grow to 6        *)
(* entries and 9 buckets, and to 12 and 19.  "math" and "rope" have one hash *)
(* code; "float", "math" and "tools" share a bucket of 4, "float" and "gone" *)
(* one of 9, "math" and "app" one of 19.                                     *)
EXTENDS Package, TLC

Names == {"float", "math", "rope", "tools", "gone", "app", "none"}
Hash == [n \in Names |->
  CASE n = "float" -> 1 [] n \in {"math", "rope"} -> 5 [] n = "tools" -> 9 [] n = "gone" -> 10
    [] n = "app" -> 24 [] n = "none" -> 2]

(* "math" requires and exports "float"; the script of "tools" imports "math" *)
(* and "float"; that of "app" imports "rope", whose glue requires a package  *)
(* that is missing.                                                          *)
Files == {"float", "math", "rope", "tools", "app"}
Required == [f \in Files |-> CASE f = "math" -> <<"float">> [] f = "rope" -> <<"gone">> [] OTHER -> <<>>]
Imported == [f \in Files |-> CASE f = "tools" -> <<"math", "float">> [] f = "app" -> <<"rope">> [] OTHER -> <<>>]
Exported == [f \in Files |-> IF f = "math" THEN <<"float">> ELSE <<>>]

(* "math" and "tools" define a class of the same name, "float" a boxed       *)
(* constant, "tools" a constant twice, as konoha.socket does.                *)
Defined == [f \in Files |-> CASE f = "math" -> <<2>> [] f = "tools" -> <<3, 2>> [] OTHER -> <<>>]
Loaded == [f \in Files |->
  CASE f = "float" -> <<[key |-> 4, boxed |-> FALSE], [key |-> 1, boxed |-> TRUE]>>
    [] f = "math" -> <<[key |-> 4, boxed |-> FALSE]>>
    [] f = "tools" -> [i \in 1 .. 2 |-> [key |-> 5, boxed |-> FALSE]] [] OTHER -> <<>>]
Fragile == {"tools"}
=============================================================================
