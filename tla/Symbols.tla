------------------------------- MODULE Symbols -------------------------------
(***************************************************************************)
(* What interning promises (Kfileid, Kpack, Kuname, Ksymbol): a name gets   *)
(* the next code the first time it is asked for, and that code for ever;   *)
(* code i is entry i of the list of names.                                 *)
(***************************************************************************)
EXTENDS Naturals, FiniteSets

CONSTANT Name

VARIABLE code    \* the codes of the names interned so far

Init == code = [n \in {} |-> 0]

(* A name that has no code gets the first one that is not in use. *)
Intern(name) ==
  /\ name \notin DOMAIN code
  /\ code' = [n \in DOMAIN code \cup {name} |->
                IF n = name THEN Cardinality(DOMAIN code) ELSE code[n]]

Next == \E name \in Name : Intern(name)

Spec == Init /\ [][Next]_code
=============================================================================
