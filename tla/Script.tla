------------------------------- MODULE Script -------------------------------
(***************************************************************************)
(* What the statements of a method do, as far as their order matters: the  *)
(* statements the code generator knows (src/src/vm/asm.c, BLOCK_asm), with *)
(* each call or test a leaf that is named by its place in the method.      *)
(*                                                                         *)
(* A block is a sequence of statements.  The condition of an if or a loop  *)
(* is one test ("test") or two joined by `||' ("or") or `&&' ("and").      *)
(* An expression with a block in it, f(${...}), is that block and the call *)
(* behind it; conditions have none.                                        *)
(***************************************************************************)
EXTENDS Integers, Sequences

CONSTANT Programs  \* the methods of the instance

VARIABLES
  prog,  \* the method that runs
  said   \* the leaf it evaluated last, and the outcome

Start == <<>>
End == <<0>>

Call == [kind |-> "call"]
Error == [kind |-> "error"]        \* reported by the type checker: it raises
Return == [kind |-> "return"]
ReturnValue == [kind |-> "value"]  \* the value is one leaf
Break == [kind |-> "break"]
Continue == [kind |-> "continue"]
Block(b) == [kind |-> "block", then |-> b]
If(c, b1, b2) == [kind |-> "if", cond |-> c, then |-> b1, else |-> b2]
Loop(c, b) == [kind |-> "loop", cond |-> c, then |-> b]

(* The two tests of a condition at place p, and what follows them. *)
Test(p, i) == p \o <<0, i>>
Tests(p, cond, true, false) ==
  CASE cond = "test" -> {<<Test(p, 1), TRUE, true>>, <<Test(p, 1), FALSE, false>>}
    [] cond = "and" -> {<<Test(p, 1), TRUE, Test(p, 2)>>, <<Test(p, 1), FALSE, false>>,
                        <<Test(p, 2), TRUE, true>>, <<Test(p, 2), FALSE, false>>}
    [] cond = "or" -> {<<Test(p, 1), TRUE, true>>, <<Test(p, 1), FALSE, Test(p, 2)>>,
                       <<Test(p, 2), TRUE, true>>, <<Test(p, 2), FALSE, false>>}

(* The first leaf of the statements of block b at place p, from the i-th   *)
(* on; to says where the block, a break and a continue lead.               *)
RECURSIVE Enter(_, _, _, _)
Enter(b, p, i, to) ==
  IF i > Len(b) THEN to.next
  ELSE LET s == b[i] IN
       CASE s.kind \in {"call", "error", "value"} -> p \o <<i>>
         [] s.kind = "return" -> End
         [] s.kind = "break" -> to.break
         [] s.kind = "continue" -> to.continue
         [] s.kind = "block" ->
              Enter(s.then, p \o <<i, 1>>, 1, [to EXCEPT !.next = Enter(b, p, i + 1, to)])
         [] s.kind \in {"if", "loop"} -> Test(p \o <<i>>, 1)

(* Which leaf follows which, by its outcome. *)
RECURSIVE Edges(_, _, _)
Edges(b, p, to) == UNION {
  LET s == b[i]
      q == p \o <<i>>
      on == [to EXCEPT !.next = Enter(b, p, i + 1, to)]
      round == [next |-> Test(q, 1), break |-> on.next, continue |-> Test(q, 1)]
  IN CASE s.kind = "call" -> {<<q, TRUE, on.next>>}
       [] s.kind = "value" -> {<<q, TRUE, End>>}
       [] s.kind = "block" -> Edges(s.then, q \o <<1>>, on)
       [] s.kind = "if" ->
            Tests(q, s.cond, Enter(s.then, q \o <<1>>, 1, on), Enter(s.else, q \o <<2>>, 1, on))
              \cup Edges(s.then, q \o <<1>>, on) \cup Edges(s.else, q \o <<2>>, on)
       [] s.kind = "loop" ->
            Tests(q, s.cond, Enter(s.then, q \o <<1>>, 1, round), on.next)
              \cup Edges(s.then, q \o <<1>>, round)
       [] OTHER -> {}
  : i \in 1 .. Len(b)}

Outer == [next |-> End, break |-> End, continue |-> End]
Order(b) == Edges(b, <<>>, Outer) \cup {<<Start, TRUE, Enter(b, <<>>, 1, Outer)>>}

(* Nothing follows the end of the method or an error. *)
Outcomes(b, leaf) ==
  LET vs == {e[2] : e \in {e \in Order(b) : e[1] = leaf}} IN IF vs = {} THEN {TRUE} ELSE vs

Init == prog \in Programs /\ said = [leaf |-> Start, val |-> TRUE]

(* One leaf after the other, to the end of the method. *)
Next ==
  \E e \in Order(prog) :
    /\ e[1] = said.leaf /\ e[2] = said.val
    /\ \E v \in Outcomes(prog, e[3]) : said' = [leaf |-> e[3], val |-> v]
    /\ UNCHANGED prog

Spec == Init /\ [][Next]_<<prog, said>>
=============================================================================
