----------------------------- MODULE MCCodegen ------------------------------
(* An instance of Codegen for TLC: the methods it compiles.                 *)
EXTENDS Codegen

Ends == {Return, Break, Continue}
Short == {<<>>, <<Call>>, <<Return>>}
InLoop == Short \cup {<<Break>>, <<Continue>>, <<Block(<<Break>>), Call>>}

(* Ifs and loops whose blocks are short. *)
Ifs(blocks) == {If(c, b1, b2) : c \in {"test", "and", "or"}, b1, b2 \in blocks}
Loops(blocks) == {Loop(c, b) : c \in {"test", "or"}, b \in blocks}

(* All pairs of such statements at the top, and each such statement in a    *)
(* branch or a loop, with a call behind it or not.                          *)
Flat == {Call, Return, Block(<<Return>>)} \cup Ifs(Short) \cup Loops(InLoop)
Inner == {<<s>> : s \in Ifs(InLoop) \cup Loops(InLoop)}
Deep ==
  {<<Loop("test", b)>> : b \in Inner \cup {b \o <<Call>> : b \in Inner}}
  \cup {<<If("test", b, <<Call>>), Call>> : b \in {<<s>> : s \in Flat}}
  \cup {<<If("and", <<>>, b)>> : b \in {<<s>> : s \in Flat}}

(* Errors and returned values, at the top, in branches and in loops.        *)
Abrupt == {<<Error>>, <<Error, Call>>, <<ReturnValue>>, <<Call, ReturnValue>>}
Late == {If(c, b1, b2) : c \in {"test", "or"}, b1 \in Abrupt, b2 \in {<<>>, <<Call>>} \cup Abrupt}
        \cup {If("and", <<>>, b) : b \in Abrupt} \cup {Loop("test", b) : b \in Abrupt}
        \cup {Block(b) : b \in Abrupt}
Leaving == Abrupt \cup {<<s>> \o b : s \in Late, b \in {<<>>, <<Call>>, <<Return>>} \cup Abrupt}
           \cup {<<Loop("test", <<s, Call>>), Call>> : s \in Late}

Methods == {<<>>} \cup {<<s>> : s \in Flat} \cup {<<s1, s2>> : s1, s2 \in Flat} \cup Deep \cup Leaving
=============================================================================
