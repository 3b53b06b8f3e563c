------------------------------- MODULE MCReader -------------------------------
(* Instances of Reader for TLC: all files of four bytes of six kinds and of  *)
(* five without \\, and longer ones with comments, nested blocks, blank      *)
(* lines or "#!"; an array of three bytes that doubles while they are read.  *)
EXTENDS Reader

Bytes == Letter \cup Operator \cup Unquoted \cup {NL, SP, DQUOTE, SEMI, LBR, RBR}

Kinds == {97, DQUOTE, NL, LBR, RBR, BKSLASH}
Short == UNION {[1 .. n -> Kinds] : n \in 0 .. 4} \cup [1 .. 5 -> Kinds \ {BKSLASH}]

Long == {
  \* /*"*/"a" and a comment in a comment, one that is not closed
  <<SLASH, STAR, DQUOTE, NL, STAR, SLASH, DQUOTE, 97, DQUOTE, NL>>,
  <<SLASH, STAR, SLASH, STAR, STAR, SLASH, 97, STAR, SLASH, SEMI>>,
  <<97, SLASH, STAR, NL, STAR>>,
  \* //" and what follows it, * and / as operators
  <<SLASH, SLASH, DQUOTE, NL, 97, DQUOTE, NL>>,
  <<97, SP, SLASH, 97, STAR, STAR, 97, SEMI, CR, NL, NL, 97>>,
  \* two chunks, a blank line in a block, one behind an inner brace
  <<97, NL, NL, NL, DQUOTE, 97, DQUOTE, NL, NL>>,
  <<LBR, NL, NL, RBR, NL, NL, 97>>,
  <<LBR, LBR, NL, RBR, NL, NL, RBR, NL>>,
  \* literals in blocks, escapes, quotes
  <<LBR, DQUOTE, RBR, 97, DQUOTE, RBR, DQUOTE, DQUOTE, NL>>,
  <<DQUOTE, BKSLASH, 110, BKSLASH, DQUOTE, DQUOTE, NL>>,
  <<LBR, DQUOTE, 97, BKSLASH, 110>>, <<LBR, DQUOTE, 110, BKSLASH>>, <<DQUOTE, 97, BKSLASH, 110>>,
  <<97, QUOTE, DQUOTE, QUOTE, NL, DQUOTE, 97, 97, DQUOTE, NL>>,
  \* as many literals as fit, of one array or the next
  <<DQUOTE, 97, DQUOTE, NL, DQUOTE, 97, DQUOTE, NL>>,
  <<DQUOTE, 97, DQUOTE, DQUOTE, 97, 97, DQUOTE, NL>>,
  <<DQUOTE, 97, DQUOTE, DQUOTE, 97, 97, DQUOTE, DQUOTE, 97, DQUOTE, NL>>,
  \* #!konoha, #! and another program
  <<SHEBANG, KONOHA, NL, 97, SEMI>>, <<SHEBANG, NL, KONOHA, 97>>, <<SHEBANG, 97, NL>>, <<SHEBANG>>
}

FilesDef == Short \cup Long
OuterDef == {<<>>, <<97>>}
=============================================================================
