-------------------------------- MODULE Reader --------------------------------
(***************************************************************************)
(* Loading a stream: KonohaSpace_loadstream and readchunk of               *)
(* src/src/sugar/sugar.c, tokenize of src/src/sugar/token.h.  A chunk, up  *)
(* to a blank line outside of a block, is read into a write buffer (Kwb)   *)
(* and tokenised where it lies, while literals are collected in a buffer   *)
(* behind it: over the zero that ends it, in an array that may be moved.   *)
(* Then its statements run, which use further buffers, and it is freed.    *)
(*                                                                         *)
(* A byte stands for those the code treats alike: `a' for letters, `*' for *)
(* operators, `;' for tokens of one character; `#' stands for "#!" and `k' *)
(* for the word konoha.  Numbers, capitals and bytes above 127, whose       *)
(* tokens are taken like words, are left out, and so is the line number a  *)
(* comment may set.  The handlers are those of MiniKonohaTokenMatrix.      *)
(***************************************************************************)
EXTENDS Kwb, FiniteSets

CONSTANTS
  Files,         \* the files: sequences of bytes
  Outer,         \* what an outer stream may have in its buffer
  MaxStatement   \* bound on what a statement writes

NL == 10
CR == 13
SP == 32
DQUOTE == 34
SHEBANG == 35
QUOTE == 39
STAR == 42
SLASH == 47
SEMI == 59
BKSLASH == 92
KONOHA == 107
LBR == 123
RBR == 125

Letter == {97, 110, KONOHA}
Operator == {STAR, SLASH, SHEBANG}
Unquoted == {QUOTE, BKSLASH}   \* no token begins with them

(* A stream has no byte but those of the token matrix, and the carriage     *)
(* returns that the reader drops.                                           *)
ASSUME ByteAssumption ==
  /\ Byte = Letter \cup Operator \cup Unquoted \cup {NL, SP, DQUOTE, SEMI, LBR, RBR}
  /\ Files \subseteq Seq(Byte \cup {CR})
  /\ \A t \in Outer : t \in Seq(Byte) /\ Len(t) <= InitMax
  /\ MaxStatement \in Nat

VARIABLES
  phase,   \* of loadstream; "astray" when it reads memory that was freed
  rest,    \* what is left of the file
  feof,    \* the end of it was read
  rd,      \* the variables of readchunk and of readquote, readcomment in it
  uline,   \* the line the reader is at
  tenv,    \* the variables of the tokenizer
  tokens   \* the tokens of the chunk

stream == <<rest, feof, rd, uline>>
readerVars == <<vars, phase, stream, tenv, tokens>>

(* The stream's buffer lies above the outer one's, a literal above that. *)
Own == 2
Chunk == wb[Own].text

NoReader == [in |-> "chunk", prev |-> 0, block |-> FALSE, quote |-> 0, last |-> 0, level |-> 0]
NoTokens == [src |-> 0, pos |-> 1, uline |-> 1, level |-> 0, start |-> 0, prev |-> 0,
             room |-> 0, moved |-> FALSE]

ReaderInit ==
  /\ \E t \in Outer :
       /\ bytesize = Len(t) /\ bytemax = InitMax
       /\ bytebuf = [i \in 0 .. InitMax - 1 |-> IF i < Len(t) THEN t[i + 1] ELSE 0]
       /\ wb = <<[pos |-> 0, text |-> t]>> /\ overrun = FALSE
  /\ rest \in Files /\ feof = FALSE /\ rd = NoReader /\ uline = 1
  /\ phase = "start" /\ tenv = NoTokens /\ tokens = <<>>

-----------------------------------------------------------------------------
(* The next chunk; its buffer is used again, which is to open it again. *)
NextChunk ==
  /\ phase = "start" /\ Open
  /\ phase' = "read" /\ rd' = NoReader /\ tenv' = [NoTokens EXCEPT !.uline = uline]
  /\ UNCHANGED <<rest, feof, uline, tokens>>

(* fgetc, kwb_putc *)
Fetch(ch) ==
  /\ phase = "read" /\ rest # <<>> /\ ch = Head(rest) /\ rest' = Tail(rest)
  /\ ch # CR /\ Write(<<ch>>)
  /\ uline' = IF ch = NL THEN uline + 1 ELSE uline
  /\ UNCHANGED <<feof, tenv, tokens>>

FetchCR ==
  /\ phase = "read" /\ rest # <<>> /\ Head(rest) = CR /\ rest' = Tail(rest)
  /\ UNCHANGED <<vars, phase, feof, rd, uline, tenv, tokens>>

(* The loop of readchunk: a comment or a literal leaves prev as it was. *)
readchunk(ch) ==
  /\ rd.in = "chunk" /\ Fetch(ch)
  /\ phase' = IF ~rd.block /\ rd.prev = NL /\ ch = NL THEN "chunk" ELSE "read"
  /\ rd' = IF rd.prev = SLASH /\ ch = STAR
             THEN [rd EXCEPT !.in = "comment", !.last = 0, !.level = 1]
           ELSE IF ch \in {QUOTE, DQUOTE}
             THEN [rd EXCEPT !.in = "quote", !.last = ch, !.quote = ch]
           ELSE [rd EXCEPT !.prev = ch,
                  !.block = (@ \/ rd.prev = LBR) /\ ~(rd.prev = NL /\ ch = RBR)]

readquote(ch) ==
  /\ rd.in = "quote" /\ Fetch(ch)
  /\ rd' = IF ch = rd.quote /\ rd.last # BKSLASH THEN [rd EXCEPT !.in = "chunk"]
           ELSE [rd EXCEPT !.last = ch]
  /\ UNCHANGED phase

Level(level, prev, ch) ==
  IF prev = STAR /\ ch = SLASH THEN level - 1
  ELSE IF prev = SLASH /\ ch = STAR THEN level + 1 ELSE level

readcomment(ch) ==
  /\ rd.in = "comment" /\ Fetch(ch)
  /\ LET level == Level(rd.level, rd.last, ch)
     IN rd' = IF level = 0 THEN [rd EXCEPT !.in = "chunk"]
              ELSE [rd EXCEPT !.last = ch, !.level = level]
  /\ UNCHANGED phase

FetchEOF ==
  /\ phase = "read" /\ rest = <<>>
  /\ feof' = TRUE /\ phase' = "chunk"
  /\ UNCHANGED <<vars, rest, rd, uline, tenv, tokens>>

(* strstr: the bytes up to and with the word konoha. *)
Skipped == LET n == CHOOSE n \in 1 .. Len(Chunk) :
                     Chunk[n] = KONOHA /\ \A i \in 1 .. n - 1 : Chunk[i] # KONOHA
           IN IF Len(Chunk) > 1 /\ Chunk[1] = SHEBANG THEN n ELSE 0
NotKonoha == /\ Len(Chunk) > 1 /\ Chunk[1] = SHEBANG
             /\ \A i \in 1 .. Len(Chunk) : Chunk[i] # KONOHA
isemptychunk == \A i \in 1 .. Len(Chunk) : Chunk[i] \in {SP, NL}

(* The zero is put behind the chunk, which is tokenised, skipped or refused. *)
ChunkRead ==
  /\ phase = "chunk" /\ Top
  /\ phase' = IF NotKonoha THEN "refused" ELSE IF isemptychunk THEN "empty" ELSE "token"
  /\ IF phase' = "token"
       THEN /\ tenv' = [tenv EXCEPT !.src = wb[Own].pos + Skipped, !.room = bytemax' - bytesize]
            /\ tokens' = <<[tt |-> "INDENT", text |-> <<>>]>>
       ELSE UNCHANGED <<tenv, tokens>>
  /\ UNCHANGED stream

-----------------------------------------------------------------------------
(* tenv->source: the string that begins at src, as the array is now.  A     *)
(* string is a sequence here, positions in it begin with 1.                 *)
Source ==
  LET n == CHOOSE n \in 0 .. bytemax : /\ At(tenv.src + n) = 0
                                       /\ \A i \in 0 .. n - 1 : At(tenv.src + i) # 0
  IN [i \in 1 .. n |-> At(tenv.src + i - 1)]
Ch(s, p) == IF p <= Len(s) THEN s[p] ELSE 0

Least(S) == CHOOSE i \in S : \A j \in S : i <= j

(* The first position from p on at which one of `stop', or the zero, is. *)
Upto(s, p, stop) == Least({q \in p .. Len(s) + 1 : Ch(s, q) \in stop \cup {0}})
Lines(s, p, q) == Cardinality({i \in p .. q - 1 : s[i] = NL})

(* Where a comment whose text begins at p ends, or the zero: comments are   *)
(* nested, depth[q] deep at q.                                              *)
CommentEnd(s, p) ==
  LET depth[q \in p .. Len(s) + 1] ==
        IF q = p THEN 1
        ELSE Level(depth[q - 1], IF q - 1 = p THEN 0 ELSE s[q - 2], s[q - 1])
      ends == {q \in p .. Len(s) + 1 : depth[q] = 0}
  IN IF ends = {} THEN [pos |-> Len(s) + 1, closed |-> FALSE]
     ELSE [pos |-> Least(ends), closed |-> TRUE]

(* The handlers that only read: the token's type, the position behind it,  *)
(* and the lines it counts.                                                *)
Handled(tt, end, lines) == [tt |-> tt, end |-> end, lines |-> lines]
parseNL(s, p) == Handled("INDENT", p + 1, 1)
parseSYMBOL(s, p) == Handled("SYMBOL", Upto(s, p, Byte \ Letter), 0)
parseOP1(s, p) == Handled("OPERATOR", p + 1, 0)
parseOP(s, p) == Handled("OPERATOR", Upto(s, p, Byte \ Operator), 0)
parseLINE(s, p) == Handled("", Upto(s, p, {NL}), 0)
(* Fault: the lines of a comment are not counted. *)
parseCOMMENT_line(s, p) ==
  LET e == CommentEnd(s, p + 2)
  IN Handled(IF e.closed THEN "" ELSE "ERR", e.pos, 0)
parseCOMMENT(s, p) ==
  LET e == CommentEnd(s, p + 2)
  IN Handled(IF e.closed THEN "" ELSE "ERR", e.pos, Lines(s, p, e.pos))
parseSLASH(s, p) ==
  IF Ch(s, p + 1) = SLASH THEN parseLINE(s, p)
  ELSE IF Ch(s, p + 1) = STAR THEN parseCOMMENT(s, p) ELSE parseOP(s, p)
parseSKIP(s, p) == Handled("", p + 1, 0)
parseUNDEF(s, p) == Handled("ERR", Len(s) + 1, 0)

fmat(s, p) ==
  LET ch == s[p]
  IN CASE ch = NL -> parseNL(s, p)
       [] ch = SP -> parseSKIP(s, p)
       [] ch = SLASH -> parseSLASH(s, p)
       [] ch \in Letter -> parseSYMBOL(s, p)
       [] ch \in Operator \ {SLASH} -> parseOP(s, p)
       [] ch \in {SEMI, RBR} -> parseOP1(s, p)
       [] ch \in Unquoted -> parseUNDEF(s, p)

-----------------------------------------------------------------------------
(* The token that is being read is K_NULLTOKEN inside of a block. *)
Token(tt, text) ==
  tokens' = IF tenv.level > 0 \/ tt = "" THEN tokens
            ELSE Append(tokens, [tt |-> tt, text |-> text])
TextOf(tt, s, p, q) == IF tt \in {"SYMBOL", "OPERATOR"} THEN SubSeq(s, p, q - 1) ELSE <<>>

Scanning(p) == phase = p /\ ~tenv.moved

(* A token that no buffer is needed for. *)
Lexeme ==
  /\ Scanning("token")
  /\ LET s == Source
         p == tenv.pos
     IN /\ Ch(s, p) \notin {0, DQUOTE, LBR} /\ ~(tenv.level > 0 /\ Ch(s, p) = RBR)
        /\ LET h == fmat(s, p)
           IN /\ tenv' = [tenv EXCEPT !.pos = h.end, !.uline = @ + h.lines]
              /\ Token(h.tt, TextOf(h.tt, s, p, h.end))
  /\ UNCHANGED <<vars, phase, stream>>

(* parseBLOCK, at its beginning, and at the braces in it *)
BlockOpen ==
  /\ Scanning("token") /\ Ch(Source, tenv.pos) = LBR
  /\ tenv' = [tenv EXCEPT !.pos = @ + 1, !.level = @ + 1,
                          !.start = IF tenv.level = 0 THEN tenv.pos ELSE @]
  /\ UNCHANGED <<vars, phase, stream, tokens>>

(* Fault: an inner brace is not passed. *)
BlockClose_stay ==
  /\ Scanning("token") /\ tenv.level > 0 /\ Ch(Source, tenv.pos) = RBR
  /\ tenv' = [tenv EXCEPT !.pos = IF tenv.level = 1 THEN @ + 1 ELSE @,
                          !.level = IF tenv.level = 1 THEN 0 ELSE @]
  /\ tokens' = IF tenv.level = 1
                 THEN Append(tokens, [tt |-> "CODE", text |-> SubSeq(Source, tenv.start + 1, tenv.pos - 1)])
                 ELSE tokens
  /\ UNCHANGED <<vars, phase, stream>>
BlockClose ==
  /\ Scanning("token") /\ tenv.level > 0 /\ Ch(Source, tenv.pos) = RBR
  /\ tenv' = [tenv EXCEPT !.pos = @ + 1, !.level = @ - 1]
  /\ tokens' = IF tenv.level = 1
                 THEN Append(tokens, [tt |-> "CODE", text |-> SubSeq(Source, tenv.start + 1, tenv.pos - 1)])
                 ELSE tokens
  /\ UNCHANGED <<vars, phase, stream>>

(* Fault: the block ends one byte earlier. *)
BlockUnclosed_back ==
  /\ Scanning("token") /\ tenv.level > 0 /\ Ch(Source, tenv.pos) = 0
  /\ phase' = IF tenv.pos - 2 > tenv.start THEN "token" ELSE "abort"
  /\ tenv' = [tenv EXCEPT !.pos = @ - 2, !.level = 0]
  /\ tokens' = Append(tokens, [tt |-> "ERR", text |-> <<>>])
  /\ UNCHANGED <<vars, stream>>
(* The string ends in a block: the byte before its end is read once more,  *)
(* unless that is the block's brace, when tokenize fails its assertion.    *)
BlockUnclosed ==
  /\ Scanning("token") /\ tenv.level > 0 /\ Ch(Source, tenv.pos) = 0
  /\ phase' = IF tenv.pos - 1 > tenv.start THEN "token" ELSE "abort"
  /\ tenv' = [tenv EXCEPT !.pos = @ - 1, !.level = 0]
  /\ tokens' = Append(tokens, [tt |-> "ERR", text |-> <<>>])
  /\ UNCHANGED <<vars, stream>>

(* parseDQUOTE *)
LiteralOpen ==
  /\ Scanning("token") /\ Ch(Source, tenv.pos) = DQUOTE /\ Open
  /\ phase' = "literal" /\ tenv' = [tenv EXCEPT !.pos = @ + 1, !.prev = DQUOTE]
  /\ UNCHANGED <<stream, tokens>>

This == At(tenv.src + tenv.pos - 1)
Following == At(tenv.src + tenv.pos)
Closing == This = DQUOTE /\ tenv.prev # BKSLASH

LiteralByte ==
  /\ Scanning("literal") /\ This \notin {0, NL} /\ ~Closing
  /\ LET escape == This = BKSLASH /\ Following = 110
         ch == IF escape THEN NL ELSE This
     IN /\ Write(<<ch>>)
        /\ tenv' = [tenv EXCEPT !.pos = IF escape THEN @ + 2 ELSE @ + 1, !.prev = ch,
                                !.moved = bytemax' # bytemax]
  /\ UNCHANGED <<phase, stream, tokens>>

(* A closed literal outside of a block is made a string. *)
LiteralClose ==
  /\ Scanning("literal") /\ Closing
  /\ phase' = "close"
  /\ IF tenv.level = 0 THEN Top ELSE UNCHANGED vars
  /\ tenv' = [tenv EXCEPT !.pos = @ + 1, !.moved = bytemax' # bytemax]
  /\ UNCHANGED <<stream, tokens>>

(* Fault: the buffer stays as it is. *)
LiteralEnd_keep ==
  /\ phase = "close"
  /\ wb' = SubSeq(wb, 1, Own) /\ UNCHANGED <<bytesize, bytemax, bytebuf, overrun>>
  /\ Token("TEXT", [i \in 1 .. bytesize - wb[Own + 1].pos |-> At(wb[Own + 1].pos + i - 1)])
  /\ phase' = "token" /\ UNCHANGED <<stream, tenv>>
LiteralEnd ==
  /\ phase = "close" /\ Free
  /\ Token("TEXT", [i \in 1 .. bytesize - wb[Own + 1].pos |-> At(wb[Own + 1].pos + i - 1)])
  /\ phase' = "token" /\ UNCHANGED <<stream, tenv>>

LiteralUnclosed ==
  /\ Scanning("literal") /\ This \in {0, NL} /\ Free
  /\ Token("ERR", <<>>)
  /\ phase' = "token" /\ UNCHANGED <<stream, tenv>>

(* The array was moved: what the tokenizer reads next was freed. *)
ReadFreed ==
  /\ phase \in {"token", "literal"} /\ tenv.moved
  /\ phase' = "astray" /\ UNCHANGED <<vars, stream, tenv, tokens>>

ChunkTokenised ==
  /\ Scanning("token") /\ tenv.level = 0 /\ Ch(Source, tenv.pos) = 0
  /\ phase' = "tokenised" /\ UNCHANGED <<vars, stream, tenv, tokens>>

-----------------------------------------------------------------------------
(* Block_eval: the statements run. *)
EvalStart ==
  /\ phase = "tokenised"
  /\ phase' = "run" /\ tenv' = NoTokens /\ tokens' = <<>> /\ UNCHANGED <<vars, stream>>

Fitting(t) == Len(wb) > Own /\ bytesize - wb[Own + 1].pos + Len(t) <= MaxStatement
StatementText(n) == {[i \in 1 .. k |-> 97] : k \in 0 .. n}
Statement ==
  /\ phase = "run"
  /\ \/ Open
     \/ Len(wb) > Own /\ (Top \/ Free)
     \/ \E t \in StatementText(MaxWrite) : Fitting(t) /\ Write(t)
     \/ \E t \in StatementText(MaxPrint) : Fitting(t) /\ Printf(t)
  /\ UNCHANGED <<phase, stream, tenv, tokens>>

(* kwb_free of the chunk, whatever buffers are open above it.  The stream  *)
(* goes on to the end of the file unless an evaluation failed.             *)
ChunkFree(goon) ==
  /\ bytesize' = wb[Own].pos /\ wb' = SubSeq(wb, 1, Own - 1)
  /\ bytebuf' = [i \in 0 .. bytemax - 1 |-> IF i \in wb[Own].pos .. bytesize - 1 THEN 0 ELSE bytebuf[i]]
  /\ phase' = IF goon /\ ~feof THEN "start" ELSE "end"
  /\ rd' = NoReader /\ tenv' = NoTokens
  /\ UNCHANGED <<bytemax, overrun, rest, feof, uline, tokens>>

(* The statements ended, or an exception left them with what they opened.  *)
EvalEnd == phase = "run" /\ \E continue \in BOOLEAN : ChunkFree(continue)
ChunkSkip == phase = "empty" /\ ChunkFree(TRUE)
ChunkRefuse == phase = "refused" /\ ChunkFree(FALSE)

Reading ==
  \/ NextChunk \/ FetchCR \/ FetchEOF \/ ChunkRead
  \/ \E ch \in Byte : readchunk(ch) \/ readquote(ch) \/ readcomment(ch)
  \/ Lexeme \/ BlockOpen \/ BlockClose \/ BlockUnclosed
  \/ LiteralOpen \/ LiteralByte \/ LiteralClose \/ LiteralEnd \/ LiteralUnclosed
  \/ ReadFreed \/ ChunkTokenised \/ ChunkSkip \/ ChunkRefuse

ReaderNext == Reading \/ EvalStart \/ Statement \/ EvalEnd

ReaderSpec == ReaderInit /\ [][ReaderNext]_readerVars /\ WF_readerVars(Reading)

-----------------------------------------------------------------------------
(* What a chunk means: the tokens of its text, without the array that      *)
(* holds it.                                                               *)
Body == SubSeq(Chunk, Skipped + 1, Len(Chunk))

(* The values of f at the numbers of S, in their order. *)
Listed(f, S) ==
  [k \in 1 .. Cardinality(S) |-> f[Least({i \in S : Cardinality({j \in S : j <= i}) = k})]]

(* A literal ends at the next quote that no backslash is in front of, if   *)
(* there is one in its line.  An escape is read as one byte.               *)
EndOfLiteral(t, a) ==
  Least({q \in a + 1 .. Len(t) + 1 : \/ Ch(t, q) \in {NL, 0}
                                     \/ Ch(t, q) = DQUOTE /\ t[q - 1] # BKSLASH})
Escape(t, i) == t[i] = BKSLASH /\ Ch(t, i + 1) = 110
LiteralText(t, a, q) ==
  Listed([i \in 1 .. Len(t) |-> IF Escape(t, i) THEN NL ELSE t[i]],
         {i \in a + 1 .. q - 1 : ~Escape(t, i - 1)})
LiteralAt(t, a) ==
  LET q == EndOfLiteral(t, a)
  IN IF Ch(t, q) = DQUOTE THEN [tt |-> "TEXT", end |-> q + 1, text |-> LiteralText(t, a, q)]
     ELSE [tt |-> "ERR", end |-> q, text |-> <<>>]

(* A brace that opens a block is a lexeme of its own. *)
LexemeAt(t, p) ==
  IF t[p] = LBR THEN [tt |-> "", end |-> p + 1, text |-> <<>>]
  ELSE IF t[p] = DQUOTE THEN LiteralAt(t, p)
  ELSE LET h == fmat(t, p)
       IN [tt |-> h.tt, end |-> h.end, text |-> TextOf(h.tt, t, p, h.end)]

(* Where the n-th lexeme begins, or the end of the text. *)
Begin(t) ==
  LET nth[n \in 0 .. Len(t)] ==
        IF n = 0 THEN 1
        ELSE LET p == nth[n - 1] IN IF p > Len(t) THEN p ELSE LexemeAt(t, p).end
  IN nth
Begins(t) == {Begin(t)[n] : n \in 0 .. Len(t)}

(* How many blocks were opened before q, less those that were closed. *)
Nesting(t) ==
  LET before == [q \in 1 .. Len(t) + 1 |-> {i \in Begins(t) : i < q}]
  IN [q \in 1 .. Len(t) + 1 |->
        Cardinality({i \in before[q] : t[i] = LBR}) - Cardinality({i \in before[q] : t[i] = RBR})]

(* A block begins at a, and q lies in it. *)
InBlock(t, nest, a, q) == t[a] = LBR /\ \A i \in a + 1 .. q : nest[i] > nest[a]

Unclosed(t) == \E a \in Begins(t) \ {Len(t) + 1} : InBlock(t, Nesting(t), a, Len(t) + 1)

(* The lexemes that lie in no block, and its outermost blocks, make the    *)
(* tokens of a text.  When a block is not closed the newline at the end is *)
(* read once more.                                                         *)
TokenAt(t, nest, p) ==
  LET l == LexemeAt(t, p)
      q == Least({q \in p + 1 .. Len(t) + 1 : nest[q] <= nest[p]})
  IN IF t[p] # LBR THEN [tt |-> l.tt, text |-> l.text]
     ELSE IF InBlock(t, nest, p, Len(t) + 1) THEN [tt |-> "ERR", text |-> <<>>]
     ELSE [tt |-> "CODE", text |-> SubSeq(t, p + 1, q - 2)]

Outermost(t, nest) ==
  {p \in Begins(t) \ {Len(t) + 1} : \A a \in Begins(t) : a < p => ~InBlock(t, nest, a, p)}

Newline == [tt |-> "INDENT", text |-> <<>>]
TokensOf(t) ==
  LET nest == Nesting(t)
      token == [p \in Outermost(t, nest) |-> TokenAt(t, nest, p)]
  IN Listed(token, {p \in DOMAIN token : token[p].tt # ""})
     \o (IF Unclosed(t) THEN <<Newline>> ELSE <<>>)

(* A chunk that is tokenised in the array has the tokens of its text,      *)
(* though every literal is collected over the zero that ends it (token.h,  *)
(* parseDQUOTE, against sugar.c, KonohaSpace_loadstream), unless the file  *)
(* ends, without a newline, in a block: there a literal that is not closed *)
(* may read what it wrote itself.                                          *)
TokensOfChunk ==
  phase = "tokenised" /\ (Chunk[Len(Chunk)] = NL \/ ~Unclosed(Body))
    => tokens = <<Newline>> \o TokensOf(Body)

(* The array is moved under the tokenizer only if the chunk has a line     *)
(* longer than what is free behind the chunk, or the file ends without a   *)
(* newline: a literal ends with its line and is freed before the next one, *)
(* however many of them a chunk has.                                       *)
MovedByLongLine ==
  phase = "astray" =>
    \/ Chunk[Len(Chunk)] # NL
    \/ \E p, q \in 1 .. Len(Chunk) : q - p >= tenv.room /\ Lines(Chunk, p, q + 1) = 0

(* The reader and the tokenizer count lines on their own; they agree about *)
(* every chunk without an error, so that the next one begins where the     *)
(* last ended.  (The lines before the word konoha are the reader's alone.) *)
LinesAgree ==
  phase = "tokenised" /\ (\A i \in 1 .. Len(tokens) : tokens[i].tt # "ERR")
    => tenv.uline + Lines(Chunk, 1, Skipped + 1) = uline

(* The tokenizer makes progress with every token, as it asserts, unless    *)
(* the brace of a block is the last byte of the file.                      *)
Progresses == phase = "abort" => feof /\ Chunk[Len(Chunk)] = LBR

(* Every chunk is read and tokenised to its end: no byte is read for ever, *)
(* not even those that the tokenizer writes before itself.                 *)
InReader == phase \in {"read", "chunk", "token", "literal", "close"}
ReadingEnds == InReader ~> ~InReader
=============================================================================
