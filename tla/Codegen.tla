------------------------------ MODULE Codegen -------------------------------
(***************************************************************************)
(* The code generator (src/src/vm/asm.c): a method's statements become a   *)
(* graph of basic blocks, which is stripped of empty ones, joined, laid    *)
(* out and threaded; the virtual machine then runs the code.               *)
(*                                                                         *)
(* A graph g has the blocks bb, the current one cur (0 is NULL), and says  *)
(* with crash that code was added to NULL, with ok that the assertions of  *)
(* the layout held.  Blocks are numbers; an address is an index of the     *)
(* code, 0 is NULL.  Instructions that only compute are one EXPR a leaf;   *)
(* reg is the stack slot that holds a condition.                           *)
(***************************************************************************)
EXTENDS Script, FiniteSets

VARIABLES
  ctor,  \* the method is a constructor (mn == MN_new)
  phase, \* the next step of Method_genCode, or the run of its code
  g,     \* the graph
  room,  \* codesize, in instructions
  code,  \* the code
  pc,    \* the instruction to be executed
  reg

vars == <<prog, said, ctor, phase, g, room, code, pc, reg>>

lbINIT == 1
lbBEGIN == 2
lbEND == 3

Op(opcode, arg) == [opcode |-> opcode, arg |-> arg, jumppc |-> 0]
Instr(opcode) == Op(opcode, <<>>)
JMP == Instr("JMP")
NewBlock == [op |-> <<>>, next |-> 0, jump |-> 0, incoming |-> 0,
             visited |-> FALSE, code |-> 0, opjmp |-> 0]

Count == Len(g.bb)
WithBlocks(h, n) == [h EXCEPT !.bb = @ \o [i \in 1 .. n |-> NewBlock]]
Empty(h, b) == h.bb[b].op = <<>>
Opcode(h, b) == IF Empty(h, b) THEN "NOP" ELSE h.bb[b].op[1].opcode

-----------------------------------------------------------------------------
(* Assembling: each operator gives the graph after it. *)

ASM(h, op) ==
  IF h.cur = 0 THEN [h EXCEPT !.crash = TRUE]
  ELSE [h EXCEPT !.bb[h.cur].op = Append(@, op)]

(* Fault: a label behind a jump does not become the current block. *)
ASM_LABEL_lost(h, label) ==
  IF h.cur = 0 THEN h
  ELSE [h EXCEPT !.bb[h.cur].next = label, !.bb[h.cur].jump = 0,
                 !.bb[label].incoming = @ + 1, !.cur = label]
ASM_LABEL(h, label) ==
  IF h.cur = 0 THEN [h EXCEPT !.cur = label]
  ELSE [h EXCEPT !.bb[h.cur].next = label, !.bb[h.cur].jump = 0,
                 !.bb[label].incoming = @ + 1, !.cur = label]

ASM_JMP(h, label) ==
  IF h.cur = 0 THEN h
  ELSE [h EXCEPT !.bb[h.cur].next = 0, !.bb[h.cur].jump = label,
                 !.bb[label].incoming = @ + 1, !.cur = 0]

ASM_JMPF(h, label) ==
  LET n == Len(h.bb) + 1
      k == ASM(WithBlocks(h, 1), Instr("JMPF"))
  IN IF k.crash THEN k
     ELSE [k EXCEPT !.bb[k.cur].jump = label, !.bb[k.cur].next = n,
                    !.bb[n].incoming = @ + 1, !.bb[label].incoming = @ + 1, !.cur = n]

(* EXPR_asmJMPIF of one leaf. *)
TestJMPIF(h, leaf, isTRUE, label) ==
  LET k == ASM(h, Op("EXPR", leaf))
  IN ASM_JMPF(IF isTRUE THEN ASM(k, Instr("BNOT")) ELSE k, label)

(* OR_asm and AND_asm of two leaves: the value is in reg at the end.  For  *)
(* or, lb is lbTRUE and join lbFALSE; for and, the other way around.       *)
OR_asm(h, p, isOR) ==
  LET lb == Len(h.bb) + 1
      join == Len(h.bb) + 2
      h1 == TestJMPIF(WithBlocks(h, 2), Test(p, 1), isOR, lb)
      h2 == TestJMPIF(h1, Test(p, 2), isOR, lb)
      h3 == ASM_LABEL(ASM_JMP(ASM(h2, Op("NSET", ~isOR)), join), lb)
  IN ASM_LABEL(ASM(h3, Op("NSET", isOR)), join)

EXPR_asmJMPIF(h, p, cond, label) ==
  IF cond = "test" THEN TestJMPIF(h, Test(p, 1), FALSE, label)
  ELSE ASM_JMPF(OR_asm(h, p, cond = "or"), label)

RECURSIVE BLOCK_asm(_, _, _, _, _)

IfStmt_asm(h, s, p, lb) ==
  LET lbELSE == Len(h.bb) + 1
      lbIFEND == Len(h.bb) + 2
      h1 == EXPR_asmJMPIF(WithBlocks(h, 2), p, s.cond, lbELSE)
      h2 == ASM_JMP(BLOCK_asm(h1, s.then, p \o <<1>>, 1, lb), lbIFEND)
      h3 == BLOCK_asm(ASM_LABEL(h2, lbELSE), s.else, p \o <<2>>, 1, lb)
  IN ASM_LABEL(h3, lbIFEND)

(* Fault: the condition is evaluated once, in front of the label. *)
LoopStmt_asm_once(h, s, p) ==
  LET lbCONTINUE == Len(h.bb) + 1
      lbBREAK == Len(h.bb) + 2
      h1 == EXPR_asmJMPIF(WithBlocks(h, 2), p, s.cond, lbBREAK)
      h2 == ASM(ASM_LABEL(h1, lbCONTINUE), Instr("SAFEPOINT"))
      h3 == BLOCK_asm(h2, s.then, p \o <<1>>, 1, [break |-> lbBREAK, continue |-> lbCONTINUE])
  IN ASM_LABEL(ASM_JMP(h3, lbCONTINUE), lbBREAK)
LoopStmt_asm(h, s, p) ==
  LET lbCONTINUE == Len(h.bb) + 1
      lbBREAK == Len(h.bb) + 2
      h1 == ASM(ASM_LABEL(WithBlocks(h, 2), lbCONTINUE), Instr("SAFEPOINT"))
      h2 == EXPR_asmJMPIF(h1, p, s.cond, lbBREAK)
      h3 == BLOCK_asm(h2, s.then, p \o <<1>>, 1, [break |-> lbBREAK, continue |-> lbCONTINUE])
  IN ASM_LABEL(ASM_JMP(h3, lbCONTINUE), lbBREAK)

(* The statements of b from the i-th on; none of them after a return, or an *)
(* error, behind which the code of what follows b is reached all the same.  *)
BLOCK_asm(h, b, p, i, lb) ==
  IF i > Len(b) \/ h.crash THEN h
  ELSE LET s == b[i]
           q == p \o <<i>>
           rest(k) == BLOCK_asm(k, b, p, i + 1, lb)
       IN CASE s.kind = "call" -> rest(ASM(h, Op("EXPR", q)))
            [] s.kind = "error" -> ASM(h, Op("ERROR", q))
            [] s.kind = "return" -> ASM_JMP(h, lbEND)
            [] s.kind = "value" -> ASM_JMP(ASM(h, Op("EXPR", q)), lbEND)
            [] s.kind = "break" -> rest(ASM_JMP(h, lb.break))
            [] s.kind = "continue" -> rest(ASM_JMP(h, lb.continue))
            [] s.kind = "block" -> rest(BLOCK_asm(h, s.then, q \o <<1>>, 1, lb))
            [] s.kind = "if" -> rest(IfStmt_asm(h, s, q, lb))
            [] s.kind = "loop" -> rest(LoopStmt_asm(h, s, q))

NoLabels == [break |-> 0, continue |-> 0]

Method_genCode(b) ==
  LET h0 == [bb |-> [i \in 1 .. 3 |-> NewBlock], cur |-> lbINIT, crash |-> FALSE, ok |-> TRUE]
      h1 == ASM_LABEL(ASM(h0, Instr("THCODE")), lbBEGIN)
      h2 == ASM_LABEL(BLOCK_asm(h1, b, <<>>, 1, NoLabels), lbEND)
  IN IF h2.crash THEN h2
     ELSE ASM(IF ctor THEN ASM(h2, Instr("NMOV")) ELSE h2, Instr("RET"))

-----------------------------------------------------------------------------
(* Stripping: edges into empty blocks are led on to where these lead, and  *)
(* incoming counts follow.                                                 *)

Forwards(h, b) == Empty(h, b) /\ (h.bb[b].jump = 0) # (h.bb[b].next = 0)

(* An edge that led to b leads on to c. *)
Moved_uncounted(h, b, c) == [h EXCEPT !.bb[b].incoming = @ - 1]
Moved(h, b, c) == [h EXCEPT !.bb[b].incoming = @ - 1, !.bb[c].incoming = @ + 1]

RECURSIVE BasicBlock_strip0(_, _), StripJump(_, _), StripNext(_, _)

BasicBlock_strip0(h, b) ==
  IF h.bb[b].visited THEN h
  ELSE LET k == [h EXCEPT !.bb[b].visited = TRUE]
       IN IF k.bb[b].jump # 0 THEN StripJump(k, b) ELSE StripNext(k, b)

(* L_JUMP *)
StripJump(h, b) ==
  LET bbJ == h.bb[b].jump
      to == h.bb[bbJ].jump + h.bb[bbJ].next
      k == BasicBlock_strip0(h, bbJ)
  IN IF Forwards(h, bbJ) THEN StripJump([Moved(h, bbJ, to) EXCEPT !.bb[b].jump = to], b)
     ELSE IF h.bb[b].next = 0 /\ h.bb[bbJ].incoming = 1
     THEN StripNext([h EXCEPT !.bb[b].next = bbJ, !.bb[b].jump = 0], b)
     ELSE IF k.bb[b].next # 0 THEN BasicBlock_strip0(k, k.bb[b].next) ELSE k

(* L_NEXT, for a block without a jump *)
StripNext(h, b) ==
  LET bbN == h.bb[b].next
      to == h.bb[bbN].jump + h.bb[bbN].next
  IN IF bbN = 0 THEN h
     ELSE IF ~Forwards(h, bbN) THEN BasicBlock_strip0(h, bbN)
     ELSE IF h.bb[bbN].jump = 0
     THEN StripNext([Moved(h, bbN, to) EXCEPT !.bb[b].next = to], b)
     ELSE StripJump([Moved(h, bbN, to) EXCEPT !.bb[b].next = 0, !.bb[b].jump = to], b)

BasicBlock_join(h, b, bbN) ==
  [h EXCEPT !.bb[b].next = h.bb[bbN].next, !.bb[b].jump = h.bb[bbN].jump,
            !.bb[b].op = @ \o h.bb[bbN].op, !.bb[bbN].op = <<>>]

(* Fault: the last block is joined like any other. *)
Joins_ret(h, bbN) == h.bb[bbN].incoming = 1
(* Fault: a block is joined whoever else jumps to it. *)
Joins_any(h, bbN) == Opcode(h, bbN) # "RET"
Joins(h, bbN) == h.bb[bbN].incoming = 1 /\ Opcode(h, bbN) # "RET"

RECURSIVE BasicBlock_strip1(_, _)
BasicBlock_strip1(h, b) ==
  LET k == [h EXCEPT !.bb[b].visited = FALSE]
      j == k.bb[b].jump
      n == k.bb[b].next
  IN IF ~h.bb[b].visited THEN h
     ELSE IF j # 0 /\ n = 0 THEN BasicBlock_strip1(k, j)
     ELSE IF j # 0 THEN BasicBlock_strip1(BasicBlock_strip1(k, j), n)
     ELSE IF n = 0 THEN k
     ELSE IF Joins(k, n)
     THEN BasicBlock_strip1([BasicBlock_join(k, b, n) EXCEPT !.bb[b].visited = TRUE], b)
     ELSE BasicBlock_strip1(k, n)

-----------------------------------------------------------------------------
(* Layout.  BasicBlock_size puts a block with a JMP between a block and    *)
(* its next one, always, as it asks the block itself whether it was        *)
(* visited, and adds the JMP to a block that only jumps.                   *)

(* Fault: the size of a block is taken before its JMP is added. *)
Sized_early(h, b) == [g |-> [h EXCEPT !.bb[b].op = Append(@, JMP)], size |-> Len(h.bb[b].op)]
Sized(h, b) == [g |-> [h EXCEPT !.bb[b].op = Append(@, JMP)], size |-> Len(h.bb[b].op) + 1]

(* Fault: a block falls through to its next one, written already or not. *)
Split_never(h, b) == h
Split(h, b) ==
  LET bb2 == Len(h.bb) + 1
  IN [WithBlocks(h, 1) EXCEPT !.bb[bb2].jump = h.bb[b].next, !.bb[b].next = bb2]

RECURSIVE BasicBlock_size(_, _)
BasicBlock_size(h, b) ==
  LET k == [h EXCEPT !.bb[b].visited = TRUE]
      split == Split(k, b)
      next == BasicBlock_size(split, split.bb[b].next)
      own == Sized(k, b)
      then(r, to) == LET t == BasicBlock_size(r.g, to) IN [t EXCEPT !.size = @ + r.size]
  IN IF h.bb[b].visited THEN [g |-> h, size |-> 0]
     ELSE IF h.bb[b].next # 0
     THEN LET r == [next EXCEPT !.size = @ + Len(h.bb[b].op)]
          IN IF h.bb[b].jump = 0 THEN r ELSE then(r, h.bb[b].jump)
     ELSE IF h.bb[b].jump # 0 THEN then(own, h.bb[b].jump)
     ELSE [g |-> k, size |-> Len(h.bb[b].op)]

(* BasicBlock_copy, with st the graph, the code so far and the block whose *)
(* code was written last.  A JMP in front of its target is taken back.     *)
TakenBack(st, b) ==
  LET p == st.prev IN
  IF p # 0 /\ st.g.bb[p].next = 0 /\ st.g.bb[p].jump = b
  THEN [st EXCEPT !.g.ok = @ /\ st.out[Len(st.out)].opcode = "JMP",
                  !.g.bb[p].jump = 0, !.g.bb[p].next = b,
                  !.out = SubSeq(@, 1, Len(@) - 1)]
  ELSE st

Written(st, b) ==
  LET op == st.g.bb[b].op
      end == Len(st.out) + Len(op)
      k == [st EXCEPT !.g.bb[b].code = Len(st.out) + 1]
  IN IF op = <<>> THEN k
     ELSE [k EXCEPT !.out = @ \o op, !.prev = b, !.g.bb[b].op = <<>>,
                    !.g.bb[b].opjmp = IF st.g.bb[b].jump = 0 THEN @ ELSE end]

RECURSIVE BasicBlock_copy(_, _)
BasicBlock_copy(st, b) ==
  LET k == [st EXCEPT !.g.bb[b].visited = FALSE]
      w == Written(TakenBack(k, b), b)
      n == w.g.bb[b].next
      u == IF n = 0 THEN w
           ELSE BasicBlock_copy([w EXCEPT !.g.ok = @ /\ w.g.bb[n].code = 0], n)
      j == u.g.bb[b].jump
  IN IF k.g.bb[b].code # 0 THEN k
     ELSE IF j = 0 THEN u ELSE BasicBlock_copy(u, j)

RECURSIVE BasicBlock_setjump(_, _)
BasicBlock_setjump(st, b) ==
  LET j == st.g.bb[b].jump
      k == [st EXCEPT !.g.bb[b].visited = TRUE]
      set == [k EXCEPT !.out[st.g.bb[b].opjmp].jumppc = st.g.bb[j].code,
                       !.g.bb[b].jump = 0, !.g.bb[j].visited = TRUE]
      u == IF j = 0 THEN k
           ELSE IF k.g.bb[j].visited THEN set ELSE BasicBlock_setjump(set, j)
  IN IF b = 0 THEN st ELSE BasicBlock_setjump(u, u.g.bb[b].next)

(* new_KonohaCode: lbEND has a dummy address until the rest is written. *)
new_KonohaCode(h) ==
  LET st == [g |-> [h EXCEPT !.bb[lbEND].code = 1], out |-> <<>>, prev |-> 0]
      k == BasicBlock_copy(st, lbINIT)
      end == BasicBlock_copy([k EXCEPT !.g.bb[lbEND].code = 0], lbEND)
  IN BasicBlock_setjump(end, lbINIT)

-----------------------------------------------------------------------------
NoGraph == [bb |-> <<>>, cur |-> 0, crash |-> FALSE, ok |-> TRUE]

CodegenInit ==
  /\ Init
  /\ ctor \in BOOLEAN /\ phase = "assemble" /\ g = NoGraph
  /\ room = 0 /\ code = <<>> /\ pc = 0 /\ reg = TRUE

machine == <<code, pc, reg, said>>

Assemble ==
  /\ phase = "assemble"
  /\ g' = Method_genCode(prog)
  /\ phase' = IF g'.crash THEN "crash" ELSE "strip0"
  /\ UNCHANGED <<prog, ctor, room, machine>>

Strip0 ==
  /\ phase = "strip0" /\ phase' = "strip1"
  /\ g' = BasicBlock_strip0(g, lbINIT)
  /\ UNCHANGED <<prog, ctor, room, machine>>

Strip1 ==
  /\ phase = "strip1" /\ phase' = "size"
  /\ g' = BasicBlock_strip1(g, lbINIT)
  /\ UNCHANGED <<prog, ctor, room, machine>>

Size ==
  /\ phase = "size" /\ phase' = "copy"
  /\ LET r == BasicBlock_size(g, lbINIT) IN g' = r.g /\ room' = r.size
  /\ UNCHANGED <<prog, ctor, machine>>

(* The copy, and the first run of the code: THCODE threads the code up to  *)
(* the first RET and gives the address behind itself, the method's entry.  *)
Copy ==
  /\ phase = "copy" /\ phase' = "run"
  /\ LET st == new_KonohaCode(g) IN code' = st.out /\ g' = [NoGraph EXCEPT !.ok = st.g.ok]
  /\ pc' = 2
  /\ UNCHANGED <<prog, ctor, room, reg, said>>

(* One instruction. *)
VirtualMachine_run ==
  /\ phase = "run"
  /\ LET op == code[pc] IN
     CASE op.opcode = "EXPR" ->
            /\ \E v \in Outcomes(prog, op.arg) :
                 /\ said' = [leaf |-> op.arg, val |-> v]
                 /\ reg' = v
            /\ pc' = pc + 1 /\ UNCHANGED phase
       [] op.opcode = "BNOT" -> reg' = ~reg /\ pc' = pc + 1 /\ UNCHANGED <<phase, said>>
       [] op.opcode = "NSET" -> reg' = op.arg /\ pc' = pc + 1 /\ UNCHANGED <<phase, said>>
       [] op.opcode = "JMP" -> pc' = op.jumppc /\ UNCHANGED <<phase, said, reg>>
       [] op.opcode = "JMPF" ->
            pc' = (IF reg THEN pc + 1 ELSE op.jumppc) /\ UNCHANGED <<phase, said, reg>>
       [] op.opcode \in {"SAFEPOINT", "NMOV"} -> pc' = pc + 1 /\ UNCHANGED <<phase, said, reg>>
       [] op.opcode = "ERROR" ->  \* kraise: the method is left
            /\ phase' = "done" /\ said' = [leaf |-> op.arg, val |-> TRUE]
            /\ UNCHANGED <<pc, reg>>
       [] op.opcode = "RET" ->
            /\ phase' = "done" /\ said' = [leaf |-> End, val |-> TRUE]
            /\ UNCHANGED <<pc, reg>>
  /\ UNCHANGED <<prog, ctor, g, room, code>>

CodegenNext == Assemble \/ Strip0 \/ Strip1 \/ Size \/ Copy \/ VirtualMachine_run

(* The machine goes on until the method returns. *)
CodegenSpec == CodegenInit /\ [][CodegenNext]_vars /\ WF_vars(VirtualMachine_run)

-----------------------------------------------------------------------------
(***************************************************************************)
(* The code evaluates the leaves of the method in the order its statements *)
(* say, whatever the outcomes of tests are, and returns where they end:    *)
(* assembling, stripping, joining, laying out and setting jumps lose, add  *)
(* and reorder nothing.  Script is the specification of that order.        *)
(***************************************************************************)
RunsAsWritten == Spec

Succ(h, b) == {h.bb[b].next, h.bb[b].jump} \ {0}
RECURSIVE Reach(_, _)
Reach(h, bs) ==
  LET more == bs \cup UNION {Succ(h, b) : b \in bs} IN IF more = bs THEN bs ELSE Reach(h, more)

(* Before blocks are joined, none has fewer incoming edges counted than    *)
(* lead to it: a join would take a block away from another predecessor.    *)
CountsCover ==
  phase = "strip1" =>
    LET live == Reach(g, {lbINIT}) IN
    \A b \in live : Cardinality({a \in live : b \in Succ(g, a)}) <= g.bb[b].incoming

(* BasicBlock_copy writes no more instructions than were allocated, and    *)
(* the machine never leaves them: every jump it comes to was set.          *)
CodeFits ==
  phase = "run" =>
    /\ Len(code) <= room /\ pc \in 1 .. Len(code)
    /\ code[pc].opcode \in {"JMP", "JMPF"} => code[pc].jumppc \in 1 .. Len(code)

(* The assertions of BasicBlock_copy hold: the next block was not written  *)
(* yet, and what is taken back is a JMP.                                   *)
AssertsHold == g.ok

(* The instructions that _THCODE threads: those up to the first RET.       *)
IsThreaded(i) == \A j \in 1 .. i - 1 : code[j].opcode # "RET"
RECURSIVE Branches(_)
Branches(b) == \E i \in 1 .. Len(b) : \/ b[i].kind \in {"if", "loop"}
                                      \/ b[i].kind = "block" /\ Branches(b[i].then)

(* No instruction runs that was not threaded, its address would be NULL.   *)
(* A constructor keeps this only without branches: its last block does not *)
(* begin with RET, is joined to its predecessor and ends up in the middle. *)
Threaded == phase = "run" /\ (ctor => ~Branches(prog)) => IsThreaded(pc)

RECURSIVE Jumps(_)
Jumps(s) == \/ s.kind \in {"return", "value", "break", "continue"}
            \/ s.kind = "block" /\ s.then # <<>> /\ Jumps(s.then[Len(s.then)])
RECURSIVE BehindJump(_)
BehindJump(b) ==
  \/ \E i \in 1 .. Len(b) - 1 : Jumps(b[i])
  \/ \E i \in 1 .. Len(b) :
       \/ b[i].kind \in {"block", "if", "loop"} /\ BehindJump(b[i].then)
       \/ b[i].kind = "if" /\ BehindJump(b[i].else)

(* Code is added to no block only for a statement behind a jump, which     *)
(* nothing could run: `break; f();' ends the compiler, nothing else does.  *)
CrashBehindJump == phase = "crash" => BehindJump(prog)

(* Code that was generated comes to the next leaf or returns: no cycle of  *)
(* blocks without one is left, or made.                                    *)
ComesToLeaf ==
  phase = "run" ~> (phase = "done" \/ (phase = "run" /\ code[pc].opcode = "EXPR"))
=============================================================================
