-------------------------------- MODULE Eval --------------------------------
(***************************************************************************)
(* Evaluating a script: the streams, evaluations, type checks, compilations *)
(* and calls that are active at a time, and the exception (kraise) that     *)
(* leaves several of them at once.  KonohaSpace_loadstream of               *)
(* src/src/sugar/sugar.c, Block_eval, SingleBlock_eval and Method_compile   *)
(* of src/src/sugar/tycheck.h, Kraise of src/src/konoha/klibexec.h.         *)
(*                                                                         *)
(* One context is one thread; its C stack is `stk', and every frame holds  *)
(* what its function read on entry and writes back at its end: the saved   *)
(* jump buffer (lbuf), the outer type-checking frame (oldbuf_), sizes of   *)
(* the shared stacks (gcstack_, esp_, lvarlst_top, wb.pos).  A longjmp     *)
(* skips the ends of the frames above the one it goes to.                  *)
(*                                                                         *)
(* A pointer into the C stack (evaljmpbuf's contents, gma->genv) is the    *)
(* depth of its frame; 0 is a buffer of zeros, and NULL.                   *)
(***************************************************************************)
EXTENDS Integers, Sequences

CONSTANTS
  MaxDepth,  \* bound on the frames of the C stack
  MaxRoots,  \* bound on the entries of gcstack
  MaxVars,   \* bound on the entries of lvarlst
  MaxText    \* bound on the texts in cwb

ASSUME BoundAssumption == {MaxDepth, MaxRoots, MaxVars, MaxText} \subseteq Nat

VARIABLES
  mode,      \* "ok", "abort" (a failed assert, abort()), "wild" (a bad longjmp)
  stk,       \* the active frames, innermost last
  alloc,     \* base->evaljmpbuf != NULL
  jmp,       \* *base->evaljmpbuf: the frame of the setjmp it holds
  genv,      \* ctxsugar->gma->genv
  lvarlst,   \* size of ctxsugar->lvarlst
  gcstack,   \* size of base->gcstack
  esp,       \* _ctx->esp
  cwb,       \* bytesize of base->cwb
  status     \* what the last evaluation or stream returned

vars == <<mode, stk, alloc, jmp, genv, lvarlst, gcstack, esp, cwb, status>>

Stream == {"load", "package", "stream"}
Kind == Stream \cup {"eval", "type", "run", "compile", "call"}
Status == {"FAILED", "CONTINUE", "BREAK"}

Init ==
  /\ mode = "ok" /\ stk = <<>> /\ alloc = FALSE /\ jmp = 0 /\ genv = 0
  /\ lvarlst = 0 /\ gcstack = 0 /\ esp = 0 /\ cwb = 0 /\ status = "CONTINUE"

Depth == Len(stk)
Top == stk[Depth]
On(kinds) == mode = "ok" /\ stk # <<>> /\ Top.kind \in kinds
Idle == mode = "ok" /\ stk = <<>>

(* A frame and what it saves. *)
Enter(k) ==
  /\ Depth < MaxDepth
  /\ stk' = Append(stk, [kind |-> k, jmp |-> jmp, genv |-> genv, lvarlst |-> lvarlst,
                         gcstack |-> gcstack, esp |-> esp, cwb |-> cwb])
Leave == stk' = SubSeq(stk, 1, Depth - 1)

-----------------------------------------------------------------------------
(* The script of the command line (load) and a package: the name space of *)
(* the stream is pushed on the gcstack.  K.load and the script a package   *)
(* exports (stream) read into a name space that the caller holds.          *)
LoadStart(k) ==
  /\ CASE k = "load" -> Idle
       [] k = "stream" -> Idle \/ On({"run", "call"})
       [] k = "package" -> \/ Idle \/ On({"run", "call"})
                           \/ On({"package"}) /\ status = "CONTINUE"
  /\ gcstack < MaxRoots
  /\ Enter(k)
  /\ gcstack' = IF k = "stream" THEN gcstack ELSE gcstack + 1
  /\ status' = "CONTINUE"
  /\ UNCHANGED <<mode, alloc, jmp, genv, lvarlst, esp, cwb>>

(* Glue goes on whether the package it required was loaded or not. *)
Ignored == Depth > 1 /\ stk[Depth - 1].kind = "package"

(* loadPackageNULL does not reset the gcstack when it succeeds, nor does a *)
(* stream that pushed nothing.                                             *)
RootsStay == Top.kind = "stream" \/ (Top.kind = "package" /\ status = "CONTINUE")

(* Fault: the buffer is emptied, not cut at the position it was opened at. *)
LoadEnd_all ==
  /\ On(Stream)
  /\ Leave
  /\ cwb' = 0
  /\ gcstack' = IF RootsStay THEN gcstack ELSE Top.gcstack
  /\ status' = IF Ignored THEN "CONTINUE" ELSE status
  /\ UNCHANGED <<mode, alloc, jmp, genv, lvarlst, esp>>

(* The end of the stream, or of a chunk that failed: the buffer is freed   *)
(* and the gcstack reset.                                                  *)
LoadEnd ==
  /\ On(Stream)
  /\ Leave
  /\ cwb' = Top.cwb
  /\ gcstack' = IF RootsStay THEN gcstack ELSE Top.gcstack
  /\ status' = IF Ignored THEN "CONTINUE" ELSE status
  /\ UNCHANGED <<mode, alloc, jmp, genv, lvarlst, esp>>

-----------------------------------------------------------------------------
(* The next chunk of a stream is read into its buffer, or konoha_eval is   *)
(* called; Block_eval pushes its method on the gcstack, saves the jump     *)
(* buffer and sets it.                                                     *)
EvalStart ==
  /\ Idle \/ (On(Stream) /\ status = "CONTINUE" /\ cwb < MaxText)
  /\ gcstack < MaxRoots
  /\ Enter("eval")
  /\ cwb' = IF Idle THEN cwb ELSE cwb + 1
  /\ alloc' = TRUE /\ jmp' = Depth + 1
  /\ gcstack' = gcstack + 1 /\ status' = "CONTINUE"
  /\ UNCHANGED <<mode, genv, lvarlst, esp>>

(* Fault: the buffer the evaluation found is not put back. *)
Restore_keep(d) ==
  /\ UNCHANGED jmp /\ esp' = stk[d].esp /\ gcstack' = stk[d].gcstack
  /\ cwb' = IF d > 1 THEN stk[d - 1].cwb ELSE cwb
(* Fault: the stacks are emptied. *)
Restore_clear(d) ==
  /\ jmp' = stk[d].jmp /\ esp' = 0 /\ gcstack' = 0
  /\ cwb' = IF d > 1 THEN stk[d - 1].cwb ELSE cwb
(* The end of the Block_eval at depth d, reached from its loop or by a     *)
(* longjmp; the stream that called it frees its chunk.                     *)
Restore(d) ==
  /\ jmp' = stk[d].jmp /\ esp' = stk[d].esp /\ gcstack' = stk[d].gcstack
  /\ cwb' = IF d > 1 THEN stk[d - 1].cwb ELSE cwb

(* No statement is left, or one failed. *)
EvalEnd ==
  /\ On({"eval"})
  /\ Leave /\ Restore(Depth)
  /\ UNCHANGED <<mode, alloc, genv, lvarlst, status>>

-----------------------------------------------------------------------------
Gamma_push(k) == Enter(k) /\ genv' = Depth + 1

(* Fault: the outer frame is forgotten. *)
Gamma_pop_null ==
  IF genv = Depth THEN genv' = 0 /\ lvarlst' = Top.lvarlst /\ mode' = mode
  ELSE mode' = "abort" /\ UNCHANGED <<genv, lvarlst>>
(* Gamma_pop asserts that the frame it leaves is the current one; no build *)
(* defines NDEBUG.                                                         *)
Gamma_pop ==
  IF genv = Depth THEN genv' = Top.genv /\ lvarlst' = Top.lvarlst /\ mode' = mode
  ELSE mode' = "abort" /\ UNCHANGED <<genv, lvarlst>>

(* SingleBlock_eval: the next statement of the block is type checked. *)
TypeStart ==
  /\ On({"eval"}) /\ status # "FAILED"
  /\ Gamma_push("type")
  /\ UNCHANGED <<mode, alloc, jmp, lvarlst, gcstack, esp, cwb, status>>

(* Type checking notes the variables an expression uses. *)
TypeVariable ==
  /\ On({"type", "compile"}) /\ lvarlst < MaxVars
  /\ lvarlst' = lvarlst + 1
  /\ UNCHANGED <<mode, stk, alloc, jmp, genv, gcstack, esp, cwb, status>>

(* The statement has a type error, is an error of the parser, or is a      *)
(* declaration and done.                                                   *)
TypeEnd ==
  /\ On({"type"})
  /\ Gamma_pop /\ Leave
  /\ status' \in Status
  /\ UNCHANGED <<alloc, jmp, gcstack, esp, cwb>>

(* Method_runEval: the code of the statement runs on the VM stack. *)
RunStart ==
  /\ On({"type"})
  /\ stk' = [stk EXCEPT ![Depth].kind = "run", ![Depth].esp = esp]
  /\ esp' = esp + 1
  /\ UNCHANGED <<mode, alloc, jmp, genv, lvarlst, gcstack, cwb, status>>

RunEnd ==
  /\ On({"run"})
  /\ Gamma_pop /\ Leave
  /\ esp' = Top.esp /\ status' = "CONTINUE"
  /\ UNCHANGED <<alloc, jmp, gcstack, cwb>>

-----------------------------------------------------------------------------
(* A method is called, by code or by the checker (the handler of a syntax), *)
(* and may write to a buffer of its own.                                   *)
Call ==
  /\ On({"run", "call", "type", "compile"}) /\ cwb < MaxText
  /\ Enter("call")
  /\ esp' = esp + 1 /\ cwb' \in {cwb, cwb + 1}
  /\ UNCHANGED <<mode, alloc, jmp, genv, lvarlst, gcstack, status>>

Return ==
  /\ On({"call"})
  /\ Leave
  /\ esp' = Top.esp /\ cwb' = Top.cwb
  /\ UNCHANGED <<mode, alloc, jmp, genv, lvarlst, gcstack, status>>

(* Fmethod_lazyCompilation: the method just called is compiled first. *)
CompileStart ==
  /\ On({"call"})
  /\ Gamma_push("compile")
  /\ UNCHANGED <<mode, alloc, jmp, lvarlst, gcstack, esp, cwb, status>>

CompileEnd ==
  /\ On({"compile"})
  /\ Gamma_pop /\ Leave
  /\ gcstack' = Top.gcstack /\ esp' = Top.esp
  /\ UNCHANGED <<alloc, jmp, cwb, status>>

-----------------------------------------------------------------------------
(* Kraise, from running code, a syntax handler or a loader: longjmp to the *)
(* frame in the buffer, whose evaluation fails and ends.                   *)
Raise ==
  /\ On(Kind \ {"eval"}) /\ alloc /\ jmp \in 1 .. Depth /\ stk[jmp].kind = "eval"
  /\ stk' = SubSeq(stk, 1, jmp - 1)
  /\ Restore(jmp)
  /\ status' = "FAILED"
  /\ UNCHANGED <<mode, alloc, genv, lvarlst>>

(* Without a buffer the program ends; otherwise it jumps through zeros, or *)
(* to a frame that is gone.                                                *)
RaiseLost ==
  /\ On(Kind \ {"eval"}) /\ ~(alloc /\ jmp \in 1 .. Depth /\ stk[jmp].kind = "eval")
  /\ mode' = IF alloc THEN "wild" ELSE "abort"
  /\ UNCHANGED <<stk, alloc, jmp, genv, lvarlst, gcstack, esp, cwb, status>>

Next ==
  \/ \E k \in Stream : LoadStart(k)
  \/ LoadEnd \/ EvalStart \/ EvalEnd
  \/ TypeStart \/ TypeVariable \/ TypeEnd \/ RunStart \/ RunEnd
  \/ Call \/ Return \/ CompileStart \/ CompileEnd
  \/ Raise \/ RaiseLost

Spec == Init /\ [][Next]_vars

-----------------------------------------------------------------------------
Frame == [kind : Kind, jmp : Nat, genv : Nat, lvarlst : Nat,
          gcstack : Nat, esp : Nat, cwb : Nat]

TypeOK ==
  /\ mode \in {"ok", "abort", "wild"} /\ stk \in Seq(Frame) /\ alloc \in BOOLEAN
  /\ jmp \in Nat /\ genv \in Nat /\ lvarlst \in Nat /\ gcstack \in Nat
  /\ esp \in Nat /\ cwb \in Nat /\ status \in Status

(* j is the innermost evaluation among the frames up to depth n. *)
IsHandler(j, n) ==
  /\ j \in 0 .. n
  /\ j # 0 => stk[j].kind = "eval"
  /\ \A i \in j + 1 .. n : stk[i].kind # "eval"

(* The jump buffer is that of the innermost evaluation, and the one every  *)
(* evaluation saved that of the next outer one: however evaluations nest,  *)
(* end and raise, a raise is caught by the innermost one that is active,   *)
(* and never jumps into a function that returned.                          *)
HandlerIsInnermost ==
  /\ IsHandler(jmp, Depth)
  /\ \A d \in 1 .. Depth : stk[d].kind = "eval" => IsHandler(stk[d].jmp, d - 1)

(* What frame f relies on while g is what came after it: its roots on the  *)
(* gcstack, its part of the VM stack, which the collector scans, the text  *)
(* in its write buffer, and its part of lvarlst.                           *)
Holds(f, g) ==
  /\ f.kind \in {"load", "package", "eval"} => f.gcstack < g.gcstack
  /\ f.kind \in {"run", "call"} => f.esp < g.esp
  /\ f.cwb <= g.cwb
  /\ f.kind \in {"type", "run", "compile"} => f.lvarlst <= g.lvarlst

Now == [gcstack |-> gcstack, esp |-> esp, cwb |-> cwb, lvarlst |-> lvarlst]

(* No return or raise of an inner frame takes away what an outer one       *)
(* relies on.                                                              *)
HeldByOuter == \A d \in 1 .. Depth : Holds(stk[d], Now)

Gammas == {d \in 1 .. Depth : stk[d].kind \in {"type", "run", "compile"}}

(* The type checker never works on the frame of an outer evaluation: genv  *)
(* is the innermost frame, or, after a raise, one that is gone.            *)
GenvNotOuter == \A d \in Gammas : d <= genv

(* What Gamma_pop asserts of the frame that is about to end. *)
GenvIsOwn == On({"type", "run", "compile"}) => genv = Depth
=============================================================================
