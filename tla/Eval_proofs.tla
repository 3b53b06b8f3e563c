----------------------------- MODULE Eval_proofs -----------------------------
(* However deep evaluations nest, an exception is caught by the innermost    *)
(* one, and nothing an outer frame relies on is taken away by an inner one.  *)
EXTENDS Eval, SequenceTheorems, TLAPS

(* Entering a frame leaves those below as they are. *)
LEMMA EnterStk ==
  ASSUME TypeOK, NEW k \in Kind, Enter(k)
  PROVE  /\ stk' \in Seq(Frame) /\ Depth' = Depth + 1 /\ Depth \in Nat
         /\ \A d \in 1 .. Depth : stk'[d] = stk[d]
         /\ stk'[Depth + 1].kind = k /\ stk'[Depth + 1].jmp = jmp
         /\ stk'[Depth + 1].genv = genv /\ stk'[Depth + 1].lvarlst = lvarlst
         /\ stk'[Depth + 1].gcstack = gcstack /\ stk'[Depth + 1].esp = esp
         /\ stk'[Depth + 1].cwb = cwb
<1> DEFINE f == [kind |-> k, jmp |-> jmp, genv |-> genv, lvarlst |-> lvarlst,
                 gcstack |-> gcstack, esp |-> esp, cwb |-> cwb]
<1>1. stk \in Seq(Frame) /\ f \in Frame /\ stk' = Append(stk, f)
  BY DEF TypeOK, Enter, Frame
<1> HIDE DEF f
<1>2. /\ Append(stk, f) \in Seq(Frame) /\ Len(Append(stk, f)) = Len(stk) + 1
      /\ Len(stk) \in Nat
      /\ \A d \in 1 .. Len(stk) : Append(stk, f)[d] = stk[d]
      /\ Append(stk, f)[Len(stk) + 1] = f
  BY <1>1
<1>3. /\ f.kind = k /\ f.jmp = jmp /\ f.genv = genv /\ f.lvarlst = lvarlst
      /\ f.gcstack = gcstack /\ f.esp = esp /\ f.cwb = cwb
  BY DEF f
<1>4. QED
  BY <1>1, <1>2, <1>3 DEF Depth

(* So does dropping the frames above one of them. *)
LEMMA CutStk ==
  ASSUME TypeOK, NEW n \in Nat, n <= Depth, stk' = SubSeq(stk, 1, n)
  PROVE  /\ stk' \in Seq(Frame) /\ Depth' = n /\ Depth \in Nat
         /\ \A d \in 1 .. n : stk'[d] = stk[d]
<1>1. stk \in Seq(Frame) /\ Len(stk) \in Nat /\ 1 \in Int /\ n \in Int
  BY DEF TypeOK
<1>2. \A d \in 1 .. n : stk[d] \in Frame
  BY <1>1 DEF Depth
<1>3. /\ SubSeq(stk, 1, n) \in Seq(Frame)
      /\ Len(SubSeq(stk, 1, n)) = IF 1 <= n THEN n - 1 + 1 ELSE 0
      /\ \A d \in 1 .. n - 1 + 1 : SubSeq(stk, 1, n)[d] = stk[1 + d - 1]
  BY <1>1, <1>2, SubSeqProperties
<1>4. QED
  BY <1>1, <1>3 DEF Depth

(* The frame on top, and what leaving it does. *)
LEMMA TopFrame ==
  ASSUME TypeOK, stk # <<>>
  PROVE  Depth \in Nat \ {0} /\ Top \in Frame
BY DEF TypeOK, Depth, Top

LEMMA LeaveStk ==
  ASSUME TypeOK, stk # <<>>, Leave
  PROVE  /\ stk' \in Seq(Frame) /\ Depth' = Depth - 1
         /\ \A d \in 1 .. Depth - 1 : stk'[d] = stk[d]
<1>1. Depth - 1 \in Nat /\ Depth - 1 <= Depth
  BY TopFrame
<1>2. QED
  BY <1>1, CutStk DEF Leave

(* The type checker's frame becomes that of the running code. *)
LEMMA RunStk ==
  ASSUME TypeOK, RunStart
  PROVE  /\ stk' \in Seq(Frame) /\ Depth' = Depth
         /\ \A d \in 1 .. Depth - 1 : stk'[d] = stk[d]
         /\ stk'[Depth] = [Top EXCEPT !.kind = "run", !.esp = esp]
<1>1. Depth \in Nat \ {0} /\ Top \in Frame /\ esp \in Nat /\ stk \in Seq(Frame)
  BY TopFrame DEF RunStart, On, TypeOK
<1>2. [Top EXCEPT !.kind = "run", !.esp = esp] \in Frame
  BY <1>1 DEF Frame, Kind, Stream
<1>3. stk' = [stk EXCEPT ![Depth] = [Top EXCEPT !.kind = "run", !.esp = esp]]
  BY <1>1 DEF RunStart, Top, Depth, Frame
<1>4. QED
  BY <1>1, <1>2, <1>3 DEF Depth

(* The frames below the top, and the frame a raise goes to, are frames. *)
LEMMA FrameAt == ASSUME TypeOK, NEW d \in 1 .. Depth PROVE stk[d] \in Frame
BY DEF TypeOK, Depth

LEMMA RestoreTypes ==
  ASSUME TypeOK, NEW d \in 1 .. Depth, Restore(d)
  PROVE  jmp' \in Nat /\ esp' \in Nat /\ gcstack' \in Nat /\ cwb' \in Nat
<1>1. stk[d] \in Frame /\ Depth \in Nat
  BY FrameAt DEF TypeOK, Depth
<1>2. d > 1 => stk[d - 1] \in Frame
  BY <1>1, FrameAt
<1>3. QED
  BY <1>1, <1>2 DEF Restore, Frame, TypeOK

-----------------------------------------------------------------------------
LEMMA TypeInit == Init => TypeOK
<1>1. <<>> \in Seq(Frame)
  OBVIOUS
<1>2. Init => stk \in Seq(Frame)
  BY <1>1, Zenon DEF Init
<1>3. 0 \in Nat
  OBVIOUS
<1>4. QED
  BY <1>2, <1>3, Zenon DEF Init, TypeOK, Status

LEMMA TypeStep == ASSUME TypeOK, [Next]_vars PROVE TypeOK'
<1> USE DEF Status
<1>0. /\ mode \in {"ok", "abort", "wild"} /\ stk \in Seq(Frame) /\ alloc \in BOOLEAN
      /\ jmp \in Nat /\ genv \in Nat /\ lvarlst \in Nat /\ gcstack \in Nat
      /\ esp \in Nat /\ cwb \in Nat /\ status \in Status /\ Depth \in Nat
  BY DEF TypeOK, Depth
<1>1. ASSUME NEW k \in Stream, LoadStart(k) PROVE TypeOK'
  <2>1. k \in Kind /\ Enter(k)
    BY <1>1 DEF LoadStart, Kind, Stream
  <2>2. stk' \in Seq(Frame)
    BY <2>1, EnterStk
  <2>3. QED
    BY <1>0, <1>1, <2>2 DEF LoadStart, TypeOK
<1>2. CASE LoadEnd
  <2>1. stk # <<>> /\ Leave
    BY <1>2 DEF LoadEnd, Stream, On
  <2>2. stk' \in Seq(Frame) /\ Top \in Frame
    BY <2>1, LeaveStk, TopFrame
  <2>3. QED
    BY <1>0, <1>2, <2>2 DEF LoadEnd, Stream, TypeOK, Frame
<1>3. CASE EvalStart
  <2>1. "eval" \in Kind /\ Enter("eval")
    BY <1>3 DEF EvalStart, Kind, Stream
  <2>2. stk' \in Seq(Frame)
    BY <2>1, EnterStk
  <2>3. QED
    BY <1>0, <1>3, <2>2 DEF EvalStart, TypeOK
<1>4. CASE EvalEnd
  <2>1. stk # <<>> /\ Leave /\ Restore(Depth) /\ Depth \in 1 .. Depth
    BY <1>4, TopFrame DEF EvalEnd, On
  <2>2. stk' \in Seq(Frame)
    BY <2>1, LeaveStk
  <2>3. jmp' \in Nat /\ esp' \in Nat /\ gcstack' \in Nat /\ cwb' \in Nat
    BY <2>1, RestoreTypes
  <2>4. QED
    BY <1>0, <1>4, <2>2, <2>3 DEF EvalEnd, TypeOK
<1>5. CASE TypeStart
  <2>1. "type" \in Kind /\ Enter("type")
    BY <1>5 DEF TypeStart, Gamma_push, Kind, Stream
  <2>2. stk' \in Seq(Frame)
    BY <2>1, EnterStk
  <2>3. QED
    BY <1>0, <1>5, <2>2 DEF TypeStart, Gamma_push, TypeOK
<1>6. CASE TypeVariable
  BY <1>0, <1>6 DEF TypeVariable, TypeOK
<1>7. CASE TypeEnd
  <2>1. stk # <<>> /\ Leave
    BY <1>7 DEF TypeEnd, On
  <2>2. stk' \in Seq(Frame) /\ Top \in Frame
    BY <2>1, LeaveStk, TopFrame
  <2>3. QED
    BY <1>0, <1>7, <2>2 DEF TypeEnd, Gamma_pop, TypeOK, Frame
<1>8. CASE RunStart
  BY <1>0, <1>8, RunStk DEF RunStart, TypeOK
<1>9. CASE RunEnd
  <2>1. stk # <<>> /\ Leave
    BY <1>9 DEF RunEnd, On
  <2>2. stk' \in Seq(Frame) /\ Top \in Frame
    BY <2>1, LeaveStk, TopFrame
  <2>3. QED
    BY <1>0, <1>9, <2>2 DEF RunEnd, Gamma_pop, TypeOK, Frame
<1>10. CASE Call
  <2>1. "call" \in Kind /\ Enter("call")
    BY <1>10 DEF Call, Kind, Stream
  <2>2. stk' \in Seq(Frame)
    BY <2>1, EnterStk
  <2>3. QED
    BY <1>0, <1>10, <2>2 DEF Call, TypeOK
<1>11. CASE Return
  <2>1. stk # <<>> /\ Leave
    BY <1>11 DEF Return, On
  <2>2. stk' \in Seq(Frame) /\ Top \in Frame
    BY <2>1, LeaveStk, TopFrame
  <2>3. QED
    BY <1>0, <1>11, <2>2 DEF Return, TypeOK, Frame
<1>12. CASE CompileStart
  <2>1. "compile" \in Kind /\ Enter("compile")
    BY <1>12 DEF CompileStart, Gamma_push, Kind, Stream
  <2>2. stk' \in Seq(Frame)
    BY <2>1, EnterStk
  <2>3. QED
    BY <1>0, <1>12, <2>2 DEF CompileStart, Gamma_push, TypeOK
<1>13. CASE CompileEnd
  <2>1. stk # <<>> /\ Leave
    BY <1>13 DEF CompileEnd, On
  <2>2. stk' \in Seq(Frame) /\ Top \in Frame
    BY <2>1, LeaveStk, TopFrame
  <2>3. QED
    BY <1>0, <1>13, <2>2 DEF CompileEnd, Gamma_pop, TypeOK, Frame
<1>14. CASE Raise
  <2>1. jmp \in 1 .. Depth /\ Restore(jmp) /\ stk' = SubSeq(stk, 1, jmp - 1)
    BY <1>14 DEF Raise
  <2>2. jmp - 1 \in Nat /\ jmp - 1 <= Depth
    BY <1>0, <2>1
  <2>3. stk' \in Seq(Frame)
    BY <2>1, <2>2, CutStk
  <2>4. QED
    BY <1>0, <1>14, <2>1, <2>3, RestoreTypes DEF Raise, TypeOK
<1>15. CASE RaiseLost
  BY <1>0, <1>15 DEF RaiseLost, TypeOK
<1>16. CASE UNCHANGED vars
  BY <1>16 DEF vars, TypeOK, Depth
<1>17. QED
  BY <1>1, <1>2, <1>3, <1>4, <1>5, <1>6, <1>7, <1>8, <1>9, <1>10, <1>11, <1>12,
     <1>13, <1>14, <1>15, <1>16 DEF Next

(* The evaluator's state keeps its types, at every depth: no size or index *)
(* it restores was never saved.                                            *)
THEOREM TypeCorrect == Spec => []TypeOK
BY TypeInit, TypeStep, PTL DEF Spec

-----------------------------------------------------------------------------
(* HandlerIsInnermost is inductive as it stands.  A step that leaves the   *)
(* jump buffer alone keeps it if it enters a frame of another kind, leaves *)
(* one, or makes the type checker's frame that of the running code.        *)
LEMMA HandlerEnter ==
  ASSUME TypeOK, HandlerIsInnermost, NEW k \in Kind \ {"eval"}, Enter(k), UNCHANGED jmp
  PROVE  HandlerIsInnermost'
<1>1. /\ Depth \in Nat /\ Depth' = Depth + 1
      /\ \A d \in 1 .. Depth : stk'[d] = stk[d]
      /\ stk'[Depth + 1].kind = k
  <2>1. k \in Kind
    OBVIOUS
  <2>2. QED
    BY <2>1, EnterStk
<1>2. jmp \in Nat /\ \A d \in 1 .. Depth : stk[d].jmp \in Nat
  BY FrameAt DEF TypeOK, Frame
<1>3. QED
  BY <1>1, <1>2 DEF HandlerIsInnermost, IsHandler

LEMMA HandlerLeave ==
  ASSUME TypeOK, HandlerIsInnermost, stk # <<>>, Top.kind # "eval", Leave, UNCHANGED jmp
  PROVE  HandlerIsInnermost'
<1>1. /\ Depth \in Nat \ {0} /\ Depth' = Depth - 1
      /\ \A d \in 1 .. Depth - 1 : stk'[d] = stk[d]
  BY LeaveStk, TopFrame
<1>2. jmp \in Nat /\ \A d \in 1 .. Depth : stk[d].jmp \in Nat
  BY FrameAt DEF TypeOK, Frame
<1>3. stk[Depth].kind # "eval" /\ jmp' = jmp
  BY DEF Top
<1>4. IsHandler(jmp, Depth)'
  BY <1>1, <1>2, <1>3 DEF HandlerIsInnermost, IsHandler
<1>5. ASSUME NEW e \in 1 .. Depth - 1, stk'[e].kind = "eval"
      PROVE  IsHandler(stk[e].jmp, e - 1)'
  <2>1. IsHandler(stk[e].jmp, e - 1) /\ e \in Nat /\ stk[e].jmp \in Nat /\ stk'[e] = stk[e]
    BY <1>1, <1>2, <1>5 DEF HandlerIsInnermost
  <2>2. \A i \in 1 .. e - 1 : stk'[i] = stk[i]
    BY <1>1, <2>1
  <2>3. QED
    BY <2>1, <2>2 DEF IsHandler
<1>6. QED
  BY <1>1, <1>4, <1>5 DEF HandlerIsInnermost

(* The evaluation in the jump buffer ends: those above it are not active. *)
LEMMA HandlerCut ==
  ASSUME TypeOK, HandlerIsInnermost, NEW d \in 1 .. Depth, stk[d].kind = "eval",
         stk' = SubSeq(stk, 1, d - 1), jmp' = stk[d].jmp
  PROVE  HandlerIsInnermost'
<1>1. Depth \in Nat /\ d - 1 \in Nat /\ d - 1 <= Depth
  BY DEF TypeOK, Depth
<1>2. Depth' = d - 1 /\ \A e \in 1 .. d - 1 : stk'[e] = stk[e]
  BY <1>1, CutStk
<1>3. \A e \in 1 .. Depth : stk[e].jmp \in Nat
  BY FrameAt DEF Frame
<1>4. IsHandler(stk[d].jmp, d - 1) /\ d \in Nat
  BY <1>1 DEF HandlerIsInnermost
<1>5. IsHandler(jmp, Depth)'
  BY <1>1, <1>2, <1>4 DEF IsHandler
<1>6. ASSUME NEW e \in 1 .. d - 1, stk'[e].kind = "eval"
      PROVE  IsHandler(stk[e].jmp, e - 1)'
  <2>1. e \in 1 .. Depth /\ e \in Nat /\ stk'[e] = stk[e]
    BY <1>1, <1>2, <1>4
  <2>2. IsHandler(stk[e].jmp, e - 1) /\ stk[e].jmp \in Nat
    BY <1>3, <1>6, <2>1 DEF HandlerIsInnermost
  <2>3. \A i \in 1 .. e - 1 : stk'[i] = stk[i]
    BY <1>2, <1>4, <2>1
  <2>4. QED
    BY <2>1, <2>2, <2>3 DEF IsHandler
<1>7. QED
  BY <1>2, <1>5, <1>6 DEF HandlerIsInnermost

LEMMA HandlerStep ==
  ASSUME TypeOK, HandlerIsInnermost, [Next]_vars PROVE HandlerIsInnermost'
<1>1. ASSUME NEW k \in Stream, LoadStart(k) PROVE HandlerIsInnermost'
  BY <1>1, HandlerEnter DEF LoadStart, Kind, Stream
<1>2. CASE LoadEnd
  BY <1>2, HandlerLeave DEF LoadEnd, Stream, On
<1>3. CASE EvalStart
  <2>1. "eval" \in Kind /\ Enter("eval") /\ jmp' = Depth + 1
    BY <1>3 DEF EvalStart, Kind, Stream
  <2>2. /\ Depth \in Nat /\ Depth' = Depth + 1
        /\ \A d \in 1 .. Depth : stk'[d] = stk[d]
        /\ stk'[Depth + 1].kind = "eval" /\ stk'[Depth + 1].jmp = jmp
    BY <2>1, EnterStk
  <2>3. jmp \in Nat /\ \A d \in 1 .. Depth : stk[d].jmp \in Nat
    BY FrameAt DEF TypeOK, Frame
  <2>4. QED
    BY <2>1, <2>2, <2>3 DEF HandlerIsInnermost, IsHandler
<1>4. CASE EvalEnd
  <2>1. Depth \in 1 .. Depth
    BY <1>4, TopFrame DEF EvalEnd, On
  <2>2. QED
    BY <1>4, <2>1, HandlerCut DEF EvalEnd, On, Leave, Restore, Top
<1>5. CASE TypeStart
  BY <1>5, HandlerEnter DEF TypeStart, Gamma_push, Kind, Stream
<1>6. CASE TypeEnd
  BY <1>6, HandlerLeave DEF TypeEnd, On
<1>7. CASE RunStart
  <2>1. /\ Depth \in Nat \ {0} /\ Depth' = Depth /\ Top \in Frame
        /\ \A d \in 1 .. Depth - 1 : stk'[d] = stk[d]
        /\ stk'[Depth] = [Top EXCEPT !.kind = "run", !.esp = esp]
    BY <1>7, RunStk, TopFrame DEF RunStart, On
  <2>2. stk'[Depth].kind = "run" /\ stk[Depth].kind = "type"
    BY <1>7, <2>1 DEF RunStart, On, Top, Frame
  <2>3. jmp' = jmp /\ jmp \in Nat /\ \A d \in 1 .. Depth : stk[d].jmp \in Nat
    BY <1>7, FrameAt DEF RunStart, TypeOK, Frame
  <2>4. \A d \in 1 .. Depth : (stk'[d].kind = "eval") = (stk[d].kind = "eval")
    <3>1. ASSUME NEW d \in 1 .. Depth PROVE (stk'[d].kind = "eval") = (stk[d].kind = "eval")
      <4>1. d = Depth \/ d \in 1 .. Depth - 1
        BY <2>1
      <4>2. CASE d = Depth
        BY <2>2, <4>2
      <4>3. CASE d \in 1 .. Depth - 1
        <5>1. stk'[d] = stk[d]
          BY <2>1, <4>3
        <5>2. QED
          BY <5>1
      <4>4. QED
        BY <4>1, <4>2, <4>3
    <3>2. QED
      BY <3>1
  <2>5. IsHandler(jmp, Depth)'
    BY <2>1, <2>3, <2>4 DEF HandlerIsInnermost, IsHandler
  <2>6. ASSUME NEW e \in 1 .. Depth, stk'[e].kind = "eval" PROVE IsHandler(stk[e].jmp, e - 1)'
    <3>1. e \in 1 .. Depth - 1 /\ stk'[e] = stk[e]
      <4>1. e # Depth
        BY <2>2, <2>6
      <4>2. e \in 1 .. Depth - 1
        BY <2>1, <4>1
      <4>3. QED
        BY <2>1, <4>2
    <3>2. IsHandler(stk[e].jmp, e - 1) /\ stk[e].jmp \in Nat /\ e \in Nat
      BY <2>1, <2>3, <2>6, <3>1 DEF HandlerIsInnermost
    <3>3. \A i \in 1 .. e - 1 : stk'[i] = stk[i]
      BY <2>1, <3>1
    <3>4. QED
      BY <3>1, <3>2, <3>3 DEF IsHandler
  <2>7. QED
    BY <2>1, <2>5, <2>6 DEF HandlerIsInnermost
<1>8. CASE RunEnd
  BY <1>8, HandlerLeave DEF RunEnd, On
<1>9. CASE Call
  BY <1>9, HandlerEnter DEF Call, Kind, Stream
<1>10. CASE Return
  BY <1>10, HandlerLeave DEF Return, On
<1>11. CASE CompileStart
  BY <1>11, HandlerEnter DEF CompileStart, Gamma_push, Kind, Stream
<1>12. CASE CompileEnd
  BY <1>12, HandlerLeave DEF CompileEnd, On
<1>13. CASE Raise
  BY <1>13, HandlerCut DEF Raise, Restore
<1>14. CASE UNCHANGED <<stk, jmp>>
  BY <1>14 DEF HandlerIsInnermost, IsHandler, Depth
<1>15. CASE TypeVariable \/ RaiseLost \/ UNCHANGED vars
  BY <1>14, <1>15 DEF TypeVariable, RaiseLost, vars
<1>16. QED
  BY <1>1, <1>2, <1>3, <1>4, <1>5, <1>6, <1>7, <1>8, <1>9, <1>10, <1>11, <1>12,
     <1>13, <1>15 DEF Next

(* However evaluations nest, end and raise, the jump buffer is that of the *)
(* innermost active one (memcpy of lbuf on both paths of Block_eval).      *)
THEOREM RaiseIsCaughtInnermost == Spec => []HandlerIsInnermost
<1>1. Init => HandlerIsInnermost
  BY DEF Init, HandlerIsInnermost, IsHandler, Depth
<1>2. QED
  BY <1>1, TypeInit, TypeStep, HandlerStep, PTL DEF Spec

(* A raise goes astray only where no evaluation is active. *)
LostOnlyOutside == mode = "wild" => \A d \in 1 .. Depth : stk[d].kind # "eval"

(* A raise jumps through a buffer of zeros, or to a function that returned, *)
(* only where no evaluation is active.                                      *)
THEOREM RaiseLostOutside == Spec => []LostOnlyOutside
<1>1. Init => LostOnlyOutside
  BY DEF Init, LostOnlyOutside
<1>2. ASSUME TypeOK, HandlerIsInnermost, LostOnlyOutside, [Next]_vars
      PROVE  LostOnlyOutside'
  <2>1. CASE RaiseLost
    <3>1. /\ UNCHANGED stk
          /\ mode' = "wild" => jmp \notin 1 .. Depth \/ stk[jmp].kind # "eval"
      BY <2>1 DEF RaiseLost
    <3>2. Depth \in Nat /\ Depth' = Depth
      BY <1>2, <3>1 DEF TypeOK, Depth
    <3>3. mode' = "wild" => \A d \in 1 .. Depth : stk[d].kind # "eval"
      BY <1>2, <3>1, <3>2 DEF HandlerIsInnermost, IsHandler
    <3>4. QED
      BY <3>1, <3>2, <3>3 DEF LostOnlyOutside
  <2>2. CASE UNCHANGED vars
    <3>1. mode' = mode /\ stk' = stk /\ Depth' = Depth
      BY <2>2 DEF vars, Depth
    <3>2. QED
      BY <1>2, <3>1 DEF LostOnlyOutside
  <2>3. CASE Next /\ ~RaiseLost
    <3>1. ASSUME NEW k \in Stream, LoadStart(k) PROVE mode = "ok" /\ UNCHANGED mode
      <4>1. k \in {"load", "package", "stream"} /\ UNCHANGED mode
        BY <3>1 DEF LoadStart, Stream
      <4>2. QED
        BY <3>1, <4>1 DEF LoadStart, On, Idle
    <3>2. mode' # "wild"
      BY <2>3, <3>1 DEF Next, On, Idle, LoadEnd, EvalStart, EvalEnd, TypeStart,
         TypeVariable, TypeEnd, RunStart, RunEnd, Call, Return, CompileStart,
         CompileEnd, Raise, Gamma_pop
    <3>3. QED
      BY <3>2 DEF LostOnlyOutside
  <2>4. QED
    BY <1>2, <2>1, <2>2, <2>3
<1>3. QED
  BY <1>1, <1>2, TypeInit, TypeStep, HandlerStep, RaiseIsCaughtInnermost, TypeCorrect, PTL DEF Spec

-----------------------------------------------------------------------------
(* What makes HeldByOuter inductive: what a frame restores when it ends or *)
(* is jumped over is still enough for every frame below it.                *)
Ordered == \A d, e \in 1 .. Depth : d < e => Holds(stk[d], stk[e])

Held == HeldByOuter /\ Ordered

(* A frame that is entered saves what holds now; what then grows still      *)
(* holds, and what the new frame takes it holds as well.                    *)
LEMMA HeldEnter ==
  ASSUME TypeOK, Held, NEW k \in Kind, Enter(k), TypeOK',
         gcstack <= gcstack', esp <= esp', cwb <= cwb', lvarlst <= lvarlst',
         k \in {"load", "package", "eval"} => gcstack < gcstack',
         k \in {"run", "call"} => esp < esp'
  PROVE  Held'
<1>1. /\ Depth \in Nat /\ Depth' = Depth + 1
      /\ \A d \in 1 .. Depth : stk'[d] = stk[d]
      /\ stk'[Depth + 1].kind = k
      /\ stk'[Depth + 1].lvarlst = lvarlst /\ stk'[Depth + 1].gcstack = gcstack
      /\ stk'[Depth + 1].esp = esp /\ stk'[Depth + 1].cwb = cwb
  BY EnterStk
<1>2. /\ gcstack \in Nat /\ esp \in Nat /\ cwb \in Nat /\ lvarlst \in Nat
      /\ gcstack' \in Nat /\ esp' \in Nat /\ cwb' \in Nat /\ lvarlst' \in Nat
  BY DEF TypeOK
<1>3. \A d \in 1 .. Depth :
        /\ stk[d].gcstack \in Nat /\ stk[d].esp \in Nat
        /\ stk[d].cwb \in Nat /\ stk[d].lvarlst \in Nat
  BY FrameAt DEF Frame
<1>4. ASSUME NEW d \in 1 .. Depth PROVE Holds(stk[d], Now') /\ Holds(stk[d], stk'[Depth + 1])
  BY <1>1, <1>2, <1>3 DEF Held, HeldByOuter, Holds, Now
<1>5. Holds(stk'[Depth + 1], Now')
  BY <1>1, <1>2 DEF Holds, Now
<1>6. HeldByOuter'
  <2>1. ASSUME NEW d \in 1 .. Depth + 1 PROVE Holds(stk'[d], Now')
    <3>1. d = Depth + 1 \/ (d \in 1 .. Depth /\ stk'[d] = stk[d])
      BY <1>1
    <3>2. QED
      BY <1>4, <1>5, <3>1
  <2>2. QED
    BY <1>1, <2>1 DEF HeldByOuter
<1>7. Ordered'
  <2>1. ASSUME NEW d \in 1 .. Depth + 1, NEW e \in 1 .. Depth + 1, d < e
        PROVE  Holds(stk'[d], stk'[e])
    <3>1. /\ d \in 1 .. Depth /\ stk'[d] = stk[d]
          /\ e = Depth + 1 \/ (e \in 1 .. Depth /\ stk'[e] = stk[e])
      BY <1>1, <2>1
    <3>2. QED
      BY <1>4, <2>1, <3>1 DEF Held, Ordered
  <2>2. QED
    BY <1>1, <2>1 DEF Ordered
<1>8. QED
  BY <1>6, <1>7 DEF Held

(* The frames above depth n end, and what frame n + 1 had saved of a stack *)
(* is what that stack is cut to, if it is cut.                             *)
LEMMA HeldCut ==
  ASSUME TypeOK, Held, TypeOK', NEW n \in Nat, n < Depth, stk' = SubSeq(stk, 1, n),
         gcstack' = gcstack \/ gcstack' = stk[n + 1].gcstack,
         esp' = esp \/ esp' = stk[n + 1].esp,
         \/ cwb' = cwb \/ cwb' = stk[n + 1].cwb
         \/ n > 0 /\ cwb' = stk[n].cwb,
         lvarlst' = lvarlst \/ lvarlst' = stk[n + 1].lvarlst
  PROVE  Held'
<1>1. Depth \in Nat /\ Depth' = n /\ \A d \in 1 .. n : stk'[d] = stk[d]
  BY CutStk DEF TypeOK, Depth
<1>2. \A d \in 1 .. Depth :
        /\ stk[d].gcstack \in Nat /\ stk[d].esp \in Nat
        /\ stk[d].cwb \in Nat /\ stk[d].lvarlst \in Nat
  BY FrameAt DEF Frame
<1>3. ASSUME NEW d \in 1 .. n PROVE Holds(stk[d], Now')
  <2>1. d \in 1 .. Depth /\ n + 1 \in 1 .. Depth /\ d < n + 1
    BY <1>1
  <2>2. Holds(stk[d], Now) /\ Holds(stk[d], stk[n + 1])
    BY <2>1 DEF Held, HeldByOuter, Ordered
  <2>3. n > 0 => stk[d].cwb <= stk[n].cwb
    <3>1. d = n \/ (n \in 1 .. Depth /\ d < n)
      BY <1>1
    <3>2. CASE d = n
      BY <1>2, <2>1, <3>2
    <3>3. CASE n \in 1 .. Depth /\ d < n
      BY <2>1, <3>3 DEF Held, Ordered, Holds
    <3>4. QED
      BY <3>1, <3>2, <3>3
  <2>4. QED
    BY <2>2, <2>3 DEF Holds, Now
<1>4. HeldByOuter'
  <2>1. ASSUME NEW d \in 1 .. n PROVE Holds(stk'[d], Now')
    BY <1>1, <1>3
  <2>2. QED
    BY <1>1, <2>1 DEF HeldByOuter
<1>5. Ordered'
  <2>1. ASSUME NEW d \in 1 .. n, NEW e \in 1 .. n, d < e PROVE Holds(stk'[d], stk'[e])
    <3>1. d \in 1 .. Depth /\ e \in 1 .. Depth /\ stk'[d] = stk[d] /\ stk'[e] = stk[e]
      BY <1>1
    <3>2. QED
      BY <2>1, <3>1 DEF Held, Ordered
  <2>2. QED
    BY <1>1, <2>1 DEF Ordered
<1>6. QED
  BY <1>4, <1>5 DEF Held

(* The frame on top ends. *)
LEMMA HeldLeave ==
  ASSUME TypeOK, Held, TypeOK', stk # <<>>, Leave,
         gcstack' = gcstack \/ gcstack' = Top.gcstack,
         esp' = esp \/ esp' = Top.esp,
         cwb' = cwb \/ cwb' = Top.cwb \/ (Depth > 1 /\ cwb' = stk[Depth - 1].cwb),
         lvarlst' = lvarlst \/ lvarlst' = Top.lvarlst
  PROVE  Held'
<1> DEFINE n == Depth - 1
<1>1. n \in Nat /\ n < Depth /\ n + 1 = Depth
  BY TopFrame
<1>2. /\ stk' = SubSeq(stk, 1, n) /\ Top = stk[n + 1]
      /\ Depth > 1 => n > 0
  BY <1>1 DEF Leave, Top
<1>3. QED
  BY <1>1, <1>2, HeldCut

LEMMA HeldStep == ASSUME TypeOK, Held, [Next]_vars PROVE Held'
<1>0. /\ TypeOK'
      /\ lvarlst \in Nat /\ gcstack \in Nat /\ esp \in Nat /\ cwb \in Nat
  BY TypeStep DEF TypeOK
<1>1. ASSUME NEW k \in Stream, LoadStart(k) PROVE Held'
  <2>1. k \in Kind /\ k \notin {"run", "call"} /\ Enter(k)
    BY <1>1 DEF LoadStart, Kind, Stream
  <2>2. /\ gcstack <= gcstack' /\ UNCHANGED <<esp, cwb, lvarlst>>
        /\ k \in {"load", "package", "eval"} => gcstack < gcstack'
    BY <1>0, <1>1 DEF LoadStart, Stream
  <2>3. QED
    BY <1>0, <2>1, <2>2, HeldEnter
<1>2. CASE LoadEnd
  BY <1>0, <1>2, HeldLeave DEF LoadEnd, Stream, On
<1>3. CASE EvalStart
  <2>1. "eval" \in Kind /\ Enter("eval")
    BY <1>3 DEF EvalStart, Kind, Stream
  <2>2. gcstack' = gcstack + 1 /\ cwb' \in {cwb, cwb + 1} /\ UNCHANGED <<esp, lvarlst>>
    BY <1>3 DEF EvalStart
  <2>3. QED
    BY <1>0, <2>1, <2>2, HeldEnter
<1>4. CASE EvalEnd
  BY <1>0, <1>4, HeldLeave DEF EvalEnd, On, Restore, Top
<1>5. CASE TypeStart
  <2>1. "type" \in Kind /\ Enter("type") /\ UNCHANGED <<gcstack, esp, cwb, lvarlst>>
    BY <1>5 DEF TypeStart, Gamma_push, Kind, Stream
  <2>2. QED
    BY <1>0, <2>1, HeldEnter
<1>6. CASE TypeVariable
  <2>1. lvarlst' = lvarlst + 1 /\ UNCHANGED <<stk, gcstack, esp, cwb>>
    BY <1>6 DEF TypeVariable
  <2>2. Depth' = Depth /\ \A d \in 1 .. Depth : stk[d].lvarlst \in Nat
    BY <2>1, FrameAt DEF Frame, Depth
  <2>3. QED
    BY <1>0, <2>1, <2>2 DEF Held, HeldByOuter, Ordered, Holds, Now
<1>7. CASE TypeEnd
  BY <1>0, <1>7, HeldLeave DEF TypeEnd, On, Gamma_pop
<1>8. CASE RunStart
  <2>1. /\ Depth \in Nat \ {0} /\ Depth' = Depth /\ Top \in Frame /\ Top = stk[Depth]
        /\ \A d \in 1 .. Depth - 1 : stk'[d] = stk[d]
        /\ stk'[Depth] = [Top EXCEPT !.kind = "run", !.esp = esp]
        /\ Top.kind = "type"
    BY <1>8, RunStk, TopFrame DEF RunStart, On, Top
  <2>2. /\ stk'[Depth].kind = "run" /\ stk'[Depth].esp = esp
        /\ stk'[Depth].gcstack = stk[Depth].gcstack /\ stk'[Depth].cwb = stk[Depth].cwb
        /\ stk'[Depth].lvarlst = stk[Depth].lvarlst /\ stk[Depth].kind = "type"
    BY <2>1 DEF Frame
  <2>3. esp' = esp + 1 /\ UNCHANGED <<gcstack, cwb, lvarlst>>
    BY <1>8 DEF RunStart
  <2>4. \A d \in 1 .. Depth : stk[d].esp \in Nat
    BY FrameAt DEF Frame
  <2>5. ASSUME NEW d \in 1 .. Depth
        PROVE  Holds(stk'[d], Now') /\ (d < Depth => Holds(stk'[d], stk'[Depth]))
    <3>1. Holds(stk[d], Now) /\ (d < Depth => Holds(stk[d], stk[Depth]))
      BY <2>1 DEF Held, HeldByOuter, Ordered
    <3>2. CASE d = Depth
      BY <1>0, <2>2, <2>3, <3>1, <3>2 DEF Holds, Now
    <3>3. CASE d # Depth
      <4>1. stk'[d] = stk[d] /\ d < Depth
        BY <2>1, <3>3
      <4>2. QED
        BY <1>0, <2>2, <2>3, <2>4, <3>1, <4>1 DEF Holds, Now
    <3>4. QED
      BY <3>2, <3>3
  <2>6. ASSUME NEW d \in 1 .. Depth, NEW e \in 1 .. Depth, d < e
        PROVE  Holds(stk'[d], stk'[e])
    <3>1. e = Depth \/ (stk'[d] = stk[d] /\ stk'[e] = stk[e])
      BY <2>1, <2>6
    <3>2. QED
      BY <2>5, <2>6, <3>1 DEF Held, Ordered
  <2>7. QED
    BY <2>1, <2>5, <2>6 DEF Held, HeldByOuter, Ordered
<1>9. CASE RunEnd
  BY <1>0, <1>9, HeldLeave DEF RunEnd, On, Gamma_pop
<1>10. CASE Call
  <2>1. "call" \in Kind /\ Enter("call")
    BY <1>10 DEF Call, Kind, Stream
  <2>2. esp' = esp + 1 /\ cwb' \in {cwb, cwb + 1} /\ UNCHANGED <<gcstack, lvarlst>>
    BY <1>10 DEF Call
  <2>3. QED
    BY <1>0, <2>1, <2>2, HeldEnter
<1>11. CASE Return
  BY <1>0, <1>11, HeldLeave DEF Return, On
<1>12. CASE CompileStart
  <2>1. "compile" \in Kind /\ Enter("compile") /\ UNCHANGED <<gcstack, esp, cwb, lvarlst>>
    BY <1>12 DEF CompileStart, Gamma_push, Kind, Stream
  <2>2. QED
    BY <1>0, <2>1, HeldEnter
<1>13. CASE CompileEnd
  BY <1>0, <1>13, HeldLeave DEF CompileEnd, On, Gamma_pop
<1>14. CASE Raise
  <2>1. jmp \in 1 .. Depth /\ Restore(jmp) /\ stk' = SubSeq(stk, 1, jmp - 1)
        /\ UNCHANGED lvarlst
    BY <1>14 DEF Raise
  <2>2. jmp - 1 \in Nat /\ jmp - 1 < Depth /\ (jmp - 1) + 1 = jmp
    BY <2>1 DEF TypeOK, Depth
  <2>3. /\ gcstack' = stk[(jmp - 1) + 1].gcstack /\ esp' = stk[(jmp - 1) + 1].esp
        /\ cwb' = cwb \/ (jmp - 1 > 0 /\ cwb' = stk[jmp - 1].cwb)
    BY <2>1, <2>2 DEF Restore
  <2>4. QED
    BY <1>0, <2>1, <2>2, <2>3, HeldCut
<1>15. CASE RaiseLost \/ UNCHANGED vars
  <2>1. UNCHANGED <<stk, gcstack, esp, cwb, lvarlst>>
    BY <1>15 DEF RaiseLost, vars
  <2>2. QED
    BY <2>1 DEF Held, HeldByOuter, Ordered, Holds, Now, Depth
<1>16. QED
  BY <1>1, <1>2, <1>3, <1>4, <1>5, <1>6, <1>7, <1>8, <1>9, <1>10, <1>11, <1>12,
     <1>13, <1>14, <1>15 DEF Next

(* No frame loses to an inner one what it still needs of the gcstack, the  *)
(* VM stack, the write buffer or lvarlst, exceptions included.             *)
THEOREM OuterFramesKeepTheirs == Spec => []HeldByOuter
<1>1. Init => Held
  <2>1. Init => Depth = 0
    BY DEF Init, Depth
  <2>2. QED
    BY <2>1 DEF Held, HeldByOuter, Ordered
<1>2. Held => HeldByOuter
  BY DEF Held
<1>3. QED
  BY <1>1, <1>2, TypeInit, TypeStep, HeldStep, PTL DEF Spec

-----------------------------------------------------------------------------
(* What makes GenvNotOuter inductive: the frame that a type-checking frame   *)
(* saved is not outside of the next outer one either.                        *)
Checks == {"type", "run", "compile"}
GenvInv ==
  /\ GenvNotOuter
  /\ \A d, e \in Gammas : e < d => e <= stk[d].genv

LEMMA GenvEnter ==
  ASSUME TypeOK, GenvInv, NEW k \in Kind, Enter(k),
         IF k \in Checks THEN genv' = Depth + 1 ELSE genv' = genv
  PROVE  GenvInv'
<1>1. /\ Depth \in Nat /\ Depth' = Depth + 1 /\ genv \in Nat
      /\ \A d \in 1 .. Depth : stk'[d] = stk[d]
      /\ stk'[Depth + 1].kind = k /\ stk'[Depth + 1].genv = genv
  BY EnterStk DEF TypeOK
<1>2. \A d \in Gammas' : d \in Gammas \/ (d = Depth + 1 /\ k \in Checks)
  BY <1>1 DEF Gammas, Checks
<1>3. \A d \in Gammas : d \in 1 .. Depth /\ stk'[d] = stk[d] /\ d <= genv
  BY <1>1 DEF Gammas, GenvInv, GenvNotOuter
<1>4. \A d \in Gammas' : d <= genv'
  BY <1>1, <1>2, <1>3
<1>5. \A d, e \in Gammas' : e < d => e <= stk'[d].genv
  BY <1>1, <1>2, <1>3 DEF GenvInv
<1>6. QED
  BY <1>4, <1>5 DEF GenvInv, GenvNotOuter

(* The frames above depth n end; a type-checking one puts back what it saved. *)
LEMMA GenvCut ==
  ASSUME TypeOK, GenvInv, NEW n \in Nat, n < Depth, stk' = SubSeq(stk, 1, n),
         genv' = genv \/ (n + 1 \in Gammas /\ genv' = stk[n + 1].genv)
  PROVE  GenvInv'
<1>1. /\ Depth \in Nat /\ Depth' = n
      /\ \A d \in 1 .. n : stk'[d] = stk[d]
  BY CutStk DEF TypeOK, Depth
<1>2. \A d \in Gammas' : d \in Gammas /\ d \in Nat /\ d < n + 1 /\ stk'[d] = stk[d]
  BY <1>1 DEF Gammas
<1>3. \A d \in Gammas' : d <= genv'
  BY <1>2 DEF GenvInv, GenvNotOuter
<1>4. \A d, e \in Gammas' : e < d => e <= stk'[d].genv
  BY <1>2 DEF GenvInv
<1>5. QED
  BY <1>3, <1>4 DEF GenvInv, GenvNotOuter

LEMMA GenvLeave ==
  ASSUME TypeOK, GenvInv, stk # <<>>, Leave,
         genv' = genv \/ (Top.kind \in Checks /\ genv' = Top.genv)
  PROVE  GenvInv'
<1> DEFINE n == Depth - 1
<1>1. n \in Nat /\ n < Depth /\ n + 1 = Depth /\ Depth \in 1 .. Depth
  BY TopFrame
<1>2. stk' = SubSeq(stk, 1, n) /\ Top = stk[n + 1]
  BY <1>1 DEF Leave, Top
<1>3. Top.kind \in Checks => n + 1 \in Gammas
  BY <1>1, <1>2 DEF Gammas, Checks
<1> HIDE DEF n
<1>4. QED
  BY <1>1, <1>2, <1>3, GenvCut

LEMMA GenvStep == ASSUME TypeOK, GenvInv, [Next]_vars PROVE GenvInv'
<1>1. ASSUME NEW k \in Stream, LoadStart(k) PROVE GenvInv'
  <2>1. k \in Kind /\ k \notin Checks /\ Enter(k) /\ genv' = genv
    BY <1>1 DEF LoadStart, Kind, Stream, Checks
  <2>2. QED
    BY <2>1, GenvEnter
<1>2. CASE LoadEnd
  BY <1>2, GenvLeave DEF LoadEnd, Stream, On
<1>3. CASE EvalStart
  <2>1. "eval" \in Kind /\ "eval" \notin Checks /\ Enter("eval") /\ genv' = genv
    BY <1>3 DEF EvalStart, Kind, Stream, Checks
  <2>2. QED
    BY <2>1, GenvEnter
<1>4. CASE EvalEnd
  BY <1>4, GenvLeave DEF EvalEnd, On
<1>5. CASE TypeStart
  <2>1. "type" \in Kind /\ "type" \in Checks /\ Enter("type") /\ genv' = Depth + 1
    BY <1>5 DEF TypeStart, Gamma_push, Kind, Stream, Checks
  <2>2. QED
    BY <2>1, GenvEnter
<1>6. CASE TypeEnd
  BY <1>6, GenvLeave DEF TypeEnd, On, Gamma_pop, Checks
<1>7. CASE RunStart
  <2>1. /\ Depth \in Nat \ {0} /\ Depth' = Depth /\ Top \in Frame /\ Top = stk[Depth]
        /\ \A d \in 1 .. Depth - 1 : stk'[d] = stk[d]
        /\ stk'[Depth] = [Top EXCEPT !.kind = "run", !.esp = esp]
        /\ Top.kind = "type" /\ genv' = genv
    BY <1>7, RunStk, TopFrame DEF RunStart, On, Top
  <2>2. stk'[Depth].kind = "run" /\ stk'[Depth].genv = stk[Depth].genv /\ stk[Depth].kind = "type"
    BY <2>1 DEF Frame
  <2>3. \A d \in 1 .. Depth : d = Depth \/ d \in 1 .. Depth - 1
    BY <2>1
  <2>4. \A d \in Gammas' : d \in Gammas /\ stk'[d].genv = stk[d].genv
    BY <2>1, <2>2, <2>3 DEF Gammas
  <2>5. QED
    BY <2>1, <2>4 DEF GenvInv, GenvNotOuter
<1>8. CASE RunEnd
  BY <1>8, GenvLeave DEF RunEnd, On, Gamma_pop, Checks
<1>9. CASE Call
  <2>1. "call" \in Kind /\ "call" \notin Checks /\ Enter("call") /\ genv' = genv
    BY <1>9 DEF Call, Kind, Stream, Checks
  <2>2. QED
    BY <2>1, GenvEnter
<1>10. CASE Return
  BY <1>10, GenvLeave DEF Return, On
<1>11. CASE CompileStart
  <2>1. /\ "compile" \in Kind /\ "compile" \in Checks /\ Enter("compile")
        /\ genv' = Depth + 1
    BY <1>11 DEF CompileStart, Gamma_push, Kind, Stream, Checks
  <2>2. QED
    BY <2>1, GenvEnter
<1>12. CASE CompileEnd
  BY <1>12, GenvLeave DEF CompileEnd, On, Gamma_pop, Checks
<1>13. CASE Raise
  <2>1. jmp \in 1 .. Depth /\ stk' = SubSeq(stk, 1, jmp - 1) /\ genv' = genv
    BY <1>13 DEF Raise
  <2>2. jmp - 1 \in Nat /\ jmp - 1 < Depth
    BY <2>1 DEF TypeOK, Depth
  <2>3. QED
    BY <2>1, <2>2, GenvCut
<1>14. CASE TypeVariable \/ RaiseLost \/ UNCHANGED vars
  <2>1. UNCHANGED <<stk, genv>>
    BY <1>14 DEF TypeVariable, RaiseLost, vars
  <2>2. QED
    BY <2>1 DEF GenvInv, GenvNotOuter, Gammas, Depth
<1>15. QED
  BY <1>1, <1>2, <1>3, <1>4, <1>5, <1>6, <1>7, <1>8, <1>9, <1>10, <1>11, <1>12,
     <1>13, <1>14 DEF Next

(* However evaluations nest, end and raise, gma->genv never points to the    *)
(* frame of an outer evaluation while an inner one is checked (Gamma_push,   *)
(* Gamma_pop, and the catch path of Block_eval, which leaves it alone).      *)
THEOREM CheckerNotOuter == Spec => []GenvNotOuter
<1>1. Init => GenvInv
  <2>1. Init => Depth = 0
    BY DEF Init, Depth
  <2>2. QED
    BY <2>1 DEF GenvInv, GenvNotOuter, Gammas
<1>2. GenvInv => GenvNotOuter
  BY DEF GenvInv
<1>3. QED
  BY <1>1, <1>2, TypeInit, TypeStep, GenvStep, PTL DEF Spec
=============================================================================
