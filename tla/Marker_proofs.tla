---------------------------- MODULE Marker_proofs ----------------------------
(* Tracing marks exactly the reachable objects: for every graph, every size  *)
(* of the first mark stack and every sequence of collections.                *)
EXTENDS Marker, SequenceTheorems, TLAPS

(* What Append and dropping the last element do to a sequence's members. *)
LEMMA InAppend ==
  ASSUME NEW S, NEW q \in Seq(S), NEW e \in S
  PROVE  /\ Append(q, e) \in Seq(S) /\ In(Append(q, e)) = In(q) \cup {e}
         /\ Len(Append(q, e)) = Len(q) + 1
<1>1. /\ Append(q, e) \in Seq(S) /\ Len(Append(q, e)) = Len(q) + 1 /\ Len(q) \in Nat
      /\ \A i \in 1 .. Len(q) : Append(q, e)[i] = q[i]
      /\ Append(q, e)[Len(q) + 1] = e
  OBVIOUS
<1>2. 1 .. Len(q) + 1 = (1 .. Len(q)) \cup {Len(q) + 1}
  BY <1>1
<1>3. QED
  BY <1>1, <1>2 DEF In

LEMMA PrefixProperties ==
  ASSUME NEW S, NEW q, NEW n \in Nat, \A i \in 1 .. n : q[i] \in S
  PROVE  /\ SubSeq(q, 1, n) \in Seq(S) /\ Len(SubSeq(q, 1, n)) = n
         /\ \A i \in 1 .. n : SubSeq(q, 1, n)[i] = q[i]
<1> DEFINE prefix == SubSeq(q, 1, n)
<1>1. /\ prefix \in Seq(S)
      /\ Len(prefix) = IF 1 <= n THEN n - 1 + 1 ELSE 0
      /\ \A i \in 1 .. n - 1 + 1 : prefix[i] = q[1 + i - 1]
  <2>1. 1 \in Int /\ n \in Int
    OBVIOUS
  <2>2. QED
    BY <2>1, SubSeqProperties
<1> HIDE DEF prefix
<1>2. QED
  BY <1>1 DEF prefix

LEMMA InFront ==
  ASSUME NEW S, NEW q \in Seq(S), q # <<>>
  PROVE  LET front == SubSeq(q, 1, Len(q) - 1)
         IN /\ front \in Seq(S) /\ Len(front) = Len(q) - 1
            /\ q[Len(q)] \in S
            /\ In(q) = In(front) \cup {q[Len(q)]}
            /\ \A i \in 1 .. Len(front) : front[i] = q[i]
<1> DEFINE front == SubSeq(q, 1, Len(q) - 1)
<1>1. Len(q) \in Nat \ {0} /\ \A i \in 1 .. Len(q) : q[i] \in S
  OBVIOUS
<1>2. Len(q) - 1 \in Nat /\ 1 .. Len(q) = (1 .. Len(q) - 1) \cup {Len(q)}
  BY <1>1
<1>3. /\ front \in Seq(S) /\ Len(front) = Len(q) - 1
      /\ \A i \in 1 .. Len(q) - 1 : front[i] = q[i]
  <2> DEFINE n == Len(q) - 1
  <2>1. \A i \in 1 .. Len(q) - 1 : q[i] \in S
    BY <1>1, <1>2
  <2>2. n \in Nat /\ \A i \in 1 .. n : q[i] \in S
    BY <1>2, <2>1
  <2>3. n = Len(q) - 1
    OBVIOUS
  <2> HIDE DEF n
  <2>4. /\ SubSeq(q, 1, n) \in Seq(S) /\ Len(SubSeq(q, 1, n)) = n
        /\ \A i \in 1 .. n : SubSeq(q, 1, n)[i] = q[i]
    BY ONLY <2>2, PrefixProperties
  <2>5. QED
    BY <2>3, <2>4
<1>4. In(q) = In(front) \cup {q[Len(q)]}
  <2> HIDE DEF front
  <2>1. QED
    BY <1>2, <1>3 DEF In
<1>5. QED
  BY <1>1, <1>2, <1>3, <1>4, Zenon

LEMMA InSubset == ASSUME NEW S, NEW q \in Seq(S) PROVE In(q) \subseteq S
BY DEF In

LEMMA InEmpty == In(<<>>) = {}
BY DEF In

(* Reachable is closed under references, and below every closed set. *)
LEMMA ReachableClosed ==
  ASSUME TypeOK
  PROVE  /\ Closed(Reachable)
         /\ \A X \in SUBSET Node : Closed(X) => Reachable \subseteq X
<1>1. In(roots) \subseteq Reachable
  <2>1. In(roots) \subseteq Node
    BY InSubset DEF TypeOK
  <2>2. QED
    BY <2>1 DEF Reachable, Closed
<1>2. ASSUME NEW o \in Reachable, NEW n \in In(field[o]) PROVE n \in Reachable
  <2>1. o \in Node
    BY DEF Reachable
  <2>2. n \in Node
    BY <1>2, <2>1, InSubset DEF TypeOK
  <2>3. \A X \in SUBSET Node : Closed(X) => n \in X
    BY <1>2 DEF Reachable, Closed
  <2>4. QED
    BY <2>2, <2>3 DEF Reachable
<1>3. QED
  BY <1>1, <1>2 DEF Reachable, Closed

-----------------------------------------------------------------------------
(* Types hold in every reachable state, and outside of tracing the buffer and *)
(* the mark stack are empty.                                                  *)
THEOREM TypeCorrect == Spec => []TypeOK
<1>1. Init => TypeOK
  BY InitSizeAssumption DEF Init, TypeOK
<1>2. TypeOK /\ [Next]_vars => TypeOK'
  <2> SUFFICES ASSUME TypeOK, [Next]_vars PROVE TypeOK'
    OBVIOUS
  <2>1. ASSUME NEW o \in Node, New(o) PROVE TypeOK'
    BY <2>1, InAppend DEF New, TypeOK
  <2>2. ASSUME NEW n \in Node, Hold(n) PROVE TypeOK'
    BY <2>2, InAppend DEF Hold, TypeOK
  <2>3. ASSUME NEW i \in 1 .. Len(roots), NEW n \in Node, Assign(i, n) PROVE TypeOK'
    BY <2>3 DEF Assign, TypeOK
  <2>4. CASE Release
    BY <2>4, InFront DEF Release, TypeOK
  <2>5. ASSUME NEW o \in Node, NEW n \in Node, Refer(o, n) PROVE TypeOK'
    <3>1. Append(field[o], n) \in Seq(Node)
      BY DEF TypeOK
    <3>2. QED
      BY <2>5, <3>1 DEF Refer, TypeOK
  <2>6. ASSUME NEW o \in Node, NEW n \in Node, NEW i \in 1 .. Len(field[o]),
               Overwrite(o, i, n)
        PROVE  TypeOK'
    <3>1. [field[o] EXCEPT ![i] = n] \in Seq(Node)
      BY DEF TypeOK
    <3>2. QED
      BY <2>6, <3>1 DEF Overwrite, TypeOK
  <2>7. CASE GcInit
    BY <2>7 DEF GcInit, TypeOK
  <2>8. CASE MarkRef
    <3>1. /\ SubSeq(refs, 1, Len(refs) - 1) \in Seq(Node)
          /\ refs[Len(refs)] \in Node
      BY <2>8, InFront DEF MarkRef, TypeOK
    <3>2. /\ ostack' \in {ostack, Append(ostack, refs[Len(refs)])}
          /\ size' \in {size, 2 * size}
          /\ marked' \in {marked, marked \cup {refs[Len(refs)]}}
          /\ pc' = "mark"
      BY <2>8 DEF MarkRef, Push, Grown
    <3>3. ostack' \in Seq(Node) /\ size' \in Nat /\ marked' \subseteq Node
      <4>1. ostack \in Seq(Node) /\ Append(ostack, refs[Len(refs)]) \in Seq(Node)
        BY <3>1, InAppend DEF TypeOK
      <4>2. size \in Nat /\ 2 * size \in Nat /\ marked \subseteq Node
        BY DEF TypeOK
      <4>3. QED
        BY <3>1, <3>2, <4>1, <4>2, Zenon
    <3>4. QED
      BY <2>8, <3>1, <3>2, <3>3 DEF MarkRef, TypeOK
  <2>9. CASE Reftrace
    BY <2>9, InFront DEF Reftrace, TypeOK
  <2>10. CASE MarkDone
    BY <2>10 DEF MarkDone, TypeOK
  <2>11. CASE Sweep
    BY <2>11 DEF Sweep, TypeOK
  <2>12. CASE UNCHANGED vars
    BY <2>12 DEF vars, TypeOK
  <2>13. QED
    BY <2>1, <2>2, <2>3, <2>4, <2>5, <2>6, <2>7, <2>8, <2>9, <2>10, <2>11, <2>12
       DEF Next, Mutate, Trace
<1>3. QED
  BY <1>1, <1>2, PTL DEF Spec

-----------------------------------------------------------------------------
(* The colours that make MarkedReachable inductive: a marked object is     *)
(* still on the stack, or all it refers to is marked or in the buffer.     *)
TriColour ==
  pc # "run" =>
    /\ marked \cup In(refs) \subseteq Reachable
    /\ In(ostack) \subseteq marked
    /\ In(roots) \subseteq marked \cup In(refs)
    /\ \A o \in marked : \/ o \in In(ostack)
                         \/ In(field[o]) \subseteq marked \cup In(refs)

(* Every step keeps the colours. *)
LEMMA TriColourStep ==
  ASSUME TypeOK, TypeOK', TriColour, [Next]_vars
  PROVE  TriColour'
<1>1. CASE Mutate
  BY <1>1 DEF Mutate, New, Hold, Assign, Release, Refer, Overwrite, TriColour
<1>2. CASE GcInit
  <2>1. /\ pc' = "mark" /\ marked' = {} /\ refs' = roots /\ ostack' = <<>>
        /\ UNCHANGED <<roots, field>>
    BY <1>2 DEF GcInit
  <2>2. In(roots) \subseteq Reachable /\ Reachable' = Reachable
    BY <2>1, ReachableClosed DEF Closed, Reachable
  <2>3. QED
    BY <2>1, <2>2, InEmpty DEF TriColour
<1>3. CASE MarkRef
  <2> DEFINE o == refs[Len(refs)]
  <2>1. /\ In(refs) = In(refs') \cup {o} /\ o \in Node
        /\ pc = "mark" /\ pc' = "mark" /\ UNCHANGED <<roots, field>>
    BY <1>3, InFront DEF MarkRef, TypeOK
  <2>2. Reachable' = Reachable
    BY <2>1 DEF Reachable, Closed
  <2>3. CASE o \in marked
    <3>1. UNCHANGED <<marked, ostack>>
      BY <1>3, <2>3 DEF MarkRef
    <3>2. QED
      BY <2>1, <2>2, <2>3, <3>1 DEF TriColour
  <2>4. CASE o \notin marked
    <3>1. marked' = marked \cup {o} /\ ostack' = Append(ostack, o)
      BY <1>3, <2>4 DEF MarkRef, Push
    <3>2. In(ostack') = In(ostack) \cup {o}
      BY <2>1, <3>1, InAppend DEF TypeOK
    <3>3. QED
      BY <2>1, <2>2, <3>1, <3>2 DEF TriColour
  <2>5. QED
    BY <2>3, <2>4
<1>4. CASE Reftrace
  <2> DEFINE o == ostack[Len(ostack)]
  <2>1. /\ In(ostack) = In(ostack') \cup {o} /\ o \in Node
        /\ refs = <<>> /\ refs' = field[o] /\ pc = "mark" /\ pc' = "mark"
        /\ UNCHANGED <<roots, field, marked>>
    BY <1>4, InFront DEF Reftrace, TypeOK
  <2>2. Reachable' = Reachable
    BY <2>1 DEF Reachable, Closed
  <2>3. o \in Reachable /\ In(field[o]) \subseteq Reachable
    BY <2>1, ReachableClosed DEF TriColour, Closed
  <2>4. QED
    BY <2>1, <2>2, <2>3, InEmpty DEF TriColour
<1>5. CASE MarkDone
  <2>1. Reachable' = Reachable
    BY <1>5 DEF MarkDone, Reachable, Closed
  <2>2. QED
    BY <1>5, <2>1 DEF MarkDone, TriColour
<1>6. CASE Sweep
  BY <1>6 DEF Sweep, TriColour
<1>7. CASE UNCHANGED vars
  <2>1. Reachable' = Reachable
    BY <1>7 DEF vars, Reachable, Closed
  <2>2. QED
    BY <1>7, <2>1 DEF vars, TriColour
<1>8. QED
  BY <1>1, <1>2, <1>3, <1>4, <1>5, <1>6, <1>7 DEF Next, Trace

(* When bmgc_gc_mark returns, the mark bits are those of the reachable        *)
(* objects and of no other, whatever the graph, and whatever the collections  *)
(* before left behind.                                                        *)
THEOREM MarkingExact == Spec => []MarkedReachable
<1>1. Init => TriColour
  BY DEF Init, TriColour
<1>2. TypeOK /\ TriColour => MarkedReachable
  <2> SUFFICES ASSUME TypeOK, TriColour, pc = "sweep" PROVE marked = Reachable
    BY DEF MarkedReachable
  <2>1. refs = <<>> /\ ostack = <<>> /\ marked \in SUBSET Node
    BY DEF TypeOK
  <2>2. Closed(marked)
    BY <2>1, InEmpty DEF TriColour, Closed
  <2>3. QED
    BY <2>1, <2>2, ReachableClosed DEF TriColour
<1>3. QED
  BY <1>1, <1>2, TriColourStep, TypeCorrect, PTL DEF Spec

(* The mark stack never overflows: it is doubled before the position above    *)
(* its top would be that of its bottom, in every collection.                  *)
THEOREM StackNeverFull == Spec => []StackFits
<1>1. Init => StackFits
  BY InitSizeAssumption DEF Init, StackFits
<1>2. TypeOK /\ StackFits /\ [Next]_vars => StackFits'
  <2> SUFFICES ASSUME TypeOK, StackFits, [Next]_vars PROVE StackFits'
    OBVIOUS
  <2>1. CASE MarkRef
    <3>1. refs[Len(refs)] \in Node
      BY <2>1, InFront DEF MarkRef, TypeOK
    <3>2. CASE UNCHANGED <<ostack, size>>
      BY <3>2 DEF StackFits
    <3>3. CASE Push(refs[Len(refs)])
      <4>1. Len(ostack') = Len(ostack) + 1 /\ Len(ostack) \in Nat /\ size \in Nat
        BY <3>1, <3>3, InAppend DEF Push, TypeOK
      <4>2. size' = IF Len(ostack) + 1 = size THEN 2 * size ELSE size
        BY <3>3 DEF Push, Grown
      <4>3. QED
        BY <4>1, <4>2 DEF StackFits
    <3>4. QED
      BY <2>1, <3>2, <3>3 DEF MarkRef
  <2>2. CASE Reftrace
    <3>1. Len(ostack') = Len(ostack) - 1 /\ size' = size /\ Len(ostack) \in Nat
      BY <2>2, InFront DEF Reftrace, TypeOK
    <3>2. QED
      BY <3>1 DEF StackFits, TypeOK
  <2>3. CASE GcInit
    BY <2>3 DEF GcInit, StackFits, TypeOK
  <2>4. ASSUME UNCHANGED <<ostack, size>> PROVE StackFits'
    BY <2>4 DEF StackFits
  <2>5. CASE Mutate
    BY <2>4, <2>5 DEF Mutate, New, Hold, Assign, Release, Refer, Overwrite
  <2>6. CASE MarkDone \/ Sweep \/ UNCHANGED vars
    BY <2>4, <2>6 DEF MarkDone, Sweep, vars
  <2>7. QED
    BY <2>1, <2>2, <2>3, <2>5, <2>6 DEF Next, Trace
<1>3. QED
  BY <1>1, <1>2, TypeCorrect, PTL DEF Spec

(* No object is on the mark stack twice, and none that is on it is without    *)
(* its mark bit: mark_ostack pushes an object only when it sets the bit.      *)
THEOREM ScannedOnce == Spec => []PushedOnce
<1>1. Init => PushedOnce
  BY InEmpty DEF Init, PushedOnce
<1>2. TypeOK /\ PushedOnce /\ [Next]_vars => PushedOnce'
  <2> SUFFICES ASSUME TypeOK, PushedOnce, [Next]_vars PROVE PushedOnce'
    OBVIOUS
  <2>1. ASSUME ostack' = ostack, marked' = marked PROVE PushedOnce'
    BY <2>1 DEF PushedOnce, In
  <2>2. CASE MarkRef
    <3> DEFINE o == refs[Len(refs)]
    <3>1. o \in Node
      BY <2>2, InFront DEF MarkRef, TypeOK
    <3>2. CASE o \in marked
      BY <2>1, <2>2, <3>2 DEF MarkRef
    <3>3. CASE o \notin marked
      <4>1. ostack' = Append(ostack, o) /\ marked' = marked \cup {o}
        BY <2>2, <3>3 DEF MarkRef, Push
      <4>2. /\ In(ostack') = In(ostack) \cup {o}
            /\ Len(ostack') = Len(ostack) + 1 /\ Len(ostack) \in Nat
            /\ \A i \in 1 .. Len(ostack) : ostack'[i] = ostack[i]
            /\ ostack'[Len(ostack) + 1] = o
        BY <3>1, <4>1, InAppend DEF TypeOK
      <4>3. \A i \in 1 .. Len(ostack) : ostack[i] # o
        BY <3>3 DEF PushedOnce, In
      <4>4. ASSUME NEW i \in 1 .. Len(ostack'), NEW j \in 1 .. Len(ostack'),
                   ostack'[i] = ostack'[j]
            PROVE  i = j
        BY <4>2, <4>3, <4>4 DEF PushedOnce
      <4>5. QED
        BY <4>1, <4>2, <4>4 DEF PushedOnce
    <3>4. QED
      BY <3>2, <3>3
  <2>3. CASE Reftrace
    <3>1. /\ In(ostack') \subseteq In(ostack) /\ marked' = marked
          /\ Len(ostack') = Len(ostack) - 1 /\ Len(ostack) \in Nat
          /\ \A i \in 1 .. Len(ostack') : ostack'[i] = ostack[i]
      BY <2>3, InFront DEF Reftrace, TypeOK
    <3>2. QED
      BY <3>1 DEF PushedOnce
  <2>4. CASE GcInit
    BY <2>4, InEmpty DEF GcInit, PushedOnce
  <2>5. CASE Mutate
    BY <2>1, <2>5 DEF Mutate, New, Hold, Assign, Release, Refer, Overwrite
  <2>6. CASE MarkDone \/ Sweep \/ UNCHANGED vars
    BY <2>1, <2>6 DEF MarkDone, Sweep, vars
  <2>7. QED
    BY <2>2, <2>3, <2>4, <2>5, <2>6 DEF Next, Trace
<1>3. QED
  BY <1>1, <1>2, TypeCorrect, PTL DEF Spec
=============================================================================
