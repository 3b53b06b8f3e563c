------------------------------- MODULE Marker -------------------------------
(***************************************************************************)
(* Tracing the object graph, bmgc_gc_mark of src/src/gc/bmgc.h: the        *)
(* buffer stack->ref that the reftrace functions fill, the mark stack      *)
(* (ostack) that keeps its capacity from one collection to the next, and   *)
(* the program that changes the graph between collections.                 *)
(*                                                                         *)
(* Abstracted: the fields of an object are the object pointers             *)
(* KONOHA_reftraceObject writes (kvproto first, then its class), and the   *)
(* mark bit of a block is membership of `marked' (module BMHeap has the    *)
(* bitmaps).  The program runs on the thread that collects, so the graph   *)
(* stands still while it is traced.                                        *)
(***************************************************************************)
EXTENDS Integers, Sequences

CONSTANTS
  Node,        \* blocks that can hold an object
  InitSize,    \* 1 << capacity_log2 of the first mark stack (4096)
  MaxRoots,    \* bound on the roots the program holds at a time
  MaxFields    \* MaxFields[o]: bound on the references of object o

ASSUME InitSizeAssumption == InitSize \in Nat \ {0, 1}

VARIABLES
  pc,          \* "run": the program; "mark": tracing; "sweep": traced
  roots,       \* what KRUNTIME_reftraceAll reports: VM stack, gcstack, tables
  field,       \* field[o]: the references of o, in the order they are traced
  refs,        \* stack->ref, from refhead to the entry to be marked next
  ostack,      \* stack[0 .. tail - 1]
  size,        \* 1 << capacity_log2: slots of the mark stack
  marked       \* objects whose mark bit is set

vars == <<pc, roots, field, refs, ostack, size, marked>>

(* The members of a sequence. *)
In(q) == {q[i] : i \in 1 .. Len(q)}

(***************************************************************************)
(* The reachable objects: the least set that holds the roots and is closed *)
(* under the references of its members.                                    *)
(***************************************************************************)
Closed(X) == In(roots) \subseteq X /\ \A o \in X : In(field[o]) \subseteq X
Reachable == {o \in Node : \A X \in SUBSET Node : Closed(X) => o \in X}

Init ==
  /\ pc = "run" /\ roots = <<>> /\ field = [o \in Node |-> <<>>]
  /\ refs = <<>> /\ ostack = <<>> /\ size = InitSize /\ marked = {}

-----------------------------------------------------------------------------
(* new_Object: an object in a block no reachable object occupies, held by  *)
(* the VM stack or the gcstack; its fields are not set yet.                *)
New(o) ==
  /\ pc = "run" /\ o \notin Reachable /\ Len(roots) < MaxRoots
  /\ roots' = Append(roots, o) /\ field' = [field EXCEPT ![o] = <<>>]
  /\ UNCHANGED <<pc, refs, ostack, size, marked>>

(* kArray_add, an assignment to a field: the object o refers to n as well. *)
Refer(o, n) ==
  /\ pc = "run" /\ o \in Reachable /\ n \in Reachable
  /\ Len(field[o]) < MaxFields[o]
  /\ field' = [field EXCEPT ![o] = Append(@, n)]
  /\ UNCHANGED <<pc, roots, refs, ostack, size, marked>>

(* An assignment overwrites reference i of o. *)
Overwrite(o, i, n) ==
  /\ pc = "run" /\ o \in Reachable /\ n \in Reachable /\ i \in 1 .. Len(field[o])
  /\ field' = [field EXCEPT ![o][i] = n]
  /\ UNCHANGED <<pc, roots, refs, ostack, size, marked>>

(* PUSH_GCSTACK, or a frame is pushed on the VM stack. *)
Hold(n) ==
  /\ pc = "run" /\ n \in Reachable /\ Len(roots) < MaxRoots
  /\ roots' = Append(roots, n)
  /\ UNCHANGED <<pc, field, refs, ostack, size, marked>>

(* A slot of the VM stack or of a table is overwritten. *)
Assign(i, n) ==
  /\ pc = "run" /\ n \in Reachable
  /\ roots' = [roots EXCEPT ![i] = n]
  /\ UNCHANGED <<pc, field, refs, ostack, size, marked>>

(* RESET_GCSTACK, or the frame is popped. *)
Release ==
  /\ pc = "run" /\ roots # <<>>
  /\ roots' = SubSeq(roots, 1, Len(roots) - 1)
  /\ UNCHANGED <<pc, field, refs, ostack, size, marked>>

-----------------------------------------------------------------------------
(* Fault: the mark bits of the last collection are left set. *)
GcInit_stale ==
  /\ pc = "run" /\ pc' = "mark" /\ refs' = roots /\ ostack' = <<>>
  /\ UNCHANGED <<roots, field, size, marked>>

(* bmgc_gc_init, ostack_init and KRUNTIME_reftraceAll: every bit is clear, *)
(* the mark stack is empty, the buffer holds the roots.                    *)
GcInit ==
  /\ pc = "run" /\ pc' = "mark"
  /\ marked' = {} /\ refs' = roots /\ ostack' = <<>>
  /\ UNCHANGED <<roots, field, size>>

(* ostack_push: the ring never wraps, it is doubled when the next position *)
(* would be that of the bottom.                                            *)
Grown == IF Len(ostack) + 1 = size THEN 2 * size ELSE size
(* Fault: the stack is doubled one push too late. *)
Push_late(o) ==
  /\ ostack' = Append(ostack, o)
  /\ size' = IF Len(ostack) = size THEN 2 * size ELSE size
Push(o) == ostack' = Append(ostack, o) /\ size' = Grown

(* mark_ostack, for the entries of the buffer from the last to the first.  *)
MarkRef ==
  /\ pc = "mark" /\ refs # <<>>
  /\ LET o == refs[Len(refs)] IN
     /\ refs' = SubSeq(refs, 1, Len(refs) - 1)
     /\ IF o \in marked THEN UNCHANGED <<marked, ostack, size>>
        ELSE marked' = marked \cup {o} /\ Push(o)
  /\ UNCHANGED <<pc, roots, field>>

(* Fault: ostack_next forgets to move the tail. *)
Reftrace_nopop ==
  /\ pc = "mark" /\ refs = <<>> /\ ostack # <<>>
  /\ refs' = field[ostack[Len(ostack)]]
  /\ UNCHANGED <<pc, roots, field, ostack, size, marked>>

(* ostack_next and KONOHA_reftraceObject: the buffer is reset, and filled  *)
(* with the references of the object on top of the stack.                  *)
Reftrace ==
  /\ pc = "mark" /\ refs = <<>> /\ ostack # <<>>
  /\ ostack' = SubSeq(ostack, 1, Len(ostack) - 1)
  /\ refs' = field[ostack[Len(ostack)]]
  /\ UNCHANGED <<pc, roots, field, size, marked>>

(* ostack_free: the stack is kept for the next collection. *)
MarkDone ==
  /\ pc = "mark" /\ refs = <<>> /\ ostack = <<>>
  /\ pc' = "sweep"
  /\ UNCHANGED <<roots, field, refs, ostack, size, marked>>

(* bmgc_gc_sweep, after which the program goes on. *)
Sweep ==
  /\ pc = "sweep" /\ pc' = "run"
  /\ UNCHANGED <<roots, field, refs, ostack, size, marked>>

Trace == MarkRef \/ Reftrace \/ MarkDone \/ Sweep

Mutate == \/ \E o \in Node : New(o) \/ Hold(o)
          \/ \E i \in 1 .. Len(roots), n \in Node : Assign(i, n)
          \/ Release
          \/ \E o, n \in Node : Refer(o, n) \/ \E i \in 1 .. Len(field[o]) : Overwrite(o, i, n)

Next == \/ Mutate
        \/ GcInit
        \/ Trace

Spec == Init /\ [][Next]_vars /\ WF_vars(Trace)

-----------------------------------------------------------------------------
(* Types of the tracer's state; outside of tracing it holds nothing. *)
TypeOK ==
  /\ pc \in {"run", "mark", "sweep"}
  /\ roots \in Seq(Node) /\ field \in [Node -> Seq(Node)]
  /\ refs \in Seq(Node) /\ ostack \in Seq(Node)
  /\ size \in Nat /\ marked \subseteq Node
  /\ pc # "mark" => refs = <<>> /\ ostack = <<>>

(* When the sweep starts, the marked objects are exactly the reachable     *)
(* ones: none is lost to a wrapped stack, a reset buffer or a cycle, and   *)
(* none that became unreachable since the last collection is kept.         *)
MarkedReachable == pc = "sweep" => marked = Reachable

(* The stack always has room for one more object than it holds (ntail #    *)
(* cur), though its capacity is that of an earlier, smaller graph.         *)
StackFits == Len(ostack) < size

(* No object is scanned twice: what is on the stack was marked when it was *)
(* pushed, once.                                                           *)
PushedOnce ==
  /\ In(ostack) \subseteq marked
  /\ \A i, j \in 1 .. Len(ostack) : ostack[i] = ostack[j] => i = j

(* A collection ends, whatever cycles the graph has. *)
TracingEnds == (pc = "mark") ~> (pc = "run")
=============================================================================
