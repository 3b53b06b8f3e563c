------------------------------ MODULE ObjHeap -------------------------------
(***************************************************************************)
(* What the collector of src/src/gc/bmgc.h promises the rest of Konoha,    *)
(* with no segments, bitmaps or pointers: an object is finalised           *)
(* (KONOHA_freeObjectField) at most once and never while it can be         *)
(* reached, a block gets a new object only when it holds none, and at exit *)
(* every object has been finalised.                                        *)
(***************************************************************************)
CONSTANT Address         \* every block of the heap

VARIABLES objs,          \* blocks that hold an object not yet finalised
          live           \* those whose object is reachable

Init == objs = {} /\ live = {}

(* A new object in a free block; it is reachable. *)
Alloc(a) == /\ a \notin objs
            /\ objs' = objs \cup {a} /\ live' = live \cup {a}

Finalise(a) == a \in objs \ live /\ objs' = objs \ {a} /\ UNCHANGED live

(* The program loses its last path to an object. *)
Drop(a) == a \in live /\ live' = live \ {a} /\ UNCHANGED objs

Exit == objs' = {} /\ live' = {}

Next == \/ \E a \in Address : Alloc(a) \/ Finalise(a) \/ Drop(a)
        \/ Exit

Spec == Init /\ [][Next]_<<objs, live>>
=============================================================================
