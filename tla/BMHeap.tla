------------------------------- MODULE BMHeap -------------------------------
(***************************************************************************)
(* The bitmap-marking heap of src/src/gc/bmgc.h: the size-class sub-heaps, *)
(* their segments with the two bitmap levels, the allocation pointer, the  *)
(* garbage collection that rebuilds the bitmaps, and the pool of segments. *)
(*                                                                         *)
(* Data that is abstracted: a block is <<segment, index>>, index 0 is the  *)
(* BlockHeader; a bitmap is the set of its marked indexes; the segment     *)
(* lists are sets, so "the head of the list" is any member.  Level 1 is    *)
(* one word (true of every size class on a 64-bit build) and level 2 is    *)
(* always the dummy word, which is full.  Which objects are reachable is   *)
(* the mutator's business: here `live' only grows by an allocation and     *)
(* shrinks by Drop; module Marker shows that tracing finds exactly them.   *)
(***************************************************************************)
EXTENDS Integers, FiniteSets

CONSTANTS
  Klass,      \* the size classes, SUBHEAP_KLASS_MIN..SUBHEAP_KLASS_MAX
  Seg,        \* all segments the system can ever hand out
  NoSeg,      \* segment_dummy
  Pool,       \* Pool[n]: the segments of the n-th expandHeap
  MaxPool,    \* posix_memalign fails once this many pools exist
  Bits,       \* BITS, the width of a bitmap word
  Blocks,     \* Blocks[k]: blocks in a segment of class k, header included
  L1Limit     \* L1Limit[k]: position of the lowest sentinel bit of level 1

(* Real sizes: 64 bits a word, 2048 (class 6) to 32 (class 12) blocks. *)
ASSUME SizeAssumption ==
  /\ Bits \in Nat \ {0, 1} /\ MaxPool \in Nat \ {0}
  /\ Blocks \in [Klass -> Nat \ {0, 1}]
  /\ L1Limit \in [Klass -> Nat] /\ \A k \in Klass : L1Limit[k] <= Blocks[k]

(* No level-1 sentinel lies above the last word of level 0 (BM_SENTINEL_L1_6 *)
(* to _12: 32, 16, 8, 2, 1, 0 and 0 for 32, 16, 8, 4, 2, 1 and 1 words).     *)
ASSUME SentinelAssumption == \A k \in Klass : (L1Limit[k] - 1) * Bits < Blocks[k]

ASSUME PoolAssumption ==
  /\ NoSeg \notin Seg
  /\ Pool \in [1..MaxPool -> SUBSET Seg]
  /\ \A m, n \in 1..MaxPool : m # n => Pool[m] \cap Pool[n] = {}

(* A pool (128 or 256 segments) has one segment for each of the 7 classes. *)
ASSUME FiniteAssumption ==
  /\ IsFiniteSet(Klass) /\ IsFiniteSet(Seg)
  /\ \A n \in 1..MaxPool : Cardinality(Klass) <= Cardinality(Pool[n])

VARIABLES
  pc,          \* what the (single) interpreter thread is doing
  req,         \* the class whose allocation started the collection, or {}
  p,           \* p[k]: the AllocationPointer of sub-heap k
  segmentList, \* mng->segmentList: segments no sub-heap owns yet
  pools,       \* number of pools allocated so far
  seglist,     \* seglist[k]: the segments sub-heap k owns
  freelist,    \* freelist[k]: owned segments still to be allocated from
  bm0,         \* bm0[s]: marked blocks of segment s (level 0)
  bm1,         \* bm1[s]: words of level 0 recorded as full (level 1)
  live_count,  \* live_count[s]
  temp,        \* the block being handed out, until its object has a class
  objs,        \* blocks whose object has not been freed (ct # NULL)
  live         \* blocks whose object the program can still reach

vars == <<pc, req, p, segmentList, pools, seglist, freelist, bm0, bm1,
          live_count, temp, objs, live>>
bitmaps == <<bm0, bm1, live_count>>
lists   == <<segmentList, pools, seglist, freelist>>

Null == <<NoSeg, 0>>                 \* blkptr of a sub-heap without segments
NoBit == -1                          \* a BitPtr whose mask is 0
Header == 0                          \* the index of the BlockHeader
Owned == UNION {seglist[k] : k \in Klass}
SegmentBlockCount(k) == Blocks[k] - 1
Block(k) == seglist[k] \X (1 .. Blocks[k] - 1)

(* Fault: BITMAP_SET_LIMIT forgets the sentinel of level 0. *)
Marked_nolimit(k, s, i) == i \in bm0[s]

(* Every bit at or above Blocks[k] belongs to the sentinel of level 0.     *)
Marked(k, s, i) == i \in bm0[s] \/ i >= Blocks[k]

(* FFS: c is the least element of S, no bit if S is empty. *)
IsFirst(S, c) == IF S = {} THEN c = NoBit ELSE c \in S /\ \A d \in S : c <= d

ClearBits(k, s, w, b) == {c \in b .. Bits - 1 : ~Marked(k, s, w * Bits + c)}
WordFull(k, s, w) == ClearBits(k, s, w, 0) = {}
(* Fault: the level-1 sentinel is one bit too low. *)
ClearWords_low(k, s, w) == {v \in w + 1 .. L1Limit[k] - 2 : v \notin bm1[s]}
ClearWords(k, s, w) == {v \in w + 1 .. L1Limit[k] - 1 : v \notin bm1[s]}

Pointer(s, w, b, blk) == [seg |-> s, word |-> w, bit |-> b, blkptr |-> blk]
FreshPointer(s, blk) == Pointer(s, 0, 0, blk)

(***************************************************************************)
(* findNextFreeBlock, from word w and bit b of segment s: where it stops,  *)
(* and the level-1 bit it sets when the rest of the word is full.          *)
(***************************************************************************)
CanFind(k, s, w, b) ==
  ClearBits(k, s, w, b) # {} \/ ClearWords(k, s, w) # {}

Finds(k, s, w, b, word, bit) ==
  IF ClearBits(k, s, w, b) # {}
  THEN word = w /\ IsFirst(ClearBits(k, s, w, b), bit)
  ELSE /\ IsFirst(ClearWords(k, s, w), word)
       /\ IsFirst(ClearBits(k, s, word, 0), bit)

Level1(k, s, w, b) ==
  IF ClearBits(k, s, w, b) # {} THEN bm1[s]
  ELSE bm1[s] \cup ({w} \cap (0 .. L1Limit[k] - 1))

(* isMarked: the dummy segment of an empty sub-heap reads as full.         *)
IsMarked(k) ==
  /\ p[k].bit # NoBit
  /\ p[k].seg # NoSeg => Marked(k, p[k].seg, p[k].word * Bits + p[k].bit)

(* The pointer finds a block in its own segment (the first test of tryAlloc). *)
Here(k) ==
  /\ p[k].seg # NoSeg
  /\ CanFind(k, p[k].seg, p[k].word, p[k].bit)

-----------------------------------------------------------------------------
(* HeapManager_init: the first pool, and sub-heaps that own nothing.       *)
Init ==
  /\ pc = "run" /\ req = {}
  /\ p = [k \in Klass |-> FreshPointer(NoSeg, Null)]
  /\ segmentList = Pool[1] /\ pools = 1
  /\ seglist = [k \in Klass |-> {}]
  /\ freelist = [k \in Klass |-> {}]
  /\ bm0 = [s \in Seg |-> {Header}]
  /\ bm1 = [s \in Seg |-> {}]
  /\ live_count = [s \in Seg |-> 0]
  /\ temp = Null /\ objs = {} /\ live = {}

(* inc, then deferred_sweep: the block at blk is taken, the bit at (w, b)   *)
(* is set, the pointer moves on by one block, and the dead object that still *)
(* lies in the block is finalised (bmgc_Object_free).                        *)
HandOut(k, blk, s, w, b) ==
  /\ bm0' = [bm0 EXCEPT ![s] = IF b = NoBit THEN @ ELSE @ \cup {w * Bits + b}]
  /\ live_count' = [live_count EXCEPT ![s] = @ + 1]
  /\ p' = [p EXCEPT ![k] =
             IF b = NoBit THEN Pointer(s, w, NoBit, <<blk[1], blk[2] + 1>>)
             ELSE IF b = Bits - 1 THEN Pointer(s, w + 1, 0, <<blk[1], blk[2] + 1>>)
             ELSE Pointer(s, w, b + 1, <<blk[1], blk[2] + 1>>)]
  /\ objs' = objs \ {blk} /\ temp' = blk
  /\ pc' = "init" /\ req' = {}
  /\ UNCHANGED live

(* Hand out the first free block of segment s at or after (w, b). *)
HandOutFound(k, s, w, b) ==
  \E word \in 0 .. Blocks[k], bit \in NoBit .. Bits - 1 :
    /\ Finds(k, s, w, b, word, bit)
    /\ HandOut(k, <<s, word * Bits + bit>>, s, word, bit)

(* bm_malloc_internal runs tryAlloc first, and again after a collection. *)
Allocating(k) == \/ pc = "run"
                 \/ pc = "retry" /\ req = {k}

(* tryAlloc, the bit at the pointer is clear: the block at blkptr is taken. *)
AllocHere(k) ==
  /\ Allocating(k) /\ ~IsMarked(k)
  /\ p[k].seg # NoSeg
  /\ HandOut(k, p[k].blkptr, p[k].seg, p[k].word, p[k].bit)
  /\ UNCHANGED <<lists, bm1>>

(* tryAlloc, findNextFreeBlock succeeds in the current segment. *)
AllocNext(k) ==
  LET q == p[k] IN
  /\ Allocating(k) /\ IsMarked(k) /\ Here(k)
  /\ HandOutFound(k, q.seg, q.word, q.bit)
  /\ bm1' = [bm1 EXCEPT ![q.seg] = Level1(k, q.seg, q.word, q.bit)]
  /\ UNCHANGED lists

(* Level 1 once the current segment and those in S were searched in vain. *)
Exhausted(k, S) ==
  [s \in Seg |-> IF s \in S THEN Level1(k, s, 0, 0)
                 ELSE IF s = p[k].seg THEN Level1(k, s, p[k].word, p[k].bit)
                 ELSE bm1[s]]

(* nextSegment: free segments are popped until one has a block to give. *)
AllocFreeSegment(k) ==
  /\ Allocating(k) /\ IsMarked(k) /\ ~Here(k)
  /\ \E s \in freelist[k], S \in SUBSET freelist[k] :
       /\ CanFind(k, s, 0, 0)
       /\ s \notin S /\ \A t \in S : ~CanFind(k, t, 0, 0)
       /\ HandOutFound(k, s, 0, 0)
       /\ bm1' = [Exhausted(k, S) EXCEPT ![s] = Level1(k, s, 0, 0)]
       /\ freelist' = [freelist EXCEPT ![k] = @ \ (S \cup {s})]
  /\ UNCHANGED <<segmentList, pools, seglist>>

NoFreeSegment(k) ==
  /\ IsMarked(k) /\ ~Here(k)
  /\ \A s \in freelist[k] : ~CanFind(k, s, 0, 0)

(* newSegment: a segment of the pool, its bitmaps cleared, is block 1 on.  *)
AllocNewSegment(k) ==
  /\ Allocating(k) /\ NoFreeSegment(k)
  /\ \E s \in segmentList :
       /\ segmentList' = segmentList \ {s}
       /\ seglist' = [seglist EXCEPT ![k] = @ \cup {s}]
       /\ freelist' = [freelist EXCEPT ![k] = {}]
       /\ HandOut(k, <<s, 1>>, s, 0, 1)
       /\ bm1' = Exhausted(k, freelist[k])
  /\ UNCHANGED pools

(***************************************************************************)
(* tryAlloc returns NULL: the pointer is left on the last segment searched *)
(* with an empty mask.  The first time a collection follows; the second    *)
(* time THROW_OutOfMemory aborts.                                          *)
(***************************************************************************)
AllocFail(k) ==
  /\ Allocating(k) /\ NoFreeSegment(k) /\ segmentList = {}
  /\ pc' = IF pc = "run" THEN "clear" ELSE "oom"
  /\ req' = {k}
  /\ \E s \in IF freelist[k] = {} THEN {p[k].seg} ELSE freelist[k] :
       p' = [p EXCEPT ![k] = Pointer(s, IF s = p[k].seg THEN p[k].word ELSE 0,
                                     NoBit, p[k].blkptr)]
  /\ freelist' = [freelist EXCEPT ![k] = {}]
  /\ bm1' = Exhausted(k, freelist[k])
  /\ UNCHANGED <<segmentList, pools, seglist, bm0, live_count, temp, objs, live>>

(* The retry in a sub-heap that owns no segment: blkptr is still NULL. *)
AllocNull(k) ==
  /\ pc = "retry" /\ req = {k} /\ p[k].seg = NoSeg /\ ~IsMarked(k)
  /\ pc' = "oom"
  /\ UNCHANGED <<req, p, lists, bitmaps, temp, objs, live>>

tryAlloc(k) == AllocHere(k) \/ AllocNext(k) \/ AllocFreeSegment(k)
              \/ AllocNewSegment(k) \/ AllocFail(k) \/ AllocNull(k)

-----------------------------------------------------------------------------
(* MODGC_omalloc and new_Object: the block gets its class.  A block outside *)
(* every segment fails DBG_CHECK_OBJECT_IN_HEAP; what follows that is not    *)
(* modelled (pc = "stray").                                                  *)
new_Object ==
  /\ pc = "init"
  /\ pc' = IF \E k \in Klass : temp \in Block(k) THEN "run" ELSE "stray"
  /\ objs' = objs \cup {temp} /\ live' = live \cup {temp}
  /\ temp' = Null
  /\ UNCHANGED <<req, p, lists, bitmaps>>

(* System.gc(), MODGC_gc_invoke: a collection nobody waits for.            *)
SystemGc ==
  /\ pc = "run" /\ pc' = "clear"
  /\ UNCHANGED <<req, p, lists, bitmaps, temp, objs, live>>

(* Fault: clearAllBitMapsAndCount keeps the counts. *)
GcInit_count ==
  /\ pc = "clear" /\ pc' = "mark"
  /\ bm0' = [s \in Seg |-> IF s \in Owned THEN {Header} ELSE bm0[s]]
  /\ bm1' = [s \in Seg |-> IF s \in Owned THEN {} ELSE bm1[s]]
  /\ UNCHANGED <<req, p, lists, live_count, temp, objs, live>>

(* bmgc_gc_init: clearAllBitMapsAndCount of every sub-heap. *)
GcInit ==
  /\ pc = "clear" /\ pc' = "mark"
  /\ bm0' = [s \in Seg |-> IF s \in Owned THEN {Header} ELSE bm0[s]]
  /\ bm1' = [s \in Seg |-> IF s \in Owned THEN {} ELSE bm1[s]]
  /\ live_count' = [s \in Seg |-> IF s \in Owned THEN 0 ELSE live_count[s]]
  /\ UNCHANGED <<req, p, lists, temp, objs, live>>

(* Fault: a word that fills up is not recorded at level 1. *)
Mark_nosummary(k, s, i) ==
  /\ pc = "mark" /\ <<s, i>> \in live \cap Block(k) /\ ~Marked(k, s, i)
  /\ bm0' = [bm0 EXCEPT ![s] = @ \cup {i}]
  /\ live_count' = [live_count EXCEPT ![s] = @ + 1]
  /\ UNCHANGED <<pc, req, p, lists, bm1, temp, objs, live>>

(* mark_ostack and bitmap_mark, for an object tracing has reached. *)
Mark(k, s, i) ==
  /\ pc = "mark" /\ <<s, i>> \in live \cap Block(k) /\ ~Marked(k, s, i)
  /\ bm0' = [bm0 EXCEPT ![s] = @ \cup {i}]
  /\ live_count' = [live_count EXCEPT ![s] = @ + 1]
  /\ LET w == i \div Bits IN
     bm1' = [bm1 EXCEPT ![s] =
              IF ClearBits(k, s, w, 0) \subseteq {i % Bits}
              THEN @ \cup ({w} \cap (0 .. L1Limit[k] - 1)) ELSE @]
  /\ UNCHANGED <<pc, req, p, lists, temp, objs, live>>

(***************************************************************************)
(* rearrangeSegList.  Once the fetched segment has left the free list      *)
(* empty, at most that one has dead blocks, so that count_dead is the      *)
(* number of its dead blocks.                                              *)
(***************************************************************************)
Rearranged == {k \in Klass : \E s, t \in seglist[k] : s # t}
Unfilled(k) == {s \in seglist[k] : live_count[s] # SegmentBlockCount(k)}
isFull(k) ==
  /\ k \in Rearranged
  /\ \/ Unfilled(k) = {}
     \/ \E s \in Unfilled(k) : Unfilled(k) = {s} /\ live_count[s] > 0
Full == {k \in Klass : isFull(k)}

(* fetchSegment for every sub-heap that has an unfilled segment. *)
Fetches ==
  {f \in [Klass -> Seg \cup {NoSeg}] :
     \A k \in Klass :
       IF k \in Rearranged /\ Unfilled(k) # {} THEN f[k] \in Unfilled(k)
                                              ELSE f[k] = NoSeg}

SweptPointer(k, f) ==
  IF f[k] = NoSeg THEN p[k] ELSE FreshPointer(f[k], p[k].blkptr)
(* Fault: fetchSegment leaves its segment on the free list. *)
SweptFreelist_nopop(k, f) ==
  IF k \in Rearranged THEN Unfilled(k) ELSE freelist[k]
SweptFreelist(k, f) ==
  IF k \in Rearranged THEN Unfilled(k) \ {f[k]} ELSE freelist[k]

(* Fault: the sweep starts before tracing is complete. *)
MarkingDone_early == pc = "mark"
MarkingDone ==
  pc = "mark" /\ \A k \in Klass, a \in live : a \in Block(k) => Marked(k, a[1], a[2])
(* Fault: an explicit collection asks for the next one. *)
Resume_again == pc' = IF req = {} THEN "clear" ELSE "retry"
Resume == pc' = IF req = {} THEN "run" ELSE "retry"

(* bmgc_gc_sweep when no sub-heap is full. *)
Sweep ==
  /\ MarkingDone /\ Full = {}
  /\ \E f \in Fetches :
       /\ p' = [k \in Klass |-> SweptPointer(k, f)]
       /\ freelist' = [k \in Klass |-> SweptFreelist(k, f)]
  /\ Resume
  /\ UNCHANGED <<req, segmentList, pools, seglist, bitmaps, temp, objs, live>>

(***************************************************************************)
(* bmgc_gc_sweep when some sub-heap is full: HeapManager_expandHeap points *)
(* segmentList at the new pool, whatever it held, and each full sub-heap   *)
(* gets one of its segments.                                               *)
(***************************************************************************)
SweepExpand ==
  /\ MarkingDone /\ Full # {} /\ pools < MaxPool
  /\ pools' = pools + 1
  /\ \E f \in Fetches, g \in [Full -> Pool[pools + 1]] :
       /\ \A j, k \in Full : j # k => g[j] # g[k]
       /\ segmentList' = Pool[pools + 1] \ {g[k] : k \in Full}
       /\ p' = [k \in Klass |-> IF k \in Full THEN FreshPointer(g[k], <<g[k], 1>>)
                                             ELSE SweptPointer(k, f)]
       /\ seglist' = [k \in Klass |-> IF k \in Full THEN seglist[k] \cup {g[k]}
                                                   ELSE seglist[k]]
       /\ freelist' = [k \in Klass |-> SweptFreelist(k, f)]
  /\ Resume
  /\ UNCHANGED <<req, bitmaps, temp, objs, live>>

(* call_malloc_aligned fails in expandHeap: THROW_OutOfMemory. *)
SweepAbort ==
  /\ MarkingDone /\ Full # {} /\ pools = MaxPool
  /\ pc' = "memalign"
  /\ UNCHANGED <<req, p, lists, bitmaps, temp, objs, live>>

(* The program (or the collector's caller) loses its last path to a block. *)
Drop(a) ==
  /\ pc = "run" /\ a \in live
  /\ live' = live \ {a}
  /\ UNCHANGED <<pc, req, p, lists, bitmaps, temp, objs>>

(* Fault: the final sweep stops one block short of the end of a segment. *)
BMGC_exit_short ==
  /\ pc = "run" /\ pc' = "exit"
  /\ objs' = objs \ UNION {seglist[k] \X (1 .. Blocks[k] - 2) : k \in Klass}
  /\ live' = {}
  /\ UNCHANGED <<req, p, lists, bitmaps, temp>>

(* MODGC_destoryAllObjects: HeapManager_final_free frees what is left in   *)
(* every block of every owned segment.                                     *)
BMGC_exit ==
  /\ pc = "run" /\ pc' = "exit"
  /\ objs' = objs \ UNION {Block(k) : k \in Klass}
  /\ live' = {}
  /\ bm0' = [s \in Seg |-> IF s \in Owned THEN {Header} ELSE bm0[s]]
  /\ bm1' = [s \in Seg |-> IF s \in Owned THEN {} ELSE bm1[s]]
  /\ live_count' = [s \in Seg |-> IF s \in Owned THEN 0 ELSE live_count[s]]
  /\ UNCHANGED <<req, p, lists, temp>>

Collect == \/ GcInit \/ Sweep \/ SweepExpand \/ SweepAbort
           \/ \E k \in Klass : \E a \in live : Mark(k, a[1], a[2])

Next == \/ \E k \in Klass : tryAlloc(k)
        \/ new_Object
        \/ \E a \in live : Drop(a)
        \/ SystemGc \/ Collect \/ BMGC_exit

Spec == Init /\ [][Next]_vars /\ WF_vars(Collect)

-----------------------------------------------------------------------------
PCs == {"run", "retry", "init", "clear", "mark", "oom", "memalign", "stray", "exit"}

(* Types of the heap's state; only an allocation that waits is retried. *)
TypeOK ==
  /\ pc \in PCs
  /\ req \in {{}} \cup {{k} : k \in Klass}
  /\ pc = "retry" => req # {}
  /\ p \in [Klass -> [seg : Seg \cup {NoSeg}, word : Int, bit : Int,
                      blkptr : (Seg \cup {NoSeg}) \X Int]]
  /\ segmentList \in SUBSET Seg /\ pools \in 1..MaxPool
  /\ seglist \in [Klass -> SUBSET Seg] /\ freelist \in [Klass -> SUBSET Seg]
  /\ bm0 \in [Seg -> SUBSET Int] /\ bm1 \in [Seg -> SUBSET Int]
  /\ live_count \in [Seg -> Int]
  /\ temp \in (Seg \cup {NoSeg}) \X Int
  /\ objs \subseteq (Seg \cup {NoSeg}) \X Int
  /\ live \subseteq (Seg \cup {NoSeg}) \X Int

Collecting == pc \in {"clear", "mark"}

(***************************************************************************)
(* A segment belongs to the pool or to one sub-heap, whatever sequence of  *)
(* collections and expansions (which overwrite mng->segmentList) came      *)
(* before; a sub-heap allocates from its own segments only; an unowned     *)
(* segment was never written (the assertion live_count == 0 of             *)
(* newSegment).                                                            *)
(***************************************************************************)
SegmentOwnership ==
  /\ \A j, k \in Klass : j # k => seglist[j] \cap seglist[k] = {}
  /\ \A k \in Klass : /\ seglist[k] \cap segmentList = {}
                      /\ freelist[k] \subseteq seglist[k]
                      /\ p[k].seg \in seglist[k] \cup {NoSeg}
                      /\ p[k].seg \notin freelist[k]
  /\ \A s \in Seg \ Owned : live_count[s] = 0 /\ bm0[s] = {Header}

(* The strengthening that makes SegmentOwnership inductive: what is owned or *)
(* in the pool was mapped by an expansion so far, so that the next expansion *)
(* brings new segments only.                                                 *)
Mapped == UNION {Pool[n] : n \in 1..pools}
OwnershipInv == SegmentOwnership /\ Owned \cup segmentList \subseteq Mapped

(* DBG_CHECK_OBJECT_IN_HEAP: every reachable object lies in a block of a   *)
(* segment some sub-heap owns, past the segment's header.                  *)
LiveInHeap == \A a \in live : \E k \in Klass : a \in Block(k)

(* No reachable object has been finalised: deferred_sweep only ever runs on *)
(* an object the last collection found unreachable.                        *)
LiveNotFreed == live \subseteq objs

(* What DBG_ASSERT(BP(p, i).mask != 0) relies on: a word level 1 does not  *)
(* record as full, and the pointer may still descend to, has a clear bit.  *)
SummarySound ==
  ~Collecting =>
    \A k \in Klass : \A s \in freelist[k] \cup ({p[k].seg} \ {NoSeg}) :
      LET from == IF s = p[k].seg THEN p[k].word ELSE 0
      IN \A w \in ClearWords(k, s, from) : ~WordFull(k, s, w)

(* nextSegment asserts live_count < SegmentBlockCount; the sweep believes  *)
(* live_count: it is the number of marked blocks.                          *)
CountExact == \A s \in Seg : live_count[s] = Cardinality(bm0[s] \ {Header})

(* After a collection the retry always finds a block: the sweep either     *)
(* leaves a sub-heap a segment with dead blocks or expands the heap.       *)
RetrySucceeds == pc # "oom"

(* The sub-heap whose allocation a collection serves owns two segments or   *)
(* more.  One with a single segment is not rearranged: its pointer keeps an *)
(* empty mask, which reads as a free block.                                 *)
TwoSegments == Collecting => \A k \in Klass : req = {k} => k \in Rearranged

(* The search from the first word reaches every block of a segment.         *)
SearchExact(k) == Blocks[k] <= Bits \/ Blocks[k] <= L1Limit[k] * Bits

(* Only a sub-heap whose level-1 sentinel hides its last words is out of    *)
(* memory behind a collection.                                              *)
FailsOnlyLow == pc = "oom" => \E k \in Klass : req = {k} /\ ~SearchExact(k)

Address == UNION {Seg \X (1 .. Blocks[k] - 1) : k \in Klass}
Promise == INSTANCE ObjHeap

(* The bitmap heap keeps the promise of ObjHeap: no reachable block is handed *)
(* out or freed, and every object is freed by the end.                        *)
KeepsPromise == Promise!Spec

(* A collection ends: in the program, in the retry or in an abort. *)
CollectionEnds == (pc = "clear") ~> ~Collecting
=============================================================================
