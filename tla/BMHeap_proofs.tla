---------------------------- MODULE BMHeap_proofs ----------------------------
(* Theorems about the bitmap heap, for every number of size classes,        *)
(* segments, pools, blocks and every word width.                            *)
EXTENDS BMHeap, FiniteSetTheorems, TLAPS

USE DEF NoBit, Header

(* The pieces of a step that several actions share keep their types. *)
LEMMA HandOutType ==
  ASSUME TypeOK, NEW k \in Klass, NEW blk \in (Seg \cup {NoSeg}) \X Int,
         NEW s \in Seg, NEW w \in Int, NEW b \in Int, HandOut(k, blk, s, w, b)
  PROVE  /\ pc' = "init" /\ req' = {}
         /\ p' \in [Klass -> [seg : Seg \cup {NoSeg}, word : Int, bit : Int,
                              blkptr : (Seg \cup {NoSeg}) \X Int]]
         /\ bm0' \in [Seg -> SUBSET Int]
         /\ live_count' \in [Seg -> Int]
         /\ live' = live /\ temp' \in (Seg \cup {NoSeg}) \X Int
         /\ objs' \subseteq (Seg \cup {NoSeg}) \X Int
<1>1. w * Bits + b \in Int
  BY SizeAssumption
<1>2. <<blk[1], blk[2] + 1>> \in (Seg \cup {NoSeg}) \X Int
  OBVIOUS
<1>3. bm0' \in [Seg -> SUBSET Int]
  BY <1>1 DEF HandOut, TypeOK
<1>4. p' \in [Klass -> [seg : Seg \cup {NoSeg}, word : Int, bit : Int,
                        blkptr : (Seg \cup {NoSeg}) \X Int]]
  BY <1>2 DEF HandOut, TypeOK, Pointer
<1>5. QED
  BY <1>3, <1>4 DEF HandOut, TypeOK, PCs

LEMMA Level1Type ==
  ASSUME TypeOK, NEW k \in Klass, NEW s \in Seg, NEW w \in Int, NEW b \in Int
  PROVE  Level1(k, s, w, b) \in SUBSET Int
BY SizeAssumption DEF Level1, TypeOK

LEMMA PointerType ==
  ASSUME TypeOK, NEW k \in Klass
  PROVE  /\ p[k].seg \in Seg \cup {NoSeg}
         /\ p[k].word \in Int /\ p[k].bit \in Int
         /\ p[k].blkptr \in (Seg \cup {NoSeg}) \X Int
BY DEF TypeOK

LEMMA ExhaustedType ==
  ASSUME TypeOK, NEW k \in Klass, NEW S
  PROVE  Exhausted(k, S) \in [Seg -> SUBSET Int]
BY Level1Type, PointerType DEF Exhausted, TypeOK

LEMMA HandOutFoundType ==
  ASSUME TypeOK, NEW k \in Klass, NEW s \in Seg, NEW w \in Int, NEW b \in Int,
         HandOutFound(k, s, w, b)
  PROVE  /\ pc' = "init" /\ req' = {}
         /\ p' \in [Klass -> [seg : Seg \cup {NoSeg}, word : Int, bit : Int,
                              blkptr : (Seg \cup {NoSeg}) \X Int]]
         /\ bm0' \in [Seg -> SUBSET Int]
         /\ live_count' \in [Seg -> Int]
         /\ live' = live /\ temp' \in (Seg \cup {NoSeg}) \X Int
         /\ objs' \subseteq (Seg \cup {NoSeg}) \X Int
<1>1. PICK word \in 0 .. Blocks[k], bit \in NoBit .. Bits - 1 :
        HandOut(k, <<s, word * Bits + bit>>, s, word, bit)
  BY DEF HandOutFound
<1>2. /\ word \in Int /\ bit \in Int /\ word * Bits + bit \in Int
      /\ <<s, word * Bits + bit>> \in (Seg \cup {NoSeg}) \X Int
  BY SizeAssumption
<1>3. QED
  BY ONLY TypeOK, <1>1, <1>2, HandOutType, k \in Klass, s \in Seg

LEMMA AllocType == ASSUME TypeOK, NEW k \in Klass, tryAlloc(k) PROVE TypeOK'
<1> USE PointerType
<1>1. CASE AllocHere(k)
  <2>1. HandOut(k, p[k].blkptr, p[k].seg, p[k].word, p[k].bit) /\ p[k].seg \in Seg
    BY <1>1 DEF AllocHere
  <2>2. UNCHANGED <<lists, bm1>>
    BY <1>1 DEF AllocHere
  <2>3. QED
    BY <2>1, <2>2, HandOutType DEF TypeOK, PCs, lists
<1>2. CASE AllocNext(k)
  <2>1. /\ p[k].seg \in Seg /\ UNCHANGED lists
        /\ HandOutFound(k, p[k].seg, p[k].word, p[k].bit)
        /\ bm1' = [bm1 EXCEPT ![p[k].seg] = Level1(k, p[k].seg, p[k].word, p[k].bit)]
    BY <1>2 DEF AllocNext, Here
  <2>2. bm1' \in [Seg -> SUBSET Int]
    BY <2>1, Level1Type DEF TypeOK
  <2>3. QED
    BY <2>1, <2>2, HandOutFoundType DEF TypeOK, PCs, lists
<1>3. CASE AllocFreeSegment(k)
  <2>1. PICK s \in freelist[k], S \in SUBSET freelist[k] :
          /\ HandOutFound(k, s, 0, 0)
          /\ bm1' = [Exhausted(k, S) EXCEPT ![s] = Level1(k, s, 0, 0)]
          /\ freelist' = [freelist EXCEPT ![k] = @ \ (S \cup {s})]
    BY <1>3 DEF AllocFreeSegment
  <2>2. s \in Seg
    BY DEF TypeOK
  <2>3. bm1' \in [Seg -> SUBSET Int]
    BY <2>1, <2>2, ExhaustedType, Level1Type
  <2>4. freelist' \in [Klass -> SUBSET Seg] /\ UNCHANGED <<segmentList, pools, seglist>>
    BY <2>1, <1>3 DEF TypeOK, AllocFreeSegment
  <2>5. QED
    BY <2>1, <2>2, <2>3, <2>4, HandOutFoundType DEF TypeOK, PCs
<1>4. CASE AllocNewSegment(k)
  <2>1. PICK s \in segmentList :
          /\ segmentList' = segmentList \ {s}
          /\ seglist' = [seglist EXCEPT ![k] = @ \cup {s}]
          /\ freelist' = [freelist EXCEPT ![k] = {}]
          /\ HandOut(k, <<s, 1>>, s, 0, 1)
          /\ bm1' = Exhausted(k, freelist[k])
    BY <1>4 DEF AllocNewSegment
  <2>2. /\ s \in Seg /\ <<s, 1>> \in (Seg \cup {NoSeg}) \X Int
        /\ pools' = pools
    BY <1>4 DEF TypeOK, AllocNewSegment
  <2>3. /\ segmentList' \in SUBSET Seg /\ seglist' \in [Klass -> SUBSET Seg]
        /\ freelist' \in [Klass -> SUBSET Seg]
    BY <2>1, <2>2 DEF TypeOK
  <2>4. QED
    BY <2>1, <2>2, <2>3, ExhaustedType, HandOutType DEF TypeOK, PCs
<1>5. CASE AllocFail(k)
  <2>1. PICK s \in IF freelist[k] = {} THEN {p[k].seg} ELSE freelist[k] :
          p' = [p EXCEPT ![k] = Pointer(s, IF s = p[k].seg THEN p[k].word ELSE 0,
                                        NoBit, p[k].blkptr)]
    BY <1>5 DEF AllocFail
  <2>2. s \in Seg \cup {NoSeg}
    BY DEF TypeOK
  <2>3. p' \in [Klass -> [seg : Seg \cup {NoSeg}, word : Int, bit : Int,
                         blkptr : (Seg \cup {NoSeg}) \X Int]]
    BY <2>1, <2>2 DEF TypeOK, Pointer
  <2>4. freelist' \in [Klass -> SUBSET Seg] /\ bm1' \in [Seg -> SUBSET Int]
    BY <1>5, ExhaustedType DEF AllocFail, TypeOK
  <2>5. QED
    BY <1>5, <2>3, <2>4 DEF AllocFail, TypeOK, PCs
<1>6. CASE AllocNull(k)
  BY <1>6 DEF AllocNull, TypeOK, PCs, lists, bitmaps
<1>7. QED
  BY <1>1, <1>2, <1>3, <1>4, <1>5, <1>6 DEF tryAlloc

LEMMA SweptType ==
  ASSUME TypeOK, NEW f \in Fetches, NEW k \in Klass
  PROVE  /\ SweptPointer(k, f) \in [seg : Seg \cup {NoSeg}, word : Int, bit : Int,
                                    blkptr : (Seg \cup {NoSeg}) \X Int]
         /\ SweptFreelist(k, f) \in SUBSET Seg
<1>1. f[k] \in Seg \cup {NoSeg}
  BY DEF Fetches
<1>2. QED
  BY <1>1 DEF SweptPointer, SweptFreelist, FreshPointer, Pointer, Unfilled, TypeOK

LEMMA CollectType == ASSUME TypeOK, Collect PROVE TypeOK'
<1>1. CASE GcInit
  BY <1>1 DEF GcInit, TypeOK, PCs, lists
<1>2. CASE Sweep
  <2>1. PICK f \in Fetches :
          /\ p' = [k \in Klass |-> SweptPointer(k, f)]
          /\ freelist' = [k \in Klass |-> SweptFreelist(k, f)]
    BY <1>2 DEF Sweep
  <2>2. QED
    BY <1>2, <2>1, SweptType DEF Sweep, Resume, TypeOK, PCs, bitmaps
<1>3. CASE SweepExpand
  <2>1. PICK f \in Fetches, g \in [Full -> Pool[pools + 1]] :
       /\ segmentList' = Pool[pools + 1] \ {g[k] : k \in Full}
       /\ p' = [k \in Klass |-> IF k \in Full THEN FreshPointer(g[k], <<g[k], 1>>)
                                             ELSE SweptPointer(k, f)]
       /\ seglist' = [k \in Klass |-> IF k \in Full THEN seglist[k] \cup {g[k]}
                                                   ELSE seglist[k]]
       /\ freelist' = [k \in Klass |-> SweptFreelist(k, f)]
    BY <1>3 DEF SweepExpand
  <2>2. pools + 1 \in 1..MaxPool /\ Pool[pools + 1] \subseteq Seg
    BY <1>3, PoolAssumption, SizeAssumption DEF SweepExpand, TypeOK
  <2>3. \A k \in Full : g[k] \in Seg
    BY <2>2
  <2>4. p' \in [Klass -> [seg : Seg \cup {NoSeg}, word : Int, bit : Int,
                         blkptr : (Seg \cup {NoSeg}) \X Int]]
    <3>1. \A k \in Klass :
             k \in Full => FreshPointer(g[k], <<g[k], 1>>)
                              \in [seg : Seg \cup {NoSeg}, word : Int, bit : Int,
                                  blkptr : (Seg \cup {NoSeg}) \X Int]
      BY <2>3 DEF FreshPointer, Pointer
    <3>2. QED
      BY <2>1, <3>1, SweptType
  <2>5. /\ freelist' \in [Klass -> SUBSET Seg] /\ seglist' \in [Klass -> SUBSET Seg]
        /\ segmentList' \in SUBSET Seg
    BY <2>1, <2>2, <2>3, SweptType DEF TypeOK
  <2>6. QED
    BY <1>3, <2>2, <2>4, <2>5 DEF SweepExpand, Resume, TypeOK, PCs, bitmaps
<1>4. CASE SweepAbort
  BY <1>4 DEF SweepAbort, TypeOK, PCs, lists, bitmaps
<1>5. ASSUME NEW k \in Klass, NEW a \in live, Mark(k, a[1], a[2])
      PROVE  TypeOK'
  <2>1. a[1] \in Seg /\ a[2] \in Int /\ a[2] \div Bits \in Int
    BY <1>5, SizeAssumption DEF Mark, Block, TypeOK
  <2>2. bm0' \in [Seg -> SUBSET Int] /\ live_count' \in [Seg -> Int]
    BY <1>5, <2>1 DEF Mark, TypeOK
  <2>3. bm1' \in [Seg -> SUBSET Int]
    <3>1. ({a[2] \div Bits} \cap (0 .. L1Limit[k] - 1)) \subseteq Int
      BY <2>1
    <3>2. QED
      BY <1>5, <2>1, <3>1 DEF Mark, TypeOK
  <2>4. QED
    BY <1>5, <2>2, <2>3 DEF Mark, TypeOK, lists
<1>6. QED
  BY <1>1, <1>2, <1>3, <1>4, <1>5 DEF Collect

(* Types of the heap hold in every reachable state, whatever the sizes; with *)
(* them: a sweep resumes an allocation only if one waits.                     *)
THEOREM TypeCorrect == Spec => []TypeOK
<1>1. Init => TypeOK
  BY SizeAssumption, PoolAssumption
     DEF Init, TypeOK, PCs, FreshPointer, Pointer, Null
<1>2. TypeOK /\ [Next]_vars => TypeOK'
  <2> SUFFICES ASSUME TypeOK, [Next]_vars PROVE TypeOK'
    OBVIOUS
  <2>1. CASE \E k \in Klass : tryAlloc(k)
    BY <2>1, AllocType
  <2>2. CASE \E a \in live : Drop(a)
    BY <2>2 DEF Drop, TypeOK, PCs, lists, bitmaps
  <2>0. CASE new_Object
    BY <2>0 DEF new_Object, TypeOK, PCs, lists, bitmaps, Null
  <2>3. CASE SystemGc
    BY <2>3 DEF SystemGc, TypeOK, PCs, lists, bitmaps
  <2>4. CASE Collect
    BY <2>4, CollectType
  <2>5. CASE BMGC_exit
    BY <2>5 DEF BMGC_exit, TypeOK, PCs, lists
  <2>6. CASE UNCHANGED vars
    BY <2>6 DEF vars, TypeOK, lists, bitmaps
  <2>7. QED
    BY <2>0, <2>1, <2>2, <2>3, <2>4, <2>5, <2>6 DEF Next
<1>3. QED
  BY <1>1, <1>2, PTL DEF Spec

-----------------------------------------------------------------------------
(* Ownership of segments.  A sub-heap's lists and pointer change in three ways: *)
(* not at all, by popping free segments, or by taking a segment nobody owns.    *)
LEMMA KeepOwnership ==
  ASSUME TypeOK, OwnershipInv, UNCHANGED <<segmentList, pools, seglist>>,
         \A k \in Klass : /\ freelist'[k] \subseteq seglist[k]
                         /\ p'[k].seg \in seglist[k] \cup {NoSeg}
                         /\ p'[k].seg \notin freelist'[k],
         \A s \in Seg \ Owned : live_count'[s] = live_count[s] /\ bm0'[s] = bm0[s]
  PROVE  OwnershipInv'
BY DEF OwnershipInv, SegmentOwnership, Owned, Mapped

LEMMA HandOutOwnership ==
  ASSUME TypeOK, OwnershipInv, NEW k \in Klass, NEW blk, NEW w, NEW b,
         NEW s \in seglist[k], HandOut(k, blk, s, w, b),
         UNCHANGED <<segmentList, pools, seglist>>,
         freelist' = [freelist EXCEPT ![k] = freelist'[k]],
         freelist'[k] \subseteq freelist[k] \ {s}
  PROVE  OwnershipInv'
<1>1. s \in Seg /\ s \in Owned
  BY DEF TypeOK, Owned
<1>2. \A t \in Seg \ Owned : live_count'[t] = live_count[t] /\ bm0'[t] = bm0[t]
  BY <1>1 DEF HandOut, TypeOK
<1>3. p'[k].seg = s /\ \A j \in Klass : j # k => p'[j] = p[j]
  BY DEF HandOut, TypeOK, Pointer
<1>4. \A j \in Klass : j # k => freelist'[j] = freelist[j]
  BY DEF TypeOK
<1>5. \A j \in Klass : /\ freelist'[j] \subseteq seglist[j]
                       /\ p'[j].seg \in seglist[j] \cup {NoSeg}
                       /\ p'[j].seg \notin freelist'[j]
  BY <1>3, <1>4 DEF OwnershipInv, SegmentOwnership
<1>6. QED
  BY <1>2, <1>5, KeepOwnership

LEMMA NewSegmentOwnership ==
  ASSUME TypeOK, OwnershipInv, NEW k \in Klass, AllocNewSegment(k)
  PROVE  OwnershipInv'
<1>1. PICK s \in segmentList :
        /\ segmentList' = segmentList \ {s}
        /\ seglist' = [seglist EXCEPT ![k] = @ \cup {s}]
        /\ freelist' = [freelist EXCEPT ![k] = {}]
        /\ HandOut(k, <<s, 1>>, s, 0, 1)
  BY DEF AllocNewSegment
<1>2. s \in Seg /\ s \notin Owned /\ pools' = pools
  BY DEF AllocNewSegment, OwnershipInv, SegmentOwnership, Owned, TypeOK
<1>3. /\ seglist'[k] = seglist[k] \cup {s} /\ freelist'[k] = {} /\ p'[k].seg = s
      /\ \A j \in Klass : j # k => /\ seglist'[j] = seglist[j] /\ p'[j] = p[j]
                                  /\ freelist'[j] = freelist[j]
  BY <1>1, <1>2 DEF HandOut, TypeOK, Pointer
<1>4. Owned' = Owned \cup {s}
  BY <1>3 DEF Owned
<1>5. \A t \in Seg \ {s} : live_count'[t] = live_count[t] /\ bm0'[t] = bm0[t]
  BY <1>1, <1>2 DEF HandOut, TypeOK
<1>6. Mapped' = Mapped
  BY <1>2 DEF Mapped
<1>7. SegmentOwnership'
  <2>1. \A i, j \in Klass : i # j => seglist'[i] \cap seglist'[j] = {}
    BY <1>2, <1>3 DEF OwnershipInv, SegmentOwnership, Owned
  <2>2. \A j \in Klass : /\ seglist'[j] \cap segmentList' = {}
                         /\ freelist'[j] \subseteq seglist'[j]
                         /\ p'[j].seg \in seglist'[j] \cup {NoSeg}
                         /\ p'[j].seg \notin freelist'[j]
    BY <1>1, <1>2, <1>3 DEF OwnershipInv, SegmentOwnership
  <2>3. \A t \in Seg \ Owned' : live_count'[t] = 0 /\ bm0'[t] = {Header}
    BY <1>4, <1>5 DEF OwnershipInv, SegmentOwnership
  <2>4. QED
    BY <2>1, <2>2, <2>3 DEF SegmentOwnership
<1>8. QED
  BY <1>1, <1>4, <1>6, <1>7 DEF OwnershipInv

LEMMA AllocOwnership ==
  ASSUME TypeOK, OwnershipInv, NEW k \in Klass, tryAlloc(k)
  PROVE  OwnershipInv'
<1>1. CASE AllocHere(k)
  <2>1. /\ HandOut(k, p[k].blkptr, p[k].seg, p[k].word, p[k].bit)
        /\ p[k].seg \in seglist[k] /\ p[k].seg \notin freelist[k]
        /\ UNCHANGED lists
    BY <1>1 DEF AllocHere, OwnershipInv, SegmentOwnership
  <2>2. /\ freelist' = [freelist EXCEPT ![k] = freelist'[k]]
        /\ freelist'[k] \subseteq freelist[k] \ {p[k].seg}
    BY <2>1 DEF lists, TypeOK
  <2>3. QED
    BY <2>1, <2>2, HandOutOwnership DEF lists
<1>2. CASE AllocNext(k)
  <2>1. PICK word, bit, blk : HandOut(k, blk, p[k].seg, word, bit)
    BY <1>2 DEF AllocNext, HandOutFound
  <2>2. /\ p[k].seg \in seglist[k] /\ p[k].seg \notin freelist[k]
        /\ UNCHANGED lists
    BY <1>2 DEF AllocNext, Here, OwnershipInv, SegmentOwnership
  <2>3. /\ freelist' = [freelist EXCEPT ![k] = freelist'[k]]
        /\ freelist'[k] \subseteq freelist[k] \ {p[k].seg}
    BY <2>2 DEF lists, TypeOK
  <2>4. QED
    BY <2>1, <2>2, <2>3, HandOutOwnership DEF lists
<1>3. CASE AllocFreeSegment(k)
  <2>1. PICK s \in freelist[k], S \in SUBSET freelist[k] :
          /\ HandOutFound(k, s, 0, 0)
          /\ freelist' = [freelist EXCEPT ![k] = @ \ (S \cup {s})]
    BY <1>3 DEF AllocFreeSegment
  <2>2. PICK word, bit, blk : HandOut(k, blk, s, word, bit)
    BY <2>1 DEF HandOutFound
  <2>3. s \in seglist[k]
    BY DEF OwnershipInv, SegmentOwnership
  <2>4. /\ freelist' = [freelist EXCEPT ![k] = freelist'[k]]
        /\ freelist'[k] \subseteq freelist[k] \ {s}
    BY <2>1 DEF TypeOK
  <2>5. UNCHANGED <<segmentList, pools, seglist>>
    BY <1>3 DEF AllocFreeSegment
  <2>6. QED
    BY <2>2, <2>3, <2>4, <2>5, HandOutOwnership
<1>4. CASE AllocNewSegment(k)
  BY <1>4, NewSegmentOwnership
<1>5. CASE AllocFail(k)
  <2>1. PICK s \in IF freelist[k] = {} THEN {p[k].seg} ELSE freelist[k] :
          p' = [p EXCEPT ![k] = Pointer(s, IF s = p[k].seg THEN p[k].word ELSE 0,
                                        NoBit, p[k].blkptr)]
    BY <1>5 DEF AllocFail
  <2>2. s \in seglist[k] \cup {NoSeg}
    BY DEF OwnershipInv, SegmentOwnership
  <2>3. /\ p'[k].seg = s /\ \A j \in Klass : j # k => p'[j] = p[j]
        /\ freelist' = [freelist EXCEPT ![k] = {}]
    BY <1>5, <2>1 DEF AllocFail, TypeOK, Pointer
  <2>4. \A j \in Klass : /\ freelist'[j] \subseteq seglist[j]
                         /\ p'[j].seg \in seglist[j] \cup {NoSeg}
                         /\ p'[j].seg \notin freelist'[j]
    BY <2>2, <2>3 DEF OwnershipInv, SegmentOwnership, TypeOK
  <2>5. QED
    BY <1>5, <2>4, KeepOwnership DEF AllocFail
<1>6. CASE AllocNull(k)
  BY <1>6, KeepOwnership DEF AllocNull, lists, bitmaps, OwnershipInv, SegmentOwnership
<1>7. QED
  BY <1>1, <1>2, <1>3, <1>4, <1>5, <1>6 DEF tryAlloc

(* What the sweep leaves a sub-heap that gets no new segment. *)
LEMMA SweptOwnership ==
  ASSUME TypeOK, OwnershipInv, NEW f \in Fetches, NEW k \in Klass
  PROVE  /\ SweptFreelist(k, f) \subseteq seglist[k]
         /\ k \in Full => SweptFreelist(k, f) = {}
         /\ k \notin Full => /\ SweptPointer(k, f).seg \in seglist[k] \cup {NoSeg}
                           /\ SweptPointer(k, f).seg \notin SweptFreelist(k, f)
<1>1. CASE k \notin Rearranged
  <2>1. f[k] = NoSeg /\ k \notin Full
    BY <1>1 DEF Fetches, Full, isFull
  <2>2. QED
    BY <1>1, <2>1 DEF SweptFreelist, SweptPointer, OwnershipInv, SegmentOwnership
<1>2. CASE k \in Rearranged /\ Unfilled(k) # {}
  <2>1. f[k] \in Unfilled(k)
    BY <1>2 DEF Fetches
  <2>2. f[k] \in seglist[k] /\ f[k] # NoSeg
    BY <2>1, PoolAssumption DEF Unfilled, TypeOK
  <2>3. SweptPointer(k, f).seg = f[k]
    BY <2>2 DEF SweptPointer, FreshPointer, Pointer
  <2>4. SweptFreelist(k, f) = Unfilled(k) \ {f[k]}
    BY <1>2 DEF SweptFreelist
  <2>5. k \in Full => \E s \in Unfilled(k) : Unfilled(k) = {s}
    BY <1>2 DEF Full, isFull
  <2>6. QED
    BY <2>1, <2>2, <2>3, <2>4, <2>5 DEF Unfilled
<1>3. CASE k \in Rearranged /\ Unfilled(k) = {}
  BY <1>3 DEF SweptFreelist, Full, isFull
<1>4. QED
  BY <1>1, <1>2, <1>3

(* An expansion brings segments that nobody owns. *)
LEMMA NewPoolUnowned ==
  ASSUME TypeOK, OwnershipInv, pools < MaxPool
  PROVE  Pool[pools + 1] \subseteq Seg \ Owned
<1>1. pools \in 1..MaxPool /\ pools + 1 \in 1..MaxPool
  BY SizeAssumption DEF TypeOK
<1>2. \A n \in 1..pools : n \in 1..MaxPool /\ n # pools + 1
  BY <1>1, SizeAssumption
<1>3. \A n \in 1..pools : Pool[pools + 1] \cap Pool[n] = {}
  BY <1>1, <1>2, PoolAssumption
<1>4. Pool[pools + 1] \cap Mapped = {}
  BY <1>3 DEF Mapped
<1>5. QED
  BY <1>1, <1>4, PoolAssumption DEF OwnershipInv

LEMMA ExpandOwnership ==
  ASSUME TypeOK, OwnershipInv, SweepExpand
  PROVE  OwnershipInv'
<1>1. PICK f \in Fetches, g \in [Full -> Pool[pools + 1]] :
       /\ \A j, k \in Full : j # k => g[j] # g[k]
       /\ segmentList' = Pool[pools + 1] \ {g[k] : k \in Full}
       /\ p' = [k \in Klass |-> IF k \in Full THEN FreshPointer(g[k], <<g[k], 1>>)
                                             ELSE SweptPointer(k, f)]
       /\ seglist' = [k \in Klass |-> IF k \in Full THEN seglist[k] \cup {g[k]}
                                                   ELSE seglist[k]]
       /\ freelist' = [k \in Klass |-> SweptFreelist(k, f)]
  BY DEF SweepExpand
<1>2. /\ pools \in 1..MaxPool /\ pools + 1 \in 1..MaxPool /\ pools' = pools + 1
      /\ UNCHANGED bitmaps
  BY SizeAssumption DEF SweepExpand, TypeOK
<1>4. /\ \A k \in Full : g[k] \in Pool[pools + 1]
      /\ Pool[pools + 1] \subseteq Seg
      /\ Pool[pools + 1] \cap Owned = {}
  BY <1>1, NewPoolUnowned DEF SweepExpand
<1>5. Mapped' = Mapped \cup Pool[pools + 1]
  <2>1. 1..(pools + 1) = (1..pools) \cup {pools + 1}
    BY <1>2
  <2>2. QED
    BY <1>2, <2>1 DEF Mapped
<1>6. \A k \in Klass : /\ k \in Full => seglist'[k] = seglist[k] \cup {g[k]}
                       /\ k \notin Full => seglist'[k] = seglist[k]
  BY <1>1
<1>7. \A k \in Klass : /\ seglist'[k] \subseteq seglist[k] \cup Pool[pools + 1]
                       /\ seglist[k] \subseteq seglist'[k]
  <2> SUFFICES ASSUME NEW k \in Klass
               PROVE  /\ seglist'[k] \subseteq seglist[k] \cup Pool[pools + 1]
                      /\ seglist[k] \subseteq seglist'[k]
    OBVIOUS
  <2>1. CASE k \in Full
    BY <1>4, <1>6, <2>1
  <2>2. CASE k \notin Full
    BY <1>6, <2>2
  <2>3. QED
    BY <2>1, <2>2
<1>8. Owned' \subseteq Owned \cup Pool[pools + 1] /\ Owned \subseteq Owned'
  BY <1>7 DEF Owned
<1>9. \A i, j \in Klass : i # j => seglist'[i] \cap seglist'[j] = {}
  <2> SUFFICES ASSUME NEW i \in Klass, NEW j \in Klass, i # j,
                      NEW s \in seglist'[i] \cap seglist'[j]
               PROVE  FALSE
    OBVIOUS
  <2>1. CASE s \in Owned
    <3>1. s \in seglist[i] /\ s \in seglist[j]
      <4>1. \A k \in Full : s # g[k]
        BY <1>4, <2>1
      <4>2. \A k \in Klass : s \in seglist'[k] => s \in seglist[k]
        BY <1>6, <4>1
      <4>3. QED
        BY <4>2
    <3>2. QED
      BY <3>1 DEF OwnershipInv, SegmentOwnership
  <2>2. CASE s \notin Owned
    <3>1. s \notin seglist[i] /\ s \notin seglist[j]
      BY <2>2 DEF Owned
    <3>2. i \in Full /\ j \in Full /\ s = g[i] /\ s = g[j]
      BY <1>6, <3>1
    <3>3. QED
      BY <1>1, <3>2
  <2>3. QED
    BY <2>1, <2>2
<1>10. ASSUME NEW k \in Klass
       PROVE  /\ seglist'[k] \cap segmentList' = {}
              /\ freelist'[k] \subseteq seglist'[k]
              /\ p'[k].seg \in seglist'[k] \cup {NoSeg}
              /\ p'[k].seg \notin freelist'[k]
  <2>1. seglist[k] \subseteq Owned
    BY DEF Owned
  <2>2. seglist'[k] \cap segmentList' = {}
    BY <1>1, <1>4, <1>6, <2>1
  <2>3. freelist'[k] = SweptFreelist(k, f) /\ freelist'[k] \subseteq seglist'[k]
    BY <1>1, <1>7, SweptOwnership
  <2>4. CASE k \in Full
    <3>1. p'[k].seg = g[k] /\ g[k] \in seglist'[k] /\ freelist'[k] = {}
      BY <1>1, <1>6, <2>3, <2>4, SweptOwnership DEF FreshPointer, Pointer
    <3>2. QED
      BY <2>2, <2>3, <3>1
  <2>5. CASE k \notin Full
    BY <1>1, <1>6, <2>2, <2>3, <2>5, SweptOwnership
  <2>6. QED
    BY <2>4, <2>5
<1>11. \A s \in Seg \ Owned' : live_count'[s] = 0 /\ bm0'[s] = {Header}
  BY <1>2, <1>8 DEF OwnershipInv, SegmentOwnership, bitmaps
<1>12. Owned' \cup segmentList' \subseteq Mapped'
  BY <1>1, <1>5, <1>8 DEF OwnershipInv
<1>13. QED
  BY <1>9, <1>10, <1>11, <1>12 DEF OwnershipInv, SegmentOwnership

LEMMA CollectOwnership ==
  ASSUME TypeOK, OwnershipInv, Collect
  PROVE  OwnershipInv'
<1>1. CASE GcInit
  BY <1>1, KeepOwnership DEF GcInit, lists, OwnershipInv, SegmentOwnership
<1>2. CASE Sweep
  <2>1. PICK f \in Fetches :
          /\ p' = [k \in Klass |-> SweptPointer(k, f)]
          /\ freelist' = [k \in Klass |-> SweptFreelist(k, f)]
    BY <1>2 DEF Sweep
  <2>2. Full = {} /\ UNCHANGED <<segmentList, pools, seglist, bm0, live_count>>
    BY <1>2 DEF Sweep, bitmaps
  <2>3. \A k \in Klass : /\ freelist'[k] \subseteq seglist[k]
                         /\ p'[k].seg \in seglist[k] \cup {NoSeg}
                         /\ p'[k].seg \notin freelist'[k]
    BY <2>1, <2>2, SweptOwnership
  <2>4. QED
    BY <2>2, <2>3, KeepOwnership
<1>3. CASE SweepExpand
  BY <1>3, ExpandOwnership
<1>4. CASE SweepAbort
  BY <1>4, KeepOwnership DEF SweepAbort, lists, bitmaps, OwnershipInv, SegmentOwnership
<1>5. ASSUME NEW k \in Klass, NEW a \in live, Mark(k, a[1], a[2])
      PROVE  OwnershipInv'
  <2>1. a[1] \in Owned /\ UNCHANGED <<p, lists>>
    BY <1>5 DEF Mark, Block, Owned
  <2>2. \A s \in Seg \ Owned : live_count'[s] = live_count[s] /\ bm0'[s] = bm0[s]
    BY <1>5, <2>1 DEF Mark, TypeOK
  <2>3. QED
    BY <2>1, <2>2, KeepOwnership DEF lists, OwnershipInv, SegmentOwnership
<1>6. QED
  BY <1>1, <1>2, <1>3, <1>4, <1>5 DEF Collect

LEMMA OwnershipKept == Spec => []OwnershipInv
<1>1. Init => OwnershipInv
  BY SizeAssumption, PoolAssumption
     DEF Init, OwnershipInv, SegmentOwnership, Owned, Mapped, FreshPointer, Pointer
<1>2. TypeOK /\ OwnershipInv /\ [Next]_vars => OwnershipInv'
  <2> SUFFICES ASSUME TypeOK, OwnershipInv, [Next]_vars PROVE OwnershipInv'
    OBVIOUS
  <2>1. CASE \E k \in Klass : tryAlloc(k)
    BY <2>1, AllocOwnership
  <2>2. CASE Collect
    BY <2>2, CollectOwnership
  <2>3. ASSUME UNCHANGED <<p, lists, bitmaps>> PROVE OwnershipInv'
    BY <2>3, KeepOwnership DEF lists, bitmaps, OwnershipInv, SegmentOwnership
  <2>4. CASE \E a \in live : Drop(a)
    BY <2>3, <2>4 DEF Drop
  <2>0. CASE new_Object
    BY <2>3, <2>0 DEF new_Object
  <2>5. CASE SystemGc
    BY <2>3, <2>5 DEF SystemGc
  <2>6. CASE BMGC_exit
    BY <2>6, KeepOwnership DEF BMGC_exit, lists, OwnershipInv, SegmentOwnership
  <2>7. CASE UNCHANGED vars
    BY <2>3, <2>7 DEF vars, lists, bitmaps
  <2>8. QED
    BY <2>0, <2>1, <2>2, <2>4, <2>5, <2>6, <2>7 DEF Next
<1>3. QED
  BY <1>1, <1>2, TypeCorrect, PTL DEF Spec

(* Segment ownership: however allocations, collections and expansions of any  *)
(* number of size classes interleave, no segment is owned twice, every        *)
(* sub-heap allocates from its own segments, and newSegment only ever takes a *)
(* segment nothing was written to.                                            *)
THEOREM SegmentsOwnedOnce == Spec => []SegmentOwnership
<1>1. OwnershipInv => SegmentOwnership
  BY DEF OwnershipInv
<1>2. QED
  BY <1>1, OwnershipKept, PTL

-----------------------------------------------------------------------------
(***************************************************************************)
(* What the bitmaps, the pointers and the counts say of the objects.  The  *)
(* invariant is HeapInv below; the hypothesis []TwoSegments of its         *)
(* theorems excludes the retry of a sub-heap with one segment, which is    *)
(* what the run bmheap_stale_pointer shows to go wrong.                    *)
(***************************************************************************)

(* Words do not overlap. *)
LEMMA Multiples ==
  ASSUME NEW i \in Int, NEW j \in Int, i < j
  PROVE  i * Bits + Bits <= j * Bits
<1>1. Bits \in Nat /\ (j - i - 1) * Bits >= 0
  BY SizeAssumption
<1>2. QED
  BY <1>1

(* An index has one word and one bit. *)
LEMMA SameWord ==
  ASSUME NEW v \in Int, NEW w \in Int, NEW b \in 0 .. Bits - 1, NEW c \in 0 .. Bits - 1,
         v * Bits + b = w * Bits + c
  PROVE  v = w /\ b = c
<1>1. Bits \in Nat /\ v * Bits \in Int /\ w * Bits \in Int
  BY SizeAssumption
<1>2. ~(v < w)
  BY <1>1, Multiples
<1>3. ~(w < v)
  BY <1>1, Multiples
<1>4. QED
  BY <1>1, <1>2, <1>3

(* The word and the bit bitmap_mark computes for an index. *)
LEMMA WordOf ==
  ASSUME NEW i \in Nat
  PROVE  /\ i \div Bits \in Nat /\ i % Bits \in 0 .. Bits - 1
         /\ i = (i \div Bits) * Bits + (i % Bits)
BY SizeAssumption

(* The words above `from' that level 1 does not record have a clear bit. *)
Sound(k, s, from) == \A w \in ClearWords(k, s, from) : ~WordFull(k, s, w)

(* Descending less far asks for less; the same in the next state. *)
LEMMA SoundAbove ==
  ASSUME NEW k, NEW s, NEW from \in Int, NEW to \in Int, from <= to, L1Limit[k] \in Int, Sound(k, s, from)
  PROVE  Sound(k, s, to)
BY DEF Sound, ClearWords

LEMMA SoundAboveNext ==
  ASSUME NEW k, NEW s, NEW from \in Int, NEW to \in Int, from <= to, L1Limit[k] \in Int, Sound(k, s, from)'
  PROVE  Sound(k, s, to)'
BY DEF Sound, ClearWords, WordFull, ClearBits, Marked

(* Beside the header every word that level 1 may not record has a block. *)
LEMMA FreshClear ==
  ASSUME NEW k \in Klass
  PROVE  /\ 1 \in 0 .. Bits - 1 /\ 0 * Bits + 1 # Header /\ ~(0 * Bits + 1 >= Blocks[k])
         /\ \A w \in 1 .. L1Limit[k] - 1 :
              0 \in 0 .. Bits - 1 /\ w * Bits + 0 # Header /\ ~(w * Bits + 0 >= Blocks[k])
<1>1. /\ Bits \in Nat /\ Bits > 1 /\ Blocks[k] \in Nat /\ Blocks[k] > 1 /\ L1Limit[k] \in Nat
  BY SizeAssumption
<1>2. ASSUME NEW w \in 1 .. L1Limit[k] - 1
      PROVE  w * Bits + 0 # Header /\ ~(w * Bits + 0 >= Blocks[k])
  <2>1. (L1Limit[k] - 1 - w) * Bits >= 0 /\ (w - 1) * Bits >= 0
    BY <1>1
  <2>2. w * Bits <= (L1Limit[k] - 1) * Bits /\ w * Bits > 0 /\ w * Bits \in Int
    BY <1>1, <2>1
  <2>3. QED
    BY <1>1, <2>2, SentinelAssumption
<1>3. QED
  BY <1>1, <1>2

(* A segment that was never written, or was cleared for a collection. *)
LEMMA FreshSound ==
  ASSUME NEW k \in Klass, NEW s, bm0[s] = {Header}, bm1[s] = {}
  PROVE  Sound(k, s, -1) /\ CanFind(k, s, 0, 0)
<1>1. 1 \in ClearBits(k, s, 0, 0)
  BY FreshClear DEF ClearBits, Marked
<1>2. ASSUME NEW w \in ClearWords(k, s, -1) PROVE ~WordFull(k, s, w)
  <2>1. w = 0 \/ w \in 1 .. L1Limit[k] - 1
    BY SizeAssumption DEF ClearWords
  <2>2. QED
    BY <1>1, <2>1, FreshClear DEF WordFull, ClearBits, Marked
<1>3. QED
  BY <1>1, <1>2 DEF Sound, CanFind

(* The same of the next state. *)
LEMMA FreshSoundNext ==
  ASSUME NEW k \in Klass, NEW s, bm0'[s] = {Header}, bm1'[s] = {}
  PROVE  Sound(k, s, -1)' /\ CanFind(k, s, 0, 0)'
<1>1. 1 \in ClearBits(k, s, 0, 0)'
  BY FreshClear DEF ClearBits, Marked
<1>2. ASSUME NEW w \in ClearWords(k, s, -1)' PROVE ~WordFull(k, s, w)'
  <2>1. w = 0 \/ w \in 1 .. L1Limit[k] - 1
    BY SizeAssumption DEF ClearWords
  <2>2. QED
    BY <1>1, <2>1, FreshClear DEF WordFull, ClearBits, Marked
<1>3. QED
  BY <1>1, <1>2 DEF Sound, CanFind

(* Setting a bit of word w leaves the other words as they are. *)
LEMMA OtherWords ==
  ASSUME NEW k \in Klass, NEW s, NEW w \in Int, NEW b \in 0 .. Bits - 1,
         bm0'[s] = bm0[s] \cup {w * Bits + b},
         NEW v \in Int, v # w, NEW c \in 0 .. Bits - 1
  PROVE  Marked(k, s, v * Bits + c)' <=> Marked(k, s, v * Bits + c)
<1>1. v * Bits + c # w * Bits + b
  BY SameWord
<1>2. QED
  BY <1>1 DEF Marked

(* Setting a bit of word w leaves the words above `to' sound if w is not one. *)
LEMMA SoundBelow ==
  ASSUME NEW k \in Klass, NEW s, NEW w \in Int, NEW b \in 0 .. Bits - 1,
         bm0'[s] = bm0[s] \cup {w * Bits + b}, bm1[s] \subseteq bm1'[s],
         NEW from \in Int, NEW to \in Int, from <= to, w <= to, Sound(k, s, from)
  PROVE  Sound(k, s, to)'
<1>1. L1Limit[k] \in Nat /\ Bits \in Nat
  BY SizeAssumption
<1>2. ASSUME NEW v \in ClearWords(k, s, to)' PROVE ~WordFull(k, s, v)'
  <2>1. v \in ClearWords(k, s, from) /\ v \in Int /\ v # w
    BY <1>1, <1>2 DEF ClearWords
  <2>2. PICK c \in 0 .. Bits - 1 : ~Marked(k, s, v * Bits + c)
    BY <2>1 DEF Sound, WordFull, ClearBits
  <2>3. ~Marked(k, s, v * Bits + c)'
    BY <2>1, <2>2, OtherWords
  <2>4. QED
    BY <2>3 DEF WordFull, ClearBits
<1>3. QED
  BY <1>2 DEF Sound

-----------------------------------------------------------------------------
(***************************************************************************)
(* The inductive invariant.  A pointer with an empty mask would read as a  *)
(* free block, so that Aimed keeps it in the collection; the blocks it     *)
(* hands out are dead since Kept holds between collections, for which      *)
(* MarkingDone is needed; level 1 is exact while objects are marked and    *)
(* one-sided between collections, as an allocation from the middle of a    *)
(* word records the word although its lower blocks may be free.            *)
(***************************************************************************)
(* The bitmaps of a segment of class k are its own, and counted. *)
Counting(k, s) ==
  /\ Header \in bm0[s] /\ bm0[s] \subseteq 0 .. Blocks[k] - 1
  /\ live_count[s] = Cardinality(bm0[s] \ {Header})

(* Of every segment in use; the others' level 1 was never written. *)
Counted == \A k \in Klass : \A s \in seglist[k] : Counting(k, s)
Unwritten == \A s \in Seg \ Owned : bm1[s] = {}

(* Level 1 while objects are marked, and between collections. *)
Recorded(k, s) == Sound(k, s, -1) /\ \A w \in bm1[s] : WordFull(k, s, w)
SoundFrom(k) ==
  /\ \A s \in freelist[k] : Sound(k, s, 0)
  /\ p[k].seg # NoSeg => Sound(k, p[k].seg, p[k].word)
Summary ==
  /\ pc = "mark" => \A k \in Klass : \A s \in seglist[k] : Recorded(k, s)
  /\ ~Collecting => \A k \in Klass : SoundFrom(k)

(* A pointer names its block, unless it is at a header, and has an empty *)
(* mask only while the collection that fills its sub-heap runs.          *)
Aim(q) ==
  /\ q.word \in Nat /\ q.bit \in NoBit .. Bits - 1
  /\ q.seg # NoSeg /\ q.bit # NoBit =>
       \/ q.word = 0 /\ q.bit = 0
       \/ q.blkptr = <<q.seg, q.word * Bits + q.bit>>
Aimed ==
  \A k \in Klass : /\ Aim(p[k])
                   /\ p[k].bit = NoBit => \/ Collecting /\ req = {k}
                                          \/ pc \in {"oom", "memalign"}

(* Objects lie in blocks; the one that waits for its class in a marked one. *)
Placed ==
  /\ objs \subseteq UNION {Block(k) : k \in Klass} /\ live \subseteq objs
  /\ pc = "init" => /\ temp \notin objs /\ temp[2] \in bm0[temp[1]]
                    /\ \E k \in Klass : temp \in Block(k)

(* Between collections every reachable object is marked. *)
Kept == pc \in {"run", "retry", "init"} => \A a \in live : a[2] \in bm0[a[1]]

(* What the retry finds. *)
Ready ==
  /\ FailsOnlyLow
  /\ pc = "retry" =>
       \E k \in Klass : /\ req = {k} /\ p[k].seg # NoSeg
                        /\ SearchExact(k) => CanFind(k, p[k].seg, p[k].word, p[k].bit)

HeapInv == Counted /\ Unwritten /\ Summary /\ Aimed /\ Placed /\ Kept /\ Ready

-----------------------------------------------------------------------------
(* A free block of a segment of the class is handed out. *)
Given(k, s, w, b) ==
  /\ s \in Seg /\ w \in Nat /\ b \in 0 .. Bits - 1
  /\ ~Marked(k, s, w * Bits + b) /\ Counting(k, s)
  /\ HandOut(k, <<s, w * Bits + b>>, s, w, b)

(* One more block, one more object. *)
LEMMA CountsOne ==
  ASSUME NEW k \in Klass, NEW s, Blocks[k] \in Nat, Counting(k, s),
         NEW i \in 1 .. Blocks[k] - 1, i \notin bm0[s],
         bm0'[s] = bm0[s] \cup {i}, live_count'[s] = live_count[s] + 1
  PROVE  Counting(k, s)'
<1> DEFINE S == bm0[s] \ {Header}
<1>1. IsFiniteSet(S)
  <2>1. IsFiniteSet(0 .. Blocks[k] - 1)
    <3>1. 0 \in Int /\ Blocks[k] - 1 \in Int
      OBVIOUS
    <3>2. QED
      BY <3>1, FS_Interval
  <2>2. QED
    BY <2>1, FS_Subset DEF Counting
<1>2. Cardinality(S \cup {i}) = Cardinality(S) + 1
  BY <1>1, FS_AddElement
<1>3. bm0'[s] \ {Header} = S \cup {i}
  OBVIOUS
<1>4. Cardinality(bm0'[s] \ {Header}) = live_count'[s]
  BY <1>2, <1>3 DEF Counting
<1>5. Header \in bm0'[s] /\ bm0'[s] \subseteq 0 .. Blocks[k] - 1
  BY DEF Counting
<1> HIDE DEF S
<1>6. QED
  BY <1>4, <1>5 DEF Counting

(* The block is none that was marked, and is marked now. *)
LEMMA GivenBlock ==
  ASSUME TypeOK, NEW k \in Klass, NEW s, NEW w, NEW b, Given(k, s, w, b)
  PROVE  /\ w * Bits + b \in 1 .. Blocks[k] - 1 /\ w * Bits + b \notin bm0[s]
         /\ bm0'[s] = bm0[s] \cup {w * Bits + b} /\ Counting(k, s)'
         /\ \A t \in Seg : bm0[t] \subseteq bm0'[t]
         /\ \A t \in Seg \ {s} : bm0'[t] = bm0[t] /\ live_count'[t] = live_count[t]
<1> DEFINE i == w * Bits + b
<1>1. /\ s \in Seg /\ w \in Nat /\ b \in 0 .. Bits - 1 /\ Counting(k, s)
      /\ Bits \in Nat /\ Blocks[k] \in Nat /\ bm0 \in [Seg -> SUBSET Int]
      /\ live_count \in [Seg -> Int]
  BY SizeAssumption DEF Given, TypeOK
<1>2. i \in Nat
  <2>1. w * Bits \in Nat
    BY <1>1
  <2>2. QED
    BY <1>1, <2>1
<1>3. i \notin bm0[s] /\ i < Blocks[k]
  BY <1>1, <1>2 DEF Given, Marked
<1>4. i \in 1 .. Blocks[k] - 1
  BY <1>1, <1>2, <1>3 DEF Counting
<1>5. /\ bm0' = [bm0 EXCEPT ![s] = @ \cup {i}]
      /\ live_count' = [live_count EXCEPT ![s] = @ + 1]
  <2>1. b # NoBit
    BY <1>1
  <2>2. QED
    BY <2>1 DEF Given, HandOut
<1> HIDE DEF i
<1>6. bm0'[s] = bm0[s] \cup {i} /\ live_count'[s] = live_count[s] + 1
  BY <1>1, <1>5
<1>7. Counting(k, s)'
  BY <1>1, <1>3, <1>4, <1>6, CountsOne
<1>8. /\ \A t \in Seg : bm0[t] \subseteq bm0'[t]
      /\ \A t \in Seg \ {s} : bm0'[t] = bm0[t] /\ live_count'[t] = live_count[t]
  BY <1>1, <1>5
<1>9. QED
  BY <1>3, <1>4, <1>6, <1>7, <1>8 DEF i

(* Where the pointer is left: behind the block, and at its index. *)
LEMMA GivenPointer ==
  ASSUME TypeOK, NEW k \in Klass, NEW s, NEW w, NEW b, Given(k, s, w, b)
  PROVE  /\ Aim(p'[k]) /\ p'[k].bit # NoBit /\ p'[k].seg = s /\ w <= p'[k].word
         /\ \A j \in Klass : j # k => p'[j] = p[j]
<1>1. /\ s \in Seg /\ w \in Nat /\ b \in 0 .. Bits - 1 /\ b # NoBit
      /\ Bits \in Nat /\ w * Bits \in Int /\ (w + 1) * Bits = w * Bits + Bits
  BY SizeAssumption DEF Given
<1> DEFINE next == <<s, w * Bits + b + 1>>
<1>2. p' = [p EXCEPT ![k] = IF b = Bits - 1 THEN Pointer(s, w + 1, 0, next)
                                            ELSE Pointer(s, w, b + 1, next)]
  BY <1>1 DEF Given, HandOut
<1>3. /\ \A j \in Klass : j # k => p'[j] = p[j]
      /\ p'[k] = IF b = Bits - 1 THEN Pointer(s, w + 1, 0, next) ELSE Pointer(s, w, b + 1, next)
  BY <1>2 DEF TypeOK
<1>4. CASE b = Bits - 1
  <2>1. p'[k] = Pointer(s, w + 1, 0, <<s, (w + 1) * Bits + 0>>)
    BY <1>1, <1>3, <1>4
  <2>2. QED
    BY <1>1, <1>3, <2>1 DEF Pointer, Aim
<1>5. CASE b # Bits - 1
  <2>1. p'[k] = Pointer(s, w, b + 1, <<s, w * Bits + (b + 1)>>)
    BY <1>1, <1>3, <1>5
  <2>2. QED
    BY <1>1, <1>3, <1>5, <2>1 DEF Pointer, Aim
<1>6. QED
  BY <1>4, <1>5

(* All that does not depend on where the segment comes from. *)
LEMMA GivenKeeps ==
  ASSUME TypeOK, OwnershipInv, OwnershipInv', HeapInv, NEW k \in Klass, NEW s, NEW w, NEW b,
         Allocating(k), Given(k, s, w, b), s \in seglist'[k],
         \A j \in Klass : /\ seglist[j] \subseteq seglist'[j]
                         /\ seglist'[j] \subseteq seglist[j] \cup {s},
         \A t \in Seg \ Owned' : bm1'[t] = bm1[t]
  PROVE  Counted' /\ Unwritten' /\ Aimed' /\ Placed' /\ Kept' /\ Ready'
<1> DEFINE blk == <<s, w * Bits + b>>
<1>1. /\ w * Bits + b \in 1 .. Blocks[k] - 1 /\ w * Bits + b \notin bm0[s]
      /\ bm0'[s] = bm0[s] \cup {w * Bits + b} /\ Counting(k, s)'
      /\ \A t \in Seg : bm0[t] \subseteq bm0'[t]
      /\ \A t \in Seg \ {s} : bm0'[t] = bm0[t] /\ live_count'[t] = live_count[t]
  BY GivenBlock
<1>2. /\ s \in Seg /\ pc \in {"run", "retry"} /\ pc' = "init" /\ temp' = blk
      /\ objs' = objs \ {blk} /\ live' = live
  BY DEF Given, HandOut, Allocating
<1>3. Counted'
  <2> SUFFICES ASSUME NEW j \in Klass, NEW t \in seglist'[j] PROVE Counting(j, t)'
    BY DEF Counted
  <2>1. CASE t = s
    <3>1. j = k
      BY <2>1 DEF OwnershipInv, SegmentOwnership
    <3>2. QED
      BY <1>1, <2>1, <3>1
  <2>2. CASE t # s
    <3>1. t \in seglist[j] /\ t \in Seg
      BY <2>2 DEF TypeOK
    <3>2. QED
      BY <1>1, <2>2, <3>1 DEF HeapInv, Counted, Counting
  <2>3. QED
    BY <2>1, <2>2
<1>4. Unwritten'
  BY DEF HeapInv, Unwritten, Owned
<1>5. Aimed'
  <2>1. /\ Aim(p'[k]) /\ p'[k].bit # NoBit
        /\ \A j \in Klass : j # k => p'[j] = p[j]
    BY GivenPointer
  <2>2. \A j \in Klass : Aim(p[j]) /\ p[j].bit # NoBit
    BY <1>2 DEF HeapInv, Aimed, Collecting
  <2>3. \A j \in Klass : Aim(p'[j]) /\ p'[j].bit # NoBit
    BY <2>1, <2>2
  <2>4. QED
    BY <2>3 DEF Aimed, Aim
<1>6. Placed'
  <2>1. blk \in Block(k)'
    BY <1>1 DEF Block
  <2>2. \A j \in Klass : Block(j) \subseteq Block(j)'
    BY DEF Block
  <2>3. blk \notin live
    BY <1>1, <1>2 DEF HeapInv, Kept
  <2>4. blk[2] \in bm0'[blk[1]]
    BY <1>1
  <2> HIDE DEF blk
  <2>5. UNION {Block(j) : j \in Klass} \subseteq UNION {Block(j)' : j \in Klass}
    BY <2>2
  <2>6. QED
    BY <1>2, <2>1, <2>3, <2>4, <2>5 DEF HeapInv, Placed
<1>7. Kept'
  <2>1. \A a \in live : a[1] \in Seg
    BY DEF HeapInv, Placed, Block, TypeOK
  <2>2. QED
    BY <1>1, <1>2, <2>1 DEF HeapInv, Kept
<1>8. Ready'
  BY <1>2 DEF Ready, FailsOnlyLow
<1>9. QED
  BY <1>3, <1>4, <1>5, <1>6, <1>7, <1>8

-----------------------------------------------------------------------------
(* Bitmaps that do not change stay sound. *)
LEMMA SoundSame ==
  ASSUME NEW k, NEW s, NEW from, bm0'[s] = bm0[s], bm1'[s] = bm1[s], Sound(k, s, from)
  PROVE  Sound(k, s, from)'
BY DEF Sound, ClearWords, WordFull, ClearBits, Marked

(* SoundFrom of the next state, from its segments one by one. *)
LEMMA SoundFromNext ==
  ASSUME NEW k \in Klass, \A t \in freelist'[k] : Sound(k, t, 0)',
         \A u, n : u = p'[k].seg /\ n = p'[k].word /\ u # NoSeg => Sound(k, u, n)'
  PROVE  SoundFrom(k)'
BY DEF SoundFrom, Sound, ClearWords, WordFull, ClearBits, Marked

(* The block found is free, and in the word where the search started or above. *)
LEMMA FoundGiven ==
  ASSUME TypeOK, NEW k \in Klass, NEW s \in Seg, Counting(k, s), NEW w \in Nat,
         NEW b \in 0 .. Bits - 1, Sound(k, s, w), CanFind(k, s, w, b), HandOutFound(k, s, w, b)
  PROVE  \E word, bit : Given(k, s, word, bit) /\ w <= word
<1>1. PICK word \in 0 .. Blocks[k], bit \in NoBit .. Bits - 1 :
        /\ Finds(k, s, w, b, word, bit)
        /\ HandOut(k, <<s, word * Bits + bit>>, s, word, bit)
  BY DEF HandOutFound
<1>2. Blocks[k] \in Nat /\ Bits \in Nat /\ L1Limit[k] \in Nat /\ word \in Nat
  BY SizeAssumption
<1>3. CASE ClearBits(k, s, w, b) # {}
  <2>1. word = w /\ bit \in ClearBits(k, s, w, b)
    BY <1>1, <1>3 DEF Finds, IsFirst
  <2>2. bit \in 0 .. Bits - 1 /\ ~Marked(k, s, word * Bits + bit)
    BY <1>2, <2>1 DEF ClearBits
  <2>3. Given(k, s, word, bit) /\ w <= word
    BY <1>1, <1>2, <2>1, <2>2 DEF Given
  <2>4. QED
    BY <2>3
<1>4. CASE ClearBits(k, s, w, b) = {}
  <2>1. ClearWords(k, s, w) # {} /\ IsFirst(ClearWords(k, s, w), word)
        /\ IsFirst(ClearBits(k, s, word, 0), bit)
    BY <1>1, <1>4 DEF Finds, CanFind
  <2>2. word \in ClearWords(k, s, w)
    BY <2>1 DEF IsFirst
  <2>3. ClearBits(k, s, word, 0) # {} /\ w <= word
    BY <1>2, <2>2 DEF Sound, WordFull, ClearWords
  <2>4. bit \in ClearBits(k, s, word, 0)
    BY <2>1, <2>3 DEF IsFirst
  <2>5. bit \in 0 .. Bits - 1 /\ ~Marked(k, s, word * Bits + bit)
    BY <1>2, <2>4 DEF ClearBits
  <2>6. Given(k, s, word, bit)
    BY <1>1, <1>2, <2>5 DEF Given
  <2>7. QED
    BY <2>3, <2>6
<1>5. QED
  BY <1>3, <1>4

(* Level 1 of the segments that stay in use, when a block is handed out. *)
LEMMA GivenSummary ==
  ASSUME TypeOK, OwnershipInv, OwnershipInv', HeapInv, NEW k \in Klass, NEW s, NEW w, NEW b,
         Allocating(k), Given(k, s, w, b), s \in seglist'[k],
         NEW from \in Int, from <= w, Sound(k, s, from), bm1[s] \subseteq bm1'[s],
         \A t \in freelist'[k] : t \in freelist[k] /\ t # s /\ bm1'[t] = bm1[t],
         \A j \in Klass : j # k => /\ freelist'[j] = freelist[j] /\ seglist'[j] = seglist[j]
                                  /\ \A t \in seglist[j] : bm1'[t] = bm1[t]
  PROVE  Summary'
<1>1. /\ s \in Seg /\ w \in Nat /\ b \in 0 .. Bits - 1 /\ pc' = "init" /\ ~Collecting
      /\ \A j \in Klass : SoundFrom(j)
  BY DEF Given, HandOut, Allocating, HeapInv, Summary, Collecting
<1>2. /\ bm0'[s] = bm0[s] \cup {w * Bits + b}
      /\ \A t \in Seg \ {s} : bm0'[t] = bm0[t]
  BY GivenBlock
<1>3. /\ Aim(p'[k]) /\ p'[k].seg = s /\ w <= p'[k].word
      /\ \A j \in Klass : j # k => p'[j] = p[j]
  BY GivenPointer
<1>4. SoundFrom(k)'
  <2>1. ASSUME NEW n, n = p'[k].word PROVE Sound(k, s, n)'
    <3>1. n \in Int /\ from <= n /\ w <= n /\ w \in Int
      BY <1>1, <1>3, <2>1 DEF Aim
    <3>2. QED
      BY <1>1, <1>2, <3>1, SoundBelow
  <2>2. ASSUME NEW t \in freelist'[k] PROVE Sound(k, t, 0)'
    <3>1. /\ t \in Seg \ {s} /\ bm0'[t] = bm0[t] /\ bm1'[t] = bm1[t] /\ Sound(k, t, 0)
      BY <1>1, <1>2, <2>2 DEF SoundFrom, TypeOK
    <3>2. QED
      BY <3>1, SoundSame
  <2>3. QED
    BY <1>3, <2>1, <2>2, SoundFromNext
<1>5. ASSUME NEW j \in Klass, j # k PROVE SoundFrom(j)'
  <2>1. \A t \in seglist[j] : /\ t \in Seg \ {s} /\ bm0'[t] = bm0[t] /\ bm1'[t] = bm1[t]
    BY <1>2, <1>5 DEF OwnershipInv, SegmentOwnership, TypeOK
  <2>2. /\ freelist'[j] = freelist[j] /\ freelist[j] \subseteq seglist[j] /\ p'[j] = p[j]
        /\ p[j].seg # NoSeg => p[j].seg \in seglist[j]
    BY <1>3, <1>5 DEF OwnershipInv, SegmentOwnership
  <2>3. \A t \in freelist[j] : Sound(j, t, 0)'
    BY <1>1, <2>1, <2>2, SoundSame DEF SoundFrom
  <2>4. ASSUME NEW u, NEW n, u = p[j].seg, n = p[j].word, u # NoSeg PROVE Sound(j, u, n)'
    <3>1. Sound(j, u, n) /\ bm0'[u] = bm0[u] /\ bm1'[u] = bm1[u]
      BY <1>1, <2>1, <2>2, <2>4 DEF SoundFrom
    <3>2. QED
      BY <3>1, SoundSame
  <2>5. QED
    BY <2>2, <2>3, <2>4, SoundFromNext
<1>6. QED
  BY <1>1, <1>4, <1>5 DEF Summary, Collecting

-----------------------------------------------------------------------------
(* What an allocation can rely on. *)
LEMMA InUse ==
  ASSUME TypeOK, OwnershipInv, HeapInv, NEW k \in Klass, Allocating(k)
  PROVE  /\ p[k].word \in Nat /\ p[k].bit \in 0 .. Bits - 1 /\ Aim(p[k]) /\ ~Collecting
         /\ p[k].seg # NoSeg => /\ p[k].seg \in seglist[k] /\ p[k].seg \in Seg
                                /\ p[k].seg \notin freelist[k]
                                /\ Counting(k, p[k].seg)
                                /\ Sound(k, p[k].seg, p[k].word)
         /\ \A s \in freelist[k] : /\ s \in seglist[k] /\ s \in Seg /\ Counting(k, s)
                                   /\ Sound(k, s, 0)
<1>1. pc \in {"run", "retry"} /\ ~Collecting
  BY DEF Allocating, Collecting
<1>2. Aim(p[k]) /\ p[k].bit # NoBit
  BY <1>1 DEF HeapInv, Aimed
<1>3. p[k].word \in Nat /\ p[k].bit \in 0 .. Bits - 1
  BY <1>2, SizeAssumption DEF Aim
<1>4. SoundFrom(k)
  BY <1>1 DEF HeapInv, Summary
<1>5. /\ p[k].seg # NoSeg => p[k].seg \in seglist[k] /\ p[k].seg \notin freelist[k]
      /\ freelist[k] \subseteq seglist[k] /\ seglist[k] \subseteq Seg
  BY DEF OwnershipInv, SegmentOwnership, TypeOK
<1>6. QED
  BY <1>1, <1>2, <1>3, <1>4, <1>5 DEF HeapInv, Counted, SoundFrom

(* Segments a step on class k leaves alone are those of other classes. *)
LEMMA OthersApart ==
  ASSUME TypeOK, OwnershipInv, NEW k \in Klass, NEW S, S \subseteq seglist[k]
  PROVE  \A j \in Klass : j # k => \A t \in seglist[j] : t \notin S
BY DEF OwnershipInv, SegmentOwnership

(* tryAlloc, one lemma for each of its outcomes. *)
LEMMA AllocHereKeeps ==
  ASSUME TypeOK, OwnershipInv, OwnershipInv', HeapInv, NEW k \in Klass, AllocHere(k)
  PROVE  HeapInv'
<1>1. PICK s, w, b : s = p[k].seg /\ w = p[k].word /\ b = p[k].bit
  OBVIOUS
<1>2. /\ Allocating(k) /\ ~IsMarked(k) /\ s # NoSeg /\ HandOut(k, p[k].blkptr, s, w, b)
      /\ UNCHANGED <<lists, bm1>>
  BY <1>1 DEF AllocHere
<1>3. /\ w \in Nat /\ b \in 0 .. Bits - 1 /\ b # NoBit /\ Aim(p[k])
      /\ s \in seglist[k] /\ s \in Seg /\ s \notin freelist[k]
      /\ Counting(k, s) /\ Sound(k, s, w)
  BY <1>1, <1>2, InUse
<1>4. ~Marked(k, s, w * Bits + b)
  BY <1>1, <1>2, <1>3 DEF IsMarked
<1>5. p[k].blkptr = <<s, w * Bits + b>>
  <2>1. ~(w = 0 /\ b = 0)
    <3>1. SUFFICES ASSUME w = 0, b = 0 PROVE FALSE
      OBVIOUS
    <3>2. w * Bits + b = 0
      BY <3>1, SizeAssumption
    <3>3. QED
      BY <1>3, <1>4, <3>2 DEF Counting, Marked
  <2>2. QED
    BY <1>1, <1>2, <1>3, <2>1 DEF Aim
<1>6. Given(k, s, w, b)
  BY <1>2, <1>3, <1>4, <1>5 DEF Given
<1>7. UNCHANGED <<segmentList, pools, seglist, freelist, bm1>>
  BY <1>2 DEF lists
<1>8. Counted' /\ Unwritten' /\ Aimed' /\ Placed' /\ Kept' /\ Ready'
  BY <1>2, <1>3, <1>6, <1>7, GivenKeeps
<1>9. Summary'
  BY <1>2, <1>3, <1>6, <1>7, GivenSummary
<1>10. QED
  BY <1>8, <1>9 DEF HeapInv

LEMMA AllocNextKeeps ==
  ASSUME TypeOK, OwnershipInv, OwnershipInv', HeapInv, NEW k \in Klass, AllocNext(k)
  PROVE  HeapInv'
<1>1. PICK s, v, c : s = p[k].seg /\ v = p[k].word /\ c = p[k].bit
  OBVIOUS
<1>2. /\ Allocating(k) /\ s # NoSeg /\ CanFind(k, s, v, c) /\ HandOutFound(k, s, v, c)
      /\ bm1' = [bm1 EXCEPT ![s] = Level1(k, s, v, c)]
      /\ UNCHANGED <<segmentList, pools, seglist, freelist>>
  BY <1>1 DEF AllocNext, Here, lists
<1>3. /\ v \in Nat /\ c \in 0 .. Bits - 1
      /\ s \in seglist[k] /\ s \in Seg /\ s \notin freelist[k]
      /\ Counting(k, s) /\ Sound(k, s, v)
  BY <1>1, <1>2, InUse
<1>4. PICK w, b : Given(k, s, w, b) /\ v <= w
  BY <1>2, <1>3, FoundGiven
<1>5. bm1[s] \subseteq bm1'[s] /\ \A t \in Seg \ {s} : bm1'[t] = bm1[t]
  BY <1>2, <1>3 DEF Level1, TypeOK
<1>6. \A j \in Klass : j # k => \A t \in seglist[j] : t \in Seg \ {s}
  BY <1>3, OthersApart DEF TypeOK
<1>7. \A t \in freelist[k] : t \in Seg \ {s}
  BY <1>3 DEF TypeOK
<1>8. \A t \in Seg \ Owned' : bm1'[t] = bm1[t]
  <2>1. s \in Owned'
    BY <1>2, <1>3 DEF Owned
  <2>2. QED
    BY <1>5, <2>1
<1>9. Counted' /\ Unwritten' /\ Aimed' /\ Placed' /\ Kept' /\ Ready'
  BY <1>2, <1>3, <1>4, <1>8, GivenKeeps
<1>10. Summary'
  BY <1>2, <1>3, <1>4, <1>5, <1>6, <1>7, GivenSummary
<1>11. QED
  BY <1>9, <1>10 DEF HeapInv

(* Level 1 only grows when segments are searched. *)
LEMMA ExhaustedGrows ==
  ASSUME TypeOK, NEW k \in Klass, NEW S
  PROVE  \A t \in Seg : /\ bm1[t] \subseteq Exhausted(k, S)[t]
                        /\ t \notin S \cup {p[k].seg} => Exhausted(k, S)[t] = bm1[t]
BY DEF Exhausted, Level1

LEMMA AllocFreeSegmentKeeps ==
  ASSUME TypeOK, OwnershipInv, OwnershipInv', HeapInv, NEW k \in Klass, AllocFreeSegment(k)
  PROVE  HeapInv'
<1>1. PICK s \in freelist[k], S \in SUBSET freelist[k] :
        /\ CanFind(k, s, 0, 0) /\ s \notin S /\ HandOutFound(k, s, 0, 0)
        /\ bm1' = [Exhausted(k, S) EXCEPT ![s] = Level1(k, s, 0, 0)]
        /\ freelist' = [freelist EXCEPT ![k] = @ \ (S \cup {s})]
  BY DEF AllocFreeSegment
<1>2. Allocating(k) /\ UNCHANGED <<segmentList, pools, seglist>>
  BY DEF AllocFreeSegment
<1>3. /\ s \in seglist[k] /\ s \in Seg /\ Counting(k, s) /\ Sound(k, s, 0)
      /\ 0 \in 0 .. Bits - 1 /\ 0 \in Nat
  BY <1>2, InUse, SizeAssumption
<1>4. PICK w, b : Given(k, s, w, b) /\ 0 <= w
  BY <1>1, <1>3, FoundGiven
<1> DEFINE T == S \cup {s, p[k].seg}
<1>5. /\ bm1[s] \subseteq bm1'[s]
      /\ \A t \in Seg : t \notin T => bm1'[t] = bm1[t]
  <2>1. bm1[s] \subseteq Level1(k, s, 0, 0) /\ bm1'[s] = Level1(k, s, 0, 0)
    BY <1>1, <1>3 DEF Level1, Exhausted
  <2>2. \A t \in Seg \ {s} : bm1'[t] = Exhausted(k, S)[t]
    BY <1>1 DEF Exhausted
  <2>3. QED
    BY <2>1, <2>2, ExhaustedGrows
<1>6. \A j \in Klass : j # k => \A t \in seglist[j] : t \in Seg /\ t \notin T
  <2>1. p[k].seg # NoSeg => p[k].seg \in seglist[k]
    BY <1>2, InUse
  <2>2. S \cup {s} \subseteq seglist[k] /\ NoSeg \notin Seg
    BY <1>1, <1>2, InUse, PoolAssumption
  <2>3. QED
    BY <2>1, <2>2 DEF OwnershipInv, SegmentOwnership, TypeOK
<1>7. \A t \in freelist'[k] : t \in freelist[k] /\ t # s /\ t \in Seg /\ t \notin T
  <2>1. freelist'[k] = freelist[k] \ (S \cup {s}) /\ p[k].seg \notin freelist[k]
    BY <1>1 DEF TypeOK, OwnershipInv, SegmentOwnership
  <2>2. QED
    BY <2>1 DEF TypeOK
<1>8. \A t \in Seg \ Owned' : bm1'[t] = bm1[t]
  <2>1. \A t \in T : t = NoSeg \/ t \in Owned'
    <3>1. p[k].seg # NoSeg => p[k].seg \in seglist[k]
      BY <1>2, InUse
    <3>2. S \cup {s} \subseteq seglist[k]
      BY <1>1, <1>2, InUse
    <3>3. QED
      BY <1>2, <3>1, <3>2 DEF Owned
  <2>2. QED
    BY <1>5, <2>1, PoolAssumption
<1>9. \A j \in Klass : j # k => freelist'[j] = freelist[j]
  BY <1>1 DEF TypeOK
<1> HIDE DEF T
<1>10. Counted' /\ Unwritten' /\ Aimed' /\ Placed' /\ Kept' /\ Ready'
  BY <1>2, <1>3, <1>4, <1>8, GivenKeeps
<1>11. Summary'
  BY <1>2, <1>3, <1>4, <1>5, <1>6, <1>7, <1>9, GivenSummary
<1>12. QED
  BY <1>10, <1>11 DEF HeapInv

-----------------------------------------------------------------------------
LEMMA AllocNewSegmentKeeps ==
  ASSUME TypeOK, OwnershipInv, OwnershipInv', HeapInv, NEW k \in Klass, AllocNewSegment(k)
  PROVE  HeapInv'
<1>1. PICK s \in segmentList :
        /\ seglist' = [seglist EXCEPT ![k] = @ \cup {s}]
        /\ freelist' = [freelist EXCEPT ![k] = {}]
        /\ HandOut(k, <<s, 1>>, s, 0, 1)
        /\ bm1' = Exhausted(k, freelist[k])
  BY DEF AllocNewSegment
<1>2. /\ Allocating(k) /\ s \in Seg /\ s \notin Owned
      /\ bm0[s] = {Header} /\ live_count[s] = 0 /\ bm1[s] = {}
  <2>1. Allocating(k) /\ s \in Seg /\ s \notin Owned
    BY DEF AllocNewSegment, OwnershipInv, SegmentOwnership, Owned, TypeOK
  <2>2. QED
    BY <2>1 DEF OwnershipInv, SegmentOwnership, HeapInv, Unwritten
<1>3. Sound(k, s, 0)
  BY <1>2, FreshSound, SoundAbove, SizeAssumption
<1>4. Given(k, s, 0, 1)
  <2>1. 0 * Bits + 1 = 1 /\ 1 \in 0 .. Bits - 1 /\ 0 \in Nat /\ Blocks[k] \in Nat /\ Blocks[k] > 1
    BY SizeAssumption
  <2>2. ~Marked(k, s, 1)
    BY <1>2, <2>1 DEF Marked
  <2>3. Counting(k, s)
    <3>1. bm0[s] \ {Header} = {} /\ Cardinality({}) = 0
      BY <1>2, FS_EmptySet
    <3>2. Cardinality(bm0[s] \ {Header}) = 0
      BY ONLY <3>1, Zenon
    <3>3. Header \in bm0[s] /\ bm0[s] \subseteq 0 .. Blocks[k] - 1
      BY <1>2, <2>1
    <3>4. QED
      BY <1>2, <3>2, <3>3 DEF Counting
  <2>4. QED
    BY <1>1, <1>2, <2>1, <2>2, <2>3 DEF Given
<1>5. /\ seglist'[k] = seglist[k] \cup {s} /\ freelist'[k] = {}
      /\ \A j \in Klass : j # k => seglist'[j] = seglist[j] /\ freelist'[j] = freelist[j]
  BY <1>1 DEF TypeOK
<1> DEFINE T == freelist[k] \cup {p[k].seg}
<1>6. T \subseteq seglist[k] \cup {NoSeg} /\ NoSeg \notin Seg
  BY <1>2, InUse, PoolAssumption
<1>7. \A t \in Seg : bm1[t] \subseteq bm1'[t] /\ (t \notin T => bm1'[t] = bm1[t])
  BY <1>1, ExhaustedGrows
<1> HIDE DEF T
<1>8. \A j \in Klass : j # k => \A t \in seglist[j] : bm1'[t] = bm1[t]
  BY <1>6, <1>7 DEF OwnershipInv, SegmentOwnership, TypeOK
<1>9. \A t \in Seg \ Owned' : bm1'[t] = bm1[t]
  BY <1>5, <1>6, <1>7 DEF Owned
<1>10. \A j \in Klass : /\ seglist[j] \subseteq seglist'[j]
                        /\ seglist'[j] \subseteq seglist[j] \cup {s}
  BY <1>5
<1>11. Counted' /\ Unwritten' /\ Aimed' /\ Placed' /\ Kept' /\ Ready'
  BY <1>2, <1>4, <1>5, <1>9, <1>10, GivenKeeps
<1>12. Summary'
  BY <1>2, <1>3, <1>4, <1>5, <1>7, <1>8, GivenSummary
<1>13. QED
  BY <1>11, <1>12 DEF HeapInv

(* Out of blocks: nothing but level 1 and the free list changes. *)
LEMMA AllocFailKeeps ==
  ASSUME TypeOK, OwnershipInv, OwnershipInv', HeapInv, NEW k \in Klass, AllocFail(k)
  PROVE  HeapInv'
<1>1. /\ Allocating(k) /\ NoFreeSegment(k) /\ req' = {k}
      /\ pc' = IF pc = "run" THEN "clear" ELSE "oom"
      /\ freelist' = [freelist EXCEPT ![k] = {}] /\ bm1' = Exhausted(k, freelist[k])
      /\ UNCHANGED <<segmentList, pools, seglist, bm0, live_count, temp, objs, live>>
  BY DEF AllocFail
<1>2. PICK s \in IF freelist[k] = {} THEN {p[k].seg} ELSE freelist[k] :
        p' = [p EXCEPT ![k] = Pointer(s, IF s = p[k].seg THEN p[k].word ELSE 0,
                                      NoBit, p[k].blkptr)]
  BY DEF AllocFail
<1>3. /\ p[k].word \in Nat /\ ~Collecting
      /\ p[k].seg # NoSeg => p[k].seg \in seglist[k]
      /\ freelist[k] \subseteq seglist[k]
  BY <1>1, InUse
<1>4. Counted'
  BY <1>1 DEF HeapInv, Counted, Counting
<1> DEFINE T == freelist[k] \cup {p[k].seg}
<1>5. T \subseteq seglist[k] \cup {NoSeg} /\ NoSeg \notin Seg
  BY <1>3, PoolAssumption
<1>6. \A t \in Seg : t \notin T => bm1'[t] = bm1[t]
  BY <1>1, ExhaustedGrows
<1> HIDE DEF T
<1>7. Unwritten'
  BY <1>1, <1>5, <1>6 DEF HeapInv, Unwritten, Owned
<1>8. Aimed'
  <2>1. /\ p'[k] = Pointer(s, IF s = p[k].seg THEN p[k].word ELSE 0, NoBit, p[k].blkptr)
        /\ \A j \in Klass : j # k => p'[j] = p[j]
    BY <1>2 DEF TypeOK
  <2>2. p'[k].bit = NoBit /\ p'[k].word \in Nat
    BY <1>3, <2>1 DEF Pointer
  <2>3. Aim(p'[k])
    BY <2>2, SizeAssumption DEF Aim
  <2>4. \A j \in Klass : j # k => Aim(p'[j]) /\ p'[j].bit # NoBit
    BY <1>1, <2>1 DEF HeapInv, Aimed, Allocating, Collecting
  <2>5. req' = {k} /\ (pc' = "clear" \/ pc' = "oom")
    BY <1>1
  <2>6. \A j \in Klass : Aim(p'[j]) /\ (p'[j].bit = NoBit => j = k)
    BY <2>3, <2>4
  <2>7. QED
    BY <2>5, <2>6 DEF Aimed, Aim, Collecting
<1>9. Placed'
  <2>1. \A j \in Klass : Block(j)' = Block(j)
    BY <1>1 DEF Block
  <2>2. UNION {Block(j) : j \in Klass} \subseteq UNION {Block(j)' : j \in Klass}
    BY <2>1
  <2>3. pc' # "init"
    BY <1>1
  <2>4. QED
    BY <1>1, <2>2, <2>3 DEF HeapInv, Placed
<1>10. Kept'
  BY <1>1 DEF Kept
<1>11. Ready' /\ Summary'
  <2>1. CASE pc = "run"
    <3>1. pc' = "clear"
      BY <1>1, <2>1
    <3>2. QED
      BY <3>1 DEF Ready, FailsOnlyLow, Summary, Collecting
  <2>2. CASE pc # "run"
    <3>1. pc = "retry" /\ req = {k} /\ pc' = "oom"
      BY <1>1, <2>2 DEF Allocating
    <3>2. p[k].seg # NoSeg /\ (SearchExact(k) => CanFind(k, p[k].seg, p[k].word, p[k].bit))
      BY <3>1 DEF HeapInv, Ready
    <3>3. ~CanFind(k, p[k].seg, p[k].word, p[k].bit)
      BY <1>1, <3>2 DEF NoFreeSegment, Here
    <3>4. Ready'
      BY <1>1, <3>1, <3>2, <3>3 DEF Ready, FailsOnlyLow, SearchExact
    <3>5. \A j \in Klass : SoundFrom(j)'
      <4>1. ASSUME NEW j \in Klass, j # k PROVE SoundFrom(j)'
        <5>1. /\ p'[j] = p[j] /\ freelist'[j] = freelist[j] /\ SoundFrom(j)
          BY <1>1, <1>2, <1>3, <4>1 DEF TypeOK, HeapInv, Summary
        <5>2. \A t \in freelist[j] \cup ({p[j].seg} \ {NoSeg}) : /\ bm0'[t] = bm0[t] /\ bm1'[t] = bm1[t]
          <6>1. \A t \in freelist[j] \cup ({p[j].seg} \ {NoSeg}) : t \in seglist[j] /\ t \in Seg
            BY <4>1 DEF TypeOK, OwnershipInv, SegmentOwnership
          <6>2. \A t \in seglist[j] : t \notin T
            BY <1>5, <4>1 DEF TypeOK, OwnershipInv, SegmentOwnership
          <6>3. QED
            BY <1>1, <1>6, <6>1, <6>2
        <5>3. \A t \in freelist[j] : Sound(j, t, 0)'
          BY <5>1, <5>2, SoundSame DEF SoundFrom
        <5>4. ASSUME NEW u, NEW n, u = p[j].seg, n = p[j].word, u # NoSeg PROVE Sound(j, u, n)'
          <6>1. Sound(j, u, n) /\ bm0'[u] = bm0[u] /\ bm1'[u] = bm1[u]
            BY <5>1, <5>2, <5>4 DEF SoundFrom
          <6>2. QED
            BY <6>1, SoundSame
        <5>5. QED
          BY <5>1, <5>3, <5>4, SoundFromNext
      <4>2. SoundFrom(k)'
        <5>1. freelist'[k] = {}
          BY <1>1 DEF TypeOK
        <5>2. /\ p'[k].seg = s /\ p'[k].word = IF s = p[k].seg THEN p[k].word ELSE 0
          BY <1>2 DEF Pointer, TypeOK
        <5>3. ASSUME NEW u, NEW n, u = s, n = IF s = p[k].seg THEN p[k].word ELSE 0, u # NoSeg
              PROVE Sound(k, u, n)'
          <6>1. ClearWords(k, u, n) = {}
            <7>1. CASE u = p[k].seg
              BY <3>3, <5>3, <7>1 DEF CanFind
            <7>2. CASE u # p[k].seg
              <8>1. u \in freelist[k] /\ n = 0
                BY <5>3, <7>2
              <8>2. QED
                BY <1>1, <8>1 DEF NoFreeSegment, CanFind
            <7>3. QED
              BY <7>1, <7>2
          <6>2. u \in Seg /\ bm1[u] \subseteq bm1'[u]
            <7>1. u \in Seg
              BY <1>3, <5>3 DEF TypeOK
            <7>2. QED
              BY <1>1, <7>1, ExhaustedGrows
          <6>3. QED
            BY <6>1, <6>2 DEF Sound, ClearWords
        <5>4. QED
          BY <5>1, <5>2, <5>3, SoundFromNext
      <4>3. QED
        BY <4>1, <4>2
    <3>6. QED
      BY <3>1, <3>4, <3>5 DEF Summary
  <2>3. QED
    BY <2>1, <2>2
<1>12. QED
  BY <1>4, <1>7, <1>8, <1>9, <1>10, <1>11 DEF HeapInv

(* A sub-heap that a collection served has a segment. *)
LEMMA AllocNullNever ==
  ASSUME HeapInv, NEW k \in Klass, AllocNull(k)
  PROVE  FALSE
BY DEF HeapInv, Ready, AllocNull

-----------------------------------------------------------------------------
(* A step that moves no pointer, no list and no bit. *)
LEMMA SameHeap ==
  ASSUME HeapInv, UNCHANGED <<p, lists, bitmaps>>
  PROVE  /\ Counted' /\ Unwritten'
         /\ \A k \in Klass : Block(k)' = Block(k)
         /\ (\A k \in Klass : SoundFrom(k)) <=> (\A k \in Klass : SoundFrom(k)')
<1>1. UNCHANGED <<p, seglist, freelist, bm0, bm1, live_count>>
  BY DEF lists, bitmaps
<1>2. \A k, s, n : Sound(k, s, n)' <=> Sound(k, s, n)
  BY <1>1 DEF Sound, ClearWords, WordFull, ClearBits, Marked
<1>3. \A k \in Klass : SoundFrom(k)' <=> SoundFrom(k)
  BY <1>1 DEF SoundFrom, Sound, ClearWords, WordFull, ClearBits, Marked
<1>4. Counted' /\ Unwritten'
  BY <1>1 DEF HeapInv, Counted, Counting, Unwritten, Owned
<1>5. QED
  BY <1>1, <1>3, <1>4 DEF Block

(* Between allocations the pointers stay where they are. *)
LEMMA SameAimed ==
  ASSUME HeapInv, ~Collecting, pc \notin {"oom", "memalign"}, p' = p
  PROVE  Aimed'
<1>1. \A k \in Klass : Aim(p[k]) /\ p[k].bit # NoBit
  BY DEF HeapInv, Aimed
<1>2. QED
  BY <1>1 DEF Aimed, Aim

(* The steps of the program between allocations. *)
LEMMA NewObjectKeeps ==
  ASSUME TypeOK, HeapInv, new_Object
  PROVE  HeapInv'
<1>1. /\ pc = "init" /\ objs' = objs \cup {temp} /\ live' = live \cup {temp}
      /\ UNCHANGED <<req, p, lists, bitmaps>> /\ ~Collecting
  BY DEF new_Object, Collecting
<1>2. temp[2] \in bm0[temp[1]] /\ \E k \in Klass : temp \in Block(k)
  BY <1>1 DEF HeapInv, Placed
<1>3. pc' = "run"
  BY <1>2 DEF new_Object
<1>4. /\ Counted' /\ Unwritten' /\ \A k \in Klass : Block(k)' = Block(k)
      /\ \A k \in Klass : SoundFrom(k)'
  BY <1>1, SameHeap DEF HeapInv, Summary
<1>5. Summary'
  BY <1>3, <1>4 DEF Summary
<1>6. Aimed'
  BY <1>1, SameAimed
<1>7. Placed'
  <2>1. UNION {Block(k) : k \in Klass} \subseteq UNION {Block(k)' : k \in Klass}
    BY <1>4
  <2>2. QED
    BY <1>1, <1>2, <1>3, <2>1 DEF HeapInv, Placed
<1>8. Kept'
  BY <1>1, <1>2 DEF HeapInv, Kept, bitmaps
<1>9. Ready'
  BY <1>3 DEF Ready, FailsOnlyLow
<1>10. QED
  BY <1>4, <1>5, <1>6, <1>7, <1>8, <1>9 DEF HeapInv

LEMMA MutatorKeeps ==
  ASSUME TypeOK, HeapInv, SystemGc \/ (\E a \in live : Drop(a))
  PROVE  HeapInv'
<1>1. /\ pc = "run" /\ pc' \in {"run", "clear"} /\ objs' = objs /\ live' \subseteq live
      /\ UNCHANGED <<req, p, lists, bitmaps>> /\ ~Collecting
  BY DEF SystemGc, Drop, Collecting
<1>2. /\ Counted' /\ Unwritten' /\ \A k \in Klass : Block(k)' = Block(k)
      /\ \A k \in Klass : SoundFrom(k)'
  BY <1>1, SameHeap DEF HeapInv, Summary
<1>3. Summary' /\ Ready'
  BY <1>1, <1>2 DEF Summary, Ready, FailsOnlyLow
<1>4. Aimed'
  BY <1>1, SameAimed
<1>5. Placed'
  <2>1. UNION {Block(k) : k \in Klass} \subseteq UNION {Block(k)' : k \in Klass}
    BY <1>2
  <2>2. QED
    BY <1>1, <2>1 DEF HeapInv, Placed
<1>6. Kept'
  BY <1>1 DEF HeapInv, Kept, bitmaps
<1>7. QED
  BY <1>2, <1>3, <1>4, <1>5, <1>6 DEF HeapInv

(* Emptied bitmaps: for a collection, or at the end of the program. *)
LEMMA ClearedKeeps ==
  ASSUME TypeOK, OwnershipInv, HeapInv, UNCHANGED <<req, p, lists>>,
         (pc = "clear" /\ pc' = "mark") \/ (pc = "run" /\ pc' = "exit"),
         bm0' = [s \in Seg |-> IF s \in Owned THEN {Header} ELSE bm0[s]],
         bm1' = [s \in Seg |-> IF s \in Owned THEN {} ELSE bm1[s]],
         live_count' = [s \in Seg |-> IF s \in Owned THEN 0 ELSE live_count[s]]
  PROVE  Counted' /\ Unwritten' /\ Summary' /\ Aimed' /\ Kept' /\ Ready'
<1>1. /\ UNCHANGED <<segmentList, pools, seglist, freelist, p, req>>
      /\ \A k \in Klass : seglist[k] \subseteq Owned /\ seglist[k] \subseteq Seg
  BY DEF lists, Owned, TypeOK
<1>2. \A k \in Klass : \A s \in seglist[k] : bm0'[s] = {Header} /\ bm1'[s] = {} /\ live_count'[s] = 0
  BY <1>1
<1>3. Counted'
  <2> SUFFICES ASSUME NEW k \in Klass, NEW s \in seglist[k] PROVE Counting(k, s)'
    BY <1>1 DEF Counted
  <2>1. bm0'[s] \ {Header} = {} /\ Cardinality({}) = 0
    BY <1>2, FS_EmptySet
  <2>2. Cardinality(bm0'[s] \ {Header}) = 0
    BY ONLY <2>1, Zenon
  <2>3. Header \in bm0'[s] /\ bm0'[s] \subseteq 0 .. Blocks[k] - 1
    <3>1. Blocks[k] \in Nat /\ Blocks[k] > 1
      BY SizeAssumption
    <3>2. {Header} \subseteq 0 .. Blocks[k] - 1
      BY <3>1
    <3>3. bm0'[s] = {Header}
      BY <1>2
    <3>4. QED
      BY ONLY <3>2, <3>3
  <2>4. QED
    BY <1>2, <2>2, <2>3 DEF Counting
<1>4. Unwritten'
  BY <1>1 DEF HeapInv, Unwritten, Owned
<1>5. \A k \in Klass : \A s \in seglist[k] : Sound(k, s, -1)'
  BY <1>2, FreshSoundNext
<1>6. Summary'
  <2>1. CASE pc' = "mark"
    BY <1>1, <1>2, <1>5, <2>1 DEF Summary, Recorded, Collecting
  <2>2. CASE pc' = "exit"
    <3>1. ASSUME NEW k \in Klass PROVE SoundFrom(k)'
      <4>1. \A s \in seglist[k], n \in Nat : Sound(k, s, n)'
        <5>1. \A n \in Nat : n \in Int /\ -1 <= n /\ -1 \in Int /\ L1Limit[k] \in Int
          BY SizeAssumption
        <5>2. QED
          BY <1>5, <5>1, SoundAboveNext
      <4>2. /\ p[k].seg # NoSeg => p[k].seg \in seglist[k]
            /\ freelist[k] \subseteq seglist[k]
        BY DEF OwnershipInv, SegmentOwnership
      <4>3. p[k].word \in Nat
        BY DEF HeapInv, Aimed, Aim
      <4>4. ASSUME NEW u, NEW n, u = p[k].seg, n = p[k].word, u # NoSeg PROVE Sound(k, u, n)'
        BY <4>1, <4>2, <4>3, <4>4
      <4>5. \A s \in freelist[k] : Sound(k, s, 0)'
        BY <4>1, <4>2
      <4>6. QED
        BY <1>1, <4>4, <4>5, SoundFromNext
    <3>2. QED
      BY <2>2, <3>1 DEF Summary
  <2>3. QED
    BY <2>1, <2>2
<1>7. Aimed'
  <2>1. \A k \in Klass : Aim(p[k])
    BY DEF HeapInv, Aimed
  <2>2. CASE pc = "clear"
    <3>1. \A k \in Klass : p[k].bit = NoBit => req = {k}
      BY <2>2 DEF HeapInv, Aimed
    <3>2. Collecting'
      BY <2>2 DEF Collecting
    <3>3. QED
      BY <1>1, <2>1, <3>1, <3>2 DEF Aimed, Aim
  <2>3. CASE pc = "run"
    BY <1>1, <2>3, SameAimed DEF Collecting
  <2>4. QED
    BY <2>2, <2>3
<1>8. Kept' /\ Ready'
  BY DEF Kept, Ready, FailsOnlyLow
<1>9. QED
  BY <1>3, <1>4, <1>6, <1>7, <1>8

(* A collection starts; the program ends. *)
LEMMA GcInitKeeps ==
  ASSUME TypeOK, OwnershipInv, HeapInv, GcInit
  PROVE  HeapInv'
<1>1. Counted' /\ Unwritten' /\ Summary' /\ Aimed' /\ Kept' /\ Ready'
  BY ClearedKeeps DEF GcInit
<1>2. Placed'
  <2>1. \A k \in Klass : Block(k)' = Block(k)
    BY DEF GcInit, lists, Block
  <2>2. UNION {Block(k) : k \in Klass} \subseteq UNION {Block(k)' : k \in Klass}
    BY <2>1
  <2>3. QED
    BY <2>2 DEF GcInit, HeapInv, Placed
<1>3. QED
  BY <1>1, <1>2 DEF HeapInv

LEMMA ExitKeeps ==
  ASSUME TypeOK, OwnershipInv, HeapInv, BMGC_exit
  PROVE  HeapInv' /\ objs' = {} /\ live' = {}
<1>1. Counted' /\ Unwritten' /\ Summary' /\ Aimed' /\ Kept' /\ Ready'
  BY ClearedKeeps DEF BMGC_exit
<1>2. objs' = {} /\ live' = {}
  BY DEF BMGC_exit, HeapInv, Placed
<1>3. Placed'
  BY <1>2 DEF Placed, BMGC_exit
<1>4. QED
  BY <1>1, <1>2, <1>3 DEF HeapInv

-----------------------------------------------------------------------------
(* Tracing. *)
LEMMA MarkKeeps ==
  ASSUME TypeOK, OwnershipInv, HeapInv, NEW k \in Klass, NEW s, NEW i, Mark(k, s, i)
  PROVE  HeapInv'
<1> DEFINE w == i \div Bits
           b == i % Bits
<1>1. /\ pc = "mark" /\ s \in seglist[k] /\ s \in Seg /\ i \in 1 .. Blocks[k] - 1
      /\ ~Marked(k, s, i)
      /\ bm0' = [bm0 EXCEPT ![s] = @ \cup {i}]
      /\ live_count' = [live_count EXCEPT ![s] = @ + 1]
      /\ bm1' = [bm1 EXCEPT ![s] = IF ClearBits(k, s, w, 0) \subseteq {b}
                                   THEN @ \cup ({w} \cap (0 .. L1Limit[k] - 1)) ELSE @]
      /\ UNCHANGED <<pc, req, p, segmentList, pools, seglist, freelist, temp, objs, live>>
  BY DEF Mark, Block, TypeOK, lists
<1>2. /\ Blocks[k] \in Nat /\ Bits \in Nat /\ L1Limit[k] \in Nat /\ i \in Nat
      /\ w \in Nat /\ b \in 0 .. Bits - 1 /\ i = w * Bits + b
  <2>1. Blocks[k] \in Nat /\ Bits \in Nat /\ L1Limit[k] \in Nat
    BY SizeAssumption
  <2>2. i \in Nat
    BY <1>1, <2>1
  <2>3. QED
    BY <2>1, <2>2, WordOf
<1> HIDE DEF w, b
<1>3. i \notin bm0[s] /\ bm0'[s] = bm0[s] \cup {i} /\ live_count'[s] = live_count[s] + 1
  BY <1>1 DEF Marked, TypeOK
<1>4. \A t \in Seg \ {s} : bm0'[t] = bm0[t] /\ bm1'[t] = bm1[t] /\ live_count'[t] = live_count[t]
  BY <1>1
<1>5. bm1'[s] = IF ClearBits(k, s, w, 0) \subseteq {b}
                THEN bm1[s] \cup ({w} \cap (0 .. L1Limit[k] - 1)) ELSE bm1[s]
  BY <1>1 DEF TypeOK
<1>6. \A j \in Klass : \A t \in seglist[j] : t \in Seg /\ (t = s => j = k)
  BY <1>1 DEF OwnershipInv, SegmentOwnership, TypeOK
<1>7. Counted'
  <2> SUFFICES ASSUME NEW j \in Klass, NEW t \in seglist[j] PROVE Counting(j, t)'
    BY <1>1 DEF Counted
  <2>1. Counting(j, t)
    BY DEF HeapInv, Counted
  <2>2. CASE t = s
    <3>1. j = k
      BY <1>6, <2>2
    <3>2. QED
      BY <1>1, <1>2, <1>3, <2>1, <2>2, <3>1, CountsOne
  <2>3. CASE t # s
    BY <1>4, <1>6, <2>1, <2>3 DEF Counting
  <2>4. QED
    BY <2>2, <2>3
<1>8. Unwritten'
  <2>1. s \in Owned /\ Owned' = Owned
    BY <1>1 DEF Owned
  <2>2. QED
    BY <1>4, <2>1 DEF HeapInv, Unwritten
<1>9. \A v \in Int, c \in 0 .. Bits - 1 : Marked(k, s, v * Bits + c) => Marked(k, s, v * Bits + c)'
  BY <1>3 DEF Marked
<1>10. \A v \in Int, c \in 0 .. Bits - 1 :
         v # w \/ c # b => (Marked(k, s, v * Bits + c)' <=> Marked(k, s, v * Bits + c))
  <2> SUFFICES ASSUME NEW v \in Int, NEW c \in 0 .. Bits - 1, v # w \/ c # b
               PROVE  Marked(k, s, v * Bits + c)' <=> Marked(k, s, v * Bits + c)
    OBVIOUS
  <2>1. v * Bits + c # i
    BY <1>2, SameWord
  <2>2. QED
    BY <1>3, <2>1 DEF Marked
<1>11. Recorded(k, s)
  BY <1>1 DEF HeapInv, Summary
<1>12. \A v \in bm1[s] : v \in Int
  BY <1>1 DEF TypeOK
<1>13. Sound(k, s, -1)'
  <2> SUFFICES ASSUME NEW v \in ClearWords(k, s, -1)' PROVE ~WordFull(k, s, v)'
    BY DEF Sound
  <2>1. /\ v \in ClearWords(k, s, -1) /\ v \in Int /\ v \in 0 .. L1Limit[k] - 1
        /\ v \notin bm1'[s]
    BY <1>2, <1>5 DEF ClearWords
  <2>2. CASE v # w
    <3>1. PICK c \in 0 .. Bits - 1 : ~Marked(k, s, v * Bits + c)
      BY <1>11, <2>1 DEF Recorded, Sound, WordFull, ClearBits
    <3>2. ~Marked(k, s, v * Bits + c)'
      BY <1>10, <2>1, <2>2, <3>1
    <3>3. QED
      BY <3>2 DEF WordFull, ClearBits
  <2>3. CASE v = w
    <3>1. PICK c \in ClearBits(k, s, v, 0) : c # b
      BY <1>5, <2>1, <2>3
    <3>2. c \in 0 .. Bits - 1 /\ ~Marked(k, s, v * Bits + c)
      BY <3>1 DEF ClearBits
    <3>3. ~Marked(k, s, v * Bits + c)'
      BY <1>10, <2>1, <3>1, <3>2
    <3>4. QED
      BY <3>2, <3>3 DEF WordFull, ClearBits
  <2>4. QED
    BY <2>2, <2>3
<1>14. \A v \in bm1'[s] : WordFull(k, s, v)'
  <2> SUFFICES ASSUME NEW v \in bm1'[s], NEW c \in 0 .. Bits - 1
               PROVE  Marked(k, s, v * Bits + c)'
    BY DEF WordFull, ClearBits
  <2>1. CASE v \in bm1[s]
    <3>1. v \in Int /\ Marked(k, s, v * Bits + c)
      BY <1>11, <1>12, <2>1 DEF Recorded, WordFull, ClearBits
    <3>2. QED
      BY <1>9, <3>1
  <2>2. CASE v \notin bm1[s]
    <3>1. v = w /\ v \in Int /\ ClearBits(k, s, w, 0) \subseteq {b}
      BY <1>2, <1>5, <2>2
    <3>2. CASE c = b
      BY <1>2, <1>3, <3>1, <3>2 DEF Marked
    <3>3. CASE c # b
      BY <1>9, <3>1, <3>3 DEF ClearBits
    <3>4. QED
      BY <3>2, <3>3
  <2>3. QED
    BY <2>1, <2>2
<1>15. Summary'
  <2> SUFFICES ASSUME NEW j \in Klass, NEW t \in seglist[j] PROVE Recorded(j, t)'
    BY <1>1 DEF Summary, Collecting
  <2>1. CASE t = s
    <3>1. j = k
      BY <1>6, <2>1
    <3>2. QED
      BY <1>13, <1>14, <2>1, <3>1 DEF Recorded
  <2>2. CASE t # s
    <3>1. bm0'[t] = bm0[t] /\ bm1'[t] = bm1[t] /\ Recorded(j, t)
      BY <1>1, <1>4, <1>6, <2>2 DEF HeapInv, Summary
    <3>2. QED
      BY <3>1, SoundSame DEF Recorded, WordFull, ClearBits, Marked
  <2>3. QED
    BY <2>1, <2>2
<1>16. Aimed'
  BY <1>1 DEF HeapInv, Aimed, Aim, Collecting
<1>17. Placed'
  <2>1. \A j \in Klass : Block(j)' = Block(j)
    BY <1>1 DEF Block
  <2>2. UNION {Block(j) : j \in Klass} \subseteq UNION {Block(j)' : j \in Klass}
    BY <2>1
  <2>3. QED
    BY <1>1, <2>2 DEF HeapInv, Placed
<1>18. Kept' /\ Ready'
  BY <1>1 DEF Kept, Ready, FailsOnlyLow
<1>19. QED
  BY <1>7, <1>8, <1>15, <1>16, <1>17, <1>18 DEF HeapInv

-----------------------------------------------------------------------------
(* A segment with dead blocks has one that the search from word 0 reaches. *)
LEMMA UnfilledFinds ==
  ASSUME NEW k \in Klass, NEW s, Counting(k, s), Recorded(k, s),
         live_count[s] # SegmentBlockCount(k), SearchExact(k)
  PROVE  CanFind(k, s, 0, 0)
<1>1. Blocks[k] \in Nat /\ Blocks[k] > 1 /\ Bits \in Nat /\ L1Limit[k] \in Nat
  BY SizeAssumption
<1>2. PICK i \in 1 .. Blocks[k] - 1 : i \notin bm0[s]
  <2>1. SUFFICES ASSUME 1 .. Blocks[k] - 1 \subseteq bm0[s] PROVE FALSE
    OBVIOUS
  <2>2. bm0[s] \ {Header} = 1 .. Blocks[k] - 1
    BY <1>1, <2>1 DEF Counting
  <2>3. Cardinality(1 .. Blocks[k] - 1) = Blocks[k] - 1
    <3>1. 1 \in Int /\ Blocks[k] - 1 \in Int /\ ~(1 > Blocks[k] - 1)
      BY <1>1
    <3>2. Cardinality(1 .. Blocks[k] - 1) = Blocks[k] - 1 - 1 + 1
      BY <3>1, FS_Interval
    <3>3. QED
      BY <1>1, <3>2
  <2>4. live_count[s] = Blocks[k] - 1
    BY <2>2, <2>3 DEF Counting
  <2>5. QED
    BY <2>4 DEF SegmentBlockCount
<1> DEFINE w == i \div Bits
           b == i % Bits
<1>3. w \in Nat /\ b \in 0 .. Bits - 1 /\ i = w * Bits + b /\ w * Bits \in Nat
  BY <1>1, WordOf
<1> HIDE DEF w, b
<1>4. b \in ClearBits(k, s, w, 0)
  BY <1>1, <1>2, <1>3 DEF ClearBits, Marked
<1>5. CASE w = 0
  BY <1>4, <1>5 DEF CanFind
<1>6. CASE w # 0
  <2>1. Bits <= w * Bits
    <3>1. (w - 1) * Bits >= 0 /\ (w - 1) * Bits = w * Bits - Bits
      BY <1>1, <1>3, <1>6
    <3>2. QED
      BY <1>1, <1>3, <3>1
  <2>2. w * Bits < L1Limit[k] * Bits
    BY <1>1, <1>2, <1>3, <2>1 DEF SearchExact
  <2>3. w < L1Limit[k]
    <3>1. SUFFICES ASSUME w >= L1Limit[k] PROVE FALSE
      BY <1>1, <1>3
    <3>2. (w - L1Limit[k]) * Bits >= 0 /\ (w - L1Limit[k]) * Bits = w * Bits - L1Limit[k] * Bits
      BY <1>1, <1>3, <3>1
    <3>3. QED
      BY <1>1, <1>3, <2>2, <3>2
  <2>4. w \notin bm1[s]
    BY <1>4 DEF Recorded, WordFull
  <2>5. w \in ClearWords(k, s, 0)
    BY <1>1, <1>3, <1>6, <2>3, <2>4 DEF ClearWords
  <2>6. QED
    BY <2>5 DEF CanFind
<1>7. QED
  BY <1>5, <1>6

(* Bitmaps that tracing wrote, or that nobody wrote, are sound. *)
LEMMA MarkedSound ==
  ASSUME TypeOK, OwnershipInv, HeapInv, pc = "mark", UNCHANGED <<bm0, bm1>>,
         NEW k \in Klass, NEW s, s \in seglist[k] \/ s \in Seg \ Owned
  PROVE  Sound(k, s, -1)'
<1>1. Sound(k, s, -1)
  BY FreshSound DEF HeapInv, Summary, Recorded, Unwritten, OwnershipInv, SegmentOwnership
<1>2. QED
  BY <1>1, SoundSame

(* So whatever the sweep makes of the lists, the search is sound from there. *)
LEMMA MarkedSoundFrom ==
  ASSUME TypeOK, OwnershipInv, HeapInv, pc = "mark", UNCHANGED <<bm0, bm1>>,
         NEW k \in Klass, freelist'[k] \subseteq seglist[k], p'[k].word \in Nat,
         \A u : u = p'[k].seg /\ u # NoSeg => u \in seglist[k] \/ u \in Seg \ Owned
  PROVE  SoundFrom(k)'
<1>1. \A n \in Nat : n \in Int /\ -1 <= n /\ -1 \in Int /\ L1Limit[k] \in Int
  BY SizeAssumption
<1>2. \A t \in freelist'[k] : Sound(k, t, 0)'
  <2>1. 0 \in Nat
    OBVIOUS
  <2>2. QED
    BY <1>1, <2>1, MarkedSound, SoundAboveNext
<1>3. ASSUME NEW u, NEW n, u = p'[k].seg, n = p'[k].word, u # NoSeg PROVE Sound(k, u, n)'
  <2>1. n \in Nat /\ (u \in seglist[k] \/ u \in Seg \ Owned)
    BY <1>3
  <2>2. Sound(k, u, -1)'
    BY <2>1, MarkedSound
  <2>3. QED
    BY <1>1, <2>1, <2>2, SoundAboveNext
<1>4. QED
  BY <1>2, <1>3, SoundFromNext

(* What the sweep leaves a sub-heap: the pointer it had, if it owns one *)
(* segment at most, or the head of an unfilled or of a new segment.     *)
Refilled(k, q) ==
  \/ k \notin Rearranged /\ q = p[k]
  \/ \E u \in Unfilled(k) \cup (Seg \ Owned) : \E blk : q = FreshPointer(u, blk)

(* Ready of the next state, when the retry starts at the head of a segment. *)
LEMMA ReadyNext ==
  ASSUME FailsOnlyLow', NEW k \in Klass, req' = {k}, NEW u, u = p'[k].seg, u # NoSeg,
         p'[k].word = 0, p'[k].bit = 0, SearchExact(k) => CanFind(k, u, 0, 0)'
  PROVE  Ready'
BY DEF Ready, SearchExact, CanFind, ClearWords, ClearBits, Marked

(* The sweep: all it needs is that every sub-heap is Refilled. *)
LEMMA SweptKeeps ==
  ASSUME TypeOK, OwnershipInv, OwnershipInv', HeapInv, TwoSegments, MarkingDone, Resume,
         UNCHANGED <<req, bitmaps, temp, objs, live>>,
         \A k \in Klass : /\ Refilled(k, p'[k])
                         /\ freelist'[k] \subseteq seglist[k]
                         /\ seglist[k] \subseteq seglist'[k]
                         /\ seglist'[k] \subseteq seglist[k] \cup (Seg \ Owned)
  PROVE  HeapInv'
<1>1. /\ pc = "mark" /\ pc' = IF req = {} THEN "run" ELSE "retry"
      /\ UNCHANGED <<bm0, bm1, live_count>> /\ Collecting
      /\ \A k \in Klass : seglist[k] \subseteq Seg /\ seglist[k] \subseteq Owned
  BY DEF MarkingDone, Resume, bitmaps, Collecting, TypeOK, Owned
<1>2. \A k \in Klass : \A s \in seglist[k] : Counting(k, s) /\ Recorded(k, s)
  BY <1>1 DEF HeapInv, Counted, Summary
<1>3. \A s \in Seg \ Owned : bm0[s] = {Header} /\ bm1[s] = {} /\ live_count[s] = 0
  BY DEF HeapInv, Unwritten, OwnershipInv, SegmentOwnership
<1>4. \A k \in Klass :
        /\ p'[k].word \in Nat /\ Aim(p'[k]) /\ p'[k].bit # NoBit
        /\ \A u : u = p'[k].seg /\ u # NoSeg => u \in seglist[k] \/ u \in Seg \ Owned
  <2> SUFFICES ASSUME NEW k \in Klass
               PROVE  /\ p'[k].word \in Nat /\ Aim(p'[k]) /\ p'[k].bit # NoBit
                      /\ \A u : u = p'[k].seg /\ u # NoSeg => u \in seglist[k] \/ u \in Seg \ Owned
    OBVIOUS
  <2>1. CASE k \notin Rearranged /\ p'[k] = p[k]
    <3>1. Aim(p[k]) /\ p[k].bit # NoBit
      BY <1>1, <2>1 DEF HeapInv, Aimed, TwoSegments, Collecting
    <3>2. p[k].seg # NoSeg => p[k].seg \in seglist[k]
      BY DEF OwnershipInv, SegmentOwnership
    <3>3. QED
      BY <2>1, <3>1, <3>2 DEF Aim
  <2>2. CASE \E u \in Unfilled(k) \cup (Seg \ Owned) : \E blk : p'[k] = FreshPointer(u, blk)
    <3>0. PICK u \in Unfilled(k) \cup (Seg \ Owned) : \E blk : p'[k] = FreshPointer(u, blk)
      BY <2>2
    <3>1. PICK blk : p'[k] = FreshPointer(u, blk)
      BY <3>0
    <3>2. p'[k].seg = u /\ p'[k].word = 0 /\ p'[k].bit = 0
      BY <3>1 DEF FreshPointer, Pointer
    <3>3. Aim(p'[k])
      BY <3>2, SizeAssumption DEF Aim
    <3>4. QED
      BY <3>2, <3>3 DEF Unfilled
  <2>3. QED
    BY <2>1, <2>2 DEF Refilled
<1>5. Counted'
  <2> SUFFICES ASSUME NEW k \in Klass, NEW s \in seglist'[k] PROVE Counting(k, s)'
    BY DEF Counted
  <2>1. Counting(k, s)
    <3>1. CASE s \in seglist[k]
      BY <1>2, <3>1
    <3>2. CASE s \in Seg \ Owned
      <4>1. bm0[s] \ {Header} = {} /\ Cardinality({}) = 0
        BY <1>3, <3>2, FS_EmptySet
      <4>2. Cardinality(bm0[s] \ {Header}) = 0
        BY ONLY <4>1, Zenon
      <4>3. {Header} \subseteq 0 .. Blocks[k] - 1
        BY SizeAssumption
      <4>4. bm0[s] = {Header} /\ live_count[s] = 0
        BY <1>3, <3>2
      <4>5. Header \in bm0[s] /\ bm0[s] \subseteq 0 .. Blocks[k] - 1
        BY ONLY <4>3, <4>4
      <4>6. QED
        BY <4>2, <4>4, <4>5 DEF Counting
    <3>3. QED
      BY <3>1, <3>2
  <2>2. QED
    BY <1>1, <2>1 DEF Counting
<1>6. Unwritten'
  <2>1. Owned \subseteq Owned'
    BY DEF Owned
  <2>2. QED
    BY <1>1, <2>1 DEF HeapInv, Unwritten
<1>7. Summary'
  BY <1>1, <1>4, MarkedSoundFrom DEF Summary, Collecting
<1>8. Aimed'
  BY <1>4 DEF Aimed, Aim
<1>9. Placed'
  <2>1. \A k \in Klass : Block(k) \subseteq Block(k)'
    BY DEF Block
  <2>2. UNION {Block(k) : k \in Klass} \subseteq UNION {Block(k)' : k \in Klass}
    BY <2>1
  <2>3. QED
    BY <1>1, <2>2 DEF HeapInv, Placed
<1>10. Kept'
  <2>1. ASSUME NEW a \in live PROVE a[2] \in bm0[a[1]]
    <3>1. PICK k \in Klass : a \in Block(k)
      BY DEF HeapInv, Placed
    <3>2. Marked(k, a[1], a[2]) /\ a[2] \in 1 .. Blocks[k] - 1 /\ Blocks[k] \in Nat
      BY <3>1, SizeAssumption DEF MarkingDone, Block
    <3>3. QED
      BY <3>2 DEF Marked
  <2>2. QED
    BY <1>1, <2>1 DEF Kept
<1>11. Ready'
  <2>1. FailsOnlyLow'
    BY <1>1 DEF FailsOnlyLow
  <2>2. CASE pc' # "retry"
    BY <2>1, <2>2 DEF Ready
  <2> SUFFICES ASSUME pc' = "retry" PROVE Ready'
    BY <2>2
  <2>3. PICK k \in Klass : req = {k}
    BY <1>1 DEF TypeOK
  <2>4. k \in Rearranged
    BY <1>1, <2>3 DEF TwoSegments
  <2>5. PICK u \in Unfilled(k) \cup (Seg \ Owned) : \E blk : p'[k] = FreshPointer(u, blk)
    BY <2>4 DEF Refilled
  <2>6. p'[k].seg = u /\ p'[k].word = 0 /\ p'[k].bit = 0 /\ u # NoSeg
    BY <1>1, <2>5, PoolAssumption DEF FreshPointer, Pointer, Unfilled
  <2>7. SearchExact(k) => CanFind(k, u, 0, 0)
    BY <1>2, <1>3, FreshSound, UnfilledFinds DEF Unfilled
  <2>8. SearchExact(k) => CanFind(k, u, 0, 0)'
    BY <1>1, <2>7 DEF CanFind, ClearWords, ClearBits, Marked
  <2>9. QED
    BY <2>1, <2>3, <2>6, <2>8, ReadyNext
<1>12. QED
  BY <1>5, <1>6, <1>7, <1>8, <1>9, <1>10, <1>11 DEF HeapInv

-----------------------------------------------------------------------------
(* A sub-heap that is not full has its pointer from fetchSegment. *)
LEMMA SweptRefilled ==
  ASSUME TypeOK, NEW f \in Fetches, NEW k \in Klass, k \notin Full
  PROVE  Refilled(k, SweptPointer(k, f))
<1>1. CASE k \notin Rearranged
  BY <1>1 DEF Fetches, SweptPointer, Refilled
<1>2. CASE k \in Rearranged
  <2>1. Unfilled(k) # {}
    BY <1>2 DEF Full, isFull
  <2>2. f[k] \in Unfilled(k) /\ f[k] # NoSeg
    BY <1>2, <2>1, PoolAssumption DEF Fetches, Unfilled, TypeOK
  <2>3. SweptPointer(k, f) = FreshPointer(f[k], p[k].blkptr)
    BY <2>2 DEF SweptPointer
  <2>4. QED
    BY <2>2, <2>3 DEF Refilled
<1>3. QED
  BY <1>1, <1>2

(* The sweep without an expansion, with one, and when that fails. *)
LEMMA SweepKeeps ==
  ASSUME TypeOK, OwnershipInv, OwnershipInv', HeapInv, TwoSegments, Sweep
  PROVE  HeapInv'
<1>1. PICK f \in Fetches :
        /\ p' = [k \in Klass |-> SweptPointer(k, f)]
        /\ freelist' = [k \in Klass |-> SweptFreelist(k, f)]
  BY DEF Sweep
<1>2. /\ MarkingDone /\ Full = {} /\ Resume
      /\ UNCHANGED <<req, segmentList, pools, seglist, bitmaps, temp, objs, live>>
  BY DEF Sweep
<1>3. \A k \in Klass : Refilled(k, p'[k]) /\ freelist'[k] \subseteq seglist[k]
  BY <1>1, <1>2, SweptRefilled, SweptOwnership
<1>4. QED
  BY <1>2, <1>3, SweptKeeps

LEMMA SweepExpandKeeps ==
  ASSUME TypeOK, OwnershipInv, OwnershipInv', HeapInv, TwoSegments, SweepExpand
  PROVE  HeapInv'
<1>1. PICK f \in Fetches, g \in [Full -> Pool[pools + 1]] :
       /\ p' = [k \in Klass |-> IF k \in Full THEN FreshPointer(g[k], <<g[k], 1>>)
                                             ELSE SweptPointer(k, f)]
       /\ seglist' = [k \in Klass |-> IF k \in Full THEN seglist[k] \cup {g[k]}
                                                   ELSE seglist[k]]
       /\ freelist' = [k \in Klass |-> SweptFreelist(k, f)]
  BY DEF SweepExpand
<1>2. /\ MarkingDone /\ Resume /\ UNCHANGED <<req, bitmaps, temp, objs, live>>
      /\ Pool[pools + 1] \subseteq Seg \ Owned
  BY NewPoolUnowned DEF SweepExpand
<1>3. ASSUME NEW k \in Klass
      PROVE  /\ Refilled(k, p'[k]) /\ freelist'[k] \subseteq seglist[k]
             /\ seglist[k] \subseteq seglist'[k]
             /\ seglist'[k] \subseteq seglist[k] \cup (Seg \ Owned)
  <2>1. freelist'[k] \subseteq seglist[k]
    BY <1>1, SweptOwnership
  <2>2. CASE k \in Full
    <3>1. g[k] \in Seg \ Owned
      BY <1>1, <1>2, <2>2
    <3>2. p'[k] = FreshPointer(g[k], <<g[k], 1>>) /\ seglist'[k] = seglist[k] \cup {g[k]}
      BY <1>1, <2>2
    <3>3. QED
      BY <2>1, <3>1, <3>2 DEF Refilled
  <2>3. CASE k \notin Full
    <3>1. p'[k] = SweptPointer(k, f) /\ seglist'[k] = seglist[k]
      BY <1>1, <2>3
    <3>2. QED
      BY <2>1, <2>3, <3>1, SweptRefilled
  <2>4. QED
    BY <2>2, <2>3
<1>4. QED
  BY <1>2, <1>3, SweptKeeps

LEMMA SweepAbortKeeps ==
  ASSUME TypeOK, OwnershipInv, HeapInv, SweepAbort
  PROVE  HeapInv'
<1>1. /\ pc = "mark" /\ pc' = "memalign"
      /\ UNCHANGED <<req, p, lists, bitmaps, temp, objs, live>>
      /\ UNCHANGED <<p, freelist, bm0, bm1>>
  BY DEF SweepAbort, MarkingDone, lists, bitmaps
<1>2. Counted' /\ Unwritten' /\ \A k \in Klass : Block(k)' = Block(k)
  BY <1>1, SameHeap
<1>3. \A k \in Klass : /\ freelist[k] \subseteq seglist[k] /\ p[k].word \in Nat
                       /\ \A u : u = p[k].seg /\ u # NoSeg => u \in seglist[k] \/ u \in Seg \ Owned
  BY DEF OwnershipInv, SegmentOwnership, HeapInv, Aimed, Aim
<1>4. \A k \in Klass : SoundFrom(k)'
  BY <1>1, <1>3, MarkedSoundFrom
<1>5. Aimed'
  BY <1>1 DEF HeapInv, Aimed, Aim
<1>6. Placed'
  <2>1. UNION {Block(k) : k \in Klass} \subseteq UNION {Block(k)' : k \in Klass}
    BY <1>2
  <2>2. QED
    BY <1>1, <2>1 DEF HeapInv, Placed
<1>7. Summary' /\ Kept' /\ Ready'
  BY <1>1, <1>4 DEF Summary, Kept, Ready, FailsOnlyLow
<1>8. QED
  BY <1>2, <1>5, <1>6, <1>7 DEF HeapInv

LEMMA UnchangedKeeps ==
  ASSUME HeapInv, UNCHANGED vars
  PROVE  HeapInv'
<1>1. /\ UNCHANGED <<p, lists, bitmaps>> /\ UNCHANGED <<pc, req, seglist, p, bm0, bm1, temp, objs, live>>
  BY DEF vars, lists, bitmaps
<1>2. /\ Counted' /\ Unwritten'
      /\ \A k \in Klass : Block(k)' = Block(k)
      /\ (\A k \in Klass : SoundFrom(k)) <=> (\A k \in Klass : SoundFrom(k)')
  BY <1>1, SameHeap
<1>3. \A k \in Klass : \A s \in seglist[k] : Recorded(k, s) => Recorded(k, s)'
  BY <1>1, SoundSame DEF Recorded, WordFull, ClearBits, Marked
<1>4. Summary'
  BY <1>1, <1>2, <1>3 DEF HeapInv, Summary, Collecting
<1>5. Aimed'
  BY <1>1 DEF HeapInv, Aimed, Aim, Collecting
<1>6. Placed'
  <2>1. UNION {Block(k) : k \in Klass} \subseteq UNION {Block(k)' : k \in Klass}
    BY <1>2
  <2>2. (\E k \in Klass : temp \in Block(k)) => \E k \in Klass : temp \in Block(k)'
    BY <1>2
  <2>3. QED
    BY <1>1, <2>1, <2>2 DEF HeapInv, Placed
<1>7. Kept' /\ Ready'
  BY <1>1 DEF HeapInv, Kept, Ready, FailsOnlyLow, SearchExact, CanFind, ClearWords, ClearBits, Marked
<1>8. QED
  BY <1>2, <1>4, <1>5, <1>6, <1>7 DEF HeapInv

(* The invariant holds at first, is kept by every step, and so holds. *)
LEMMA InitHeap == Init => HeapInv
<1> SUFFICES ASSUME Init PROVE HeapInv
  OBVIOUS
<1>1. /\ pc = "run" /\ seglist = [k \in Klass |-> {}] /\ freelist = [k \in Klass |-> {}]
      /\ bm1 = [s \in Seg |-> {}] /\ objs = {} /\ live = {}
      /\ \A k \in Klass : p[k] = FreshPointer(NoSeg, Null)
  BY DEF Init
<1>2. \A k \in Klass : Aim(p[k]) /\ p[k].bit # NoBit /\ p[k].seg = NoSeg
  BY <1>1, SizeAssumption DEF FreshPointer, Pointer, Aim
<1>3. Counted /\ Unwritten /\ Summary /\ Aimed
  BY <1>1, <1>2 DEF Counted, Unwritten, Summary, SoundFrom, Aimed
<1>4. Placed /\ Kept /\ Ready
  BY <1>1 DEF Placed, Kept, Ready, FailsOnlyLow
<1>5. QED
  BY <1>3, <1>4 DEF HeapInv

LEMMA HeapStep ==
  ASSUME TypeOK, OwnershipInv, OwnershipInv', HeapInv, TwoSegments, [Next]_vars
  PROVE  HeapInv'
<1>1. ASSUME NEW k \in Klass, tryAlloc(k) PROVE HeapInv'
  BY <1>1, AllocHereKeeps, AllocNextKeeps, AllocFreeSegmentKeeps, AllocNewSegmentKeeps,
     AllocFailKeeps, AllocNullNever DEF tryAlloc
<1>2. CASE Collect
  BY <1>2, GcInitKeeps, SweepKeeps, SweepExpandKeeps, SweepAbortKeeps, MarkKeeps DEF Collect
<1>3. CASE UNCHANGED vars
  BY <1>3, UnchangedKeeps
<1>4. QED
  BY <1>1, <1>2, <1>3, NewObjectKeeps, MutatorKeeps, ExitKeeps DEF Next

LEMMA HeapKept == Spec /\ []TwoSegments => []HeapInv
<1>1. TypeOK /\ OwnershipInv /\ OwnershipInv' /\ HeapInv /\ TwoSegments /\ [Next]_vars => HeapInv'
  BY HeapStep
<1>2. QED
  BY <1>1, InitHeap, TypeCorrect, OwnershipKept, PTL DEF Spec

-----------------------------------------------------------------------------
(* live_count, which inc and bitmap_mark step and the sweep believes, is the  *)
(* number of marked blocks of every segment, in every reachable state.         *)
THEOREM CountsAreExact == Spec /\ []TwoSegments => []CountExact
<1>1. OwnershipInv /\ HeapInv => CountExact
  <2> SUFFICES ASSUME OwnershipInv, HeapInv, NEW s \in Seg
               PROVE  live_count[s] = Cardinality(bm0[s] \ {Header})
    BY DEF CountExact
  <2>1. CASE s \in Owned
    BY <2>1 DEF HeapInv, Counted, Counting, Owned
  <2>2. CASE s \notin Owned
    <3>1. live_count[s] = 0 /\ bm0[s] = {Header}
      BY <2>2 DEF OwnershipInv, SegmentOwnership
    <3>2. bm0[s] \ {Header} = {} /\ Cardinality({}) = 0
      BY <3>1, FS_EmptySet
    <3>3. Cardinality(bm0[s] \ {Header}) = 0
      BY ONLY <3>2, Zenon
    <3>4. QED
      BY <3>1, <3>3
  <2>3. QED
    BY <2>1, <2>2
<1>2. QED
  BY <1>1, OwnershipKept, HeapKept, PTL

(* findNextFreeBlock never descends into a full word: what DBG_ASSERT on the *)
(* mask it finds relies on, for every bitmap width and position of sentinels. *)
THEOREM SummaryIsSound == Spec /\ []TwoSegments => []SummarySound
<1>1. OwnershipInv /\ HeapInv => SummarySound
  <2> SUFFICES ASSUME OwnershipInv, HeapInv, ~Collecting, NEW k \in Klass,
                      NEW s \in freelist[k] \cup ({p[k].seg} \ {NoSeg})
               PROVE  Sound(k, s, IF s = p[k].seg THEN p[k].word ELSE 0)
    BY DEF SummarySound, Sound
  <2>1. SoundFrom(k)
    BY DEF HeapInv, Summary
  <2>2. QED
    BY <2>1 DEF SoundFrom, OwnershipInv, SegmentOwnership
<1>2. QED
  BY <1>1, OwnershipKept, HeapKept, PTL

(* DBG_CHECK_OBJECT_IN_HEAP: every reachable object lies in a block, past the *)
(* header, of a segment some sub-heap owns.                                   *)
THEOREM LiveStaysInHeap == Spec /\ []TwoSegments => []LiveInHeap
<1>1. HeapInv => LiveInHeap
  BY DEF HeapInv, Placed, LiveInHeap
<1>2. QED
  BY <1>1, HeapKept, PTL

(* deferred_sweep finalises no reachable object: a block handed out was dead *)
(* at the last collection and is not reachable since.                         *)
THEOREM LiveStaysAllocated == Spec /\ []TwoSegments => []LiveNotFreed
<1>1. HeapInv => LiveNotFreed
  BY DEF HeapInv, Placed, LiveNotFreed
<1>2. QED
  BY <1>1, HeapKept, PTL

(* An allocation fails behind a collection (THROW_OutOfMemory in the retry)   *)
(* only in a sub-heap whose level-1 sentinel hides its last words.            *)
THEOREM OnlyLowFails == Spec /\ []TwoSegments => []FailsOnlyLow
<1>1. HeapInv => FailsOnlyLow
  BY DEF HeapInv, Ready
<1>2. QED
  BY <1>1, HeapKept, PTL

(* So when no sentinel does, the retry of bm_malloc_internal always succeeds. *)
THEOREM RetryFindsBlock ==
  ASSUME \A k \in Klass : SearchExact(k)
  PROVE  Spec /\ []TwoSegments => []RetrySucceeds
<1>1. HeapInv => RetrySucceeds
  BY DEF HeapInv, Ready, FailsOnlyLow, RetrySucceeds
<1>2. QED
  BY <1>1, HeapKept, PTL

(* The addresses of ObjHeap are the blocks of the heap. *)
LEMMA BlockAddress == TypeOK => UNION {Block(k) : k \in Klass} \subseteq Address
BY DEF TypeOK, Block, Address

(* A block that is handed out holds a dead object, which is finalised, or none. *)
LEMMA HandOutPromise ==
  ASSUME TypeOK, HeapInv, HeapInv', NEW k \in Klass,
         AllocHere(k) \/ AllocNext(k) \/ AllocFreeSegment(k) \/ AllocNewSegment(k)
  PROVE  [Promise!Next]_<<objs, live>>
<1> DEFINE Gone(blk) == objs' = objs \ {blk} /\ temp' = blk /\ pc' = "init" /\ live' = live
<1>0. \E blk : Gone(blk)
  <2>1. CASE AllocHere(k)
    BY <2>1 DEF AllocHere, HandOutFound, HandOut
  <2>2. CASE AllocNext(k)
    BY <2>2 DEF AllocNext, HandOutFound, HandOut
  <2>3. CASE AllocFreeSegment(k)
    BY <2>3 DEF AllocFreeSegment, HandOutFound, HandOut
  <2>4. CASE AllocNewSegment(k)
    BY <2>4 DEF AllocNewSegment, HandOutFound, HandOut
  <2>5. QED
    BY <2>1, <2>2, <2>3, <2>4
<1>1. PICK blk : objs' = objs \ {blk} /\ temp' = blk /\ pc' = "init" /\ live' = live
  BY <1>0
<1>2. blk \notin live
  BY <1>1 DEF HeapInv, Placed
<1>3. CASE blk \in objs
  <2>1. blk \in Address
    BY <1>3, BlockAddress DEF HeapInv, Placed
  <2>2. Promise!Finalise(blk)
    BY <1>1, <1>2, <1>3 DEF Promise!Finalise
  <2>3. QED
    BY <2>1, <2>2 DEF Promise!Next
<1>4. CASE blk \notin objs
  BY <1>1, <1>4
<1>5. QED
  BY <1>3, <1>4

(* The bitmap heap implements ObjHeap: every step finalises an object that is *)
(* not reachable, makes one in a free block, drops one, ends, or stutters.    *)
THEOREM HeapKeepsPromise == Spec /\ []TwoSegments => KeepsPromise
<1>1. Init => Promise!Init
  BY DEF Init, Promise!Init
<1>2. TypeOK /\ OwnershipInv /\ HeapInv /\ HeapInv' /\ [Next]_vars => [Promise!Next]_<<objs, live>>
  <2> SUFFICES ASSUME TypeOK, OwnershipInv, HeapInv, HeapInv', [Next]_vars
               PROVE  [Promise!Next]_<<objs, live>>
    OBVIOUS
  <2>1. ASSUME NEW k \in Klass, tryAlloc(k) PROVE [Promise!Next]_<<objs, live>>
    <3>1. CASE AllocFail(k) \/ AllocNull(k)
      BY <3>1 DEF AllocFail, AllocNull
    <3>2. QED
      BY <2>1, <3>1, HandOutPromise DEF tryAlloc
  <2>2. CASE new_Object
    <3>1. temp \in Address /\ temp \notin objs
      BY <2>2, BlockAddress DEF new_Object, HeapInv, Placed
    <3>2. Promise!Alloc(temp)
      BY <2>2, <3>1 DEF new_Object, Promise!Alloc
    <3>3. QED
      BY <3>1, <3>2 DEF Promise!Next
  <2>3. ASSUME NEW a \in live, Drop(a) PROVE [Promise!Next]_<<objs, live>>
    <3>1. a \in Address
      BY BlockAddress DEF HeapInv, Placed
    <3>2. Promise!Drop(a)
      BY <2>3 DEF Drop, Promise!Drop
    <3>3. QED
      BY <3>1, <3>2 DEF Promise!Next
  <2>4. CASE BMGC_exit
    BY <2>4, ExitKeeps DEF Promise!Next, Promise!Exit
  <2>5. CASE Collect \/ SystemGc
    BY <2>5 DEF Collect, SystemGc, GcInit, Sweep, SweepExpand, SweepAbort, Mark
  <2>6. CASE UNCHANGED vars
    BY <2>6 DEF vars
  <2>7. QED
    BY <2>1, <2>2, <2>3, <2>4, <2>5, <2>6 DEF Next
<1>3. QED
  BY <1>1, <1>2, TypeCorrect, OwnershipKept, HeapKept, PTL DEF Spec, KeepsPromise, Promise!Spec
=============================================================================
