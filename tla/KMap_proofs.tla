----------------------------- MODULE KMap_proofs -----------------------------
(* The map keeps its shape, whatever it holds: the entries of a bucket and   *)
(* of the free list are known exactly, and with them the codes of the names. *)
EXTENDS KMap, WellFoundedInduction, FiniteSetTheorems, FunctionTheorems, SequenceTheorems, TLAPS

-----------------------------------------------------------------------------
(* Any set of natural numbers has a least element: the induction of the      *)
(* proofs below.                                                             *)
LEMMA LeastOf ==
  ASSUME NEW S \in SUBSET Nat, S # {}
  PROVE  \E m \in S : \A k \in S : m <= k
<1> DEFINE R == OpToRel(<, Nat)
<1>1. \A j, k \in Nat : j < k => <<j, k>> \in R
  BY DEF OpToRel
<1>2. IsWellFoundedOn(R, Nat)
  BY NatLessThanWellFounded
<1> HIDE DEF R
<1>3. PICK m \in S : \A k \in S : ~ (<<k, m>> \in R)
  BY <1>2, WFMin
<1>4. ASSUME NEW k \in S PROVE m <= k
  <2>1. m \in Nat /\ k \in Nat /\ ~(k < m)
    BY <1>1, <1>3
  <2>2. QED
    BY <2>1
<1>5. QED
  BY <1>4

(* A bounded one has a greatest element. *)
LEMMA GreatestOf ==
  ASSUME NEW N \in Nat, NEW S \in SUBSET (0 .. N), S # {}
  PROVE  \E m \in S : \A k \in S : k <= m
<1> DEFINE T == {N - k : k \in S}
<1>1. PICK t \in T : \A u \in T : t <= u
  <2>1. \A k \in S : N - k \in Nat
    OBVIOUS
  <2>2. T \in SUBSET Nat
    BY <2>1
  <2>3. T # {}
    OBVIOUS
  <2> HIDE DEF T
  <2>4. QED
    BY <2>2, <2>3, LeastOf
<1>2. PICK m \in S : t = N - m
  OBVIOUS
<1>3. ASSUME NEW k \in S PROVE k <= m
  <2>1. N - k \in T /\ k \in Int /\ m \in Int
    OBVIOUS
  <2>2. N - m <= N - k
    BY <1>1, <1>2, <2>1
  <2>3. QED
    BY <2>1, <2>2
<1>4. QED
  BY <1>3

LEMMA IntervalSize ==
  ASSUME NEW k \in Nat \ {0}
  PROVE  Cardinality(0 .. k - 1) = k
<1>1. 0 \in Int /\ k - 1 \in Int
  OBVIOUS
<1>2. Cardinality(0 .. k - 1) = IF 0 > k - 1 THEN 0 ELSE k - 1 - 0 + 1
  BY <1>1, FS_Interval
<1>3. QED
  BY <1>2

-----------------------------------------------------------------------------
(* The recursive function of Behind, cut after N steps: it exists. *)
IsWalk(f, a, e, N) ==
  f = [n \in 0 .. N |-> IF n = 0 THEN e ELSE IF f[n - 1] = Nil THEN Nil ELSE a[f[n - 1]].next]

LEMMA WalkExtends ==
  ASSUME NEW a, NEW e, NEW N \in Nat, NEW f, IsWalk(f, a, e, N)
  PROVE  \E g : IsWalk(g, a, e, N + 1)
<1> DEFINE x == IF f[N] = Nil THEN Nil ELSE a[f[N]].next
           g == [n \in 0 .. N + 1 |-> IF n = N + 1 THEN x ELSE f[n]]
           h == [n \in 0 .. N + 1 |-> IF n = 0 THEN e ELSE IF g[n - 1] = Nil THEN Nil ELSE a[g[n - 1]].next]
<1>1. \A n \in 0 .. N : f[n] = IF n = 0 THEN e ELSE IF f[n - 1] = Nil THEN Nil ELSE a[f[n - 1]].next
  BY DEF IsWalk
<1>2. \A n \in 0 .. N + 1 : n # N + 1 => n \in 0 .. N /\ g[n] = f[n]
  OBVIOUS
<1>3. g[N + 1] = x /\ N + 1 # 0 /\ N + 1 - 1 = N /\ N + 1 \in 0 .. N + 1 /\ N \in 0 .. N + 1 /\ g[N] = f[N]
  OBVIOUS
<1>4. ASSUME NEW n \in 0 .. N + 1 PROVE g[n] = h[n]
  <2>1. CASE n = N + 1
    <3>1. h[n] = IF g[N] = Nil THEN Nil ELSE a[g[N]].next
      BY <2>1, <1>3
    <3>2. QED
      BY <1>3, <2>1, <3>1
  <2>2. CASE n # N + 1 /\ n # 0
    <3>1. n - 1 \in 0 .. N + 1 /\ n - 1 # N + 1 /\ n \in 0 .. N
      BY <2>2
    <3>2. g[n] = f[n] /\ g[n - 1] = f[n - 1]
      BY <1>2, <2>2, <3>1
    <3>3. h[n] = IF g[n - 1] = Nil THEN Nil ELSE a[g[n - 1]].next
      BY <2>2
    <3> HIDE DEF g, h
    <3>4. QED
      BY <1>1, <2>2, <3>1, <3>2, <3>3
  <2>3. CASE n = 0
    BY <1>1, <1>2, <2>3
  <2>4. QED
    BY <2>1, <2>2, <2>3
<1>5. g = h
  <2>1. g = [n \in 0 .. N + 1 |-> g[n]] /\ h = [n \in 0 .. N + 1 |-> h[n]]
    OBVIOUS
  <2> HIDE DEF g, h
  <2>2. QED
    BY <1>4, <2>1
<1>6. IsWalk(g, a, e, N + 1)
  BY <1>5 DEF IsWalk
<1>7. QED
  BY <1>6

LEMMA WalkExists ==
  ASSUME NEW a, NEW e, NEW N \in Nat
  PROVE  \E f : IsWalk(f, a, e, N)
<1> DEFINE S == {n \in Nat : ~ \E f : IsWalk(f, a, e, n)}
<1>1. SUFFICES ASSUME S # {} PROVE FALSE
  OBVIOUS
<1>2. PICK n \in S : \A k \in S : n <= k
  <2>1. S \in SUBSET Nat
    OBVIOUS
  <2> HIDE DEF S
  <2>2. QED
    BY <1>1, <2>1, LeastOf
<1>3. CASE n = 0
  <2> DEFINE f == [m \in 0 .. 0 |-> e]
             g == [m \in 0 .. 0 |-> IF m = 0 THEN e ELSE IF f[m - 1] = Nil THEN Nil ELSE a[f[m - 1]].next]
  <2>1. f = g
    OBVIOUS
  <2>2. IsWalk(f, a, e, 0)
    BY <2>1 DEF IsWalk
  <2>3. QED
    BY <1>3, <2>2
<1>4. CASE n # 0
  <2>1. n - 1 \in Nat /\ n - 1 \notin S /\ n - 1 + 1 = n
    BY <1>2, <1>4
  <2>2. PICK f : IsWalk(f, a, e, n - 1)
    BY <2>1
  <2>3. \E g : IsWalk(g, a, e, n - 1 + 1)
    BY <2>1, <2>2, WalkExtends
  <2>4. QED
    BY <2>1, <2>3
<1>5. QED
  BY <1>3, <1>4

(* The equation that defines Behind. *)
LEMMA BehindDef ==
  ASSUME NEW a, NEW e, arenasize(a) \in Nat
  PROVE  /\ Behind(a, e)[0] = e
         /\ \A n \in 1 .. arenasize(a) :
              Behind(a, e)[n] = IF Behind(a, e)[n - 1] = Nil THEN Nil ELSE a[Behind(a, e)[n - 1]].next
<1> DEFINE N == arenasize(a)
           W == CHOOSE f : IsWalk(f, a, e, N)
<1>1. IsWalk(W, a, e, N)
  BY WalkExists
<1>2. Behind(a, e) = W
  BY DEF Behind, IsWalk
<1> HIDE DEF W
<1>3. \A n \in 0 .. N : W[n] = IF n = 0 THEN e ELSE IF W[n - 1] = Nil THEN Nil ELSE a[W[n - 1]].next
  BY <1>1 DEF IsWalk
<1> HIDE DEF N
<1>4. QED
  BY <1>2, <1>3 DEF N

(* What a pointer reaches stays in a set that is closed under next. *)
LEMMA ChainWithin ==
  ASSUME NEW a, NEW e, arenasize(a) \in Nat, NEW T, e \in T \cup {Nil},
         \A x \in T : a[x].next \in T \cup {Nil}
  PROVE  Chain(a, e) \subseteq T
<1> DEFINE N == arenasize(a)
           W == Behind(a, e)
           S == {n \in 0 .. N : W[n] \notin T \cup {Nil}}
<1>1. /\ W[0] = e
      /\ \A n \in 1 .. N : W[n] = IF W[n - 1] = Nil THEN Nil ELSE a[W[n - 1]].next
  BY BehindDef
<1>2. SUFFICES ASSUME S # {} PROVE FALSE
  BY DEF Chain
<1>3. PICK n \in S : \A k \in S : n <= k
  <2>1. S \in SUBSET Nat
    OBVIOUS
  <2> HIDE DEF S
  <2>2. QED
    BY <1>2, <2>1, LeastOf
<1> HIDE DEF W, N
<1>4. n \in 1 .. N /\ n - 1 \in 0 .. N /\ n - 1 \notin S
  BY <1>1, <1>3 DEF N
<1>5. W[n - 1] \in T \cup {Nil}
  BY <1>4
<1>6. W[n] \in T \cup {Nil}
  BY <1>1, <1>4, <1>5
<1>7. QED
  BY <1>6

(* A pointer reaches what follows it, when that is fewer steps than entries. *)
LEMMA ChainReaches ==
  ASSUME NEW a, NEW e, arenasize(a) \in Nat, NEW T, Nil \notin T,
         NEW rank \in [T -> 0 .. arenasize(a)],
         \A y \in T : y = e \/ \E x \in T : a[x].next = y /\ rank[x] < rank[y]
  PROVE  T \subseteq Chain(a, e)
<1> DEFINE N == arenasize(a)
           W == Behind(a, e)
           Early(y) == \E m \in 0 .. N : m <= rank[y] /\ W[m] = y
           S == {y \in T : ~Early(y)}
           R == {rank[y] : y \in S}
<1>1. /\ W[0] = e
      /\ \A n \in 1 .. N : W[n] = IF W[n - 1] = Nil THEN Nil ELSE a[W[n - 1]].next
  BY BehindDef
<1>2. S = {}
  <2>1. SUFFICES ASSUME S # {} PROVE FALSE
    OBVIOUS
  <2>2. PICK y \in S : \A x \in S : rank[y] <= rank[x]
    <3>1. R \in SUBSET Nat /\ R # {}
      BY <2>1
    <3>2. PICK r \in R : \A q \in R : r <= q
      <4> HIDE DEF R
      <4>1. QED
        BY <3>1, LeastOf
    <3>3. QED
      BY <3>2
  <2> HIDE DEF W, N
  <2>3. rank[y] \in 0 .. N /\ y \in T /\ ~Early(y) /\ N \in Nat
    BY DEF N
  <2>4. y # e
    <3>1. SUFFICES ASSUME y = e PROVE FALSE
      OBVIOUS
    <3>2. 0 \in 0 .. N /\ 0 <= rank[y] /\ W[0] = y
      BY <1>1, <2>3, <3>1
    <3>3. QED
      BY <2>3, <3>2
  <2>5. PICK x \in T : a[x].next = y /\ rank[x] < rank[y]
    BY <2>3, <2>4
  <2>6. rank[x] \in 0 .. N /\ x \notin S
    BY <2>2, <2>3, <2>5 DEF N
  <2>7. PICK m \in 0 .. N : m <= rank[x] /\ W[m] = x
    BY <2>6
  <2>8. m + 1 \in 1 .. N /\ m + 1 \in 0 .. N /\ m + 1 <= rank[y] /\ m + 1 - 1 = m
    BY <2>3, <2>5, <2>6, <2>7
  <2>9. W[m + 1] = y
    <3>1. x # Nil
      OBVIOUS
    <3>2. W[m + 1] = IF W[m + 1 - 1] = Nil THEN Nil ELSE a[W[m + 1 - 1]].next
      BY <1>1, <2>8
    <3>3. QED
      BY <2>5, <2>7, <2>8, <3>1, <3>2
  <2>10. QED
    BY <2>3, <2>8, <2>9
<1>3. QED
  BY <1>2 DEF Chain

-----------------------------------------------------------------------------
(* The last of a set of entries, what kmap_rehash links to. *)
Greatest(S) == IF S = {} THEN Nil ELSE CHOOSE j \in S : \A k \in S : k <= j

LEMMA GreatestIs ==
  ASSUME NEW N \in Nat, NEW S \in SUBSET (0 .. N)
  PROVE  \/ S = {} /\ Greatest(S) = Nil
         \/ Greatest(S) \in S /\ \A k \in S : k <= Greatest(S)
BY GreatestOf DEF Greatest

(* The entries before entry i whose names have hash codes in bucket b of n. *)
Same(l, i, b, n) == {j \in 0 .. i - 1 : strhash[l[j + 1]] % n = b}

(* The map that stores the names of l. *)
Shape(a, h, u, l) ==
  /\ l \in Seq(Name)
  /\ arenasize(a) \in Nat \ {0} /\ DOMAIN a = 0 .. arenasize(a) - 1
  /\ hmax(h) \in Nat \ {0} /\ DOMAIN h = 0 .. hmax(h) - 1
  /\ Len(l) <= arenasize(a)
  /\ u = IF Len(l) = arenasize(a) THEN Nil ELSE Len(l)
  /\ \A i \in 0 .. Len(l) - 1 :
       a[i] = [hcode |-> strhash[l[i + 1]], skey |-> l[i + 1], uvalue |-> i,
               next |-> Greatest(Same(l, i, strhash[l[i + 1]] % hmax(h), hmax(h)))]
  /\ \A i \in Len(l) .. arenasize(a) - 1 : a[i] = FreeEntry(i, arenasize(a))
  /\ \A b \in DOMAIN h : h[b] = Greatest(Same(l, Len(l), b, hmax(h)))

LEMMA SameType ==
  ASSUME NEW l, NEW i \in Nat, NEW b, NEW n
  PROVE  /\ Same(l, i, b, n) \in SUBSET (0 .. i) /\ Same(l, i, b, n) \in SUBSET Nat
         /\ Nil \notin Same(l, i, b, n)
         /\ \/ Same(l, i, b, n) = {} /\ Greatest(Same(l, i, b, n)) = Nil
            \/ /\ Greatest(Same(l, i, b, n)) \in Same(l, i, b, n)
               /\ \A k \in Same(l, i, b, n) : k <= Greatest(Same(l, i, b, n))
<1> DEFINE S == Same(l, i, b, n)
<1>1. S \in SUBSET (0 .. i) /\ S \in SUBSET Nat
  BY DEF Same
<1>2. Nil \notin S
  <2> HIDE DEF S
  <2>1. QED
    BY <1>1 DEF Nil
<1>3. \/ S = {} /\ Greatest(S) = Nil
      \/ Greatest(S) \in S /\ \A k \in S : k <= Greatest(S)
  <2> HIDE DEF S
  <2>1. QED
    BY <1>1, GreatestIs
<1>4. QED
  BY <1>1, <1>2, <1>3

(* The entries of a bucket are those of its names. *)
LEMMA BucketChain ==
  ASSUME NEW a, NEW h, NEW u, NEW l, Shape(a, h, u, l), NEW b \in DOMAIN h
  PROVE  Chain(a, h[b]) = Same(l, Len(l), b, hmax(h))
<1> DEFINE L == Len(l)
           n == hmax(h)
           T == Same(l, L, b, n)
           rank == [i \in T |-> L - i]
<1>1. L \in Nat /\ arenasize(a) \in Nat /\ L <= arenasize(a) /\ h[b] = Greatest(T)
  BY DEF Shape
<1>2. \A i \in T : a[i].next = Greatest(Same(l, i, b, n)) /\ i \in 0 .. L - 1 /\ i \in Nat
  <2> SUFFICES ASSUME NEW i \in T
               PROVE  a[i].next = Greatest(Same(l, i, b, n)) /\ i \in 0 .. L - 1 /\ i \in Nat
    OBVIOUS
  <2>1. i \in 0 .. L - 1 /\ i \in Nat /\ strhash[l[i + 1]] % n = b
    BY <1>1 DEF Same
  <2>2. a[i] = [hcode |-> strhash[l[i + 1]], skey |-> l[i + 1], uvalue |-> i,
               next |-> Greatest(Same(l, i, strhash[l[i + 1]] % hmax(h), hmax(h)))]
    BY <2>1 DEF Shape
  <2>3. a[i].next = Greatest(Same(l, i, strhash[l[i + 1]] % hmax(h), hmax(h)))
    BY <2>2
  <2>4. QED
    BY <2>1, <2>3
<1>3. \A i, j \in T : j < i <=> j \in Same(l, i, b, n)
  BY <1>1, <1>2 DEF Same
<1>4. \A i \in T : Same(l, i, b, n) \subseteq T
  BY <1>1, <1>2 DEF Same
<1>5. h[b] \in T \cup {Nil} /\ \A i \in T : a[i].next \in T \cup {Nil}
  BY <1>1, <1>2, <1>4, SameType
<1>6. Chain(a, h[b]) \subseteq T
  <2> HIDE DEF T
  <2>1. QED
    BY <1>1, <1>5, ChainWithin
<1>7. T \subseteq Chain(a, h[b])
  <2>1. rank \in [T -> 0 .. arenasize(a)]
    <3>1. \A i \in T : L - i \in 0 .. arenasize(a)
      BY <1>1, <1>2
    <3> HIDE DEF T, L
    <3>2. QED
      BY <3>1
  <2>2. ASSUME NEW y \in T, y # h[b]
        PROVE  \E x \in T : a[x].next = y /\ rank[x] < rank[y]
    <3> DEFINE S == {x \in T : y < x}
    <3>1. S # {}
      <4>1. Greatest(T) \in T /\ y <= Greatest(T)
        BY <1>1, SameType
      <4>2. Greatest(T) # y
        BY <1>1, <2>2
      <4> HIDE DEF T
      <4>3. y < Greatest(T)
        BY <1>2, <4>1, <4>2
      <4>4. QED
        BY <4>1, <4>3
    <3>2. PICK x \in S : \A k \in S : x <= k
      <4>1. S \in SUBSET Nat
        BY <1>2
      <4> HIDE DEF S
      <4>2. QED
        BY <3>1, <4>1, LeastOf
    <3>3. x \in T /\ y < x /\ x \in Nat /\ y \in Nat /\ y \in Same(l, x, b, n)
      BY <1>2, <1>3
    <3>4. /\ Greatest(Same(l, x, b, n)) \in Same(l, x, b, n)
          /\ y <= Greatest(Same(l, x, b, n))
      BY <3>3, SameType
    <3> DEFINE g == Greatest(Same(l, x, b, n))
    <3>5. g = y
      <4>1. g \in T /\ g \in Nat /\ g < x /\ y <= g
        BY <1>2, <1>3, <1>4, <3>3, <3>4
      <4> HIDE DEF g, T
      <4>2. ~(y < g)
        <5>1. SUFFICES ASSUME y < g PROVE FALSE
          OBVIOUS
        <5>2. g \in S
          BY <4>1, <5>1
        <5>3. QED
          BY <3>2, <3>3, <4>1, <5>2
      <4>3. QED
        BY <3>3, <4>1, <4>2
    <3>6. a[x].next = y
      BY <1>2, <3>3, <3>5
    <3>7. rank[x] < rank[y]
      <4>1. rank[x] = L - x /\ rank[y] = L - y
        BY <3>3
      <4>2. QED
        BY <1>1, <3>3, <4>1
    <3>8. QED
      BY <3>3, <3>6, <3>7
  <2>3. Nil \notin T
    BY <1>2 DEF Nil
  <2> HIDE DEF T, rank
  <2>4. QED
    BY <1>1, <2>1, <2>2, <2>3, ChainReaches
<1>8. QED
  BY <1>6, <1>7

(* The free entries are those behind the names. *)
LEMMA FreeChain ==
  ASSUME NEW a, NEW h, NEW u, NEW l, Shape(a, h, u, l)
  PROVE  Chain(a, u) = Len(l) .. arenasize(a) - 1
<1> DEFINE L == Len(l)
           N == arenasize(a)
           T == L .. N - 1
           rank == [i \in T |-> i - L]
<1>1. L \in Nat /\ N \in Nat /\ L <= N /\ u = IF L = N THEN Nil ELSE L
  BY DEF Shape
<1>2. \A i \in T : a[i].next = IF i = N - 1 THEN Nil ELSE i + 1
  <2> SUFFICES ASSUME NEW i \in T PROVE a[i].next = IF i = N - 1 THEN Nil ELSE i + 1
    OBVIOUS
  <2>1. a[i] = FreeEntry(i, N)
    BY DEF Shape
  <2>2. QED
    BY <2>1 DEF FreeEntry
<1>3. Chain(a, u) \subseteq T
  <2>1. u \in T \cup {Nil}
    BY <1>1
  <2>2. \A i \in T : a[i].next \in T \cup {Nil}
    BY <1>1, <1>2
  <2> HIDE DEF T
  <2>3. QED
    BY <1>1, <2>1, <2>2, ChainWithin
<1>4. T \subseteq Chain(a, u)
  <2>1. rank \in [T -> 0 .. arenasize(a)]
    <3>1. \A i \in T : i - L \in 0 .. arenasize(a)
      BY <1>1
    <3> HIDE DEF T, L
    <3>2. QED
      BY <3>1
  <2>2. ASSUME NEW y \in T, y # u
        PROVE  \E x \in T : a[x].next = y /\ rank[x] < rank[y]
    <3>1. y - 1 \in T /\ y - 1 # N - 1 /\ y - 1 + 1 = y
      BY <1>1, <2>2
    <3>2. a[y - 1].next = y
      BY <1>2, <3>1
    <3>3. rank[y - 1] = y - 1 - L /\ rank[y] = y - L
      BY <3>1
    <3>4. rank[y - 1] < rank[y]
      BY <1>1, <3>3
    <3>5. QED
      BY <3>1, <3>2, <3>4
  <2>3. Nil \notin T
    BY <1>1 DEF Nil
  <2> HIDE DEF T, rank
  <2>4. QED
    BY <1>1, <2>1, <2>2, <2>3, ChainReaches
<1>5. QED
  BY <1>3, <1>4

-----------------------------------------------------------------------------
(* What an entry in use is. *)
LEMMA UsedEntry ==
  ASSUME NEW a, NEW h, NEW u, NEW l, Shape(a, h, u, l), NEW i \in 0 .. Len(l) - 1
  PROVE  /\ i \in Nat /\ l[i + 1] \in Name /\ strhash[l[i + 1]] \in Nat
         /\ strhash[l[i + 1]] % hmax(h) \in DOMAIN h
         /\ a[i].hcode = strhash[l[i + 1]] /\ a[i].skey = l[i + 1] /\ a[i].uvalue = i
         /\ a[i].next = Greatest(Same(l, i, strhash[l[i + 1]] % hmax(h), hmax(h)))
         /\ a[i].next \in (0 .. i - 1) \cup {Nil}
<1>1. /\ i \in Nat /\ l[i + 1] \in Name /\ Len(l) \in Nat
      /\ hmax(h) \in Nat \ {0} /\ DOMAIN h = 0 .. hmax(h) - 1
      /\ a[i] = [hcode |-> strhash[l[i + 1]], skey |-> l[i + 1], uvalue |-> i,
                 next |-> Greatest(Same(l, i, strhash[l[i + 1]] % hmax(h), hmax(h)))]
  BY DEF Shape
<1> DEFINE b == strhash[l[i + 1]] % hmax(h)  S == Same(l, i, b, hmax(h))
<1>2. strhash[l[i + 1]] \in Nat
  BY <1>1, HashAssumption
<1>3. b \in DOMAIN h
  <2> DEFINE s == strhash[l[i + 1]]  n == hmax(h)
  <2>1. s \in Nat /\ n \in Nat /\ n > 0
    BY <1>1, <1>2
  <2> HIDE DEF s, n
  <2>2. s % n \in 0 .. n - 1
    BY <2>1
  <2>3. QED
    BY <1>1, <2>2 DEF s, n
<1>4. Greatest(S) \in (0 .. i - 1) \cup {Nil}
  <2>1. S \subseteq 0 .. i - 1
    BY DEF Same
  <2>2. Greatest(S) \in S \cup {Nil}
    BY <1>1, SameType
  <2>3. QED
    BY <2>1, <2>2
<1>5. QED
  BY <1>1, <1>2, <1>3, <1>4

(* What the lists of the map are. *)
LEMMA Partition ==
  ASSUME NEW l, Shape(arena, hentry, unused, l)
  PROVE  ListsPartitionArena
<1> DEFINE L == Len(l)  n == hmax(hentry)  N == arenasize(arena)
           free == Chain(arena, unused)
           chain(b) == Chain(arena, hentry[b])
<1>1. /\ L \in Nat /\ N \in Nat /\ L <= N /\ Slot = 0 .. N - 1
      /\ n \in Nat \ {0} /\ DOMAIN hentry = 0 .. n - 1
  BY DEF Shape, Slot
<1>2. /\ free = L .. N - 1
      /\ \A b \in DOMAIN hentry : chain(b) = {j \in 0 .. L - 1 : strhash[l[j + 1]] % n = b}
  BY FreeChain, BucketChain DEF Same
<1>3. ASSUME NEW e \in Slot
      PROVE  e \in free \/ \E b \in DOMAIN hentry : e \in chain(b)
  <2>1. CASE e >= L
    BY <1>1, <1>2, <2>1
  <2>2. CASE e < L
    <3>1. e \in 0 .. L - 1
      BY <1>1, <2>2
    <3>2. PICK b \in DOMAIN hentry : strhash[l[e + 1]] % n = b
      BY <3>1, UsedEntry
    <3>3. e \in chain(b)
      BY <1>2, <3>1, <3>2
    <3>4. QED
      BY <3>3
  <2>3. QED
    BY <1>1, <2>1, <2>2
<1>4. ASSUME NEW b \in DOMAIN hentry, NEW e \in chain(b)
      PROVE  /\ arena[e].hcode % n = b /\ arena[e].hcode # Nil
             /\ e \notin Chain(arena, arena[e].next) /\ e \notin free
  <2>1. e \in 0 .. L - 1 /\ e \in Nat /\ strhash[l[e + 1]] % n = b
    BY <1>1, <1>2
  <2>2. /\ arena[e].hcode = strhash[l[e + 1]] /\ strhash[l[e + 1]] \in Nat
        /\ arena[e].next \in (0 .. e - 1) \cup {Nil}
    BY <2>1, UsedEntry
  <2>3. \A x \in 0 .. e - 1 : arena[x].next \in (0 .. e - 1) \cup {Nil}
    <3> TAKE x \in 0 .. e - 1
    <3>1. x \in 0 .. L - 1 /\ 0 .. x - 1 \subseteq 0 .. e - 1
      BY <1>1, <2>1
    <3>2. arena[x].next \in (0 .. x - 1) \cup {Nil}
      BY <3>1, UsedEntry
    <3>3. QED
      BY <3>1, <3>2
  <2>4. Chain(arena, arena[e].next) \subseteq 0 .. e - 1
    <3> DEFINE T == 0 .. e - 1
    <3>1. arenasize(arena) \in Nat /\ arena[e].next \in T \cup {Nil} /\ \A x \in T : arena[x].next \in T \cup {Nil}
      BY <1>1, <2>2, <2>3
    <3> HIDE DEF T
    <3>2. Chain(arena, arena[e].next) \subseteq T
      BY <3>1, ChainWithin
    <3>3. QED
      BY <3>2 DEF T
  <2>5. e \notin 0 .. e - 1
    BY <2>1
  <2>6. arena[e].hcode # Nil
    BY <2>2 DEF Nil
  <2>7. e \notin free
    BY <1>1, <1>2, <2>1
  <2>8. QED
    BY <2>1, <2>2, <2>4, <2>5, <2>6, <2>7
<1>5. ASSUME NEW e \in free PROVE e \notin Chain(arena, arena[e].next)
  <2>1. e \in L .. N - 1 /\ e \in Nat
    BY <1>1, <1>2
  <2>2. ASSUME NEW x \in L .. N - 1 PROVE arena[x].next \in (x + 1 .. N - 1) \cup {Nil}
    <3>1. arena[x] = FreeEntry(x, N)
      BY DEF Shape
    <3>2. arena[x].next = IF x = N - 1 THEN Nil ELSE x + 1
      BY <3>1 DEF FreeEntry
    <3>3. QED
      BY <1>1, <3>2
  <2>3. \A x \in e + 1 .. N - 1 : arena[x].next \in (e + 1 .. N - 1) \cup {Nil}
    <3> TAKE x \in e + 1 .. N - 1
    <3>1. x \in L .. N - 1 /\ (x + 1 .. N - 1) \subseteq (e + 1 .. N - 1)
      BY <1>1, <2>1
    <3>2. QED
      BY <2>2, <3>1
  <2>4. Chain(arena, arena[e].next) \subseteq e + 1 .. N - 1
    <3> DEFINE T == e + 1 .. N - 1
    <3>1. arenasize(arena) \in Nat /\ arena[e].next \in T \cup {Nil} /\ \A x \in T : arena[x].next \in T \cup {Nil}
      BY <1>1, <2>1, <2>2, <2>3
    <3> HIDE DEF T
    <3>2. Chain(arena, arena[e].next) \subseteq T
      BY <3>1, ChainWithin
    <3>3. QED
      BY <3>2 DEF T
  <2>5. e \notin e + 1 .. N - 1
    BY <2>1
  <2>6. QED
    BY <2>4, <2>5
<1>6. QED
  BY <1>3, <1>4, <1>5 DEF ListsPartitionArena

(* The codes stored under a name. *)
LEMMA CodesAre ==
  ASSUME NEW l, Shape(arena, hentry, unused, l), NEW name \in Name
  PROVE  Codes(name) = {i \in 0 .. Len(l) - 1 : l[i + 1] = name}
<1> DEFINE b == strhash[name] % hmax(hentry)  T == Same(l, Len(l), b, hmax(hentry))
           K == {i \in 0 .. Len(l) - 1 : l[i + 1] = name}
<1>1. b \in DOMAIN hentry
  <2>1. strhash[name] \in Nat /\ hmax(hentry) \in Nat /\ hmax(hentry) > 0 /\ DOMAIN hentry = 0 .. hmax(hentry) - 1
    BY HashAssumption DEF Shape
  <2> DEFINE s == strhash[name]  n == hmax(hentry)
  <2>2. s % n \in 0 .. n - 1
    <3>1. s \in Nat /\ n \in Nat /\ n > 0
      BY <2>1
    <3> HIDE DEF s, n
    <3>2. QED
      BY <3>1
  <2>3. QED
    BY <2>1, <2>2
<1>2. Bucket(name) = T
  BY <1>1, BucketChain DEF Bucket
<1>3. \A e \in 0 .. Len(l) - 1 : /\ arena[e].hcode = strhash[l[e + 1]]
                                 /\ arena[e].skey = l[e + 1] /\ arena[e].uvalue = e
  BY UsedEntry
<1>4. \A e \in T : e \in 0 .. Len(l) - 1
  BY DEF Same
<1>5. \A e \in K : e \in T
  BY DEF Same
<1>6. \A e \in T : Match(e, name) <=> e \in K
  BY <1>3, <1>4 DEF Match
<1>7. Codes(name) = {arena[e].uvalue : e \in {e \in T : Match(e, name)}}
  BY <1>2 DEF Codes
<1> HIDE DEF b, T
<1>8. {e \in T : Match(e, name)} = K
  BY <1>5, <1>6
<1>9. Codes(name) = {arena[e].uvalue : e \in K}
  BY <1>7, <1>8
<1>10. \A e \in K : arena[e].uvalue = e
  BY <1>3
<1> HIDE DEF K
<1>11. QED
  BY <1>9, <1>10 DEF K

-----------------------------------------------------------------------------
(* A new map. *)
LEMMA NewMap ==
  ASSUME Kmap_init
  PROVE  Shape(arena, hentry, unused, list) /\ list = <<>>
<1> DEFINE N == (HMAP_INIT * 3) \div 4
<1>1. N \in Nat \ {0} /\ HMAP_INIT \in Nat \ {0}
  BY HashAssumption
<1> HIDE DEF N
<1>2. /\ arena = [i \in 0 .. N - 1 |-> FreeEntry(i, N)]
      /\ hentry = [b \in 0 .. HMAP_INIT - 1 |-> Nil]
      /\ unused = 0 /\ list = <<>> /\ Len(list) = 0
  BY DEF Kmap_init, N
<1>3. /\ DOMAIN arena = 0 .. N - 1 /\ DOMAIN hentry = 0 .. HMAP_INIT - 1
      /\ \A i \in 0 .. N - 1 : arena[i] = FreeEntry(i, N)
      /\ \A b \in 0 .. HMAP_INIT - 1 : hentry[b] = Nil
  BY <1>2
<1>4. arenasize(arena) = N /\ hmax(hentry) = HMAP_INIT
  BY <1>1, <1>3, IntervalSize DEF arenasize, hmax
<1>5. \A b \in DOMAIN hentry : hentry[b] = Greatest(Same(list, Len(list), b, hmax(hentry)))
  <2> TAKE b \in DOMAIN hentry
  <2>1. Same(list, Len(list), b, hmax(hentry)) = {}
    BY <1>2 DEF Same
  <2>2. QED
    BY <1>3, <2>1 DEF Greatest
<1>6. QED
  BY <1>1, <1>2, <1>3, <1>4, <1>5 DEF Shape

(* The map that grows holds the same names, and has a free entry. *)
LEMMA GrownShape ==
  ASSUME NEW l, Shape(arena, hentry, unused, l)
  PROVE  Shape(Grown.arena, Grown.hentry, Grown.unused, l) /\ Grown.unused # Nil
<1>1. CASE unused # Nil
  <2>1. Grown = [arena |-> arena, hentry |-> hentry, unused |-> unused]
    BY <1>1 DEF Grown
  <2>2. Grown.arena = arena /\ Grown.hentry = hentry /\ Grown.unused = unused
    BY <2>1
  <2>3. QED
    BY <1>1, <2>2
<1>2. CASE unused = Nil
  <2> DEFINE s == arenasize(arena)  n == 2 * hmax(hentry) + 1
             a == [i \in 0 .. 2 * s - 1 |-> IF i < s THEN arena[i] ELSE FreeEntry(i, 2 * s)]
             r == kmap_rehash(a, n, s)
             ra == r.arena  rh == r.hentry
  <2>1. Grown.arena = ra /\ Grown.hentry = rh /\ Grown.unused = s
    <3>1. Grown = [arena |-> ra, hentry |-> rh, unused |-> s]
      BY <1>2 DEF Grown
    <3> HIDE DEF ra, rh, s
    <3>2. QED
      BY <3>1
  <2>2. s \in Nat \ {0} /\ n \in Nat \ {0} /\ 2 * s \in Nat \ {0} /\ Len(l) = s /\ l \in Seq(Name)
    <3>1. Len(l) \in Nat
      BY DEF Shape
    <3>2. Len(l) # Nil
      BY <3>1 DEF Nil
    <3>3. QED
      BY <1>2, <3>1, <3>2 DEF Shape
  <2>3. \A i \in 0 .. s - 1 : i \in 0 .. 2 * s - 1 /\ i \in Nat /\ i < s /\ a[i] = arena[i]
    BY <2>2
  <2>4. \A i \in s .. 2 * s - 1 : i \in 0 .. 2 * s - 1 /\ ~(i < s) /\ a[i] = FreeEntry(i, 2 * s)
    BY <2>2
  <2>5. \A i \in 0 .. s - 1 : a[i].hcode = strhash[l[i + 1]]
    BY <2>2, <2>3, UsedEntry
  <2>6. DOMAIN a = 0 .. 2 * s - 1
    OBVIOUS
  <2>7. /\ ra = [i \in DOMAIN a |->
                   IF i < s THEN [a[i] EXCEPT !.next = Last(a, i, a[i].hcode % n, n)] ELSE a[i]]
        /\ rh = [b \in 0 .. n - 1 |-> Last(a, s, b, n)]
    BY DEF kmap_rehash
  <2> HIDE DEF a, ra, rh, r
  <2>8. /\ DOMAIN ra = 0 .. 2 * s - 1 /\ DOMAIN rh = 0 .. n - 1
        /\ \A i \in 0 .. s - 1 : ra[i] = [a[i] EXCEPT !.next = Last(a, i, a[i].hcode % n, n)]
        /\ \A i \in s .. 2 * s - 1 : ra[i] = FreeEntry(i, 2 * s)
        /\ \A b \in 0 .. n - 1 : rh[b] = Last(a, s, b, n)
    BY <2>3, <2>4, <2>6, <2>7
  <2>9. arenasize(ra) = 2 * s /\ hmax(rh) = n
    BY <2>2, <2>8, IntervalSize DEF arenasize, hmax
  <2>10. ASSUME NEW i \in 0 .. s, NEW b
         PROVE  Last(a, i, b, n) = Greatest(Same(l, i, b, n))
    <3>1. \A j \in 0 .. i - 1 : j \in 0 .. s - 1
      BY <2>2
    <3>2. \A j \in 0 .. i - 1 : a[j].hcode % n = strhash[l[j + 1]] % n
      BY <2>5, <3>1
    <3>3. {j \in 0 .. i - 1 : a[j].hcode % n = b} = Same(l, i, b, n)
      BY <3>2 DEF Same
    <3>4. Last(a, i, b, n) = Greatest({j \in 0 .. i - 1 : a[j].hcode % n = b})
      <4> HIDE DEF n, s
      <4>1. QED
        BY DEF Last, Greatest
    <3>5. QED
      BY <3>3, <3>4
  <2>11. ASSUME NEW i \in 0 .. s - 1
         PROVE  ra[i] = [hcode |-> strhash[l[i + 1]], skey |-> l[i + 1], uvalue |-> i,
                         next |-> Greatest(Same(l, i, strhash[l[i + 1]] % n, n))]
    <3>1. a[i] = [hcode |-> strhash[l[i + 1]], skey |-> l[i + 1], uvalue |-> i,
                  next |-> Greatest(Same(l, i, strhash[l[i + 1]] % hmax(hentry), hmax(hentry)))]
      BY <2>2, <2>3 DEF Shape
    <3>2. ra[i] = [a[i] EXCEPT !.next = Last(a, i, a[i].hcode % n, n)]
      BY <2>8
    <3>3. Last(a, i, a[i].hcode % n, n) = Greatest(Same(l, i, strhash[l[i + 1]] % n, n))
      BY <2>2, <2>3, <2>5, <2>10
    <3> HIDE DEF n, s
    <3>4. QED
      BY <3>1, <3>2, <3>3
  <2>12. s # Nil /\ s # 2 * s /\ s <= 2 * s
    BY <2>2 DEF Nil
  <2> HIDE DEF n, s
  <2>13. \A b \in 0 .. n - 1 : rh[b] = Greatest(Same(l, s, b, n))
    BY <2>2, <2>8, <2>10
  <2>14. Shape(ra, rh, s, l)
    BY <2>2, <2>8, <2>9, <2>11, <2>12, <2>13 DEF Shape
  <2>15. QED
    BY <2>1, <2>12, <2>14
<1>3. QED
  BY <1>1, <1>2

(* A name that is stored is one more name of the map. *)
LEMMA Stored ==
  ASSUME NEW a, NEW h, NEW u, NEW l, Shape(a, h, u, l), u # Nil, NEW name \in Name
  PROVE  LET b == strhash[name] % hmax(h)
             e == [hcode |-> strhash[name], skey |-> name, uvalue |-> Len(l), next |-> h[b]]
         IN Shape([a EXCEPT ![u] = e], [h EXCEPT ![b] = u], a[u].next, Append(l, name))
<1> DEFINE b == strhash[name] % hmax(h)
           e == [hcode |-> strhash[name], skey |-> name, uvalue |-> Len(l), next |-> h[b]]
           L == Len(l)  N == arenasize(a)  n == hmax(h)
           q == Append(l, name)
           A == [a EXCEPT ![u] = e]
           H == [h EXCEPT ![b] = u]
<1>1. /\ l \in Seq(Name) /\ L \in Nat /\ N \in Nat \ {0} /\ L <= N /\ DOMAIN a = 0 .. N - 1
      /\ n \in Nat \ {0} /\ DOMAIN h = 0 .. n - 1 /\ u = L /\ L # N /\ strhash[name] \in Nat
  BY HashAssumption DEF Shape
<1>2. b \in DOMAIN h /\ L \in DOMAIN a
  <2> DEFINE s == strhash[name]
  <2>1. s \in Nat /\ n \in Nat /\ n > 0
    BY <1>1
  <2> HIDE DEF s, n
  <2>2. s % n \in 0 .. n - 1
    BY <2>1
  <2>3. b \in DOMAIN h
    BY <1>1, <2>2 DEF s, n
  <2>4. QED
    BY <1>1, <2>3
<1>3. /\ q \in Seq(Name) /\ Len(q) = L + 1 /\ q[L + 1] = name
      /\ \A i \in 0 .. L - 1 : q[i + 1] = l[i + 1]
  BY <1>1
<1>4. /\ DOMAIN A = DOMAIN a /\ A[L] = e /\ \A i \in DOMAIN a : i # L => A[i] = a[i]
      /\ DOMAIN H = DOMAIN h /\ H[b] = L /\ \A d \in DOMAIN h : d # b => H[d] = h[d]
  <2> HIDE DEF e, b
  <2>1. QED
    BY <1>1, <1>2
<1>5. arenasize(A) = N /\ hmax(H) = n
  BY <1>4 DEF arenasize, hmax
<1>6. a[u].next = IF L = N - 1 THEN Nil ELSE L + 1
  <2>1. a[u] = FreeEntry(L, N)
    BY <1>1 DEF Shape
  <2>2. QED
    BY <2>1 DEF FreeEntry
<1> HIDE DEF A, H, q
<1>7. ASSUME NEW i \in 0 .. L, NEW d
      PROVE  Same(q, i, d, n) = Same(l, i, d, n)
  <2>1. \A j \in 0 .. i - 1 : q[j + 1] = l[j + 1]
    BY <1>1, <1>3
  <2>2. QED
    BY <2>1 DEF Same
<1>8. ASSUME NEW i \in 0 .. L
      PROVE  A[i] = [hcode |-> strhash[q[i + 1]], skey |-> q[i + 1], uvalue |-> i,
                     next |-> Greatest(Same(q, i, strhash[q[i + 1]] % n, n))]
  <2>1. CASE i = L
    <3>1. h[b] = Greatest(Same(l, L, b, n))
      BY <1>2 DEF Shape
    <3>2. Same(q, L, b, n) = Same(l, L, b, n)
      BY <1>1, <1>7
    <3> HIDE DEF n
    <3>3. h[b] = Greatest(Same(q, i, strhash[q[i + 1]] % n, n))
      BY <2>1, <1>3, <3>1, <3>2 DEF n
    <3>4. QED
      BY <2>1, <1>3, <1>4, <3>3
  <2>2. CASE i # L
    <3>1. i \in 0 .. L - 1 /\ i \in DOMAIN a
      BY <1>1, <2>2
    <3>2. a[i] = [hcode |-> strhash[l[i + 1]], skey |-> l[i + 1], uvalue |-> i,
                  next |-> Greatest(Same(l, i, strhash[l[i + 1]] % n, n))]
      BY <3>1 DEF Shape
    <3>3. q[i + 1] = l[i + 1]
      BY <1>3, <3>1
    <3>4. Same(q, i, strhash[l[i + 1]] % n, n) = Same(l, i, strhash[l[i + 1]] % n, n)
      BY <1>7
    <3>5. A[i] = a[i]
      BY <1>4, <2>2, <3>1
    <3>6. QED
      BY <3>2, <3>3, <3>4, <3>5
  <2>3. QED
    BY <2>1, <2>2
<1>9. ASSUME NEW d \in DOMAIN h
      PROVE  H[d] = Greatest(Same(q, L + 1, d, n))
  <2> DEFINE S == Same(q, L + 1, d, n)
  <2>1. \A j : j \in 0 .. L <=> j = L \/ j \in 0 .. L - 1
    BY <1>1
  <2>2. L + 1 - 1 = L
    BY <1>1
  <2>3. \A j : j \in S <=> j \in Same(l, L, d, n) \/ (j = L /\ d = b)
    BY <1>3, <2>1, <2>2 DEF Same
  <2>4. CASE d = b
    <3>1. L \in S /\ \A k \in S : k <= L /\ k \in Int
      BY <1>1, <2>2, <2>3, <2>4 DEF Same
    <3> HIDE DEF S
    <3>2. Greatest(S) = CHOOSE j \in S : \A k \in S : k <= j
      BY <3>1 DEF Greatest
    <3>3. Greatest(S) \in S /\ \A k \in S : k <= Greatest(S)
      BY <3>1, <3>2
    <3>4. Greatest(S) = L
      BY <3>1, <3>3
    <3>5. QED
      BY <1>4, <2>4, <3>4 DEF S
  <2>5. CASE d # b
    <3>1. S = Same(l, L, d, n)
      BY <2>3, <2>5
    <3>2. h[d] = Greatest(Same(l, L, d, n))
      BY DEF Shape
    <3>3. QED
      BY <1>4, <2>5, <3>1, <3>2
  <2>6. QED
    BY <2>4, <2>5
<1>10. \A i \in L + 1 .. N - 1 : A[i] = FreeEntry(i, N)
  <2> TAKE i \in L + 1 .. N - 1
  <2>1. i \in L .. N - 1 /\ i \in DOMAIN a /\ i # L
    BY <1>1
  <2>2. a[i] = FreeEntry(i, N)
    BY <2>1 DEF Shape
  <2>3. QED
    BY <1>4, <2>1, <2>2
<1>11. /\ L + 1 <= N /\ L + 1 - 1 = L
       /\ a[u].next = IF L + 1 = N THEN Nil ELSE L + 1
  BY <1>1, <1>6
<1> HIDE DEF L, N, n
<1>12. Shape(A, H, a[u].next, q)
  BY <1>1, <1>3, <1>4, <1>5, <1>8, <1>9, <1>10, <1>11 DEF Shape
<1>13. QED
  BY <1>12 DEF A, H, q

-----------------------------------------------------------------------------
(* The map holds each name once. *)
MapInv ==
  /\ Shape(arena, hentry, unused, list)
  /\ \A i, j \in 1 .. Len(list) : list[i] = list[j] => i = j

(* The names of the map are those of the list, and a name's code is its      *)
(* place in it.                                                              *)
Placed ==
  /\ list \in Seq(Name) /\ Len(list) \in Nat
  /\ Interned = {list[i] : i \in 1 .. Len(list)}
  /\ \A n : \A i \in 1 .. Len(list) : list[i] = n => Codes(n) = {i - 1}
  /\ IsFiniteSet(Interned) /\ Cardinality(Interned) = Len(list)

LEMMA InternedAre == MapInv => Placed
<1> SUFFICES ASSUME MapInv PROVE Placed
  OBVIOUS
<1> DEFINE L == Len(list)
<1>1. list \in Seq(Name) /\ L \in Nat /\ Shape(arena, hentry, unused, list)
  BY DEF MapInv, Shape
<1>2. \A n \in Name : Codes(n) = {i \in 0 .. L - 1 : list[i + 1] = n}
  BY <1>1, CodesAre
<1>3. \A i \in 0 .. L - 1 : i + 1 \in 1 .. L /\ i \in Int
  BY <1>1
<1>4. \A i \in 1 .. L : i - 1 \in 0 .. L - 1 /\ i - 1 + 1 = i /\ list[i] \in Name
  BY <1>1
<1>5. ASSUME NEW i \in 1 .. L PROVE Codes(list[i]) = {i - 1}
  <2>1. \A j \in 0 .. L - 1 : list[j + 1] = list[i] <=> j = i - 1
    <3> TAKE j \in 0 .. L - 1
    <3>1. list[j + 1] = list[i] => j + 1 = i
      BY <1>3 DEF MapInv
    <3>2. j + 1 = i <=> j = i - 1
      BY <1>3
    <3>3. QED
      BY <1>4, <3>1, <3>2
  <2>2. Codes(list[i]) = {j \in 0 .. L - 1 : list[j + 1] = list[i]} /\ i - 1 \in 0 .. L - 1
    BY <1>2, <1>4
  <2> HIDE DEF L
  <2>3. QED
    BY <2>1, <2>2
<1> DEFINE R == {list[i] : i \in 1 .. L}
<1>6. Interned = R
  <2>1. ASSUME NEW n \in Interned PROVE n \in R
    <3>1. PICK j \in 0 .. L - 1 : list[j + 1] = n
      BY <1>2 DEF Interned
    <3>2. QED
      BY <1>3, <3>1
  <2>2. ASSUME NEW n \in R PROVE n \in Interned
    <3>1. PICK i \in 1 .. L : list[i] = n
      OBVIOUS
    <3>2. n \in Name /\ i - 1 \in Codes(n)
      BY <1>4, <1>5, <3>1
    <3>3. QED
      BY <3>2 DEF Interned
  <2>3. QED
    BY <2>1, <2>2
<1>7. ExistsBijection(1 .. L, R)
  <2> DEFINE f == [i \in 1 .. L |-> list[i]]
  <2>1. f \in [1 .. L -> R] /\ \A i \in 1 .. L : f[i] = list[i]
    OBVIOUS
  <2>2. \A i, j \in 1 .. L : f[i] = f[j] => i = j
    BY <2>1 DEF MapInv
  <2>3. \A r \in R : \E i \in 1 .. L : f[i] = r
    BY <2>1
  <2> HIDE DEF f, R
  <2>4. f \in Bijection(1 .. L, R)
    BY <2>1, <2>2, <2>3, Fun_IsBij
  <2>5. QED
    BY <2>4 DEF ExistsBijection
<1> HIDE DEF R
<1>8. IsFiniteSet(R) /\ Cardinality(R) = L
  BY <1>1, <1>7, FS_NatBijection, FS_CountingElements
<1>9. QED
  BY <1>1, <1>5, <1>6, <1>8 DEF R, Placed

LEMMA PlacedNext == MapInv' => Placed'
BY InternedAre, PTL

(* A new map has this shape, and a name that is stored leaves it so. *)
LEMMA MapFirst == Kmap_init => MapInv
BY NewMap DEF MapInv

LEMMA GetcodeStep ==
  ASSUME MapInv, NEW name \in Name, Getcode(name)
  PROVE  MapInv'
<1> DEFINE g == Grown  b == strhash[name] % hmax(g.hentry)
           e == [hcode |-> strhash[name], skey |-> name, uvalue |-> Len(list), next |-> g.hentry[b]]
<1>1. Shape(g.arena, g.hentry, g.unused, list) /\ g.unused # Nil
  BY GrownShape DEF MapInv
<1>2. /\ arena' = [g.arena EXCEPT ![g.unused] = e] /\ hentry' = [g.hentry EXCEPT ![b] = g.unused]
      /\ unused' = g.arena[g.unused].next /\ list' = Append(list, name) /\ Codes(name) = {}
  BY DEF Getcode, Add
<1> HIDE DEF g
<1>3. Shape([g.arena EXCEPT ![g.unused] = e], [g.hentry EXCEPT ![b] = g.unused],
            g.arena[g.unused].next, Append(list, name))
  BY <1>1, Stored
<1> HIDE DEF b, e
<1>4. Shape(arena, hentry, unused, list)'
  BY <1>2, <1>3
<1>5. list \in Seq(Name) /\ Len(list) \in Nat /\ \A i \in 1 .. Len(list) : list[i] # name
  <2>1. list \in Seq(Name) /\ Len(list) \in Nat /\ \A i \in 1 .. Len(list) : Codes(list[i]) = {i - 1}
    BY InternedAre DEF Placed
  <2>2. QED
    BY <1>2, <2>1
<1>6. \A i, j \in 1 .. Len(list') : list'[i] = list'[j] => i = j
  <2>1. /\ Len(list') = Len(list) + 1 /\ list'[Len(list) + 1] = name
        /\ \A i \in 1 .. Len(list) : list'[i] = list[i]
    BY <1>2, <1>5
  <2>2. \A i, j \in 1 .. Len(list) : list[i] = list[j] => i = j
    BY DEF MapInv
  <2>3. \A i \in 1 .. Len(list') : i \in 1 .. Len(list) \/ i = Len(list) + 1
    BY <1>5, <2>1
  <2>4. QED
    BY <1>5, <2>1, <2>2, <2>3
<1>7. QED
  BY <1>4, <1>6 DEF MapInv

(* A step of interning: one more name is stored, or nothing happens. *)
Interning == UNCHANGED kmap \/ \E name \in Name : Getcode(name)

(* The map keeps its shape, and the codes that it gave. *)
LEMMA MapStep ==
  ASSUME MapInv, Interning
  PROVE  MapInv'
<1>1. CASE UNCHANGED kmap
  BY <1>1 DEF MapInv, kmap
<1>2. CASE \E name \in Name : Getcode(name)
  BY <1>2, GetcodeStep
<1>3. QED
  BY <1>1, <1>2 DEF Interning

(* What a step does to the codes. *)
LEMMA UnchangedCodes ==
  ASSUME UNCHANGED kmap
  PROVE  Interned' = Interned /\ \A n : Codes(n)' = Codes(n)
BY DEF kmap, Interned, Codes, Bucket, Match

LEMMA NewCode ==
  ASSUME MapInv, NEW name \in Name, Getcode(name)
  PROVE  /\ name \notin Interned /\ Interned' = Interned \cup {name}
         /\ Codes(name)' = {Cardinality(Interned)}
         /\ \A n \in Interned : Codes(n)' = Codes(n)
<1> DEFINE L == Len(list)  new == list'
<1>1. Codes(name) = {} /\ new = Append(list, name)
  BY DEF Getcode
<1>2. /\ list \in Seq(Name) /\ L \in Nat
      /\ Interned = {list[i] : i \in 1 .. L}
      /\ \A n : \A i \in 1 .. L : list[i] = n => Codes(n) = {i - 1}
      /\ Cardinality(Interned) = L
  BY InternedAre DEF Placed
<1>3. /\ Interned' = {new[i] : i \in 1 .. Len(new)}
      /\ \A n : \A i \in 1 .. Len(new) : new[i] = n => Codes(n)' = {i - 1}
  BY GetcodeStep, PlacedNext DEF Placed
<1>4. /\ Len(new) = L + 1 /\ new[L + 1] = name
      /\ \A i \in 1 .. L : new[i] = list[i] /\ i \in 1 .. Len(new)
      /\ L + 1 \in 1 .. Len(new) /\ L + 1 - 1 = L
      /\ \A i \in 1 .. Len(new) : i = L + 1 \/ i \in 1 .. L
  <2>1. list \in Seq(Name) /\ new = Append(list, name)
    BY <1>1, <1>2
  <2>2. /\ Len(new) = L + 1 /\ new[L + 1] = name
        /\ \A i \in 1 .. L : new[i] = list[i]
    BY <2>1
  <2> HIDE DEF new, L
  <2>3. QED
    BY <1>2, <2>2
<1> HIDE DEF L, new
<1>5. name \notin Interned
  BY <1>1, <1>2 DEF Interned
<1>6. Interned' = Interned \cup {name}
  BY <1>2, <1>3, <1>4
<1>7. Codes(name)' = {Cardinality(Interned)}
  <2>1. PICK i \in 1 .. Len(new) : i = L + 1
    BY <1>4
  <2>2. new[i] = name /\ i - 1 = L
    BY <1>2, <1>4, <2>1
  <2>3. Codes(name)' = {i - 1}
    BY ONLY <1>3, <2>2, Zenon
  <2>4. QED
    BY <1>2, <2>2, <2>3
<1>8. ASSUME NEW n \in Interned PROVE Codes(n)' = Codes(n)
  <2>1. PICK i \in 1 .. L : list[i] = n
    BY <1>2
  <2>2. Codes(n) = {i - 1} /\ Codes(n)' = {i - 1}
    BY <1>2, <1>3, <1>4, <2>1
  <2>3. QED
    BY <2>2
<1>9. QED
  BY <1>5, <1>6, <1>7, <1>8

-----------------------------------------------------------------------------
(* Interning keeps its promise: the first names, and each step.              *)
LEMMA PromiseFirst == Kmap_init => Promise!Init
<1> SUFFICES ASSUME Kmap_init PROVE Promise!Init
  OBVIOUS
<1>1. Interned = {}
  <2>1. MapInv /\ list = <<>>
    BY MapFirst, NewMap
  <2>2. Interned = {list[i] : i \in 1 .. Len(list)} /\ Len(list) = 0
    BY <2>1, InternedAre DEF Placed
  <2>3. QED
    BY <2>2
<1>2. [n \in Interned |-> CHOOSE c \in Codes(n) : TRUE] = [n \in {} |-> 0]
  BY <1>1
<1>3. QED
  BY <1>2 DEF Promise!Init

LEMMA PromiseStep ==
  ASSUME MapInv, Interning
  PROVE  [Promise!Next]_[n \in Interned |-> CHOOSE c \in Codes(n) : TRUE]
<1> DEFINE code == [n \in Interned |-> CHOOSE c \in Codes(n) : TRUE]
<1>1. CASE UNCHANGED kmap
  <2>1. code' = code
    BY <1>1, UnchangedCodes
  <2>2. QED
    BY <2>1
<1>2. CASE \E name \in Name : Getcode(name)
  <2>1. PICK name \in Name : Getcode(name)
    BY <1>2
  <2>2. /\ name \notin Interned /\ Interned' = Interned \cup {name}
        /\ Codes(name)' = {Cardinality(Interned)}
        /\ \A n \in Interned : Codes(n)' = Codes(n)
    BY <2>1, NewCode
  <2>3. (CHOOSE c \in Codes(name)' : TRUE) = Cardinality(Interned)
    BY <2>2
  <2>4. code' = [n \in Interned \cup {name} |->
                   IF n = name THEN Cardinality(Interned) ELSE code[n]]
    <3>1. \A n \in Interned' : (CHOOSE c \in Codes(n)' : TRUE)
                                 = IF n = name THEN Cardinality(Interned) ELSE code[n]
      BY <2>2, <2>3
    <3>2. QED
      BY <2>2, <3>1
  <2>5. \A S : Promise!Cardinality(S) = Cardinality(S)
    BY DEF Promise!Cardinality, Cardinality
  <2>6. Promise!Intern(name)
    <3>1. DOMAIN code = Interned
      OBVIOUS
    <3>2. QED
      BY <2>2, <2>4, <2>5, <3>1 DEF Promise!Intern
  <2>7. QED
    BY <2>6 DEF Promise!Next
<1>3. QED
  BY <1>1, <1>2 DEF Interning
=============================================================================
