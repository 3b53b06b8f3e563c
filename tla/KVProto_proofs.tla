---------------------------- MODULE KVProto_proofs ----------------------------
(* The property table: entries stay in their windows, a set is seen, and a   *)
(* removed key is gone unless it was in two slots.                           *)
EXTENDS KVProto, WellFoundedInduction, FiniteSetTheorems, TLAPS

-----------------------------------------------------------------------------
(* Any set of natural numbers has a least element: the induction of the     *)
(* proofs below.                                                            *)
LEMMA LeastOf ==
  ASSUME NEW S \in SUBSET Nat, S # {}
  PROVE  \E m \in S : \A k \in S : m <= k
<1> DEFINE R == OpToRel(<, Nat)
<1>1. \A j, k \in Nat : j < k => <<j, k>> \in R
  BY DEF OpToRel
<1>2. IsWellFoundedOn(R, Nat)
  BY NatLessThanWellFounded
<1> HIDE DEF R
<1>3. PICK m \in S : \A k \in S : ~ (<<k, m>> \in R)
  BY <1>2, WFMin
<1>4. ASSUME NEW k \in S PROVE m <= k
  <2>1. m \in Nat /\ k \in Nat /\ ~(k < m)
    BY <1>1, <1>3
  <2>2. QED
    BY <2>1
<1>5. QED
  BY <1>4

(* The first slot of a set, which a lookup and a set stop at. *)
First(S) == CHOOSE i \in S : IsFirst(i, S)

LEMMA FirstIs ==
  ASSUME NEW S \in SUBSET Nat, S # {}
  PROVE  /\ First(S) \in S /\ \A j \in S : First(S) <= j
         /\ \A i \in S : (\A j \in S : i <= j) => i = First(S)
<1>1. \E i \in S : IsFirst(i, S)
  BY LeastOf DEF IsFirst
<1>2. First(S) \in S /\ \A j \in S : First(S) <= j
  BY <1>1 DEF First, IsFirst
<1>3. ASSUME NEW i \in S, \A j \in S : i <= j PROVE i = First(S)
  <2>1. i <= First(S) /\ First(S) <= i /\ i \in Nat /\ First(S) \in Nat
    BY <1>2, <1>3
  <2>2. QED
    BY <2>1
<1>4. QED
  BY <1>2, <1>3

-----------------------------------------------------------------------------
(* A table whose entries are in the windows of their keys. *)
Slots == [key : Key \cup {0}, val : Value \cup {None}]

Shaped(t) ==
  /\ t = [max |-> t.max, slot |-> t.slot] /\ t.max \in Nat /\ (t.max = 0 \/ t.max > DELTA)
  /\ t.slot \in [0 .. t.max - 1 -> Slots]
  /\ \A i \in 0 .. t.max - 1 : t.slot[i].key # 0 => i \in Window(t, t.slot[i].key)

(* Keys are numbers, and none of them is the key of a free slot. *)
LEMMA KeyType == Key \subseteq Nat \ {0} /\ 0 \notin Key /\ \A k \in Symbol : k \in Key /\ k + Boxed \in Key
<1>1. \A k \in Symbol : k \in Nat \ {0} /\ k + Boxed \in Nat \ {0}
  BY KeyAssumption
<1>2. QED
  BY <1>1 DEF Key

(* A window is inside of the table. *)
LEMMA WindowIs ==
  ASSUME NEW t, t.max \in Nat, t.max > DELTA, NEW k \in Key
  PROVE  \E home \in Nat : /\ Window(t, k) = home .. home + DELTA - 1
                           /\ home + DELTA <= t.max
<1> DEFINE n == t.max - DELTA  home == k % n
<1>1. DELTA \in Nat \ {0} /\ n \in Nat /\ n > 0 /\ k \in Nat /\ t.max = n + DELTA
  BY KeyAssumption, KeyType
<1>2. Window(t, k) = home .. home + DELTA - 1
  BY DEF Window
<1> HIDE DEF n
<1>3. home \in 0 .. n - 1
  BY <1>1
<1> HIDE DEF home
<1>4. home \in Nat /\ home + DELTA <= n + DELTA
  BY <1>1, <1>3
<1>5. QED
  BY <1>1, <1>2, <1>4

LEMMA WindowInside ==
  ASSUME NEW t, t.max \in Nat, t.max > DELTA, NEW k \in Key
  PROVE  /\ Window(t, k) \subseteq 0 .. t.max - 1 /\ Window(t, k) \subseteq Nat
         /\ IsFiniteSet(Window(t, k)) /\ Cardinality(Window(t, k)) = DELTA
<1>1. PICK home \in Nat : Window(t, k) = home .. home + DELTA - 1 /\ home + DELTA <= t.max
  BY WindowIs
<1> DEFINE last == home + DELTA - 1
<1>2. /\ DELTA \in Nat \ {0} /\ home \in Int /\ last \in Int
      /\ ~(home > last) /\ last - home + 1 = DELTA
  BY KeyAssumption
<1>3. home .. last \subseteq 0 .. t.max - 1 /\ home .. last \subseteq Nat
  BY <1>1, <1>2
<1> HIDE DEF last
<1>4. /\ IsFiniteSet(home .. last)
      /\ Cardinality(home .. last) = IF home > last THEN 0 ELSE last - home + 1
  BY <1>2, FS_Interval
<1>5. Cardinality(home .. last) = DELTA
  BY <1>2, <1>4
<1>6. QED
  BY <1>1, <1>3, <1>4, <1>5 DEF last

LEMMA TypeFromShape == Shaped(kvproto) => TypeOK
<1> SUFFICES ASSUME Shaped(kvproto) PROVE TypeOK
  OBVIOUS
<1>1. ASSUME NEW i \in 0 .. kvproto.max - 1, kvproto.slot[i].key # 0
      PROVE  Window(kvproto, kvproto.slot[i].key) \subseteq 0 .. kvproto.max - 1
  <2>1. kvproto.slot[i].key \in Key /\ kvproto.max \in Nat /\ kvproto.max > DELTA
    BY <1>1 DEF Shaped, Slots
  <2>2. QED
    BY <2>1, WindowInside
<1>2. QED
  BY <1>1 DEF TypeOK, Shaped, Slots

(* A table without entries. *)
LEMMA EmptyShape ==
  ASSUME NEW n \in Nat, n = 0 \/ n > DELTA
  PROVE  /\ Shaped(Empty(n)) /\ Empty(n).max = n
         /\ \A i \in 0 .. n - 1 : Empty(n).slot[i].key = 0
<1> DEFINE s == [i \in 0 .. n - 1 |-> Free]
<1>1. Free \in Slots /\ Free.key = 0
  BY DEF Free, Slots
<1>2. Empty(n) = [max |-> n, slot |-> s]
  BY DEF Empty
<1>3. s \in [0 .. n - 1 -> Slots] /\ \A i \in 0 .. n - 1 : s[i].key = 0
  BY <1>1
<1> HIDE DEF s
<1>4. Empty(n).max = n /\ Empty(n).slot = s
  BY <1>2
<1>5. QED
  BY <1>2, <1>3, <1>4 DEF Shaped

(* One slot is written: an entry in its window, or none. *)
LEMMA Written ==
  ASSUME NEW t, Shaped(t), NEW i \in 0 .. t.max - 1, NEW e \in Slots,
         e.key # 0 => i \in Window(t, e.key)
  PROVE  LET u == [t EXCEPT !.slot[i] = e]
         IN /\ Shaped(u) /\ u.max = t.max /\ u.slot[i] = e
            /\ \A j \in 0 .. t.max - 1 : j # i => u.slot[j] = t.slot[j]
            /\ \A k : Window(u, k) = Window(t, k)
<1> DEFINE u == [t EXCEPT !.slot[i] = e]  s == [t.slot EXCEPT ![i] = e]
<1>1. PICK m, r : t = [max |-> m, slot |-> r]
  BY DEF Shaped
<1>2. u = [max |-> m, slot |-> [r EXCEPT ![i] = e]]
  BY <1>1
<1>3. t.max = m /\ t.slot = r
  BY <1>1
<1>4. u.max = t.max /\ u.slot = s /\ u = [max |-> u.max, slot |-> u.slot]
  BY <1>2, <1>3
<1>5. t.slot \in [0 .. t.max - 1 -> Slots]
  BY DEF Shaped
<1> HIDE DEF u
<1>6. /\ s \in [0 .. t.max - 1 -> Slots] /\ s[i] = e
      /\ \A j \in 0 .. t.max - 1 : j # i => s[j] = t.slot[j]
  BY <1>5
<1> HIDE DEF s
<1>7. \A k : Window(u, k) = Window(t, k)
  BY <1>4 DEF Window
<1>8. \A j \in 0 .. t.max - 1 : u.slot[j].key # 0 => j \in Window(u, u.slot[j].key)
  <2> SUFFICES ASSUME NEW j \in 0 .. t.max - 1, u.slot[j].key # 0
               PROVE  j \in Window(u, u.slot[j].key)
    OBVIOUS
  <2>1. CASE j = i
    BY <1>4, <1>6, <1>7, <2>1
  <2>2. CASE j # i
    BY <1>4, <1>6, <1>7, <2>2 DEF Shaped
  <2>3. QED
    BY <2>1, <2>2
<1>9. Shaped(u)
  <2>1. t.max \in Nat /\ (t.max = 0 \/ t.max > DELTA)
    BY DEF Shaped
  <2>2. QED
    BY <1>4, <1>6, <1>8, <2>1 DEF Shaped
<1>10. QED
  BY <1>4, <1>6, <1>7, <1>9 DEF u

(* What Get is. *)
LEMMA FoundType ==
  ASSUME NEW t, Shaped(t), t.max # 0, NEW k \in Key
  PROVE  /\ Found(t, k) \in SUBSET Nat /\ Found(t, k) \subseteq 0 .. t.max - 1
         /\ Found(t, k) = {i \in 0 .. t.max - 1 : t.slot[i].key = k}
<1>1. t.max \in Nat /\ t.max > DELTA
  BY DEF Shaped
<1>2. Window(t, k) \subseteq 0 .. t.max - 1 /\ Window(t, k) \subseteq Nat
  BY <1>1, WindowInside
<1>3. \A i \in 0 .. t.max - 1 : t.slot[i].key = k => i \in Window(t, k)
  BY KeyType DEF Shaped
<1>4. QED
  BY <1>2, <1>3 DEF Found

-----------------------------------------------------------------------------
(* The recursive function of kvproto_rehash, cut after N steps: it exists. *)
IsCopy(f, t, N) ==
  f = [n \in 0 .. N |-> IF n = 0 THEN Empty(2 * t.max) ELSE Rehashed(f[n - 1], t.slot[n - 1])]

LEMMA CopyExtends ==
  ASSUME NEW t, NEW N \in Nat, NEW f, IsCopy(f, t, N)
  PROVE  \E g : IsCopy(g, t, N + 1)
<1> DEFINE x == Rehashed(f[N], t.slot[N])
           g == [n \in 0 .. N + 1 |-> IF n = N + 1 THEN x ELSE f[n]]
           h == [n \in 0 .. N + 1 |-> IF n = 0 THEN Empty(2 * t.max) ELSE Rehashed(g[n - 1], t.slot[n - 1])]
<1>1. \A n \in 0 .. N : f[n] = IF n = 0 THEN Empty(2 * t.max) ELSE Rehashed(f[n - 1], t.slot[n - 1])
  BY DEF IsCopy
<1>2. \A n \in 0 .. N + 1 : n # N + 1 => n \in 0 .. N /\ g[n] = f[n]
  OBVIOUS
<1>3. g[N + 1] = x /\ N + 1 # 0 /\ N + 1 - 1 = N /\ N + 1 \in 0 .. N + 1 /\ N \in 0 .. N + 1 /\ g[N] = f[N]
  OBVIOUS
<1>4. ASSUME NEW n \in 0 .. N + 1 PROVE g[n] = h[n]
  <2>1. CASE n = N + 1
    <3>1. h[n] = Rehashed(g[N], t.slot[N])
      BY <2>1, <1>3
    <3>2. QED
      BY <1>3, <2>1, <3>1
  <2>2. CASE n # N + 1 /\ n # 0
    <3>1. n - 1 \in 0 .. N + 1 /\ n - 1 # N + 1 /\ n \in 0 .. N
      BY <2>2
    <3>2. g[n] = f[n] /\ g[n - 1] = f[n - 1]
      BY <1>2, <2>2, <3>1
    <3>3. h[n] = Rehashed(g[n - 1], t.slot[n - 1])
      BY <2>2
    <3> HIDE DEF g, h
    <3>4. QED
      BY <1>1, <2>2, <3>1, <3>2, <3>3
  <2>3. CASE n = 0
    BY <1>1, <1>2, <2>3
  <2>4. QED
    BY <2>1, <2>2, <2>3
<1>5. g = h
  <2>1. g = [n \in 0 .. N + 1 |-> g[n]] /\ h = [n \in 0 .. N + 1 |-> h[n]]
    OBVIOUS
  <2> HIDE DEF g, h
  <2>2. QED
    BY <1>4, <2>1
<1>6. IsCopy(g, t, N + 1)
  BY <1>5 DEF IsCopy
<1>7. QED
  BY <1>6

LEMMA CopyExists ==
  ASSUME NEW t, NEW N \in Nat
  PROVE  \E f : IsCopy(f, t, N)
<1> DEFINE S == {n \in Nat : ~ \E f : IsCopy(f, t, n)}
<1>1. SUFFICES ASSUME S # {} PROVE FALSE
  OBVIOUS
<1>2. PICK n \in S : \A k \in S : n <= k
  <2>1. S \in SUBSET Nat
    OBVIOUS
  <2> HIDE DEF S
  <2>2. QED
    BY <1>1, <2>1, LeastOf
<1>3. CASE n = 0
  <2> DEFINE f == [m \in 0 .. 0 |-> Empty(2 * t.max)]
             g == [m \in 0 .. 0 |-> IF m = 0 THEN Empty(2 * t.max) ELSE Rehashed(f[m - 1], t.slot[m - 1])]
  <2>1. f = g
    OBVIOUS
  <2>2. IsCopy(f, t, 0)
    BY <2>1 DEF IsCopy
  <2>3. QED
    BY <1>3, <2>2
<1>4. CASE n # 0
  <2>1. n - 1 \in Nat /\ n - 1 \notin S /\ n - 1 + 1 = n
    BY <1>2, <1>4
  <2>2. PICK f : IsCopy(f, t, n - 1)
    BY <2>1
  <2>3. \E g : IsCopy(g, t, n - 1 + 1)
    BY <2>1, <2>2, CopyExtends
  <2>4. QED
    BY <2>1, <2>3
<1>5. QED
  BY <1>3, <1>4

(* What kvproto_rehash has copied after n slots. *)
LEMMA RehashDef ==
  ASSUME NEW t, t.max \in Nat
  PROVE  \E f : /\ kvproto_rehash(t) = f[t.max] /\ f[0] = Empty(2 * t.max)
                /\ \A n \in 1 .. t.max : f[n] = Rehashed(f[n - 1], t.slot[n - 1])
<1> DEFINE W == CHOOSE f : IsCopy(f, t, t.max)
<1>1. IsCopy(W, t, t.max)
  BY CopyExists
<1>2. kvproto_rehash(t) = W[t.max]
  BY DEF kvproto_rehash, IsCopy
<1> HIDE DEF W
<1>3. \A n \in 0 .. t.max : W[n] = IF n = 0 THEN Empty(2 * t.max) ELSE Rehashed(W[n - 1], t.slot[n - 1])
  BY <1>1 DEF IsCopy
<1>4. W[0] = Empty(2 * t.max) /\ \A n \in 1 .. t.max : W[n] = Rehashed(W[n - 1], t.slot[n - 1])
  BY <1>3
<1>5. QED
  BY <1>2, <1>4

-----------------------------------------------------------------------------
(* The same for the loop of kvproto_set. *)
Start == IF kvproto.max = 0 THEN Empty(DELTA + 1) ELSE kvproto
IsGrowth(f, N) == f = [m \in 0 .. N |-> IF m > 0 THEN kvproto_rehash(f[m - 1]) ELSE Start]

LEMMA GrowthExtends ==
  ASSUME NEW N \in Nat, NEW f, IsGrowth(f, N)
  PROVE  \E g : IsGrowth(g, N + 1)
<1> DEFINE x == kvproto_rehash(f[N])
           g == [n \in 0 .. N + 1 |-> IF n = N + 1 THEN x ELSE f[n]]
           h == [n \in 0 .. N + 1 |-> IF n > 0 THEN kvproto_rehash(g[n - 1]) ELSE Start]
<1>1. \A n \in 0 .. N : f[n] = IF n > 0 THEN kvproto_rehash(f[n - 1]) ELSE Start
  BY DEF IsGrowth
<1>2. \A n \in 0 .. N + 1 : n # N + 1 => n \in 0 .. N /\ g[n] = f[n]
  OBVIOUS
<1>3. g[N + 1] = x /\ N + 1 > 0 /\ N + 1 - 1 = N /\ N + 1 \in 0 .. N + 1 /\ N \in 0 .. N + 1 /\ g[N] = f[N]
  OBVIOUS
<1>4. ASSUME NEW n \in 0 .. N + 1 PROVE g[n] = h[n]
  <2>1. CASE n = N + 1
    <3>1. h[n] = kvproto_rehash(g[N])
      BY <2>1, <1>3
    <3>2. QED
      BY <1>3, <2>1, <3>1
  <2>2. CASE n # N + 1 /\ n # 0
    <3>1. n - 1 \in 0 .. N + 1 /\ n - 1 # N + 1 /\ n \in 0 .. N /\ n > 0
      BY <2>2
    <3>2. g[n] = f[n] /\ g[n - 1] = f[n - 1]
      BY <1>2, <2>2, <3>1
    <3>3. h[n] = kvproto_rehash(g[n - 1])
      BY <3>1
    <3> HIDE DEF g, h
    <3>4. QED
      BY <1>1, <3>1, <3>2, <3>3
  <2>3. CASE n = 0
    BY <1>1, <1>2, <2>3
  <2>4. QED
    BY <2>1, <2>2, <2>3
<1>5. g = h
  <2>1. g = [n \in 0 .. N + 1 |-> g[n]] /\ h = [n \in 0 .. N + 1 |-> h[n]]
    OBVIOUS
  <2> HIDE DEF g, h
  <2>2. QED
    BY <1>4, <2>1
<1>6. IsGrowth(g, N + 1)
  BY <1>5 DEF IsGrowth
<1>7. QED
  BY <1>6

LEMMA GrowthExists ==
  ASSUME NEW N \in Nat
  PROVE  \E f : IsGrowth(f, N)
<1> DEFINE S == {n \in Nat : ~ \E f : IsGrowth(f, n)}
<1>1. SUFFICES ASSUME S # {} PROVE FALSE
  OBVIOUS
<1>2. PICK n \in S : \A k \in S : n <= k
  <2>1. S \in SUBSET Nat
    OBVIOUS
  <2> HIDE DEF S
  <2>2. QED
    BY <1>1, <2>1, LeastOf
<1>3. CASE n = 0
  <2> DEFINE f == [m \in 0 .. 0 |-> Start]
             g == [m \in 0 .. 0 |-> IF m > 0 THEN kvproto_rehash(f[m - 1]) ELSE Start]
  <2>1. f = g
    OBVIOUS
  <2>2. IsGrowth(f, 0)
    BY <2>1 DEF IsGrowth
  <2>3. QED
    BY <1>3, <2>2
<1>4. CASE n # 0
  <2>1. n - 1 \in Nat /\ n - 1 \notin S /\ n - 1 + 1 = n
    BY <1>2, <1>4
  <2>2. PICK f : IsGrowth(f, n - 1)
    BY <2>1
  <2>3. \E g : IsGrowth(g, n - 1 + 1)
    BY <2>1, <2>2, GrowthExtends
  <2>4. QED
    BY <2>1, <2>3
<1>5. QED
  BY <1>3, <1>4

(* What the loop has after n rehashes. *)
LEMMA GrownDef ==
  /\ Grown(0) = Start
  /\ \A n \in 1 .. MaxGrow : Grown(n) = kvproto_rehash(Grown(n - 1))
<1> DEFINE W == CHOOSE f : IsGrowth(f, MaxGrow)
<1>1. MaxGrow \in Nat
  BY KeyAssumption
<1>2. IsGrowth(W, MaxGrow)
  BY <1>1, GrowthExists
<1>3. \A n : Grown(n) = W[n]
  BY DEF Grown, IsGrowth, Start
<1> HIDE DEF W
<1>4. \A n \in 0 .. MaxGrow : W[n] = IF n > 0 THEN kvproto_rehash(W[n - 1]) ELSE Start
  BY <1>2 DEF IsGrowth
<1>5. W[0] = Start /\ \A n \in 1 .. MaxGrow : W[n] = kvproto_rehash(W[n - 1])
  BY <1>1, <1>4
<1>6. QED
  BY <1>3, <1>5

-----------------------------------------------------------------------------
(* The slots in use. *)
EntriesOf(t) == {i \in 0 .. t.max - 1 : t.slot[i].key # 0}

(* The slots before n that are in use, and those of one key. *)
Old(t, n) == {x \in 0 .. n - 1 : t.slot[x].key # 0}
Before(t, n, k) == {x \in 0 .. n - 1 : t.slot[x].key = k}

(* In front of an entry its window has no free slot. *)
Dense(t) ==
  \A i, x \in 0 .. t.max - 1 :
    t.slot[i].key # 0 /\ x \in Window(t, t.slot[i].key) /\ x < i => t.slot[x].key # 0

(* In c a look-up of k finds what it finds in the first n slots of t. *)
Kept(c, t, n, k) ==
  \/ Before(t, n, k) = {} /\ Found(c, k) = {}
  \/ /\ Before(t, n, k) # {} /\ Found(c, k) # {}
     /\ c.slot[First(Found(c, k))].val = t.slot[First(Before(t, n, k))].val

(* Or it finds nothing, as c has no room for the entries of k in t. *)
Lost(c, t, k) == Cardinality(EntriesOf(t)) > DELTA /\ Crowded(c, k)

CopyInv(c, t, n) ==
  /\ Shaped(c) /\ c.max = 2 * t.max /\ Dense(c)
  /\ Cardinality(EntriesOf(c)) <= Cardinality(Old(t, n))
  /\ \A k \in Key : Kept(c, t, n, k) \/ Lost(c, t, k)

(* Parts of a table are finite. *)
LEMMA PartFinite ==
  ASSUME NEW n \in Nat, NEW S \in SUBSET (0 .. n - 1)
  PROVE  IsFiniteSet(S) /\ Cardinality(S) \in Nat
<1>1. 0 \in Int /\ n - 1 \in Int
  OBVIOUS
<1>2. IsFiniteSet(0 .. n - 1)
  BY <1>1, FS_Interval
<1>3. IsFiniteSet(S)
  BY <1>2, FS_Subset
<1>4. QED
  BY <1>3, FS_CardinalityType

(* What one more slot of the old table adds. *)
LEMMA OneMore ==
  ASSUME NEW t, NEW n \in Nat
  PROVE  /\ t.slot[n].key = 0 => Old(t, n + 1) = Old(t, n)
         /\ t.slot[n].key # 0 => /\ Old(t, n + 1) = Old(t, n) \cup {n}
                                 /\ Cardinality(Old(t, n + 1)) = Cardinality(Old(t, n)) + 1
         /\ \A k : /\ k # t.slot[n].key => Before(t, n + 1, k) = Before(t, n, k)
                   /\ k = t.slot[n].key => Before(t, n + 1, k) = Before(t, n, k) \cup {n}
<1>1. n + 1 - 1 = n /\ \A x : x \in 0 .. n <=> x \in 0 .. n - 1 \/ x = n
  OBVIOUS
<1>2. /\ t.slot[n].key = 0 => Old(t, n + 1) = Old(t, n)
      /\ t.slot[n].key # 0 => Old(t, n + 1) = Old(t, n) \cup {n}
  BY <1>1 DEF Old
<1>3. \A k : /\ k # t.slot[n].key => Before(t, n + 1, k) = Before(t, n, k)
             /\ k = t.slot[n].key => Before(t, n + 1, k) = Before(t, n, k) \cup {n}
  BY <1>1 DEF Before
<1>4. n \notin Old(t, n) /\ IsFiniteSet(Old(t, n))
  <2>1. Old(t, n) \in SUBSET (0 .. n - 1)
    BY DEF Old
  <2>2. n \notin 0 .. n - 1
    OBVIOUS
  <2>3. QED
    BY <2>1, <2>2, PartFinite
<1>5. t.slot[n].key # 0 => Cardinality(Old(t, n + 1)) = Cardinality(Old(t, n)) + 1
  BY <1>2, <1>4, FS_AddElement
<1>6. QED
  BY <1>2, <1>3, <1>5

(* An entry is written to the first free slot of its window. *)
LEMMA CopyEntry ==
  ASSUME NEW t, Shaped(t), t.max # 0, NEW c, NEW n \in 0 .. t.max - 1, CopyInv(c, t, n),
         NEW e \in Slots, e = t.slot[n], e.key # 0,
         NEW i \in Window(c, e.key), c.slot[i].key = 0,
         \A x \in Window(c, e.key) : c.slot[x].key = 0 => i <= x,
         NEW u, u = [c EXCEPT !.slot[i] = e]
  PROVE  CopyInv(u, t, n + 1)
<1>1. /\ Shaped(c) /\ c.max = 2 * t.max /\ Dense(c) /\ t.max \in Nat /\ t.max > DELTA
      /\ c.max \in Nat /\ c.max > DELTA /\ c.max # 0 /\ n \in Nat /\ e.key \in Key
  <2>1. Shaped(c) /\ c.max = 2 * t.max /\ Dense(c) /\ t.max \in Nat /\ t.max > DELTA
    BY DEF CopyInv, Shaped
  <2>2. e.key \in Key
    BY DEF Slots
  <2>3. DELTA \in Nat \ {0}
    BY KeyAssumption
  <2>4. QED
    BY <2>1, <2>2, <2>3
<1>2. i \in 0 .. c.max - 1 /\ Window(c, e.key) \subseteq 0 .. c.max - 1
  BY <1>1, WindowInside
<1>3. /\ Shaped(u) /\ u.max = c.max /\ u.slot[i] = e
      /\ \A j \in 0 .. c.max - 1 : j # i => u.slot[j] = c.slot[j]
      /\ \A k : Window(u, k) = Window(c, k)
  BY <1>1, <1>2, Written
<1>4. Dense(u)
  <2> SUFFICES ASSUME NEW j \in 0 .. u.max - 1, NEW x \in 0 .. u.max - 1,
                      u.slot[j].key # 0, x \in Window(u, u.slot[j].key), x < j
               PROVE  u.slot[x].key # 0
    BY DEF Dense
  <2>1. CASE x = i
    BY <1>3, <2>1
  <2>2. CASE x # i /\ j = i
    <3>1. x \in Window(c, e.key) /\ ~(i <= x)
      BY <1>2, <1>3, <2>2
    <3>2. QED
      BY <1>3, <2>2, <3>1
  <2>3. CASE x # i /\ j # i
    BY <1>1, <1>3, <2>3 DEF Dense
  <2>4. QED
    BY <2>1, <2>2, <2>3
<1>5. Cardinality(EntriesOf(u)) <= Cardinality(Old(t, n + 1))
  <2>1. EntriesOf(u) = EntriesOf(c) \cup {i} /\ i \notin EntriesOf(c)
    BY <1>2, <1>3 DEF EntriesOf
  <2>2. IsFiniteSet(EntriesOf(c)) /\ Cardinality(EntriesOf(c)) \in Nat
    <3>1. EntriesOf(c) \in SUBSET (0 .. c.max - 1)
      BY DEF EntriesOf
    <3>2. QED
      BY <1>1, <3>1, PartFinite
  <2>3. Cardinality(EntriesOf(u)) = Cardinality(EntriesOf(c)) + 1
    BY <2>1, <2>2, FS_AddElement
  <2>4. /\ Cardinality(Old(t, n + 1)) = Cardinality(Old(t, n)) + 1
        /\ Cardinality(EntriesOf(c)) <= Cardinality(Old(t, n))
    BY <1>1, OneMore DEF CopyInv
  <2>5. Cardinality(Old(t, n)) \in Nat
    <3>1. Old(t, n) \in SUBSET (0 .. n - 1)
      BY DEF Old
    <3>2. QED
      BY <1>1, <3>1, PartFinite
  <2>6. QED
    BY <2>2, <2>3, <2>4, <2>5
<1>6. ASSUME NEW k \in Key, Kept(c, t, n, k) PROVE Kept(u, t, n + 1, k)
  <2> DEFINE F == Found(c, k)  G == Found(u, k)  B == Before(t, n, k)  A == Before(t, n + 1, k)
  <2>1. /\ F \in SUBSET Nat /\ F \subseteq 0 .. c.max - 1 /\ \A j \in F : c.slot[j].key = k
        /\ G = {j \in 0 .. u.max - 1 : u.slot[j].key = k}
        /\ F = {j \in 0 .. c.max - 1 : c.slot[j].key = k}
    <3>1. F \in SUBSET Nat /\ F \subseteq 0 .. c.max - 1 /\ F = {j \in 0 .. c.max - 1 : c.slot[j].key = k}
      BY <1>1, FoundType
    <3>2. Shaped(u) /\ u.max # 0 /\ k \in Key
      BY <1>1, <1>3
    <3>3. G = {j \in 0 .. u.max - 1 : u.slot[j].key = k}
      BY ONLY <3>2, FoundType
    <3> HIDE DEF F, G
    <3>4. \A j \in F : c.slot[j].key = k
      BY <3>1
    <3>5. QED
      BY <3>1, <3>3, <3>4
  <2>2. i \notin F /\ k # 0
    BY <2>1, KeyType
  <2>3. CASE k # e.key
    <3>1. G = F
      BY <1>2, <1>3, <2>1, <2>2, <2>3
    <3>2. A = B
      BY <1>1, <2>3, OneMore
    <3>3. F # {} => First(F) \in F
      BY <2>1, FirstIs
    <3>4. F # {} => u.slot[First(F)] = c.slot[First(F)]
      BY <1>3, <2>1, <2>2, <3>3
    <3>5. QED
      BY <1>6, <3>1, <3>2, <3>4 DEF Kept
  <2>4. CASE k = e.key
    <3>1. G = F \cup {i}
      BY <1>2, <1>3, <2>1, <2>2, <2>4
    <3>2. A = B \cup {n} /\ B \in SUBSET Nat /\ \A x \in B : x < n
      BY <1>1, <2>4, OneMore DEF Before
    <3>3. G \in SUBSET Nat /\ A \in SUBSET Nat /\ G # {} /\ A # {} /\ i \in Nat
      BY <1>1, <1>2, <2>1, <3>1, <3>2
    <3>4. CASE B = {}
      <4>1. F = {} /\ G = {i} /\ A = {n}
        BY <1>6, <3>1, <3>2, <3>4 DEF Kept
      <4>2. First(G) = i /\ First(A) = n
        BY <3>3, <4>1, FirstIs
      <4>3. QED
        BY <1>3, <3>3, <4>2 DEF Kept
    <3>5. CASE B # {}
      <4>1. F # {} /\ c.slot[First(F)].val = t.slot[First(B)].val
        BY <1>6, <3>5 DEF Kept
      <4>2. /\ First(F) \in F /\ \A j \in F : First(F) <= j
            /\ First(B) \in B /\ \A j \in B : First(B) <= j
        BY <2>1, <3>2, <3>5, <4>1, FirstIs
      <4>3. First(F) < i
        <5>1. First(F) \in 0 .. c.max - 1 /\ c.slot[First(F)].key = k /\ First(F) # i
          BY <2>1, <2>2, <4>2
        <5>2. ~(i < First(F))
          <6>1. i < First(F) => c.slot[i].key # 0
            BY <1>1, <1>2, <2>2, <2>4, <5>1 DEF Dense
          <6>2. QED
            BY <6>1
        <5>3. QED
          BY <3>3, <5>1, <5>2
      <4>4. First(G) = First(F)
        <5>1. First(F) \in G /\ \A j \in G : First(F) <= j
          <6>1. First(F) \in Nat /\ First(F) <= i
            BY <2>1, <3>3, <4>2, <4>3
          <6> HIDE DEF F, G
          <6>2. QED
            BY <3>1, <4>2, <6>1
        <5>2. QED
          BY <3>3, <5>1, FirstIs
      <4>5. First(A) = First(B)
        <5>1. First(B) \in A /\ \A j \in A : First(B) <= j
          BY <1>1, <3>2, <4>2
        <5>2. QED
          BY <3>3, <5>1, FirstIs
      <4>6. u.slot[First(F)] = c.slot[First(F)]
        BY <1>3, <2>1, <2>2, <4>2
      <4>7. QED
        BY <3>3, <4>1, <4>4, <4>5, <4>6 DEF Kept
    <3>6. QED
      BY <3>4, <3>5
  <2>5. QED
    BY <2>3, <2>4
<1>7. ASSUME NEW k \in Key, Lost(c, t, k) PROVE Lost(u, t, k)
  <2>1. i \notin Window(c, k) /\ Window(c, k) \subseteq 0 .. c.max - 1
    BY <1>1, <1>7, WindowInside DEF Lost, Crowded
  <2>2. \A j \in Window(c, k) : u.slot[j] = c.slot[j]
    BY <1>3, <2>1
  <2>3. QED
    BY <1>3, <1>7, <2>2 DEF Lost, Crowded
<1>8. \A k \in Key : Kept(u, t, n + 1, k) \/ Lost(u, t, k)
  BY <1>6, <1>7 DEF CopyInv
<1>9. QED
  BY <1>1, <1>3, <1>4, <1>5, <1>8 DEF CopyInv

-----------------------------------------------------------------------------
(* An entry of the old table that is free, or finds its window full.       *)
LEMMA CopyNone ==
  ASSUME NEW t, Shaped(t), t.max # 0, NEW c, NEW n \in 0 .. t.max - 1, CopyInv(c, t, n),
         \/ t.slot[n].key = 0
         \/ t.slot[n].key \in Key /\ \A x \in Window(c, t.slot[n].key) : c.slot[x].key # 0
  PROVE  CopyInv(c, t, n + 1)
<1> DEFINE e == t.slot[n]
<1>1. /\ Shaped(c) /\ c.max = 2 * t.max /\ Dense(c) /\ t.max \in Nat /\ t.max > DELTA
      /\ n \in Nat /\ DELTA \in Nat /\ c.max \in Nat /\ c.max > DELTA
  <2>1. Shaped(c) /\ c.max = 2 * t.max /\ Dense(c) /\ t.max \in Nat /\ t.max > DELTA
    BY DEF CopyInv, Shaped
  <2>2. DELTA \in Nat
    BY KeyAssumption
  <2>3. QED
    BY <2>1, <2>2
<1>2. /\ Cardinality(Old(t, n)) \in Nat /\ Cardinality(Old(t, n + 1)) \in Nat
      /\ Cardinality(Old(t, n + 1)) <= Cardinality(EntriesOf(t))
      /\ Cardinality(EntriesOf(t)) \in Nat
      /\ Cardinality(EntriesOf(c)) \in Nat /\ IsFiniteSet(EntriesOf(c))
      /\ Cardinality(EntriesOf(c)) <= Cardinality(Old(t, n))
  <2>1. /\ Old(t, n) \in SUBSET (0 .. n - 1) /\ Old(t, n + 1) \in SUBSET (0 .. n + 1 - 1)
        /\ EntriesOf(t) \in SUBSET (0 .. t.max - 1) /\ EntriesOf(c) \in SUBSET (0 .. c.max - 1)
    BY DEF Old, EntriesOf
  <2>2. Old(t, n + 1) \subseteq EntriesOf(t)
    BY <1>1 DEF Old, EntriesOf
  <2>3. n + 1 \in Nat
    BY <1>1
  <2>4. IsFiniteSet(EntriesOf(t)) /\ Cardinality(EntriesOf(t)) \in Nat
    BY <1>1, <2>1, PartFinite
  <2>5. Cardinality(Old(t, n + 1)) <= Cardinality(EntriesOf(t))
    BY <2>2, <2>4, FS_Subset
  <2>6. Cardinality(Old(t, n)) \in Nat /\ Cardinality(Old(t, n + 1)) \in Nat
    <3>1. Cardinality(Old(t, n)) \in Nat
      BY <1>1, <2>1, PartFinite
    <3>2. Cardinality(Old(t, n + 1)) \in Nat
      BY <2>1, <2>3, PartFinite
    <3>3. QED
      BY <3>1, <3>2
  <2>7. Cardinality(EntriesOf(c)) \in Nat /\ IsFiniteSet(EntriesOf(c))
    BY <1>1, <2>1, PartFinite
  <2>8. QED
    BY <2>4, <2>5, <2>6, <2>7 DEF CopyInv
<1>3. CASE e.key = 0
  <2>1. Old(t, n + 1) = Old(t, n) /\ \A k : k # 0 => Before(t, n + 1, k) = Before(t, n, k)
    BY <1>1, <1>3, OneMore
  <2>2. \A k \in Key : Kept(c, t, n, k) => Kept(c, t, n + 1, k)
    BY <2>1, KeyType DEF Kept
  <2>3. QED
    BY <1>1, <1>2, <2>1, <2>2 DEF CopyInv
<1>4. CASE e.key # 0
  <2>1. e.key \in Key /\ \A x \in Window(c, e.key) : c.slot[x].key # 0
    BY <1>4
  <2>2. Cardinality(Old(t, n + 1)) = Cardinality(Old(t, n)) + 1
    BY <1>1, <1>4, OneMore
  <2>3. DELTA <= Cardinality(EntriesOf(c))
    <3>1. /\ Window(c, e.key) \subseteq 0 .. c.max - 1
          /\ IsFiniteSet(Window(c, e.key)) /\ Cardinality(Window(c, e.key)) = DELTA
      BY <1>1, <2>1, WindowInside
    <3>2. Window(c, e.key) \subseteq EntriesOf(c)
      BY <2>1, <3>1 DEF EntriesOf
    <3>3. QED
      BY <1>2, <3>1, <3>2, FS_Subset
  <2>4. ~(Cardinality(EntriesOf(t)) <= DELTA)
    BY <1>1, <1>2, <2>2, <2>3
  <2>5. ASSUME NEW k \in Key, Kept(c, t, n, k) PROVE Kept(c, t, n + 1, k) \/ Lost(c, t, k)
    <3> DEFINE B == Before(t, n, k)  A == Before(t, n + 1, k)
    <3>1. CASE k # e.key
      <4>1. A = B
        BY <1>1, <3>1, OneMore
      <4>2. QED
        BY <2>5, <4>1 DEF Kept
    <3>2. CASE k = e.key /\ Found(c, k) = {}
      <4>1. Crowded(c, k)
        BY <2>1, <3>2 DEF Crowded, Found
      <4>2. Cardinality(EntriesOf(t)) > DELTA
        BY <1>1, <1>2, <2>4
      <4>3. QED
        BY <4>1, <4>2 DEF Lost
    <3>3. CASE k = e.key /\ Found(c, k) # {}
      <4>1. B # {} /\ c.slot[First(Found(c, k))].val = t.slot[First(B)].val
        BY <2>5, <3>3 DEF Kept
      <4>2. A = B \cup {n} /\ B \in SUBSET Nat /\ \A x \in B : x < n
        BY <1>1, <3>3, OneMore DEF Before
      <4>3. A \in SUBSET Nat /\ A # {}
        BY <1>1, <4>1, <4>2
      <4>4. First(B) \in B /\ \A j \in B : First(B) <= j
        BY <4>1, <4>2, FirstIs
      <4>5. First(B) \in A /\ \A j \in A : First(B) <= j
        BY <1>1, <4>2, <4>4
      <4>6. First(A) = First(B)
        BY <4>3, <4>5, FirstIs
      <4>7. QED
        BY <3>3, <4>1, <4>3, <4>6 DEF Kept
    <3>4. QED
      BY <3>1, <3>2, <3>3
  <2>6. QED
    BY <1>1, <1>2, <2>2, <2>5 DEF CopyInv
<1>5. QED
  BY <1>3, <1>4

(* One step of kvproto_rehash. *)
LEMMA CopyStep ==
  ASSUME NEW t, Shaped(t), t.max # 0, NEW c, NEW n \in 0 .. t.max - 1, CopyInv(c, t, n)
  PROVE  CopyInv(Rehashed(c, t.slot[n]), t, n + 1)
<1> DEFINE e == t.slot[n]  free == {x \in Window(c, e.key) : c.slot[x].key = 0}
           u == [c EXCEPT !.slot[First(free)] = e]
<1>1. e \in Slots /\ (e.key # 0 => e.key \in Key)
  BY DEF Shaped, Slots
<1>2. Rehashed(c, e) = IF e.key = 0 \/ free = {} THEN c ELSE u
  BY DEF Rehashed, First
<1>3. CASE e.key = 0 \/ free = {}
  BY <1>1, <1>2, <1>3, CopyNone
<1>4. CASE e.key # 0 /\ free # {}
  <2>1. c.max \in Nat /\ c.max > DELTA
    <3>1. t.max \in Nat /\ t.max > DELTA /\ c.max = 2 * t.max /\ DELTA \in Nat
      BY KeyAssumption DEF Shaped, CopyInv
    <3>2. QED
      BY <3>1
  <2>2. free \in SUBSET Nat
    BY <1>1, <1>4, <2>1, WindowInside
  <2>3. First(free) \in free /\ \A x \in free : First(free) <= x
    BY <1>4, <2>2, FirstIs
  <2>4. /\ First(free) \in Window(c, e.key) /\ c.slot[First(free)].key = 0
        /\ \A x \in Window(c, e.key) : c.slot[x].key = 0 => First(free) <= x
    BY <2>3
  <2>5. Rehashed(c, e) = u
    BY <1>2, <1>4
  <2> HIDE DEF free
  <2>6. CopyInv(u, t, n + 1)
    BY <1>1, <1>4, <2>4, CopyEntry
  <2>7. QED
    BY <2>5, <2>6
<1>5. QED
  BY <1>3, <1>4

(* What a look-up finds. *)
LEMMA GetIs ==
  ASSUME NEW t, Shaped(t), NEW k \in Key
  PROVE  Get(t, k) = IF t.max = 0 \/ Found(t, k) = {} THEN None ELSE t.slot[First(Found(t, k))].val
BY DEF Get, First

(* A rehash keeps a table's shape and the values it does not drop, and the  *)
(* new table never has more entries.                                        *)
LEMMA RehashKeeps ==
  ASSUME NEW t, Shaped(t), t.max # 0
  PROVE  LET u == kvproto_rehash(t)
         IN /\ Shaped(u) /\ u.max = 2 * t.max
            /\ Cardinality(EntriesOf(u)) <= Cardinality(EntriesOf(t))
            /\ \A k \in Key : Get(u, k) = Get(t, k) \/ (Get(u, k) = None /\ Lost(u, t, k))
<1> DEFINE u == kvproto_rehash(t)
<1>1. t.max \in Nat /\ t.max > DELTA /\ DELTA \in Nat /\ 2 * t.max \in Nat /\ 2 * t.max > DELTA
  <2>1. t.max \in Nat /\ t.max > DELTA /\ DELTA \in Nat
    BY KeyAssumption DEF Shaped
  <2>2. QED
    BY <2>1
<1>2. PICK f : /\ u = f[t.max] /\ f[0] = Empty(2 * t.max)
               /\ \A n \in 1 .. t.max : f[n] = Rehashed(f[n - 1], t.slot[n - 1])
  BY <1>1, RehashDef
<1> HIDE DEF u
<1>3. CopyInv(f[0], t, 0)
  <2> DEFINE c == f[0]
  <2>1. /\ Shaped(c) /\ c.max = 2 * t.max
        /\ \A i \in 0 .. 2 * t.max - 1 : c.slot[i].key = 0
    BY <1>1, <1>2, EmptyShape
  <2> HIDE DEF c
  <2>2. Dense(c)
    BY <2>1 DEF Dense
  <2>3. EntriesOf(c) = {} /\ Old(t, 0) = {} /\ \A k : Before(t, 0, k) = {}
    BY <2>1 DEF EntriesOf, Old, Before
  <2>4. Cardinality({}) = 0
    BY FS_EmptySet
  <2>5. \A k \in Key : Found(c, k) = {}
    <3> TAKE k \in Key
    <3>1. c.max # 0
      BY <1>1, <2>1
    <3>2. Found(c, k) = {i \in 0 .. c.max - 1 : c.slot[i].key = k}
      BY <2>1, <3>1, FoundType
    <3>3. k # 0
      BY KeyType
    <3>4. QED
      BY <2>1, <3>2, <3>3
  <2>6. CopyInv(c, t, 0)
    BY <2>1, <2>2, <2>3, <2>4, <2>5 DEF CopyInv, Kept
  <2>7. QED
    BY <2>6 DEF c
<1>4. CopyInv(f[t.max], t, t.max)
  <2> DEFINE S == {n \in 0 .. t.max : ~CopyInv(f[n], t, n)}
  <2>1. SUFFICES ASSUME S # {} PROVE FALSE
    BY <1>1
  <2>2. PICK n \in S : \A k \in S : n <= k
    <3>1. S \in SUBSET Nat
      OBVIOUS
    <3> HIDE DEF S
    <3>2. QED
      BY <2>1, <3>1, LeastOf
  <2>3. n # 0 /\ n \in 0 .. t.max
    BY <1>3, <2>2
  <2>4. /\ n - 1 \in 0 .. t.max - 1 /\ n - 1 \in 0 .. t.max /\ n - 1 + 1 = n
        /\ n \in 1 .. t.max /\ ~(n <= n - 1)
    BY <1>1, <2>3
  <2>5. CopyInv(f[n - 1], t, n - 1)
    BY <2>2, <2>4
  <2>6. CopyInv(Rehashed(f[n - 1], t.slot[n - 1]), t, n - 1 + 1)
    BY <2>4, <2>5, CopyStep
  <2>7. CopyInv(f[n], t, n)
    BY <1>2, <2>4, <2>6
  <2>8. QED
    BY <2>2, <2>7
<1>5. /\ Shaped(u) /\ u.max = 2 * t.max
      /\ Cardinality(EntriesOf(u)) <= Cardinality(Old(t, t.max))
      /\ \A k \in Key : Kept(u, t, t.max, k) \/ Lost(u, t, k)
  BY <1>2, <1>4 DEF CopyInv
<1>6. Old(t, t.max) = EntriesOf(t)
  BY DEF Old, EntriesOf
<1>7. ASSUME NEW k \in Key, Kept(u, t, t.max, k) PROVE Get(u, k) = Get(t, k)
  <2>1. Before(t, t.max, k) = Found(t, k)
    BY FoundType DEF Before
  <2>2. u.max # 0
    BY <1>1, <1>5
  <2>3. QED
    BY <1>5, <1>7, <2>1, <2>2, GetIs DEF Kept
<1>8. ASSUME NEW k \in Key, Lost(u, t, k) PROVE Get(u, k) = None
  <2>1. Found(u, k) = {}
    BY <1>8 DEF Lost, Crowded, Found
  <2>2. QED
    BY <2>1 DEF Get
<1>9. QED
  BY <1>5, <1>6, <1>7, <1>8 DEF u

-----------------------------------------------------------------------------
(* A set rehashes until the window of its key has room.                    *)
LEMMA FirstTable ==
  ASSUME Shaped(kvproto)
  PROVE  /\ Shaped(Start) /\ Start.max # 0
         /\ Cardinality(EntriesOf(Start)) <= Cardinality(Entries)
         /\ \A k \in Key : Get(Start, k) = Get(kvproto, k)
<1>1. Entries = EntriesOf(kvproto) /\ kvproto.max \in Nat
  BY DEF Entries, EntriesOf, Shaped
<1>2. CASE kvproto.max # 0
  <2>1. Start = kvproto
    BY <1>2 DEF Start
  <2>2. Cardinality(Entries) \in Nat
    <3>1. EntriesOf(kvproto) \in SUBSET (0 .. kvproto.max - 1)
      BY DEF EntriesOf
    <3>2. QED
      BY <1>1, <3>1, PartFinite
  <2>3. QED
    BY <1>1, <1>2, <2>1, <2>2
<1>3. CASE kvproto.max = 0
  <2> DEFINE u == Empty(DELTA + 1)
  <2>1. Start = u
    BY <1>3 DEF Start
  <2>2. PICK n \in Nat : n = DELTA + 1 /\ n > DELTA /\ n # 0
    BY KeyAssumption
  <2>3. Shaped(u) /\ u.max = n /\ \A i \in 0 .. n - 1 : u.slot[i].key = 0
    BY <2>2, EmptyShape
  <2> HIDE DEF u
  <2>4. EntriesOf(u) = {}
    BY <2>3 DEF EntriesOf
  <2>5. Entries = {}
    BY <1>3 DEF Entries
  <2>6. Cardinality({}) \in Nat
    BY FS_EmptySet
  <2>7. ASSUME NEW k \in Key PROVE Get(u, k) = Get(kvproto, k)
    <3>1. Found(u, k) = {i \in 0 .. u.max - 1 : u.slot[i].key = k}
      BY <2>2, <2>3, FoundType
    <3>2. Found(u, k) = {}
      BY <2>3, <3>1, KeyType
    <3>3. Get(u, k) = None
      BY <3>2 DEF Get
    <3>4. Get(kvproto, k) = None
      BY <1>3 DEF Get
    <3>5. QED
      BY <3>3, <3>4
  <2>8. QED
    BY <2>1, <2>2, <2>3, <2>4, <2>5, <2>6, <2>7
<1>4. QED
  BY <1>2, <1>3

(* What the table that a set grows has to do with the one it started with. *)
DroppedBy(n, k) ==
  Cardinality(Entries) > DELTA /\ \E j \in 1 .. n : Crowded(Grown(j), k)

GrowthInv(u, n) ==
  /\ Shaped(u) /\ u.max # 0
  /\ Cardinality(EntriesOf(u)) <= Cardinality(Entries)
  /\ \A k \in Key : Get(u, k) = Get(kvproto, k) \/ (Get(u, k) = None /\ DroppedBy(n, k))
  /\ \A j \in 0 .. n : Grown(j).max <= u.max

LEMMA GrownKeeps ==
  ASSUME Shaped(kvproto), NEW n \in 0 .. MaxGrow
  PROVE  GrowthInv(Grown(n), n)
<1>1. GrowthInv(Grown(0), 0)
  <2>1. Grown(0) = Start /\ Start.max \in Nat /\ \A j \in 0 .. 0 : j = 0
    BY FirstTable, GrownDef DEF Shaped
  <2>2. QED
    BY <2>1, FirstTable DEF GrowthInv
<1> DEFINE S == {m \in 0 .. MaxGrow : ~GrowthInv(Grown(m), m)}
<1>2. SUFFICES ASSUME S # {} PROVE FALSE
  OBVIOUS
<1>3. PICK m \in S : \A k \in S : m <= k
  <2>1. S \in SUBSET Nat
    OBVIOUS
  <2> HIDE DEF S
  <2>2. QED
    BY <1>2, <2>1, LeastOf
<1>4. m # 0 /\ m \in 0 .. MaxGrow /\ MaxGrow \in Nat
  BY <1>1, <1>3, KeyAssumption
<1>5. m \in 1 .. MaxGrow /\ m - 1 \in 0 .. MaxGrow /\ ~(m <= m - 1)
  BY <1>4
<1>6. PICK u : u = Grown(m - 1)
  OBVIOUS
<1>7. GrowthInv(u, m - 1)
  BY <1>3, <1>5, <1>6
<1>8. PICK w : w = kvproto_rehash(u)
  OBVIOUS
<1>9. /\ Shaped(w) /\ w.max = 2 * u.max /\ u.max \in Nat /\ u.max # 0
      /\ Cardinality(EntriesOf(w)) <= Cardinality(EntriesOf(u))
      /\ \A k \in Key : Get(w, k) = Get(u, k) \/ (Get(w, k) = None /\ Lost(w, u, k))
  <2>1. u.max \in Nat /\ u.max # 0 /\ Shaped(u)
    BY <1>7 DEF GrowthInv, Shaped
  <2>2. QED
    BY <1>8, <2>1, RehashKeeps
<1>10. /\ Cardinality(EntriesOf(w)) \in Nat /\ Cardinality(EntriesOf(u)) \in Nat
       /\ Cardinality(Entries) \in Nat /\ w.max \in Nat /\ w.max # 0 /\ DELTA \in Nat
  <2>1. /\ EntriesOf(w) \in SUBSET (0 .. w.max - 1) /\ EntriesOf(u) \in SUBSET (0 .. u.max - 1)
        /\ Entries \in SUBSET (0 .. kvproto.max - 1)
    BY DEF EntriesOf, Entries
  <2>2. kvproto.max \in Nat /\ w.max \in Nat /\ w.max # 0 /\ DELTA \in Nat
    BY <1>9, KeyAssumption DEF Shaped
  <2>3. Cardinality(EntriesOf(w)) \in Nat
    BY <2>1, <2>2, PartFinite
  <2>4. Cardinality(EntriesOf(u)) \in Nat
    BY <1>9, <2>1, PartFinite
  <2>5. Cardinality(Entries) \in Nat
    BY <2>1, <2>2, PartFinite
  <2>6. QED
    BY <2>2, <2>3, <2>4, <2>5
<1>11. Cardinality(EntriesOf(w)) <= Cardinality(Entries)
  BY <1>7, <1>9, <1>10 DEF GrowthInv
<1>12. Grown(m) = w
  BY <1>5, <1>6, <1>8, GrownDef
<1>13. ASSUME NEW k \in Key
       PROVE  Get(w, k) = Get(kvproto, k) \/ (Get(w, k) = None /\ DroppedBy(m, k))
  <2>1. Get(u, k) = Get(kvproto, k) \/ (Get(u, k) = None /\ DroppedBy(m - 1, k))
    BY <1>7 DEF GrowthInv
  <2>2. DroppedBy(m - 1, k) => DroppedBy(m, k)
    <3>1. \A j \in 1 .. m - 1 : j \in 1 .. m
      BY <1>4
    <3>2. QED
      BY <3>1 DEF DroppedBy
  <2>3. CASE Get(w, k) = Get(u, k)
    BY <2>1, <2>2, <2>3
  <2>4. CASE Get(w, k) = None /\ Lost(w, u, k)
    <3>1. Cardinality(Entries) > DELTA
      BY <1>7, <1>10, <2>4 DEF GrowthInv, Lost
    <3>2. m \in 1 .. m /\ Crowded(Grown(m), k)
      BY <1>5, <1>12, <2>4 DEF Lost
    <3>3. QED
      BY <2>4, <3>1, <3>2 DEF DroppedBy
  <2>5. QED
    BY <1>9, <2>3, <2>4
<1>14. \A j \in 0 .. m : Grown(j).max <= w.max
  <2> TAKE j \in 0 .. m
  <2>1. CASE j = m
    BY <1>10, <1>12, <2>1
  <2>2. CASE j # m
    <3>1. j \in 0 .. m - 1
      BY <1>4, <2>2
    <3>2. Grown(j).max <= u.max
      BY <1>7, <3>1 DEF GrowthInv
    <3>3. Grown(j).max \in Nat
      <4>1. j \in 0 .. MaxGrow /\ j \notin S
        BY <1>3, <1>4, <3>1
      <4>2. QED
        BY <4>1 DEF GrowthInv, Shaped
    <3>4. QED
      BY <1>9, <3>2, <3>3
  <2>3. QED
    BY <2>1, <2>2
<1>15. GrowthInv(w, m)
  BY <1>9, <1>10, <1>11, <1>13, <1>14 DEF GrowthInv
<1>16. QED
  BY <1>3, <1>12, <1>15

(* A value is stored in the first slot that has its key or is free.        *)
LEMMA Stored ==
  ASSUME NEW u, Shaped(u), u.max # 0, NEW k \in Key, NEW v \in Value, Room(u, k) # {}
  PROVE  /\ Shaped(Store(u, k, v))
         /\ \A x \in Key : Get(Store(u, k, v), x) = IF x = k THEN v ELSE Get(u, x)
<1> DEFINE i == First(Room(u, k))  e == [key |-> k, val |-> v]  w == [u EXCEPT !.slot[i] = e]
<1>1. Store(u, k, v) = w
  BY DEF Store, First
<1>2. u.max \in Nat /\ u.max > DELTA /\ e \in Slots /\ e.key = k /\ e.val = v /\ k # 0
  BY KeyType DEF Shaped, Slots
<1>3. Window(u, k) \subseteq 0 .. u.max - 1 /\ Window(u, k) \subseteq Nat
  BY <1>2, WindowInside
<1>4. Room(u, k) \in SUBSET Nat /\ Room(u, k) = {j \in Window(u, k) : u.slot[j].key \in {k, 0}}
  BY <1>3 DEF Room
<1>5. i \in Room(u, k) /\ \A j \in Room(u, k) : i <= j
  BY <1>4, FirstIs
<1> HIDE DEF i, e
<1>6. /\ i \in 0 .. u.max - 1 /\ i \in Window(u, k) /\ i \in Nat /\ u.slot[i].key \in {k, 0}
      /\ \A j \in Window(u, k) : u.slot[j].key = k => i <= j
  BY <1>3, <1>4, <1>5
<1>7. /\ Shaped(w) /\ w.max = u.max /\ w.slot[i] = e
      /\ \A j \in 0 .. u.max - 1 : j # i => w.slot[j] = u.slot[j]
  BY <1>2, <1>6, Written
<1> HIDE DEF w
<1>8. ASSUME NEW x \in Key
      PROVE  Get(w, x) = IF x = k THEN v ELSE Get(u, x)
  <2> DEFINE F == Found(u, x)  G == Found(w, x)
  <2>1. /\ F \in SUBSET Nat /\ F \subseteq 0 .. u.max - 1 /\ F \subseteq Window(u, x)
        /\ F = {j \in 0 .. u.max - 1 : u.slot[j].key = x}
    BY FoundType DEF Found
  <2>2. w.max # 0 /\ Shaped(w) /\ x \in Key /\ x # 0
    BY <1>7, KeyType
  <2>3. G \in SUBSET Nat /\ G = {j \in 0 .. w.max - 1 : w.slot[j].key = x}
    BY ONLY <2>2, FoundType
  <2>4. Get(w, x) = IF G = {} THEN None ELSE w.slot[First(G)].val
    BY <2>2, GetIs
  <2>5. Get(u, x) = IF F = {} THEN None ELSE u.slot[First(F)].val
    BY GetIs
  <2> HIDE DEF F, G
  <2>6. CASE x = k
    <3>1. i \in G
      BY <1>2, <1>6, <1>7, <2>3, <2>6
    <3>2. \A j \in G : i <= j
      <4> TAKE j \in G
      <4>1. j = i \/ j \in F
        BY <1>7, <2>1, <2>3
      <4>2. QED
        BY <1>6, <2>1, <2>6, <4>1
    <3>3. First(G) = i
      BY <2>3, <3>1, <3>2, FirstIs
    <3>4. QED
      BY <1>2, <1>7, <2>4, <2>6, <3>1, <3>3
  <2>7. CASE x # k
    <3>1. i \notin F /\ i \notin G
      BY <1>2, <1>6, <1>7, <2>1, <2>2, <2>3, <2>7
    <3>2. G = F
      BY <1>7, <2>1, <2>3, <3>1
    <3>3. F # {} => First(F) \in F
      BY <2>1, FirstIs
    <3>4. F # {} => w.slot[First(F)] = u.slot[First(F)]
      BY <1>7, <2>1, <3>1, <3>3
    <3>5. QED
      BY <2>4, <2>5, <2>7, <3>2, <3>4
  <2>8. QED
    BY <2>6, <2>7
<1>9. QED
  BY <1>1, <1>7, <1>8

(* A key that is in no two slots is gone when its slot is freed, and no     *)
(* other key loses its value.                                               *)
Single(t, k) == \A i, j \in 0 .. t.max - 1 : t.slot[i].key = k /\ t.slot[j].key = k => i = j

LEMMA Cleared ==
  ASSUME NEW t, Shaped(t), NEW k \in Key
  PROVE  LET w == Clear(t, k)
         IN /\ Shaped(w) /\ w.max = t.max
            /\ \A x \in Key : x # k => Get(w, x) = Get(t, x) /\ (Single(t, x) => Single(w, x))
            /\ Single(t, k) => Get(w, k) = None
<1>1. CASE t.max = 0 \/ Found(t, k) = {}
  <2>1. Clear(t, k) = t /\ Get(t, k) = None
    BY <1>1 DEF Clear, Get
  <2>2. QED
    BY <2>1
<1>2. CASE ~(t.max = 0 \/ Found(t, k) = {})
  <2> DEFINE i == First(Found(t, k))  w == [t EXCEPT !.slot[i] = Free]
  <2>1. Clear(t, k) = w
    BY <1>2 DEF Clear, First
  <2>2. /\ Found(t, k) \in SUBSET Nat /\ Found(t, k) # {} /\ t.max # 0
        /\ Found(t, k) = {j \in 0 .. t.max - 1 : t.slot[j].key = k}
    BY <1>2, FoundType
  <2>3. i \in 0 .. t.max - 1 /\ t.slot[i].key = k
    BY <2>2, FirstIs
  <2>4. Free \in Slots /\ Free.key = 0
    BY DEF Free, Slots
  <2> HIDE DEF i
  <2>5. /\ Shaped(w) /\ w.max = t.max /\ w.slot[i] = Free
        /\ \A j \in 0 .. t.max - 1 : j # i => w.slot[j] = t.slot[j]
    BY <2>3, <2>4, Written
  <2> HIDE DEF w
  <2>6. ASSUME NEW x \in Key
        PROVE  /\ x # k => Get(w, x) = Get(t, x) /\ (Single(t, x) => Single(w, x))
               /\ x = k /\ Single(t, k) => Get(w, k) = None
    <3> DEFINE F == Found(t, x)  G == Found(w, x)
    <3>1. w.max # 0 /\ t.max # 0 /\ Shaped(w) /\ Shaped(t) /\ x \in Key /\ x # 0
      BY <2>2, <2>5, KeyType
    <3>2. F \in SUBSET Nat /\ F = {j \in 0 .. t.max - 1 : t.slot[j].key = x}
      BY ONLY <3>1, FoundType
    <3>3. G \in SUBSET Nat /\ G = {j \in 0 .. w.max - 1 : w.slot[j].key = x}
      BY ONLY <3>1, FoundType
    <3>4. Get(w, x) = IF G = {} THEN None ELSE w.slot[First(G)].val
      BY <3>1, GetIs
    <3>5. Get(t, x) = IF F = {} THEN None ELSE t.slot[First(F)].val
      BY <3>1, GetIs
    <3> HIDE DEF F, G
    <3>6. \A j \in 0 .. t.max - 1 : w.slot[j].key = x => j # i /\ t.slot[j].key = x
      BY <2>4, <2>5, <3>1
    <3>7. CASE x # k
      <4>1. i \notin F /\ G = F
        BY <2>3, <2>5, <3>2, <3>3, <3>6, <3>7
      <4>2. F # {} => First(F) \in F
        BY <3>2, FirstIs
      <4>3. F # {} => w.slot[First(F)] = t.slot[First(F)]
        BY <2>5, <3>2, <4>1, <4>2
      <4>4. Get(w, x) = Get(t, x)
        BY <3>4, <3>5, <4>1, <4>3
      <4>5. Single(t, x) => Single(w, x)
        BY <2>5, <3>6 DEF Single
      <4>6. QED
        BY <3>7, <4>4, <4>5
    <3>8. CASE x = k
      <4>1. Single(t, k) => G = {}
        BY <2>3, <2>5, <3>3, <3>6, <3>8 DEF Single
      <4>2. QED
        BY <3>4, <3>8, <4>1
    <3>9. QED
      BY <3>7, <3>8
  <2>7. QED
    BY <2>1, <2>5, <2>6
<1>3. QED
  BY <1>1, <1>2

-----------------------------------------------------------------------------
(* What the operations do. *)
LEMMA SetStep ==
  ASSUME Shaped(kvproto), NEW k \in Key, NEW v \in Value, Set(k, v)
  PROVE  /\ Shaped(kvproto')
         /\ Get(kvproto', k) = v
         /\ \A x \in Key \ {k} : Get(kvproto', x) = Get(kvproto, x)
                                \/ (Get(kvproto', x) = None /\ Dropped(x))
<1>1. PICK n \in 0 .. MaxGrow : Room(Grown(n), k) # {} /\ kvproto' = Store(Grown(n), k, v)
  BY DEF Set
<1>2. PICK u : u = Grown(n)
  OBVIOUS
<1>3. GrowthInv(u, n) /\ Room(u, k) # {} /\ kvproto' = Store(u, k, v)
  BY <1>1, <1>2, GrownKeeps
<1>4. /\ Shaped(Store(u, k, v))
      /\ \A x \in Key : Get(Store(u, k, v), x) = IF x = k THEN v ELSE Get(u, x)
  BY <1>3, Stored DEF GrowthInv
<1>5. kvproto'.max = u.max
  BY <1>3 DEF Store
<1>6. ASSUME NEW x \in Key, DroppedBy(n, x) PROVE Dropped(x)
  <2>1. PICK j \in 1 .. n : Crowded(Grown(j), x)
    BY <1>6 DEF DroppedBy
  <2>2. j \in 1 .. MaxGrow /\ j \in 0 .. n
    BY <1>1, <2>1, KeyAssumption
  <2>3. Grown(j).max <= kvproto'.max
    BY <1>3, <1>5, <2>2 DEF GrowthInv
  <2>4. QED
    BY <1>6, <2>1, <2>2, <2>3 DEF DroppedBy, Dropped
<1>7. ASSUME NEW x \in Key \ {k}
      PROVE  Get(kvproto', x) = Get(kvproto, x)
              \/ (Get(kvproto', x) = None /\ Dropped(x))
  BY <1>3, <1>4, <1>6, <1>7 DEF GrowthInv
<1>8. QED
  BY <1>3, <1>4, <1>7

LEMMA RemoveStep ==
  ASSUME Shaped(kvproto), NEW k \in Symbol, Remove(k)
  PROVE  /\ Shaped(kvproto')
         /\ Single(kvproto, k) /\ Single(kvproto, k + Boxed) =>
              \A x \in Key : Get(kvproto', x) = IF x \in {k, k + Boxed} THEN None ELSE Get(kvproto, x)
<1>1. k \in Key /\ k + Boxed \in Key /\ k # k + Boxed
  <2>1. k \in Nat /\ Boxed \in Nat /\ k < Boxed
    BY KeyAssumption
  <2>2. QED
    BY <2>1, KeyType
<1>2. PICK u : u = Clear(kvproto, k + Boxed)
  OBVIOUS
<1>3. PICK w : w = Clear(u, k)
  OBVIOUS
<1>4. kvproto' = w
  BY <1>2, <1>3 DEF Remove
<1>5. /\ Shaped(u)
      /\ \A x \in Key : x # k + Boxed => Get(u, x) = Get(kvproto, x) /\ (Single(kvproto, x) => Single(u, x))
      /\ Single(kvproto, k + Boxed) => Get(u, k + Boxed) = None
  BY <1>1, <1>2, Cleared
<1>6. /\ Shaped(w)
      /\ \A x \in Key : x # k => Get(w, x) = Get(u, x)
      /\ Single(u, k) => Get(w, k) = None
  BY <1>1, <1>3, <1>5, Cleared
<1>7. QED
  BY <1>1, <1>4, <1>5, <1>6

LEMMA ShapeFirst == Init => Shaped(kvproto)
<1> SUFFICES ASSUME Init PROVE Shaped(kvproto)
  OBVIOUS
<1>1. 0 \in Nat /\ kvproto = Empty(0)
  BY DEF Init
<1>2. QED
  BY <1>1, EmptyShape

LEMMA ShapeStep == Shaped(kvproto) /\ [Next]_kvproto => Shaped(kvproto)'
<1> SUFFICES ASSUME Shaped(kvproto), [Next]_kvproto PROVE Shaped(kvproto')
  OBVIOUS
<1>1. CASE \E k \in Key, v \in Value : Set(k, v)
  BY <1>1, SetStep
<1>2. CASE \E k \in Symbol : Remove(k)
  BY <1>2, RemoveStep
<1>3. CASE UNCHANGED kvproto
  BY <1>3
<1>4. QED
  BY <1>1, <1>2, <1>3 DEF Next

(* Every entry lies in the window of its key, and the last window inside the *)
(* table, through every set, removal and rehash (kvproto_findset,            *)
(* kvproto_rehash): no look-up leaves the table or misses a key.             *)
THEOREM EntriesInTheirWindows == Spec => []TypeOK
BY ShapeFirst, ShapeStep, TypeFromShape, PTL DEF Spec

(* A set gives its key that value and leaves every other key what it had     *)
(* (kvproto_set), also when it rehashes any number of times, and whatever    *)
(* stale entries there are; the one exception is a key whose window another  *)
(* DELTA entries fill in a table it rehashes to (kvproto_findset), and that  *)
(* key is then not found at all.                                             *)
THEOREM EverySetIsSeen == Spec => SetIsSeen
<1> DEFINE Seen == \A k \in Key, v \in Value : Set(k, v) =>
                     /\ Lookup'[k] = v
                     /\ \A x \in Key \ {k} : Lookup'[x] = Lookup[x]
                                            \/ (Lookup'[x] = None /\ Dropped(x))
<1>1. Shaped(kvproto) => Seen
  <2> SUFFICES ASSUME Shaped(kvproto), NEW k \in Key, NEW v \in Value, Set(k, v)
               PROVE  /\ Lookup'[k] = v
                      /\ \A x \in Key \ {k} : Lookup'[x] = Lookup[x]
                                             \/ (Lookup'[x] = None /\ Dropped(x))
    OBVIOUS
  <2>1. /\ Get(kvproto', k) = v
        /\ \A x \in Key \ {k} : Get(kvproto', x) = Get(kvproto, x)
                               \/ (Get(kvproto', x) = None /\ Dropped(x))
    BY SetStep
  <2>2. \A x \in Key : Lookup'[x] = Get(kvproto', x) /\ Lookup[x] = Get(kvproto, x)
    BY DEF Lookup
  <2>3. QED
    BY <2>1, <2>2
<1> HIDE DEF Seen
<1>2. Spec => []Shaped(kvproto)
  BY ShapeFirst, ShapeStep, PTL DEF Spec
<1>3. Spec => [][Seen]_kvproto
  BY <1>1, <1>2, PTL
<1>4. QED
  BY <1>3 DEF SetIsSeen, Seen

(* A removed key has no value any more, and no other key loses its own       *)
(* (KObject_removeKey), as long as no key is in two slots: a key that a set  *)
(* stored again in front of an older entry is the one way in which it can    *)
(* come back.                                                                *)
THEOREM RemovedUnlessTwice ==
  Spec => [][\A k \in Symbol : Remove(k) /\ Single(kvproto, k) /\ Single(kvproto, k + Boxed) =>
               Lookup' = [Lookup EXCEPT ![k] = None, ![k + Boxed] = None]]_kvproto
<1> DEFINE Gone == \A k \in Symbol : Remove(k) /\ Single(kvproto, k) /\ Single(kvproto, k + Boxed) =>
                     Lookup' = [Lookup EXCEPT ![k] = None, ![k + Boxed] = None]
<1>1. Shaped(kvproto) => Gone
  <2> SUFFICES ASSUME Shaped(kvproto), NEW k \in Symbol, Remove(k),
                      Single(kvproto, k), Single(kvproto, k + Boxed)
               PROVE  Lookup' = [Lookup EXCEPT ![k] = None, ![k + Boxed] = None]
    OBVIOUS
  <2>1. \A x \in Key : Get(kvproto', x) = IF x \in {k, k + Boxed} THEN None ELSE Get(kvproto, x)
    BY RemoveStep
  <2>2. Lookup' = [x \in Key |-> Get(kvproto', x)]
    BY DEF Lookup
  <2>3. [Lookup EXCEPT ![k] = None, ![k + Boxed] = None]
          = [x \in Key |-> IF x \in {k, k + Boxed} THEN None ELSE Get(kvproto, x)]
    BY DEF Lookup
  <2>4. QED
    BY <2>1, <2>2, <2>3
<1> HIDE DEF Gone
<1>2. Spec => []Shaped(kvproto)
  BY ShapeFirst, ShapeStep, PTL DEF Spec
<1>3. Spec => [][Gone]_kvproto
  BY <1>1, <1>2, PTL
<1>4. QED
  BY <1>3 DEF Gone
=============================================================================
