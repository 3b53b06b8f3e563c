-------------------------------- MODULE KMap --------------------------------
(***************************************************************************)
(* The hash map of src/src/konoha/klibexec.h and the interning of names    *)
(* on top of it (Kmap_getcode).  The entries live in an arena that is      *)
(* doubled when its free list is empty; all pointers into it are then      *)
(* moved, and the bucket array is replaced and filled again.               *)
(*                                                                         *)
(* A pointer to an entry is its index in the arena, NULL is Nil.  Kmap_add *)
(* follows Kmap_newentry at once wherever the map is used, so the two are  *)
(* one step.  Kmap_remove has no caller and is not modelled.               *)
(***************************************************************************)
EXTENDS Integers, Sequences, FiniteSets

CONSTANTS
  Name,       \* the names
  NoName,     \* no key: the entry is free
  strhash,    \* strhash[name]: hcode of a name; different names may share it
  HMAP_INIT,  \* buckets of a new map (83)
  MaxArena    \* bound on the entries of the arena

ASSUME HashAssumption ==
  /\ NoName \notin Name
  /\ strhash \in [Name -> Nat] /\ HMAP_INIT \in Nat /\ HMAP_INIT > 1 /\ MaxArena \in Nat

VARIABLES
  arena,    \* arena[0 .. arenasize - 1]
  hentry,   \* hentry[0 .. hmax - 1]: first entry of each bucket
  unused,   \* first entry of the free list
  size,     \* entries in use
  list      \* symbolList: the name of each code

kmap == <<arena, hentry, unused, size, list>>

Nil == -1
arenasize(a) == Cardinality(DOMAIN a)
hmax(h) == Cardinality(DOMAIN h)

(* kmap_makeFreeList: a free entry of a list that ends before entry e. *)
FreeEntry(i, e) == [hcode |-> Nil, skey |-> NoName, uvalue |-> 0, next |-> IF i = e - 1 THEN Nil ELSE i + 1]

Kmap_init ==
  /\ arena = [i \in 0 .. (HMAP_INIT * 3) \div 4 - 1 |-> FreeEntry(i, (HMAP_INIT * 3) \div 4)]
  /\ hentry = [b \in 0 .. HMAP_INIT - 1 |-> Nil]
  /\ unused = 0 /\ size = 0 /\ list = <<>>

(* The entry n steps behind entry e. *)
Behind(a, e) ==
  LET walk[n \in 0 .. arenasize(a)] ==
        IF n = 0 THEN e ELSE IF walk[n - 1] = Nil THEN Nil ELSE a[walk[n - 1]].next
  IN walk
Chain(a, e) == {Behind(a, e)[n] : n \in 0 .. arenasize(a)} \ {Nil}

(* Kmap_getentry and the loop of Kmap_getcode: the codes stored under the  *)
(* name in its bucket.                                                     *)
Bucket(name) == Chain(arena, hentry[strhash[name] % hmax(hentry)])
Match(e, name) == arena[e].hcode = strhash[name] /\ arena[e].skey = name
Codes(name) == {arena[e].uvalue : e \in {e \in Bucket(name) : Match(e, name)}}

-----------------------------------------------------------------------------
(* kmap_rehash: entry i is put in front of its bucket, after those before  *)
(* it: what it then points to is the last such entry.                      *)
Last(a, i, b, n) ==
  LET S == {j \in 0 .. i - 1 : a[j].hcode % n = b}
  IN IF S = {} THEN Nil ELSE CHOOSE j \in S : \A k \in S : k <= j
(* Fault: the last entry is left out. *)
kmap_rehash_short(a, n, s) ==
  [arena |-> [i \in DOMAIN a |->
                IF i < s THEN [a[i] EXCEPT !.next = Last(a, i, a[i].hcode % n, n)] ELSE a[i]],
   hentry |-> [b \in 0 .. n - 1 |-> Last(a, s - 1, b, n)]]
kmap_rehash(a, n, s) ==
  [arena |-> [i \in DOMAIN a |->
                IF i < s THEN [a[i] EXCEPT !.next = Last(a, i, a[i].hcode % n, n)] ELSE a[i]],
   hentry |-> [b \in 0 .. n - 1 |-> Last(a, s, b, n)]]

(* Kmap_newentry with an empty free list: a doubled arena, whose new half  *)
(* is free, and 2 * hmax + 1 buckets.                                      *)
Grown ==
  LET s == arenasize(arena)
      a == [i \in 0 .. 2 * s - 1 |-> IF i < s THEN arena[i] ELSE FreeEntry(i, 2 * s)]
  IN IF unused # Nil THEN [arena |-> arena, hentry |-> hentry, unused |-> unused]
     ELSE LET r == kmap_rehash(a, 2 * hmax(hentry) + 1, s)
          IN [arena |-> r.arena, hentry |-> r.hentry, unused |-> s]

(* Fault: the free list is not moved on. *)
Add_keepfree(m, h, name, c) ==
  LET b == h % hmax(m.hentry)
  IN /\ unused' = m.unused
     /\ arena' = [m.arena EXCEPT ![m.unused] =
                    [hcode |-> h, skey |-> name, uvalue |-> c, next |-> m.hentry[b]]]
     /\ hentry' = [m.hentry EXCEPT ![b] = m.unused]
(* The first free entry is filled in and put in front of its bucket. *)
Add(m, h, name, c) ==
  LET b == h % hmax(m.hentry)
  IN /\ unused' = m.arena[m.unused].next
     /\ arena' = [m.arena EXCEPT ![m.unused] =
                    [hcode |-> h, skey |-> name, uvalue |-> c, next |-> m.hentry[b]]]
     /\ hentry' = [m.hentry EXCEPT ![b] = m.unused]

(* Kmap_getcode with FN_NEWID: a name without a code gets the next one. *)
Getcode(name) ==
  /\ Codes(name) = {}
  /\ unused = Nil => 2 * arenasize(arena) <= MaxArena
  /\ list' = Append(list, name)
  /\ Add(Grown, strhash[name], name, Len(list))
  /\ size' = size + 1

-----------------------------------------------------------------------------
Slot == DOMAIN arena

(* An entry is on the free list or in one bucket, that of its hash code,   *)
(* and no list has a cycle: after every growth, too, each is used once.    *)
ListsPartitionArena ==
  /\ \A e \in Slot : \/ e \in Chain(arena, unused)
                     \/ \E b \in DOMAIN hentry : e \in Chain(arena, hentry[b])
  /\ \A b \in DOMAIN hentry :
       \A e \in Chain(arena, hentry[b]) :
         /\ arena[e].hcode % hmax(hentry) = b /\ arena[e].hcode # Nil
         /\ e \notin Chain(arena, arena[e].next)
         /\ e \notin Chain(arena, unused)
  /\ \A e \in Chain(arena, unused) : e \notin Chain(arena, arena[e].next)

Interned == {n \in Name : Codes(n) # {}}
Promise == INSTANCE Symbols WITH
  code <- [n \in Interned |-> CHOOSE c \in Codes(n) : TRUE]
=============================================================================
