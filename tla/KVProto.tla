------------------------------ MODULE KVProto -------------------------------
(***************************************************************************)
(* The property table of an object (h.kvproto), src/src/konoha/klibexec.h: *)
(* open addressing without wrap-around in a window of KVPROTO_DELTA slots, *)
(* doubled by kvproto_rehash when the window of a key is full.             *)
(*                                                                         *)
(* A table is [max, slot]: max is bytemax / sizeof(kvs_t), 0 for the       *)
(* shared empty table of kvproto_null; bytesize, the modulus of the hash,  *)
(* is always max - DELTA.  A slot holds a key and a value; key 0 means     *)
(* that it is free.  An object value is stored under key | FN_BOXED.       *)
(***************************************************************************)
EXTENDS Integers, FiniteSets

CONSTANTS
  Symbol,   \* the keys in use
  Boxed,    \* FN_BOXED
  Value,    \* stored values
  None,     \* what a lookup gives for a key that is not set
  DELTA,    \* KVPROTO_DELTA (7); the first table has DELTA + 1 slots
  MaxGrow   \* bound on the number of rehashes

Key == Symbol \cup {k + Boxed : k \in Symbol}

ASSUME KeyAssumption ==
  /\ Symbol \subseteq Nat \ {0} /\ Boxed \in Nat /\ DELTA \in Nat \ {0} /\ MaxGrow \in Nat
  /\ \A k \in Symbol : k < Boxed

VARIABLE kvproto

Free == [key |-> 0, val |-> None]
Empty(n) == [max |-> n, slot |-> [i \in 0 .. n - 1 |-> Free]]

(* The slots a key may be in: DELTA of them, from its hash on. *)
Window(t, k) == LET home == k % (t.max - DELTA) IN home .. home + DELTA - 1

IsFirst(i, S) == i \in S /\ \A j \in S : i <= j

(* kvproto_get: the first slot of the window with the key. *)
Found(t, k) == {i \in Window(t, k) : t.slot[i].key = k}
Get(t, k) ==
  IF t.max = 0 \/ Found(t, k) = {} THEN None
  ELSE t.slot[CHOOSE i \in Found(t, k) : IsFirst(i, Found(t, k))].val

(* Where kvproto_set writes: the first slot that has the key or is free. *)
Room(t, k) == {i \in Window(t, k) : t.slot[i].key \in {k, 0}}
Store(t, k, v) ==
  LET i == CHOOSE i \in Room(t, k) : IsFirst(i, Room(t, k))
  IN [t EXCEPT !.slot[i] = [key |-> k, val |-> v]]

(* One entry of the old table goes to the new one: to the first free slot  *)
(* of its window, and nowhere if there is none (kvproto_findset).          *)
Rehashed(t, e) ==
  LET free == {i \in Window(t, e.key) : t.slot[i].key = 0}
  IN IF e.key = 0 \/ free = {} THEN t
     ELSE [t EXCEPT !.slot[CHOOSE i \in free : IsFirst(i, free)] = e]

(* Fault: the old table is read up to bytesize, not to bytemax. *)
kvproto_rehash_short(t) ==
  LET copied[n \in 0 .. t.max] ==
        IF n = 0 THEN Empty(2 * t.max) ELSE Rehashed(copied[n - 1], t.slot[n - 1])
  IN copied[t.max - DELTA]
(* Fault: the slots are copied as they are. *)
kvproto_rehash_copy(t) ==
  [max |-> 2 * t.max,
   slot |-> [i \in 0 .. 2 * t.max - 1 |-> IF i < t.max THEN t.slot[i] ELSE Free]]
(* kvproto_rehash: the entries of the old table, in the order of its slots. *)
kvproto_rehash(t) ==
  LET copied[n \in 0 .. t.max] ==
        IF n = 0 THEN Empty(2 * t.max) ELSE Rehashed(copied[n - 1], t.slot[n - 1])
  IN copied[t.max]

(* The loop of kvproto_set: the table after n rehashes. *)
Grown(n) ==
  LET grown[m \in 0 .. MaxGrow] ==
        IF m > 0 THEN kvproto_rehash(grown[m - 1])
        ELSE IF kvproto.max = 0 THEN Empty(DELTA + 1) ELSE kvproto
  IN grown[n]

-----------------------------------------------------------------------------
(* kvproto_null: every object starts with the shared empty table. *)
Init == kvproto = Empty(0)

(* kvproto_set, from KObject_setUnboxedValue or KObject_setObject. *)
Set(k, v) ==
  \E n \in 0 .. MaxGrow :
    /\ kvproto.max * (2 ^ n) <= (DELTA + 1) * (2 ^ MaxGrow)
    /\ Room(Grown(n), k) # {} /\ \A m \in 0 .. n - 1 : Room(Grown(m), k) = {}
    /\ kvproto' = Store(Grown(n), k, v)

(* The slot of a key is freed, if the key has one. *)
Clear(t, k) ==
  IF t.max = 0 \/ Found(t, k) = {} THEN t
  ELSE [t EXCEPT !.slot[CHOOSE i \in Found(t, k) : IsFirst(i, Found(t, k))] = Free]

(* KObject_removeKey: the object value, then the unboxed one. *)
Remove(k) == kvproto' = Clear(Clear(kvproto, k + Boxed), k)

Next == \/ \E k \in Key, v \in Value : Set(k, v)
        \/ \E k \in Symbol : Remove(k)

Spec == Init /\ [][Next]_kvproto

-----------------------------------------------------------------------------
Lookup == [k \in Key |-> Get(kvproto, k)]

(* Types, and the shape that makes a lookup safe: the last window ends     *)
(* inside the table, and every entry lies in the window of its key.        *)
TypeOK ==
  /\ kvproto.max = 0 \/ kvproto.max > DELTA
  /\ kvproto.slot \in [0 .. kvproto.max - 1 -> [key : Key \cup {0}, val : Value \cup {None}]]
  /\ \A i \in 0 .. kvproto.max - 1 :
       kvproto.slot[i].key # 0 =>
         /\ i \in Window(kvproto, kvproto.slot[i].key)
         /\ Window(kvproto, kvproto.slot[i].key) \subseteq 0 .. kvproto.max - 1

Entries == {i \in 0 .. kvproto.max - 1 : kvproto.slot[i].key # 0}

(* The window of k is full of other keys: an entry of k that a rehash      *)
(* brings there is dropped, as kvproto_findset finds no slot for it.       *)
Crowded(t, k) == \A i \in Window(t, k) : t.slot[i].key \notin {0, k}

(* The set has rehashed the table so that k lost its entries on the way,   *)
(* which takes more entries than a window has slots.                       *)
Dropped(k) ==
  /\ Cardinality(Entries) > DELTA
  /\ \E n \in 1 .. MaxGrow : Grown(n).max <= kvproto'.max /\ Crowded(Grown(n), k)

(* Setting a key gives it that value and leaves every other key what it    *)
(* had, the boxed one of the same symbol and those that rehashes move      *)
(* included.  There is one way to lose a value, and then it is gone and    *)
(* not replaced by an older one: a rehash dropped it.                      *)
SetIsSeen ==
  [][\A k \in Key, v \in Value : Set(k, v) =>
       /\ Lookup'[k] = v
       /\ \A x \in Key \ {k} : Lookup'[x] = Lookup[x] \/ (Lookup'[x] = None /\ Dropped(x))]_kvproto

(* A removed key has neither value any more. *)
RemoveIsSeen ==
  [][\A k \in Symbol : Remove(k) =>
       Lookup' = [Lookup EXCEPT ![k] = None, ![k + Boxed] = None]]_kvproto
=============================================================================
