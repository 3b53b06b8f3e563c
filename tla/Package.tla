------------------------------- MODULE Package -------------------------------
(***************************************************************************)
(* Packages, src/src/sugar/sugar.c, and the constants of a name space,     *)
(* src/src/sugar/struct.h.  An import loads the package unless it is in    *)
(* the table of packages, and merges its classes and constants into the    *)
(* importing name space.  Loading runs its glue and its script, which      *)
(* import other packages in their turn; it fails when the script does, and *)
(* a package without a file raises, which ends the innermost script.       *)
(*                                                                         *)
(* The name of a package is interned (kpack) in the map of KMap, and its   *)
(* code identifies it in the table and in its classes.  The key of a       *)
(* constant is a number, the order of kuname's codes; `boxed' is the flag  *)
(* FN_BOXED in it.  A value is a class or the constant of a package.       *)
(***************************************************************************)
EXTENDS KMap

CONSTANTS
  File,       \* the packages that have a file
  Requires,   \* Requires[f]: what its initPackage requires (KREQUIRE_PACKAGE)
  Scripts,    \* Scripts[f]: what its script imports
  Exports,    \* Exports[f]: what its initKonohaSpace exports (KEXPORT_PACKAGE)
  Classes,    \* Classes[f]: the keys of the classes its glue defines
  Consts,     \* Consts[f]: the keys of its constants, and whether they are boxed
  Broken,     \* the packages whose script may fail
  PN_konoha,  \* the package whose classes are found without an import
  MaxSpaces,  \* bound on the name spaces
  MaxEntries  \* bound on the constants of the program's name space

VARIABLES
  packageMapNO, \* the packages that are loaded, newest first: code and name space
  spaces,       \* the name spaces: the program's, then one for each attempt to load
  ca,           \* the class table: key and package of each class
  stack         \* the imports that are active, innermost last

vars == <<kmap, packageMapNO, spaces, ca, stack>>

Init ==
  /\ Kmap_init
  /\ packageMapNO = <<>> /\ ca = <<>> /\ stack = <<>>
  /\ spaces = <<[pack |-> -1, cl |-> <<>>]>>

Code(name) == CHOOSE c \in Codes(name) : TRUE

(* The entries of a code in the table of packages, and the one that is      *)
(* found, the newest.                                                       *)
Packs(c) == {i \in 1 .. Len(packageMapNO) : packageMapNO[i].id = c}
Pack(c) == packageMapNO[CHOOSE i \in Packs(c) : \A j \in Packs(c) : i <= j].space

(* What a package imports, in whatever way, and that no package imports     *)
(* itself through others: each of a set of them has a last one.  Otherwise  *)
(* loading does not end (a package is in the table only when it is loaded). *)
Elements(s) == {s[i] : i \in 1 .. Len(s)}
Uses(f) == Elements(Requires[f]) \cup Elements(Scripts[f]) \cup Elements(Exports[f])

ASSUME AcyclicAssumption ==
  \A S \in SUBSET File : S # {} => \E f \in S : Uses(f) \cap S = {}

ASSUME PackageAssumption ==
  /\ File \subseteq Name
  /\ {Requires, Scripts, Exports} \subseteq [File -> Seq(Name)]

(* A glue defines each of its classes once.  Not so its constants: konoha.socket *)
(* has MSG_OOB twice in its table (socket_glue.h:684 and 687).               *)
ASSUME GlueAssumption ==
  /\ Classes \in [File -> Seq(Nat)] /\ Consts \in [File -> Seq([key : Nat, boxed : BOOLEAN])]
  /\ \A f \in File : \A i, j \in 1 .. Len(Classes[f]) : Classes[f][i] = Classes[f][j] => i = j

-----------------------------------------------------------------------------
(* s, and behind it what t has at the places in I, in order (kwb_write in a  *)
(* loop over t).                                                             *)
Appended(s, t, I) ==
  LET upto[n \in 0 .. Len(t)] ==
        IF n = 0 THEN s ELSE IF n \in I THEN Append(upto[n - 1], t[n]) ELSE upto[n - 1]
  IN upto[Len(t)]

(* KonohaSpace_getConstNULL: binary search; 0 when the key is not there.   *)
getConst(cl, key) ==
  LET find[range \in (0 .. Len(cl)) \X (0 .. Len(cl))] ==
        LET min == range[1]  max == range[2]  p == (max + min) \div 2
        IN IF min >= max THEN 0
           ELSE IF cl[p + 1].key = key THEN p + 1
           ELSE IF cl[p + 1].key < key THEN find[<<p + 1, max>>] ELSE find[<<min, p>>]
  IN find[<<0, Len(cl)>>]

(* Fault: the constants are not looked for. *)
checkConflicted_never(cl, kv) == FALSE
(* checkConflictedConst looks a constant up with the flag in its key, which *)
(* no key of the table has: a boxed one is never found.                     *)
checkConflicted(cl, kv) == ~kv.boxed /\ getConst(cl, kv.key) # 0

(* Fault: the table is left as it is, the new constants last. *)
qsort_not(s) == {s}
(* qsort leaves the order of equal keys open. *)
qsort(s) ==
  LET fits(u, kv, i) == /\ i = 0 \/ u[i].key <= kv.key
                        /\ i = Len(u) \/ kv.key <= u[i + 1].key
      upto[n \in 0 .. Len(s)] ==
        IF n = 0 THEN {<<>>}
        ELSE UNION {{SubSeq(u, 1, i) \o <<s[n]>> \o SubSeq(u, i + 1, n - 1) :
                     i \in {i \in 0 .. n - 1 : fits(u, s[n], i)}} : u \in upto[n - 1]}
  IN upto[Len(s)]

(* Fault: what is merged replaces what the name space has. *)
mergeConstData_replace(cl, kvs) ==
  qsort(SelectSeq(cl, LAMBDA e : \A i \in 1 .. Len(kvs) : kvs[i].key # e.key) \o kvs)
(* KonohaSpace_mergeConstData: what a name space has is not replaced; the   *)
(* first constants of an empty one are not checked.                         *)
mergeConstData(cl, kvs) ==
  IF kvs = <<>> THEN {cl}
  ELSE qsort(Appended(cl, kvs, {i \in 1 .. Len(kvs) : cl = <<>> \/ ~checkConflicted(cl, kvs[i])}))

(* KonohaSpace_importClassName: every class of the package, those of an     *)
(* attempt to load it that failed included.                                 *)
ClassNames(name) ==
  LET kvs == [i \in 1 .. Len(ca) |-> [key |-> ca[i].key, boxed |-> FALSE, val |-> <<"class", i>>]]
  IN IF name = PN_konoha THEN <<>>
     ELSE Appended(<<>>, kvs, {i \in 1 .. Len(ca) : ca[i].pack = Code(name)})

(* KonohaSpace_merge *)
merge(cl, name, from) ==
  UNION {mergeConstData(t, spaces[from].cl) : t \in mergeConstData(cl, ClassNames(name))}

-----------------------------------------------------------------------------
Top == stack[Len(stack)]
Below == SubSeq(stack, 1, Len(stack) - 1)
At(stage) == stack # <<>> /\ Top.at = stage
Goto(f) == stack' = Append(Below, f)

(* KonohaSpace_importPackage is called: the name gets a code (kpack). *)
Enter(name, ns, frames) ==
  /\ IF Codes(name) = {} THEN Getcode(name) ELSE UNCHANGED kmap
  /\ stack' = Append(frames, [pack |-> name, into |-> ns, own |-> 0, at |-> "find", next |-> 1])
  /\ UNCHANGED <<packageMapNO, spaces, ca>>

(* K.import in the program. *)
Import(name) ==
  /\ stack = <<>> /\ Len(spaces[1].cl) < MaxEntries
  /\ Enter(name, 1, <<>>)

(* The imports an active one makes, and the name space they merge into. *)
Steps(f) ==
  CASE f.at = "require" -> Requires[f.pack] [] f.at = "script" -> Scripts[f.pack]
    [] f.at = "export" -> Exports[f.pack] [] OTHER -> <<>>
Target(f) == CASE f.at = "require" -> 0 [] f.at = "script" -> f.own [] OTHER -> f.into
Done(stage) == At(stage) /\ Top.next > Len(Steps(Top))

(* KREQUIRE_PACKAGE, K.import in a script, KEXPORT_PACKAGE.  What they      *)
(* return is not looked at.                                                 *)
ImportNext ==
  /\ stack # <<>> /\ Top.next <= Len(Steps(Top))
  /\ Enter(Steps(Top)[Top.next], Target(Top), Append(Below, [Top EXCEPT !.next = @ + 1]))

(* The package is there: it is merged, unless it was only required. *)
MergeInto(from) ==
  IF Top.into = 0 THEN stack' = Below /\ UNCHANGED spaces
  ELSE /\ \E cl \in merge(spaces[Top.into].cl, Top.pack, from) :
            spaces' = [spaces EXCEPT ![Top.into].cl = cl]
       /\ Goto([Top EXCEPT !.at = "export", !.next = 1])

(* getPackageNULL finds it in the table. *)
Found ==
  /\ At("find") /\ Packs(Code(Top.pack)) # {}
  /\ MergeInto(Pack(Code(Top.pack)))
  /\ UNCHANGED <<kmap, packageMapNO, ca>>

(* Fault: the table is not asked. *)
Load_again ==
  /\ At("find") /\ Top.pack \in File
  /\ Len(spaces) < MaxSpaces
  /\ spaces' = Append(spaces, [pack |-> Code(Top.pack), cl |-> <<>>])
  /\ Goto([Top EXCEPT !.own = Len(spaces) + 1, !.at = "require"])
  /\ UNCHANGED <<kmap, packageMapNO, ca>>
(* loadPackageNULL opens the file and makes a name space for the package. *)
Load ==
  /\ At("find") /\ Packs(Code(Top.pack)) = {} /\ Top.pack \in File
  /\ Len(spaces) < MaxSpaces
  /\ spaces' = Append(spaces, [pack |-> Code(Top.pack), cl |-> <<>>])
  /\ Goto([Top EXCEPT !.own = Len(spaces) + 1, !.at = "require"])
  /\ UNCHANGED <<kmap, packageMapNO, ca>>

(* "package not found" raises: the script that runs now fails and with it   *)
(* the load it belongs to; without one the program's script does.           *)
NotFound ==
  /\ At("find") /\ Packs(Code(Top.pack)) = {} /\ Top.pack \notin File
  /\ \E left \in 0 .. Len(stack) - 1 :
       /\ left = 0 \/ stack[left + 1].at = "script"
       /\ \A d \in left + 2 .. Len(stack) : stack[d].at # "script"
       /\ stack' = SubSeq(stack, 1, left)
  /\ UNCHANGED <<kmap, packageMapNO, spaces, ca>>

(* initPackage defines the package's classes and loads its constants        *)
(* (KonohaSpace_loadConstData).                                             *)
initPackage ==
  /\ Done("require")
  /\ LET c == Code(Top.pack)  kvs == Consts[Top.pack]
         cts == Classes[Top.pack]
     IN /\ ca' = ca \o [i \in 1 .. Len(cts) |-> [key |-> cts[i], pack |-> c]]
        /\ \E cl \in mergeConstData(<<>>, [i \in 1 .. Len(kvs) |->
                       [key |-> kvs[i].key, boxed |-> kvs[i].boxed, val |-> <<"const", c>>]]) :
             spaces' = [spaces EXCEPT ![Top.own].cl = cl]
  /\ Goto([Top EXCEPT !.at = "script", !.next = 1])
  /\ UNCHANGED <<kmap, packageMapNO>>

(* A statement of the package's script fails. *)
ScriptFails ==
  /\ At("script") /\ Top.pack \in Broken
  /\ stack' = Below
  /\ UNCHANGED <<kmap, packageMapNO, spaces, ca>>

(* The script has run: the package is set up and entered in the table.      *)
ScriptEnds ==
  /\ Done("script")
  /\ packageMapNO' = <<[id |-> Code(Top.pack), space |-> Top.own]>> \o packageMapNO
  /\ MergeInto(Top.own)
  /\ UNCHANGED <<kmap, ca>>

ImportEnds ==
  /\ Done("export")
  /\ stack' = Below
  /\ UNCHANGED <<kmap, packageMapNO, spaces, ca>>

Next ==
  \/ \E name \in Name : Import(name)
  \/ ImportNext \/ Found \/ Load \/ NotFound \/ initPackage
  \/ ScriptFails \/ ScriptEnds \/ ImportEnds

Spec == Init /\ [][Next]_vars

-----------------------------------------------------------------------------
(* The map keeps what interning promises (Kmap_getcode, also when it grows), *)
(* and a name that is being imported has its code.                          *)
CodesKept == Promise!Spec /\ [](\A d \in 1 .. Len(stack) : stack[d].pack \in Interned)

(* However imports nest, fail and are made again, a package is entered in   *)
(* the table once.                                                          *)
LoadedOnce ==
  \A i, j \in 1 .. Len(packageMapNO) : packageMapNO[i].id = packageMapNO[j].id => i = j

Keys(kvs) == {kvs[i].key : i \in 1 .. Len(kvs)}
IsFound(ns, key) == getConst(spaces[ns].cl, key) # 0
Value(ns, key) == spaces[ns].cl[getConst(spaces[ns].cl, key)].val
Unanimous(ns, key) ==
  \A i, j \in 1 .. Len(spaces[ns].cl) :
    LET a == spaces[ns].cl[i]  b == spaces[ns].cl[j]
    IN a.key = key /\ b.key = key => a.val = b.val

(* An import is seen: once a package is merged, each name that it has, its  *)
(* classes' and those it imported itself, is found in the name space.       *)
ImportedSeen ==
  \A d \in 1 .. Len(stack) :
    stack[d].at = "export" =>
      \A key \in Keys(spaces[Pack(Code(stack[d].pack))].cl) \cup Keys(ClassNames(stack[d].pack)) :
        IsFound(stack[d].into, key)

(* A name that is found stays so, with its value, whatever is imported     *)
(* later, also when a merge enters it again (a boxed constant always): only *)
(* an entry with another value may change what is found.                    *)
NamesKept ==
  [][\A ns \in 1 .. Len(spaces) : \A key \in Keys(spaces[ns].cl) :
       IsFound(ns, key)' /\ (Unanimous(ns, key)' => Value(ns, key)' = Value(ns, key))]_vars

IsRetried(c) == Cardinality({s \in 1 .. Len(spaces) : spaces[s].pack = c}) > 1

(* A name gets a second entry only when it is boxed, a class of a package   *)
(* that was loaded again after its script failed, or a constant that the    *)
(* table of one package has twice.                                          *)
TwiceOnlyReloaded ==
  \A ns \in 1 .. Len(spaces) : \A i, j \in 1 .. Len(spaces[ns].cl) :
    LET a == spaces[ns].cl[i]  b == spaces[ns].cl[j]
    IN i < j /\ a.key = b.key =>
         \/ a.boxed \/ b.boxed
         \/ a.val[1] = "const" /\ a.val = b.val
         \/ /\ a.val[1] = "class" /\ b.val[1] = "class"
            /\ ca[a.val[2]].pack = ca[b.val[2]].pack /\ IsRetried(ca[a.val[2]].pack)
=============================================================================
