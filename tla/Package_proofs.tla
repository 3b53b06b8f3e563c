---------------------------- MODULE Package_proofs ----------------------------
(* A package is loaded once, whatever the packages import, as long as none   *)
(* of them imports itself; the names of the packages keep their codes.       *)
EXTENDS Package, KMap_proofs

-----------------------------------------------------------------------------
(* Codes stay and are different. *)
CodesInv ==
  /\ IsFiniteSet(Interned)
  /\ \A n \in Interned : Code(n) \in Nat /\ Code(n) < Cardinality(Interned)
  /\ \A n, m \in Interned : Code(n) = Code(m) => n = m

CodesGrow ==
  /\ Interned \subseteq Interned'
  /\ \A n \in Interned : Code(n)' = Code(n)

LEMMA CodesKnown == MapInv => CodesInv
<1> SUFFICES ASSUME MapInv PROVE CodesInv
  OBVIOUS
<1>1. /\ Len(list) \in Nat /\ IsFiniteSet(Interned) /\ Cardinality(Interned) = Len(list)
      /\ Interned = {list[i] : i \in 1 .. Len(list)}
      /\ \A n : \A i \in 1 .. Len(list) : list[i] = n => Codes(n) = {i - 1}
  BY InternedAre DEF Placed
<1>2. ASSUME NEW n \in Interned
      PROVE  \E i \in 1 .. Len(list) : list[i] = n /\ Code(n) = i - 1
  <2>1. PICK i \in 1 .. Len(list) : list[i] = n
    BY <1>1
  <2>2. Codes(n) = {i - 1}
    BY <1>1, <2>1
  <2>3. Code(n) = i - 1
    BY <2>2 DEF Code
  <2>4. QED
    BY <2>1, <2>3
<1>3. ASSUME NEW n \in Interned PROVE Code(n) \in Nat /\ Code(n) < Cardinality(Interned)
  <2>1. PICK i \in 1 .. Len(list) : Code(n) = i - 1
    BY <1>2
  <2>2. Len(list) \in Nat /\ Cardinality(Interned) = Len(list)
    BY <1>1
  <2>3. QED
    BY <2>1, <2>2
<1>4. ASSUME NEW n \in Interned, NEW m \in Interned, Code(n) = Code(m) PROVE n = m
  <2>1. PICK i \in 1 .. Len(list) : list[i] = n /\ Code(n) = i - 1
    BY <1>2
  <2>2. PICK j \in 1 .. Len(list) : list[j] = m /\ Code(m) = j - 1
    BY <1>2
  <2>3. i - 1 = j - 1
    BY <1>4, <2>1, <2>2
  <2>4. i = j
    BY <2>3
  <2>5. QED
    BY <2>1, <2>2, <2>4
<1>5. QED
  BY <1>1, <1>3, <1>4 DEF CodesInv

LEMMA CodesKnownNext == MapInv' => CodesInv'
BY CodesKnown, PTL

LEMMA CodesStep ==
  ASSUME MapInv, Interning
  PROVE  MapInv' /\ CodesInv' /\ CodesGrow
<1>1. MapInv' /\ CodesInv'
  BY MapStep, CodesKnownNext
<1>2. Interned \subseteq Interned' /\ \A n \in Interned : Codes(n)' = Codes(n)
  BY NewCode, UnchangedCodes DEF Interning
<1>3. QED
  BY <1>1, <1>2 DEF CodesGrow, Code

-----------------------------------------------------------------------------
(* The active imports. *)
Frame == [pack : Name, into : Nat, own : Nat, next : Nat \ {0},
          at : {"find", "require", "script", "export"}]
Loading == {"require", "script"}

Asked == \A d \in 1 .. Len(stack) : stack[d].pack \in Interned

(* A frame above another one is a package that the one below imports, and    *)
(* what is being loaded is not in the table.                                 *)
StackOK(s) ==
  /\ s \in Seq(Frame)
  /\ \A d \in 1 .. Len(s) : /\ s[d].at # "find" => s[d].pack \in File
                            /\ s[d].at \in Loading => Packs(Code(s[d].pack)) = {}
  /\ \A d \in 1 .. Len(s) - 1 : s[d].at # "find" /\ s[d + 1].pack \in Uses(s[d].pack)

LEMMA PrefixProperties ==
  ASSUME NEW S, NEW q \in Seq(S), NEW n \in 0 .. Len(q)
  PROVE  LET p == SubSeq(q, 1, n)
         IN p \in Seq(S) /\ Len(p) = n /\ \A i \in 1 .. n : p[i] = q[i]
<1> DEFINE p == SubSeq(q, 1, n)
<1>1. /\ n \in Nat /\ 1 \in Int /\ n \in Int
      /\ \A i \in 1 .. n : q[i] \in S
  OBVIOUS
<1>2. /\ p \in Seq(S)
      /\ Len(p) = IF 1 <= n THEN n - 1 + 1 ELSE 0
      /\ \A i \in 1 .. n - 1 + 1 : p[i] = q[1 + i - 1]
  BY <1>1, SubSeqProperties
<1> HIDE DEF p
<1>3. QED
  BY <1>1, <1>2 DEF p

LEMMA PrefixOK ==
  ASSUME NEW s, StackOK(s), NEW n \in 0 .. Len(s)
  PROVE  StackOK(SubSeq(s, 1, n))
<1> DEFINE p == SubSeq(s, 1, n)
<1>1. p \in Seq(Frame) /\ Len(p) = n /\ \A i \in 1 .. n : p[i] = s[i]
  BY PrefixProperties DEF StackOK
<1>2. Len(s) \in Nat
  BY DEF StackOK
<1> HIDE DEF p
<1>3. QED
  <2>1. \A d \in 1 .. n : d \in 1 .. Len(s)
    BY <1>2
  <2>2. \A d \in 1 .. n - 1 : d \in 1 .. Len(s) - 1 /\ d \in 1 .. n /\ d + 1 \in 1 .. n
    BY <1>2
  <2>3. \A d \in 1 .. n : /\ p[d].at # "find" => p[d].pack \in File
                          /\ p[d].at \in Loading => Packs(Code(p[d].pack)) = {}
    BY <1>1, <2>1 DEF StackOK
  <2>4. \A d \in 1 .. n - 1 : p[d].at # "find" /\ p[d + 1].pack \in Uses(p[d].pack)
    BY <1>1, <2>2 DEF StackOK
  <2>5. StackOK(p)
    BY <1>1, <2>3, <2>4 DEF StackOK
  <2>6. QED
    BY <2>5 DEF p

LEMMA PushOK ==
  ASSUME NEW s, StackOK(s), NEW f \in Frame,
         s # <<>> => s[Len(s)].at # "find" /\ f.pack \in Uses(s[Len(s)].pack),
         f.at # "find" => f.pack \in File,
         f.at \in Loading => Packs(Code(f.pack)) = {}
  PROVE  StackOK(Append(s, f))
<1> DEFINE t == Append(s, f)
<1>1. /\ t \in Seq(Frame) /\ Len(t) = Len(s) + 1 /\ Len(s) \in Nat /\ t[Len(s) + 1] = f
      /\ \A i \in 1 .. Len(s) : t[i] = s[i]
  BY DEF StackOK
<1>2. Len(s) # 0 => s # <<>>
  OBVIOUS
<1> HIDE DEF t
<1>3. \A d \in 1 .. Len(t) : d = Len(s) + 1 \/ (d \in 1 .. Len(s) /\ t[d] = s[d])
  BY <1>1
<1>4. \A d \in 1 .. Len(t) : /\ t[d].at # "find" => t[d].pack \in File
                             /\ t[d].at \in Loading => Packs(Code(t[d].pack)) = {}
  BY <1>1, <1>3 DEF StackOK
<1>5. \A d \in 1 .. Len(t) - 1 : t[d].at # "find" /\ t[d + 1].pack \in Uses(t[d].pack)
  <2> TAKE d \in 1 .. Len(t) - 1
  <2>1. d \in 1 .. Len(s) /\ t[d] = s[d]
    BY <1>1
  <2>2. CASE d = Len(s)
    BY <1>1, <1>2, <2>1, <2>2
  <2>3. CASE d # Len(s)
    <3>1. d \in 1 .. Len(s) - 1 /\ t[d + 1] = s[d + 1]
      BY <1>1, <2>1, <2>3
    <3>2. QED
      BY <2>1, <3>1 DEF StackOK
  <2>4. QED
    BY <2>2, <2>3
<1>6. QED
  <2>1. StackOK(t)
    BY <1>1, <1>4, <1>5 DEF StackOK
  <2>2. QED
    BY <2>1 DEF t

LEMMA GotoOK ==
  ASSUME NEW s, StackOK(s), s # <<>>, NEW f \in Frame, f.pack = s[Len(s)].pack,
         f.at # "find" => f.pack \in File,
         f.at \in Loading => Packs(Code(f.pack)) = {}
  PROVE  StackOK(Append(SubSeq(s, 1, Len(s) - 1), f))
<1> DEFINE p == SubSeq(s, 1, Len(s) - 1)
<1>1. Len(s) - 1 \in 0 .. Len(s) /\ Len(s) \in Nat
  BY DEF StackOK
<1>2. StackOK(p)
  BY <1>1, PrefixOK
<1>3. Len(p) = Len(s) - 1 /\ \A i \in 1 .. Len(s) - 1 : p[i] = s[i]
  BY <1>1, PrefixProperties DEF StackOK
<1>4. p # <<>> => p[Len(p)].at # "find" /\ f.pack \in Uses(p[Len(p)].pack)
  <2> SUFFICES ASSUME p # <<>> PROVE p[Len(p)].at # "find" /\ f.pack \in Uses(p[Len(p)].pack)
    OBVIOUS
  <2>1. Len(p) \in 1 .. Len(s) - 1
    <3>1. p \in Seq(Frame)
      BY <1>2 DEF StackOK
    <3>2. Len(p) # 0
      <4> HIDE DEF p
      <4>1. QED
        BY <3>1
    <3>3. QED
      BY <1>1, <1>3, <3>2
  <2> HIDE DEF p
  <2>2. p[Len(p)] = s[Len(s) - 1]
    BY <2>1, <1>3
  <2>3. s[Len(s) - 1].at # "find" /\ s[Len(s) - 1 + 1].pack \in Uses(s[Len(s) - 1].pack)
    BY <1>1, <1>3, <2>1 DEF StackOK
  <2>4. QED
    BY <1>1, <2>2, <2>3
<1> HIDE DEF p
<1>5. StackOK(Append(p, f))
  BY <1>2, <1>4, PushOK
<1>6. QED
  BY <1>5 DEF p

(* No package is imported by one that it imports. *)
LEMMA Distinct ==
  ASSUME NEW s, StackOK(s), NEW i \in 1 .. Len(s), NEW j \in 1 .. Len(s), i < j
  PROVE  s[i].pack # s[j].pack
<1> SUFFICES ASSUME s[i].pack = s[j].pack PROVE FALSE
  OBVIOUS
<1> DEFINE circle == {s[k].pack : k \in i .. j - 1}
<1>1. Len(s) \in Nat /\ i \in Int /\ j \in Int /\ i .. j - 1 \subseteq 1 .. Len(s) - 1
  BY DEF StackOK
<1>2. \A k \in i .. j - 1 : s[k].pack \in File /\ s[k + 1].pack \in Uses(s[k].pack)
  <2>1. \A d \in 1 .. Len(s) - 1 : d \in 1 .. Len(s)
    BY <1>1
  <2>2. QED
    BY <1>1, <2>1 DEF StackOK
<1>3. circle \in SUBSET File /\ s[i].pack \in circle
  BY <1>1, <1>2
<1>4. PICK f \in circle : Uses(f) \cap circle = {}
  BY <1>3, AcyclicAssumption
<1>5. PICK k \in i .. j - 1 : f = s[k].pack
  BY <1>4
<1>6. s[k + 1].pack \in circle
  BY <1>1, <1>3, <1>5
<1>7. QED
  BY <1>2, <1>4, <1>5, <1>6

LEMMA AskedKept ==
  ASSUME CodesGrow, NEW t, stack' = t, \A d \in 1 .. Len(t) : t[d].pack \in Interned \cup Interned'
  PROVE  Asked'
BY DEF CodesGrow, Asked

(* As long as the table is left alone, codes that grow change nothing. *)
LEMMA KeptOK ==
  ASSUME NEW t, StackOK(t), CodesGrow, packageMapNO' = packageMapNO, stack' = t,
         \A d \in 1 .. Len(t) : t[d].at \in Loading => t[d].pack \in Interned
  PROVE  StackOK(stack)'
<1>1. \A d \in 1 .. Len(t) : t[d].at \in Loading => Code(t[d].pack)' = Code(t[d].pack)
  BY DEF CodesGrow
<1>2. \A c : Packs(c)' = Packs(c)
  BY DEF Packs
<1>3. QED
  BY <1>1, <1>2 DEF StackOK

-----------------------------------------------------------------------------
SpacesOK == \E S : spaces \in Seq(S)
TableOK ==
  /\ packageMapNO \in Seq([id : Nat, space : Nat])
  /\ \A i \in 1 .. Len(packageMapNO) : \E f \in File \cap Interned : Code(f) = packageMapNO[i].id
OnceInv == CodesInv /\ SpacesOK /\ StackOK(stack) /\ TableOK /\ LoadedOnce

LEMMA TopOK ==
  ASSUME OnceInv, Asked, stack # <<>>
  PROVE  /\ Len(stack) \in Nat \ {0} /\ Top \in Frame /\ Top.pack \in Interned
         /\ Top.at # "find" => Top.pack \in File
         /\ Top.at \in Loading => Packs(Code(Top.pack)) = {}
         /\ \A d \in 1 .. Len(stack) : stack[d].pack \in Interned
         /\ StackOK(Below) /\ Len(Below) = Len(stack) - 1
         /\ \A d \in 1 .. Len(Below) : Below[d] = stack[d]
<1>1. stack \in Seq(Frame) /\ StackOK(stack)
  BY DEF OnceInv, StackOK
<1>2. Len(stack) \in Nat \ {0} /\ Len(stack) \in 1 .. Len(stack) /\ Len(stack) - 1 \in 0 .. Len(stack)
  BY <1>1
<1>3. StackOK(Below) /\ Len(Below) = Len(stack) - 1 /\ \A d \in 1 .. Len(Below) : Below[d] = stack[d]
  BY <1>1, <1>2, PrefixOK, PrefixProperties DEF Below
<1>4. Top \in Frame /\ Top = stack[Len(stack)]
  BY <1>1, <1>2 DEF Top
<1>5. Top.pack \in Interned /\ \A d \in 1 .. Len(stack) : stack[d].pack \in Interned
  BY <1>2, <1>4 DEF Asked
<1>6. /\ Top.at # "find" => Top.pack \in File
      /\ Top.at \in Loading => Packs(Code(Top.pack)) = {}
  BY <1>1, <1>2, <1>4 DEF StackOK
<1>7. QED
  BY <1>2, <1>3, <1>4, <1>5, <1>6

LEMMA TableKept ==
  ASSUME TableOK, LoadedOnce, CodesGrow, packageMapNO' = packageMapNO
  PROVE  TableOK' /\ LoadedOnce'
BY DEF TableOK, LoadedOnce, CodesGrow

(* What a frame that follows the innermost one needs. *)
LEMMA GotoKept ==
  ASSUME OnceInv, Asked, stack # <<>>, CodesGrow, packageMapNO' = packageMapNO,
         NEW f \in Frame, f.pack = Top.pack, Goto(f),
         f.at # "find" => f.pack \in File,
         f.at \in Loading => Packs(Code(f.pack)) = {}
  PROVE  StackOK(stack)' /\ Asked'
<1> DEFINE t == Append(SubSeq(stack, 1, Len(stack) - 1), f)
<1>1. StackOK(stack)
  BY DEF OnceInv
<1>2. StackOK(t)
  BY <1>1, GotoOK DEF Top
<1>3. \A d \in 1 .. Len(t) : t[d].pack \in Interned
  <2>1. /\ t \in Seq(Frame) /\ Len(t) = Len(stack) /\ t[Len(stack)] = f
        /\ \A d \in 1 .. Len(stack) - 1 : t[d] = stack[d]
    <3>1. /\ Below \in Seq(Frame) /\ Len(Below) = Len(stack) - 1 /\ Len(stack) \in Nat \ {0}
          /\ \A d \in 1 .. Len(Below) : Below[d] = stack[d]
      BY TopOK DEF StackOK
    <3>2. t = Append(Below, f)
      BY DEF Below
    <3> HIDE DEF t
    <3>3. QED
      BY <3>1, <3>2
  <2>2. Top.pack \in Interned /\ Len(stack) \in Nat /\ \A d \in 1 .. Len(stack) : stack[d].pack \in Interned
    BY TopOK
  <2> HIDE DEF t
  <2>3. QED
    BY <2>1, <2>2
<1>4. stack' = t
  BY DEF Goto, Below
<1> HIDE DEF t
<1>5. QED
  BY <1>2, <1>3, <1>4, KeptOK, AskedKept

LEMMA PrefixKept ==
  ASSUME OnceInv, Asked, CodesGrow, packageMapNO' = packageMapNO,
         NEW n \in 0 .. Len(stack), stack' = SubSeq(stack, 1, n)
  PROVE  StackOK(stack)' /\ Asked'
<1> DEFINE t == SubSeq(stack, 1, n)
<1>1. StackOK(stack) /\ stack \in Seq(Frame)
  BY DEF OnceInv, StackOK
<1>2. StackOK(t) /\ Len(t) = n /\ \A d \in 1 .. n : t[d] = stack[d]
  BY <1>1, PrefixOK, PrefixProperties
<1>3. Len(stack) \in Nat
  BY <1>1
<1> HIDE DEF t
<1>4. \A d \in 1 .. Len(t) : t[d].pack \in Interned
  <2>1. \A d \in 1 .. n : d \in 1 .. Len(stack)
    BY <1>3
  <2>2. QED
    BY <1>2, <2>1 DEF Asked
<1>5. stack' = t
  BY DEF t
<1>6. QED
  BY <1>2, <1>4, <1>5, KeptOK, AskedKept

(* A new import above s. *)
LEMMA EnterKept ==
  ASSUME NEW s, StackOK(s), \A d \in 1 .. Len(s) : s[d].pack \in Interned,
         CodesGrow, NEW name \in Name, NEW ns \in Nat, Enter(name, ns, s), name \in Interned',
         s # <<>> => s[Len(s)].at # "find" /\ name \in Uses(s[Len(s)].pack)
  PROVE  StackOK(stack)' /\ Asked'
<1> DEFINE f == [pack |-> name, into |-> ns, own |-> 0, at |-> "find", next |-> 1]
<1>1. f \in Frame /\ f.at = "find" /\ f.pack = name
  BY DEF Frame
<1>2. stack' = Append(s, f) /\ packageMapNO' = packageMapNO
  BY DEF Enter
<1> HIDE DEF f
<1>3. StackOK(Append(s, f))
  BY <1>1, PushOK DEF Loading
<1> DEFINE t == Append(s, f)
<1>4. \A d \in 1 .. Len(t) : /\ t[d].at \in Loading => t[d].pack \in Interned
                            /\ t[d].pack \in Interned \cup Interned'
  <2>1. /\ s \in Seq(Frame) /\ Len(t) = Len(s) + 1 /\ Len(s) \in Nat /\ t[Len(s) + 1] = f
        /\ \A d \in 1 .. Len(s) : t[d] = s[d]
    BY <1>1 DEF StackOK
  <2> HIDE DEF t
  <2>2. QED
    BY <2>1, <1>1 DEF Loading
<1> HIDE DEF t
<1>5. stack' = t /\ StackOK(t)
  BY <1>2, <1>3 DEF t
<1>6. QED
  BY <1>2, <1>4, <1>5, KeptOK, AskedKept

(* The name of an import gets a code, unless it has one. *)
LEMMA EnterCodes ==
  ASSUME MapInv, NEW name \in Name, NEW ns, NEW s, Enter(name, ns, s)
  PROVE  Interning /\ name \in Interned'
<1>1. CASE Codes(name) = {}
  BY <1>1, NewCode DEF Enter, Interning
<1>2. CASE Codes(name) # {}
  <2>1. UNCHANGED kmap /\ name \in Interned
    BY <1>2 DEF Enter, Interned
  <2>2. QED
    BY <2>1, UnchangedCodes DEF Interning
<1>3. QED
  BY <1>1, <1>2

LEMMA StepsUsed ==
  ASSUME OnceInv, Asked, stack # <<>>, Top.next <= Len(Steps(Top))
  PROVE  /\ Top.at # "find"
         /\ Steps(Top)[Top.next] \in Uses(Top.pack) \cap Name
         /\ Target(Top) \in Nat
<1>1. Top \in Frame /\ (Top.at # "find" => Top.pack \in File)
  BY TopOK
<1>2. Top.next \in Nat \ {0} /\ Top.own \in Nat /\ Top.into \in Nat
  BY <1>1 DEF Frame
<1>3. Top.at \in {"require", "script", "export"}
  <2>1. SUFFICES ASSUME Top.at = "find" PROVE FALSE
    BY <1>1 DEF Frame
  <2>2. Steps(Top) = <<>>
    BY <2>1 DEF Steps
  <2>3. QED
    BY <1>2, <2>2
<1>4. Target(Top) \in Nat
  BY <1>2, <1>3 DEF Target
<1>5. /\ Top.pack \in File
      /\ Requires[Top.pack] \in Seq(Name) /\ Scripts[Top.pack] \in Seq(Name)
      /\ Exports[Top.pack] \in Seq(Name)
  BY <1>1, <1>3, PackageAssumption
<1>6. Steps(Top) \in {Requires[Top.pack], Scripts[Top.pack], Exports[Top.pack]}
  BY <1>3 DEF Steps
<1>7. Steps(Top) \in Seq(Name) /\ Elements(Steps(Top)) \subseteq Uses(Top.pack)
  BY <1>5, <1>6 DEF Uses
<1>8. Top.next \in 1 .. Len(Steps(Top))
  BY <1>2, <1>7
<1> HIDE DEF Steps
<1>9. Steps(Top)[Top.next] \in Elements(Steps(Top)) /\ Steps(Top)[Top.next] \in Name
  BY <1>7, <1>8 DEF Elements
<1>10. QED
  BY <1>3, <1>4, <1>7, <1>9

(* What a changed frame is. *)
LEMMA FrameFields ==
  ASSUME NEW f \in Frame, NEW a \in {"require", "script", "export"}, NEW o \in Nat
  PROVE  /\ LET g == [f EXCEPT !.next = @ + 1]
            IN g \in Frame /\ g.pack = f.pack /\ g.at = f.at /\ g.into = f.into /\ g.own = f.own
         /\ LET g == [f EXCEPT !.at = a, !.next = 1]
            IN g \in Frame /\ g.pack = f.pack /\ g.at = a /\ g.into = f.into /\ g.own = f.own
         /\ LET g == [f EXCEPT !.own = o, !.at = a]
            IN g \in Frame /\ g.pack = f.pack /\ g.at = a /\ g.into = f.into /\ g.own = o
<1>1. /\ f.next + 1 \in Nat \ {0} /\ 1 \in Nat \ {0}
      /\ a \in {"find", "require", "script", "export"}
  BY DEF Frame
<1>2. \A n \in Nat \ {0} :
        LET g == [f EXCEPT !.next = n]
        IN g \in Frame /\ g.pack = f.pack /\ g.at = f.at /\ g.into = f.into /\ g.own = f.own
  BY DEF Frame
<1>3. LET g == [f EXCEPT !.at = a, !.next = 1]
      IN g \in Frame /\ g.pack = f.pack /\ g.at = a /\ g.into = f.into /\ g.own = f.own
  BY <1>1 DEF Frame
<1>4. LET g == [f EXCEPT !.own = o, !.at = a]
      IN g \in Frame /\ g.pack = f.pack /\ g.at = a /\ g.into = f.into /\ g.own = o
  BY <1>1 DEF Frame
<1>5. QED
  BY <1>1, <1>2, <1>3, <1>4

LEMMA SpacesKept ==
  ASSUME SpacesOK, NEW k, NEW cl, spaces' = [spaces EXCEPT ![k].cl = cl]
  PROVE  SpacesOK'
<1>1. PICK S : spaces \in Seq(S)
  BY DEF SpacesOK
<1> DEFINE T == S \cup {[spaces[k] EXCEPT !.cl = cl]}
<1>2. spaces' \in Seq(T)
  <2>1. spaces \in [1 .. Len(spaces) -> S] /\ Len(spaces) \in Nat
    BY <1>1
  <2>2. spaces' \in [1 .. Len(spaces) -> T]
    BY <2>1
  <2> HIDE DEF T
  <2>3. spaces' \in UNION {[1 .. n -> T] : n \in Nat}
    BY <2>1, <2>2
  <2>4. QED
    BY <2>3, SeqDef
<1>3. QED
  BY <1>2 DEF SpacesOK

(* KonohaSpace_importPackage after the package was found or loaded. *)
LEMMA MergeKept ==
  ASSUME OnceInv, Asked, stack # <<>>, CodesGrow, NEW from, MergeInto(from), Top.pack \in File
  PROVE  /\ SpacesOK'
         /\ \/ stack' = Below
            \/ Goto([Top EXCEPT !.at = "export", !.next = 1])
<1>1. CASE Top.into = 0
  BY <1>1 DEF MergeInto, OnceInv, SpacesOK
<1>2. CASE Top.into # 0
  <2>1. /\ \E cl : spaces' = [spaces EXCEPT ![Top.into].cl = cl]
        /\ Goto([Top EXCEPT !.at = "export", !.next = 1])
    BY <1>2 DEF MergeInto
  <2>2. QED
    BY <2>1, SpacesKept DEF OnceInv
<1>3. QED
  BY <1>1, <1>2

-----------------------------------------------------------------------------
LEMMA ImportStep ==
  ASSUME MapInv, OnceInv, Asked, CodesGrow,
         (\E name \in Name : Import(name)) \/ ImportNext
  PROVE  StackOK(stack)' /\ Asked' /\ SpacesOK' /\ packageMapNO' = packageMapNO
<1>1. CASE \E name \in Name : Import(name)
  <2>1. PICK name \in Name : Import(name)
    BY <1>1
  <2>2. Enter(name, 1, <<>>)
    BY <2>1 DEF Import
  <2>3. StackOK(<<>>)
    BY DEF StackOK
  <2>4. StackOK(stack)' /\ Asked'
    BY <2>2, <2>3, EnterKept, EnterCodes
  <2>5. QED
    BY <2>2, <2>4 DEF Enter, OnceInv, SpacesOK
<1>2. CASE ImportNext
  <2> DEFINE name == Steps(Top)[Top.next]
             f == [Top EXCEPT !.next = @ + 1]
             t == Append(Below, f)
  <2>1. stack # <<>> /\ Top.next <= Len(Steps(Top)) /\ Enter(name, Target(Top), t)
    BY <1>2 DEF ImportNext
  <2>2. Top.at # "find" /\ name \in Uses(Top.pack) \cap Name /\ Target(Top) \in Nat
    BY <2>1, StepsUsed
  <2>3. Top \in Frame /\ f \in Frame /\ f.pack = Top.pack /\ f.at = Top.at
    BY <2>1, TopOK, FrameFields
  <2>4. /\ Len(stack) \in Nat \ {0} /\ Below \in Seq(Frame) /\ Len(Below) = Len(stack) - 1
        /\ \A d \in 1 .. Len(Below) : Below[d].pack \in Interned
        /\ Top.pack \in Interned
        /\ Top.at # "find" => Top.pack \in File
        /\ Top.at \in Loading => Packs(Code(Top.pack)) = {}
    <3>1. /\ Len(stack) \in Nat \ {0} /\ StackOK(Below) /\ Len(Below) = Len(stack) - 1
          /\ \A d \in 1 .. Len(Below) : Below[d] = stack[d]
          /\ \A d \in 1 .. Len(stack) : stack[d].pack \in Interned
          /\ Top.pack \in Interned
          /\ Top.at # "find" => Top.pack \in File
          /\ Top.at \in Loading => Packs(Code(Top.pack)) = {}
      BY <2>1, TopOK
    <3>2. QED
      BY <3>1 DEF StackOK
  <2>5. StackOK(t)
    BY <2>1, <2>3, <2>4, GotoOK DEF Below, Top, OnceInv
  <2> HIDE DEF name, f
  <2>6. /\ Len(t) = Len(stack) /\ t[Len(t)] = f /\ t # <<>>
        /\ \A d \in 1 .. Len(t) : t[d].pack \in Interned
    BY <2>3, <2>4
  <2> HIDE DEF t
  <2>7. StackOK(stack)' /\ Asked'
    BY <2>1, <2>2, <2>3, <2>5, <2>6, EnterKept, EnterCodes
  <2>8. QED
    BY <2>1, <2>7 DEF Enter, OnceInv, SpacesOK
<1>3. QED
  BY <1>1, <1>2

LEMMA FoundStep ==
  ASSUME OnceInv, Asked, CodesGrow, Found
  PROVE  StackOK(stack)' /\ Asked' /\ SpacesOK' /\ packageMapNO' = packageMapNO
<1> DEFINE f == [Top EXCEPT !.at = "export", !.next = 1]
<1>1. /\ stack # <<>> /\ Packs(Code(Top.pack)) # {} /\ packageMapNO' = packageMapNO
      /\ \E from : MergeInto(from)
  BY DEF Found, At
<1>2. Top \in Frame /\ Top.pack \in Interned /\ Len(stack) - 1 \in 0 .. Len(stack)
  BY <1>1, TopOK
<1>3. Top.pack \in File
  <2>1. PICK i \in 1 .. Len(packageMapNO) : packageMapNO[i].id = Code(Top.pack)
    BY <1>1 DEF Packs
  <2>2. PICK g \in File \cap Interned : Code(g) = packageMapNO[i].id
    BY <2>1 DEF OnceInv, TableOK
  <2>3. QED
    BY <1>2, <2>1, <2>2 DEF OnceInv, CodesInv
<1>4. SpacesOK' /\ (stack' = Below \/ Goto(f))
  BY <1>1, <1>3, MergeKept
<1>5. f \in Frame /\ f.pack = Top.pack /\ f.at = "export"
  BY <1>2, FrameFields
<1> HIDE DEF f
<1>6. CASE stack' = Below
  BY <1>1, <1>2, <1>4, <1>6, PrefixKept DEF Below
<1>7. CASE Goto(f)
  BY <1>1, <1>3, <1>4, <1>5, <1>7, GotoKept DEF Loading
<1>8. QED
  BY <1>4, <1>6, <1>7

LEMMA LoadStep ==
  ASSUME OnceInv, Asked, CodesGrow, Load
  PROVE  StackOK(stack)' /\ Asked' /\ SpacesOK' /\ packageMapNO' = packageMapNO
<1> DEFINE f == [Top EXCEPT !.own = Len(spaces) + 1, !.at = "require"]
<1>1. /\ stack # <<>> /\ Packs(Code(Top.pack)) = {} /\ Top.pack \in File
      /\ spaces' = Append(spaces, [pack |-> Code(Top.pack), cl |-> <<>>])
      /\ Goto(f) /\ packageMapNO' = packageMapNO
  BY DEF Load, At
<1>2. PICK S : spaces \in Seq(S)
  BY DEF OnceInv, SpacesOK
<1>3. f \in Frame /\ f.pack = Top.pack /\ f.at = "require"
  <2>1. Top \in Frame /\ Len(spaces) + 1 \in Nat
    BY <1>1, <1>2, TopOK
  <2>2. PICK t \in Frame, o \in Nat : t = Top /\ o = Len(spaces) + 1
    BY <2>1
  <2>3. LET g == [t EXCEPT !.own = o, !.at = "require"]
        IN g \in Frame /\ g.pack = t.pack /\ g.at = "require"
    BY DEF Frame
  <2>4. QED
    BY <2>2, <2>3
<1>4. SpacesOK'
  <2>1. spaces' \in Seq(S \cup {[pack |-> Code(Top.pack), cl |-> <<>>]})
    BY <1>1, <1>2
  <2>2. QED
    BY <2>1 DEF SpacesOK
<1> HIDE DEF f
<1>5. QED
  BY <1>1, <1>3, <1>4, GotoKept

(* A raise, a script that fails and the end of an import drop frames. *)
LEMMA DropStep ==
  ASSUME OnceInv, Asked, CodesGrow, NotFound \/ ScriptFails \/ ImportEnds
  PROVE  StackOK(stack)' /\ Asked' /\ SpacesOK' /\ packageMapNO' = packageMapNO
<1>1. Len(stack) \in Nat \ {0}
  BY TopOK DEF NotFound, ScriptFails, ImportEnds, Done, At
<1>2. PICK n \in 0 .. Len(stack) : stack' = SubSeq(stack, 1, n)
  <2>1. CASE NotFound
    BY <1>1, <2>1 DEF NotFound
  <2>2. CASE ScriptFails \/ ImportEnds
    BY <1>1, <2>2 DEF ScriptFails, ImportEnds, Below
  <2>3. QED
    BY <2>1, <2>2
<1>3. packageMapNO' = packageMapNO /\ spaces' = spaces
  BY DEF NotFound, ScriptFails, ImportEnds
<1>4. StackOK(stack)' /\ Asked'
  BY <1>2, <1>3, PrefixKept
<1>5. QED
  BY <1>3, <1>4 DEF OnceInv, SpacesOK

LEMMA InitPackageStep ==
  ASSUME OnceInv, Asked, CodesGrow, initPackage
  PROVE  StackOK(stack)' /\ Asked' /\ SpacesOK' /\ packageMapNO' = packageMapNO
<1> DEFINE f == [Top EXCEPT !.at = "script", !.next = 1]
<1>1. /\ stack # <<>> /\ Top.at = "require" /\ Goto(f) /\ packageMapNO' = packageMapNO
      /\ \E cl : spaces' = [spaces EXCEPT ![Top.own].cl = cl]
  BY DEF initPackage, Done, At
<1>2. Top \in Frame /\ Top.pack \in File /\ Packs(Code(Top.pack)) = {}
  BY <1>1, TopOK DEF Loading
<1>3. f \in Frame /\ f.pack = Top.pack
  BY <1>2, FrameFields
<1>4. SpacesOK'
  BY <1>1, SpacesKept DEF OnceInv
<1> HIDE DEF f
<1>5. QED
  BY <1>1, <1>2, <1>3, <1>4, GotoKept

(* A package is entered in the table: the others keep their entries.         *)
LEMMA Entered ==
  ASSUME NEW S, NEW p \in Seq(S), NEW e \in S
  PROVE  LET t == <<e>> \o p
         IN /\ t \in Seq(S) /\ Len(t) = Len(p) + 1
            /\ \A i \in 1 .. Len(t) : \/ i = 1 /\ t[i] = e
                                      \/ i - 1 \in 1 .. Len(p) /\ t[i] = p[i - 1]
<1> DEFINE t == <<e>> \o p
<1>1. /\ t \in Seq(S) /\ Len(t) = Len(p) + 1 /\ Len(p) \in Nat /\ t[1] = e
      /\ \A j \in 1 .. Len(p) : t[j + 1] = p[j]
  OBVIOUS
<1> HIDE DEF t
<1>2. ASSUME NEW i \in 1 .. Len(t), i # 1
      PROVE  i - 1 \in 1 .. Len(p) /\ t[i] = p[i - 1]
  <2>1. i - 1 \in 1 .. Len(p) /\ i - 1 + 1 = i
    BY <1>1, <1>2
  <2>2. t[i - 1 + 1] = p[i - 1]
    BY <1>1, <2>1
  <2>3. QED
    BY <2>1, <2>2
<1>3. QED
  BY <1>1, <1>2 DEF t

LEMMA EnteredOK ==
  ASSUME NEW u, StackOK(u), CodesInv, CodesGrow, stack' = u, NEW n \in Interned,
         \A d \in 1 .. Len(u) : u[d].at \in Loading => u[d].pack \in Interned \ {n},
         \A c : c # Code(n) /\ Packs(c) = {} => Packs(c)' = {}
  PROVE  StackOK(stack)'
<1>1. ASSUME NEW d \in 1 .. Len(u), u[d].at \in Loading
      PROVE  Packs(Code(u[d].pack))' = {}
  <2>1. Code(u[d].pack)' = Code(u[d].pack) /\ Code(u[d].pack) # Code(n)
    BY <1>1 DEF CodesGrow, CodesInv
  <2>2. Packs(Code(u[d].pack)) = {}
    BY <1>1 DEF StackOK
  <2>3. QED
    BY <2>1, <2>2
<1>2. QED
  BY <1>1 DEF StackOK

(* A script ends: no other frame loads the package that is entered.          *)
LEMMA ScriptEndsStep ==
  ASSUME OnceInv, Asked, CodesGrow, ScriptEnds
  PROVE  StackOK(stack)' /\ Asked' /\ SpacesOK' /\ TableOK' /\ LoadedOnce'
<1> DEFINE c == Code(Top.pack)
           e == [id |-> c, space |-> Top.own]
           f == [Top EXCEPT !.at = "export", !.next = 1]
           p == packageMapNO
<1>1. /\ stack # <<>> /\ Top.at = "script" /\ packageMapNO' = <<e>> \o p
      /\ \E from : MergeInto(from)
  BY DEF ScriptEnds, Done, At
<1>2. /\ Top \in Frame /\ Top.pack \in File \cap Interned /\ Packs(c) = {}
      /\ Len(stack) \in Nat \ {0} /\ StackOK(stack)
      /\ \A d \in 1 .. Len(stack) : stack[d].pack \in Interned
  BY <1>1, TopOK DEF Loading, OnceInv
<1>3. /\ CodesInv /\ TableOK /\ LoadedOnce
      /\ \A n \in Interned : Code(n)' = Code(n) /\ n \in Interned'
  BY DEF OnceInv, CodesGrow
<1>4. /\ packageMapNO' \in Seq([id : Nat, space : Nat])
      /\ \A i \in 1 .. Len(packageMapNO') :
           \/ i = 1 /\ packageMapNO'[i] = e
           \/ i - 1 \in 1 .. Len(p) /\ packageMapNO'[i] = p[i - 1]
  <2>1. e \in [id : Nat, space : Nat] /\ p \in Seq([id : Nat, space : Nat])
    BY <1>2, <1>3 DEF Frame, CodesInv, TableOK
  <2> HIDE DEF e
  <2>2. QED
    BY <1>1, <2>1, Entered
<1>5. e.id = c /\ \A i \in 1 .. Len(p) : p[i].id # c
  BY <1>2 DEF Packs
<1> HIDE DEF e
<1>6. LoadedOnce'
  <2> SUFFICES ASSUME NEW i \in 1 .. Len(packageMapNO'), NEW j \in 1 .. Len(packageMapNO'),
                      packageMapNO'[i].id = packageMapNO'[j].id
               PROVE  i = j
    BY DEF LoadedOnce
  <2>1. /\ \/ i = 1 /\ packageMapNO'[i].id = c
           \/ i - 1 \in 1 .. Len(p) /\ packageMapNO'[i] = p[i - 1]
        /\ \/ j = 1 /\ packageMapNO'[j].id = c
           \/ j - 1 \in 1 .. Len(p) /\ packageMapNO'[j] = p[j - 1]
    BY <1>4, <1>5
  <2> HIDE DEF c
  <2>2. CASE i = 1 \/ j = 1
    BY <1>5, <2>1, <2>2
  <2>3. CASE i # 1 /\ j # 1
    <3>1. i - 1 = j - 1
      BY <1>3, <2>1, <2>3 DEF LoadedOnce
    <3>2. QED
      BY <3>1
  <2>4. QED
    BY <2>2, <2>3
<1>7. TableOK'
  <2> SUFFICES ASSUME NEW i \in 1 .. Len(packageMapNO')
               PROVE  \E g \in File \cap Interned' : Code(g)' = packageMapNO'[i].id
    BY <1>4 DEF TableOK
  <2>1. CASE packageMapNO'[i] = e
    <3>1. PICK g \in File \cap Interned : g = Top.pack
      BY <1>2
    <3>2. Code(g)' = packageMapNO'[i].id
      BY <1>3, <1>5, <2>1, <3>1
    <3>3. QED
      BY <1>3, <3>1, <3>2
  <2>2. CASE i - 1 \in 1 .. Len(p) /\ packageMapNO'[i] = p[i - 1]
    <3>1. PICK g \in File \cap Interned : Code(g) = p[i - 1].id
      BY <1>3, <2>2 DEF TableOK
    <3>2. QED
      BY <1>3, <2>2, <3>1
  <2>3. QED
    BY <1>4, <2>1, <2>2
<1>8. SpacesOK' /\ (stack' = Below \/ Goto(f))
  BY <1>1, <1>2, MergeKept
<1>9. /\ StackOK(Below) /\ Below \in Seq(Frame) /\ Len(Below) = Len(stack) - 1
      /\ \A d \in 1 .. Len(Below) : Below[d].pack \in Interned \ {Top.pack}
  <2>1. /\ StackOK(Below) /\ Len(Below) = Len(stack) - 1
        /\ \A d \in 1 .. Len(Below) : Below[d] = stack[d]
    BY <1>1, TopOK
  <2>2. \A d \in 1 .. Len(Below) : d \in 1 .. Len(stack) /\ Len(stack) \in 1 .. Len(stack) /\ d < Len(stack)
    BY <1>2, <2>1
  <2>3. \A d \in 1 .. Len(Below) : stack[d].pack # stack[Len(stack)].pack
    BY <1>2, <2>2, Distinct
  <2>4. QED
    BY <1>2, <2>1, <2>2, <2>3 DEF Top, StackOK
<1>10. f \in Frame /\ f.pack = Top.pack /\ f.at = "export"
  BY <1>2, FrameFields
<1> HIDE DEF f
<1>11. PICK u : /\ u = stack' /\ StackOK(u) /\ \A d \in 1 .. Len(u) : u[d].pack \in Interned
               /\ \A d \in 1 .. Len(u) : u[d].at \in Loading => u[d].pack \in Interned \ {Top.pack}
  <2>1. CASE stack' = Below
    BY <1>9, <2>1
  <2>2. CASE stack' = Append(Below, f)
    <3>1. StackOK(Append(Below, f))
      BY <1>1, <1>2, <1>10, GotoOK DEF Below, Top, Loading
    <3>2. \A d \in 1 .. Len(Append(Below, f)) :
            Append(Below, f)[d] = f \/ (d \in 1 .. Len(Below) /\ Append(Below, f)[d] = Below[d])
      BY <1>9, <1>10
    <3>3. QED
      BY <1>2, <1>9, <1>10, <2>2, <3>1, <3>2 DEF Loading
  <2>3. QED
    BY <1>8, <2>1, <2>2 DEF Goto
<1>12. \A x : x # c /\ Packs(x) = {} => Packs(x)' = {}
  BY <1>4, <1>5 DEF Packs
<1>13. PICK n \in Interned : n = Top.pack
  BY <1>2
<1>14. StackOK(stack)' /\ Asked'
  BY <1>3, <1>11, <1>12, <1>13, EnteredOK, AskedKept
<1>15. QED
  BY <1>6, <1>7, <1>8, <1>14

-----------------------------------------------------------------------------
(* Every step interns a name or leaves the map alone.                        *)
LEMMA StepInterns ==
  ASSUME MapInv, OnceInv, Asked, [Next]_vars
  PROVE  Interning
<1>1. CASE \E name \in Name : Import(name)
  BY <1>1, EnterCodes DEF Import
<1>2. CASE ImportNext
  <2>1. stack # <<>> /\ Top.next <= Len(Steps(Top))
    BY <1>2 DEF ImportNext
  <2>2. PICK name \in Name : name = Steps(Top)[Top.next]
    BY <2>1, StepsUsed
  <2>3. \E ns, s : Enter(name, ns, s)
    BY <1>2, <2>2 DEF ImportNext
  <2>4. QED
    BY <2>3, EnterCodes
<1>3. CASE ~((\E name \in Name : Import(name)) \/ ImportNext)
  <2>1. UNCHANGED kmap
    BY <1>3 DEF Next, vars, Found, Load, NotFound, initPackage, ScriptFails, ScriptEnds, ImportEnds
  <2>2. QED
    BY <2>1 DEF Interning
<1>4. QED
  BY <1>1, <1>2, <1>3

PackageInv == MapInv /\ OnceInv /\ Asked

LEMMA PackageFirst == Init => PackageInv
<1> SUFFICES ASSUME Init PROVE PackageInv
  OBVIOUS
<1>1. MapInv
  BY MapFirst DEF Init
<1>2. CodesInv
  BY <1>1, CodesKnown
<1>3. StackOK(stack) /\ Asked /\ TableOK /\ LoadedOnce
  BY DEF Init, StackOK, Asked, TableOK, LoadedOnce
<1>4. SpacesOK
  <2>1. spaces \in Seq({[pack |-> -1, cl |-> <<>>]})
    BY DEF Init
  <2>2. QED
    BY <2>1 DEF SpacesOK
<1>5. QED
  BY <1>1, <1>2, <1>3, <1>4 DEF PackageInv, OnceInv

LEMMA PackageStep ==
  ASSUME PackageInv, [Next]_vars
  PROVE  PackageInv'
<1>1. MapInv' /\ CodesInv' /\ CodesGrow
  BY StepInterns, CodesStep DEF PackageInv
<1> USE DEF PackageInv
<1>2. CASE StackOK(stack)' /\ Asked' /\ SpacesOK' /\ packageMapNO' = packageMapNO
  BY <1>1, <1>2, TableKept DEF OnceInv
<1>3. CASE (\E name \in Name : Import(name)) \/ ImportNext
  BY <1>1, <1>2, <1>3, ImportStep
<1>4. CASE Found
  BY <1>1, <1>2, <1>4, FoundStep
<1>5. CASE Load
  BY <1>1, <1>2, <1>5, LoadStep
<1>6. CASE NotFound \/ ScriptFails \/ ImportEnds
  BY <1>1, <1>2, <1>6, DropStep
<1>7. CASE initPackage
  BY <1>1, <1>2, <1>7, InitPackageStep
<1>8. CASE ScriptEnds
  BY <1>1, <1>8, ScriptEndsStep DEF OnceInv
<1>9. CASE UNCHANGED vars
  <2>1. stack' = stack /\ spaces' = spaces /\ packageMapNO' = packageMapNO
    BY <1>9 DEF vars
  <2>2. PICK u : u = stack
    OBVIOUS
  <2>3. StackOK(u) /\ stack' = u /\ \A d \in 1 .. Len(u) : u[d].pack \in Interned
    BY <2>1, <2>2 DEF OnceInv, Asked
  <2>4. StackOK(stack)' /\ Asked'
    BY <1>1, <2>1, <2>3, KeptOK, AskedKept
  <2>5. QED
    BY <1>2, <2>1, <2>4 DEF OnceInv, SpacesOK
<1>10. QED
  BY <1>3, <1>4, <1>5, <1>6, <1>7, <1>8, <1>9 DEF Next

(* Every entry of the map's arena is on the free list or in the one bucket   *)
(* of its hash code, and no list has a cycle, through every growth           *)
(* (Kmap_newentry, kmap_rehash) and every name that is interned              *)
(* (Kmap_add, Kmap_getcode).                                                 *)
THEOREM EntriesAreListedOnce == Spec => []ListsPartitionArena
<1>1. MapInv => ListsPartitionArena
  BY Partition DEF MapInv
<1>2. PackageInv /\ [Next]_vars => PackageInv'
  BY PackageStep
<1>3. PackageInv => MapInv
  BY DEF PackageInv
<1>4. QED
  BY PackageFirst, <1>1, <1>2, <1>3, PTL DEF Spec

(* The map implements interning (Kpack, Kmap_getcode): a name gets the next  *)
(* code once and keeps it, also when the map grows, and what is being        *)
(* imported has its code.                                                    *)
THEOREM NamesKeepTheirCodes == Spec => CodesKept
<1> DEFINE codes == [n \in Interned |-> CHOOSE c \in Codes(n) : TRUE]
<1>1. Init => Promise!Init
  BY PromiseFirst DEF Init
<1>2. PackageInv /\ [Next]_vars => PackageInv' /\ [Promise!Next]_codes
  <2> SUFFICES ASSUME PackageInv, [Next]_vars PROVE PackageInv' /\ [Promise!Next]_codes
    OBVIOUS
  <2>1. PackageInv'
    BY PackageStep
  <2>2. [Promise!Next]_codes
    <3>1. MapInv /\ Interning
      BY StepInterns DEF PackageInv
    <3>2. QED
      BY <3>1, PromiseStep
  <2>3. QED
    BY <2>1, <2>2
<1>3. PackageInv => \A d \in 1 .. Len(stack) : stack[d].pack \in Interned
  BY DEF PackageInv, Asked
<1>4. QED
  BY PackageFirst, <1>1, <1>2, <1>3, PTL DEF Spec, CodesKept, Promise!Spec

(* A package is entered in the table of packages once, however imports nest, *)
(* fail and are made again (getPackageNULL, loadPackageNULL).                *)
THEOREM PackagesLoadOnce == Spec => []LoadedOnce
<1>1. PackageInv /\ [Next]_vars => PackageInv'
  BY PackageStep
<1>2. PackageInv => LoadedOnce
  BY DEF PackageInv, OnceInv
<1>3. QED
  BY PackageFirst, <1>1, <1>2, PTL DEF Spec

-----------------------------------------------------------------------------
(* The search of getConst in the part min .. max - 1 of a table, when f says *)
(* what it finds in the parts of that.                                       *)
Middle(r) == (r[2] + r[1]) \div 2
Narrowed(cl, key, f, r) ==
  IF r[1] >= r[2] THEN 0
  ELSE IF cl[Middle(r) + 1].key = key THEN Middle(r) + 1
  ELSE IF cl[Middle(r) + 1].key < key THEN f[<<Middle(r) + 1, r[2]>>] ELSE f[<<r[1], Middle(r)>>]

Ranges(n) == (0 .. n) \X (0 .. n)
IsSearch(f, cl, key) == f = [r \in Ranges(Len(cl)) |-> Narrowed(cl, key, f, r)]

(* A function that is a search of every part with less than n entries. *)
SearchUpTo(f, cl, key, n) ==
  /\ f = [r \in Ranges(Len(cl)) |-> f[r]]
  /\ \A r \in Ranges(Len(cl)) : r[2] - r[1] < n => f[r] = Narrowed(cl, key, f, r)

LEMMA MiddleIs ==
  ASSUME NEW n \in Nat, NEW r \in Ranges(n), r[1] < r[2]
  PROVE  /\ Middle(r) \in Nat /\ r[1] <= Middle(r) /\ Middle(r) < r[2]
         /\ <<Middle(r) + 1, r[2]>> \in Ranges(n) /\ <<r[1], Middle(r)>> \in Ranges(n)
<1>1. r[1] \in 0 .. n /\ r[2] \in 0 .. n
  BY DEF Ranges
<1> DEFINE m == Middle(r)
<1>2. m \in Nat /\ r[1] <= m /\ m < r[2]
  BY <1>1 DEF Middle
<1> HIDE DEF m
<1>3. m \in 0 .. n /\ m + 1 \in 0 .. n
  BY <1>1, <1>2
<1>4. QED
  BY <1>1, <1>2, <1>3 DEF m, Ranges

LEMMA SearchNext ==
  ASSUME NEW cl, NEW key, Len(cl) \in Nat, NEW n \in Nat, NEW f, SearchUpTo(f, cl, key, n)
  PROVE  \E g : SearchUpTo(g, cl, key, n + 1)
<1> DEFINE g == [r \in Ranges(Len(cl)) |-> Narrowed(cl, key, f, r)]
<1>1. ASSUME NEW r \in Ranges(Len(cl)), r[2] - r[1] < n PROVE g[r] = f[r]
  BY <1>1 DEF SearchUpTo
<1>2. ASSUME NEW r \in Ranges(Len(cl)), r[2] - r[1] < n + 1
      PROVE  g[r] = Narrowed(cl, key, g, r)
  <2>1. g[r] = Narrowed(cl, key, f, r)
    OBVIOUS
  <2>2. CASE r[1] >= r[2]
    BY <2>1, <2>2 DEF Narrowed
  <2>3. CASE ~(r[1] >= r[2])
    <3> DEFINE upper == <<Middle(r) + 1, r[2]>>  lower == <<r[1], Middle(r)>>
    <3>1. r[1] \in Nat /\ r[2] \in Nat
      BY DEF Ranges
    <3>2. /\ Middle(r) \in Nat /\ r[1] <= Middle(r) /\ Middle(r) < r[2]
          /\ upper \in Ranges(Len(cl)) /\ lower \in Ranges(Len(cl))
      BY <2>3, <3>1, MiddleIs
    <3>3. upper[2] - upper[1] < n /\ lower[2] - lower[1] < n
      BY <1>2, <3>1, <3>2
    <3>4. g[upper] = f[upper] /\ g[lower] = f[lower]
      BY <1>1, <3>2, <3>3
    <3> HIDE DEF g
    <3>5. QED
      BY <2>1, <3>4 DEF Narrowed
  <2>4. QED
    BY <2>2, <2>3
<1>3. g = [r \in Ranges(Len(cl)) |-> g[r]]
  OBVIOUS
<1> HIDE DEF g
<1>4. QED
  BY <1>2, <1>3 DEF SearchUpTo

LEMMA SearchExists ==
  ASSUME NEW cl, NEW key, Len(cl) \in Nat
  PROVE  \E f : IsSearch(f, cl, key)
<1> DEFINE S == {n \in Nat : ~ \E f : SearchUpTo(f, cl, key, n)}
<1>1. S = {}
  <2> SUFFICES ASSUME S # {} PROVE FALSE
    OBVIOUS
  <2>1. PICK n \in S : \A k \in S : n <= k
    <3>1. S \in SUBSET Nat
      OBVIOUS
    <3> HIDE DEF S
    <3>2. QED
      BY <3>1, LeastOf
  <2>2. CASE n = 0
    <3> DEFINE f == [r \in Ranges(Len(cl)) |-> 0]
    <3>1. f = [r \in Ranges(Len(cl)) |-> f[r]]
      OBVIOUS
    <3>2. ASSUME NEW r \in Ranges(Len(cl)), r[2] - r[1] < 0 PROVE f[r] = Narrowed(cl, key, f, r)
      <4>1. r[1] \in Nat /\ r[2] \in Nat /\ r[1] >= r[2]
        BY <3>2 DEF Ranges
      <4>2. QED
        BY <4>1 DEF Narrowed
    <3>3. SearchUpTo(f, cl, key, 0)
      BY <3>1, <3>2 DEF SearchUpTo
    <3>4. QED
      BY <2>2, <3>3
  <2>3. CASE n # 0
    <3>1. n - 1 \in Nat /\ n - 1 \notin S /\ n - 1 + 1 = n
      BY <2>1, <2>3
    <3>2. PICK f : SearchUpTo(f, cl, key, n - 1)
      BY <3>1
    <3>3. \E g : SearchUpTo(g, cl, key, n - 1 + 1)
      BY <3>1, <3>2, SearchNext
    <3>4. QED
      BY <3>1, <3>3
  <2>4. QED
    BY <2>2, <2>3
<1>2. PICK f : SearchUpTo(f, cl, key, Len(cl) + 1)
  <2>1. Len(cl) + 1 \in Nat /\ Len(cl) + 1 \notin S
    BY <1>1
  <2>2. QED
    BY <2>1
<1>3. ASSUME NEW r \in Ranges(Len(cl)) PROVE f[r] = Narrowed(cl, key, f, r)
  <2>1. r[1] \in 0 .. Len(cl) /\ r[2] \in 0 .. Len(cl)
    BY DEF Ranges
  <2>2. r[2] - r[1] < Len(cl) + 1
    BY <2>1
  <2>3. QED
    BY <1>2, <2>2 DEF SearchUpTo
<1> DEFINE g == [r \in Ranges(Len(cl)) |-> Narrowed(cl, key, f, r)]
<1>4. f = g
  <2>1. f = [r \in Ranges(Len(cl)) |-> f[r]]
    BY <1>2 DEF SearchUpTo
  <2>2. QED
    BY <1>3, <2>1
<1>5. QED
  BY <1>4 DEF IsSearch

(* What a search finds in a part of the table is there; and in a sorted      *)
(* table it finds what is there.                                             *)
Sorted(cl) == \A i, j \in 1 .. Len(cl) : i <= j => cl[i].key <= cl[j].key

LEMMA SearchFinds ==
  ASSUME NEW cl, Len(cl) \in Nat, \A i \in 1 .. Len(cl) : cl[i].key \in Int, NEW key \in Int,
         NEW f, IsSearch(f, cl, key), NEW r \in Ranges(Len(cl))
  PROVE  /\ f[r] # 0 => f[r] \in r[1] + 1 .. r[2] /\ cl[f[r]].key = key
         /\ Sorted(cl) /\ (\E i \in r[1] + 1 .. r[2] : cl[i].key = key) => f[r] # 0
<1> DEFINE Right(q) == /\ f[q] # 0 => f[q] \in q[1] + 1 .. q[2] /\ cl[f[q]].key = key
                       /\ Sorted(cl) /\ (\E i \in q[1] + 1 .. q[2] : cl[i].key = key) => f[q] # 0
           R == Ranges(Len(cl))
           S == {n \in Nat : \E q \in R : q[2] - q[1] < n /\ ~Right(q)}
<1>1. \A q \in R : f[q] = Narrowed(cl, key, f, q)
  BY DEF IsSearch
<1>2. \A q \in R : q[1] \in 0 .. Len(cl) /\ q[2] \in 0 .. Len(cl)
  BY DEF Ranges
<1>3. S = {}
  <2> SUFFICES ASSUME S # {} PROVE FALSE
    OBVIOUS
  <2>1. PICK n \in S : \A k \in S : n <= k
    <3>1. S \in SUBSET Nat
      OBVIOUS
    <3> HIDE DEF S
    <3>2. QED
      BY <3>1, LeastOf
  <2>2. PICK q \in R : q[2] - q[1] < n /\ ~Right(q)
    BY <2>1
  <2>3. \A x \in R : x[2] - x[1] < q[2] - q[1] => Right(x)
    <3> SUFFICES ASSUME NEW x \in R, x[2] - x[1] < q[2] - q[1], ~Right(x) PROVE FALSE
      OBVIOUS
    <3> HIDE DEF Right
    <3>1. /\ q[1] \in Int /\ q[2] \in Int /\ x[1] \in Int /\ x[2] \in Int /\ n \in Nat
      BY <1>2, <2>1, SMTT(30)
    <3>2. CASE n = 0
      <4>1. 0 \in Nat /\ x[2] - x[1] < 0
        BY <2>2, <3>1, <3>2
      <4>2. q[1] > q[2]
        BY <2>2, <3>1, <3>2
      <4>3. f[q] = 0
        <5>1. f[q] = Narrowed(cl, key, f, q) /\ q[1] >= q[2]
          BY <1>1, <3>1, <4>2
        <5>2. QED
          BY <5>1 DEF Narrowed
      <4>4. Right(q)
        BY <3>1, <4>2, <4>3 DEF Right
      <4>5. QED
        BY <2>2, <4>4
    <3>3. CASE n # 0
      <4>1. n - 1 \in Nat /\ x[2] - x[1] < n - 1
        BY <2>2, <3>1, <3>3
      <4>2. n - 1 \in S
        BY <4>1
      <4>3. n <= n - 1
        BY <2>1, <4>2
      <4>4. QED
        BY <3>1, <4>3
    <3>4. QED
      BY <3>2, <3>3
  <2>4. q[1] \in Nat /\ q[2] \in Nat /\ q[1] <= Len(cl) /\ q[2] <= Len(cl) /\ f[q] = Narrowed(cl, key, f, q)
    BY <1>1, <1>2
  <2>5. CASE q[1] >= q[2]
    <3>1. f[q] = 0
      BY <2>4, <2>5 DEF Narrowed
    <3>2. QED
      BY <2>2, <2>4, <2>5, <3>1
  <2>6. CASE ~(q[1] >= q[2])
    <3> DEFINE m == Middle(q)  upper == <<m + 1, q[2]>>  lower == <<q[1], m>>
    <3>1. m \in Nat /\ q[1] <= m /\ m < q[2] /\ upper \in R /\ lower \in R
      BY <2>4, <2>6, MiddleIs
    <3>2. Right(upper) /\ Right(lower)
      <4>1. upper[2] - upper[1] < q[2] - q[1] /\ lower[2] - lower[1] < q[2] - q[1]
        BY <2>4, <3>1, SMTT(30)
      <4> HIDE DEF Right, R
      <4>2. QED
        BY <2>3, <3>1, <4>1
    <3>3. m + 1 \in 1 .. Len(cl) /\ cl[m + 1].key \in Int
      BY <2>4, <3>1, SMTT(30)
    <3>4. upper[1] = m + 1 /\ upper[2] = q[2] /\ lower[1] = q[1] /\ lower[2] = m
      OBVIOUS
    <3>5. f[q] = IF cl[m + 1].key = key THEN m + 1 ELSE IF cl[m + 1].key < key THEN f[upper] ELSE f[lower]
      BY <2>4, <2>6 DEF Narrowed
    <3> HIDE DEF m, upper, lower
    <3>6. CASE cl[m + 1].key = key
      BY <2>2, <2>4, <3>1, <3>3, <3>5, <3>6
    <3>7. CASE cl[m + 1].key # key /\ cl[m + 1].key < key
      <4>1. f[q] = f[upper]
        BY <3>5, <3>7
      <4>2. f[q] # 0 => f[q] \in q[1] + 1 .. q[2] /\ cl[f[q]].key = key
        BY <2>4, <3>1, <3>2, <3>4, <4>1, SMTT(30)
      <4>3. ASSUME Sorted(cl), NEW i \in q[1] + 1 .. q[2], cl[i].key = key PROVE i \in m + 2 .. q[2]
        <5>1. i \in 1 .. Len(cl) /\ i \in Int
          BY <2>4
        <5>2. i <= m + 1 => cl[i].key <= cl[m + 1].key
          BY <3>3, <4>3, <5>1 DEF Sorted
        <5>3. ~(i <= m + 1)
          BY <3>3, <3>7, <4>3, <5>2
        <5>4. QED
          BY <3>1, <2>4, <5>1, <5>3
      <4>4. Sorted(cl) /\ (\E i \in q[1] + 1 .. q[2] : cl[i].key = key) => f[q] # 0
        BY <3>1, <3>2, <3>4, <4>1, <4>3
      <4>5. QED
        BY <2>2, <4>2, <4>4
    <3>8. CASE cl[m + 1].key # key /\ ~(cl[m + 1].key < key)
      <4>1. f[q] = f[lower]
        BY <3>5, <3>8
      <4>2. f[q] # 0 => f[q] \in q[1] + 1 .. q[2] /\ cl[f[q]].key = key
        BY <2>4, <3>1, <3>2, <3>4, <4>1
      <4>3. ASSUME Sorted(cl), NEW i \in q[1] + 1 .. q[2], cl[i].key = key PROVE i \in q[1] + 1 .. m
        <5>1. i \in 1 .. Len(cl) /\ i \in Int
          BY <2>4
        <5>2. m + 1 <= i => cl[m + 1].key <= cl[i].key
          BY <3>3, <4>3, <5>1 DEF Sorted
        <5>3. ~(m + 1 <= i)
          BY <3>3, <3>8, <4>3, <5>2
        <5>4. QED
          BY <3>1, <2>4, <5>1, <5>3
      <4>4. Sorted(cl) /\ (\E i \in q[1] + 1 .. q[2] : cl[i].key = key) => f[q] # 0
        BY <3>1, <3>2, <3>4, <4>1, <4>3
      <4>5. QED
        BY <2>2, <4>2, <4>4
    <3>9. QED
      BY <3>6, <3>7, <3>8
  <2>7. QED
    BY <2>5, <2>6
<1>4. Right(r)
  <2> SUFFICES ASSUME ~Right(r) PROVE FALSE
    OBVIOUS
  <2>1. r[2] - r[1] < Len(cl) + 1 /\ Len(cl) + 1 \in Nat
    BY <1>2
  <2> HIDE DEF Right
  <2>2. Len(cl) + 1 \in S
    BY <2>1
  <2>3. QED
    BY <1>3, <2>2
<1>5. QED
  BY <1>4

(* KonohaSpace_getConstNULL. *)
LEMMA GetConstFinds ==
  ASSUME NEW cl, Len(cl) \in Nat, \A i \in 1 .. Len(cl) : cl[i].key \in Int, NEW key \in Int
  PROVE  LET g == getConst(cl, key)
         IN /\ g # 0 => g \in 1 .. Len(cl) /\ cl[g].key = key
            /\ Sorted(cl) /\ (\E i \in 1 .. Len(cl) : cl[i].key = key) => g # 0
<1> DEFINE f == CHOOSE f : IsSearch(f, cl, key)
           r == <<0, Len(cl)>>
<1>1. IsSearch(f, cl, key)
  BY SearchExists
<1>2. getConst(cl, key) = f[r]
  BY DEF getConst, IsSearch, Narrowed, Middle, Ranges
<1> HIDE DEF f
<1>3. r \in Ranges(Len(cl)) /\ r[1] = 0 /\ r[2] = Len(cl)
  BY DEF Ranges
<1> HIDE DEF r
<1>4. /\ f[r] # 0 => f[r] \in 0 + 1 .. Len(cl) /\ cl[f[r]].key = key
      /\ Sorted(cl) /\ (\E i \in 0 + 1 .. Len(cl) : cl[i].key = key) => f[r] # 0
  BY <1>1, <1>3, SearchFinds
<1>5. QED
  BY <1>2, <1>4

-----------------------------------------------------------------------------
(* The recursive function of Appended exists. *)
AppendStep(f, s, t, I, n) ==
  IF n = 0 THEN s ELSE IF n \in I THEN Append(f[n - 1], t[n]) ELSE f[n - 1]
IsAppend(f, s, t, I, N) == f = [n \in 0 .. N |-> AppendStep(f, s, t, I, n)]
AppendUpTo(f, s, t, I, N, k) ==
  /\ f = [n \in 0 .. N |-> f[n]]
  /\ \A n \in 0 .. N : n < k => f[n] = AppendStep(f, s, t, I, n)

LEMMA AppendNext ==
  ASSUME NEW s, NEW t, NEW I, NEW N \in Nat, NEW k \in Nat, NEW f, AppendUpTo(f, s, t, I, N, k)
  PROVE  \E g : AppendUpTo(g, s, t, I, N, k + 1)
<1> DEFINE g == [n \in 0 .. N |-> AppendStep(f, s, t, I, n)]
<1>1. ASSUME NEW n \in 0 .. N, n < k PROVE g[n] = f[n]
  BY <1>1 DEF AppendUpTo
<1>2. ASSUME NEW n \in 0 .. N, n < k + 1 PROVE g[n] = AppendStep(g, s, t, I, n)
  <2>1. g[n] = AppendStep(f, s, t, I, n)
    OBVIOUS
  <2>2. CASE n = 0
    BY <2>1, <2>2 DEF AppendStep
  <2>3. CASE n # 0
    <3>1. n - 1 \in 0 .. N /\ n - 1 < k
      BY <1>2, <2>3
    <3>2. g[n - 1] = f[n - 1]
      BY <1>1, <3>1
    <3> HIDE DEF g
    <3>3. QED
      BY <2>1, <2>3, <3>2 DEF AppendStep
  <2>4. QED
    BY <2>2, <2>3
<1>3. g = [n \in 0 .. N |-> g[n]]
  OBVIOUS
<1> HIDE DEF g
<1>4. QED
  BY <1>2, <1>3 DEF AppendUpTo

LEMMA AppendExists ==
  ASSUME NEW s, NEW t, NEW I, NEW N \in Nat
  PROVE  \E f : IsAppend(f, s, t, I, N)
<1> DEFINE S == {k \in Nat : ~ \E f : AppendUpTo(f, s, t, I, N, k)}
<1>1. S = {}
  <2> SUFFICES ASSUME S # {} PROVE FALSE
    OBVIOUS
  <2>1. PICK k \in S : \A m \in S : k <= m
    <3>1. S \in SUBSET Nat
      OBVIOUS
    <3> HIDE DEF S
    <3>2. QED
      BY <3>1, LeastOf
  <2>2. CASE k = 0
    <3> DEFINE f == [n \in 0 .. N |-> 0]
    <3>1. f = [n \in 0 .. N |-> f[n]]
      OBVIOUS
    <3>2. AppendUpTo(f, s, t, I, N, 0)
      BY <3>1 DEF AppendUpTo
    <3>3. QED
      BY <2>2, <3>2
  <2>3. CASE k # 0
    <3>1. k - 1 \in Nat /\ k - 1 \notin S /\ k - 1 + 1 = k
      BY <2>1, <2>3
    <3>2. PICK f : AppendUpTo(f, s, t, I, N, k - 1)
      BY <3>1
    <3>3. \E g : AppendUpTo(g, s, t, I, N, k - 1 + 1)
      BY <3>1, <3>2, AppendNext
    <3>4. QED
      BY <3>1, <3>3
  <2>4. QED
    BY <2>2, <2>3
<1>2. PICK f : AppendUpTo(f, s, t, I, N, N + 1)
  <2>1. N + 1 \in Nat /\ N + 1 \notin S
    BY <1>1
  <2>2. QED
    BY <2>1
<1>3. ASSUME NEW n \in 0 .. N PROVE f[n] = AppendStep(f, s, t, I, n)
  BY <1>2 DEF AppendUpTo
<1> DEFINE g == [n \in 0 .. N |-> AppendStep(f, s, t, I, n)]
<1>4. f = g
  <2>1. f = [n \in 0 .. N |-> f[n]]
    BY <1>2 DEF AppendUpTo
  <2>2. QED
    BY <1>3, <2>1
<1>5. QED
  BY <1>4 DEF IsAppend

LEMMA AppendedDef ==
  ASSUME NEW s, NEW t, NEW I, Len(t) \in Nat
  PROVE  \E f : /\ Appended(s, t, I) = f[Len(t)]
                /\ \A n \in 0 .. Len(t) : f[n] = AppendStep(f, s, t, I, n)
<1> DEFINE f == CHOOSE f : IsAppend(f, s, t, I, Len(t))
<1>1. IsAppend(f, s, t, I, Len(t))
  BY AppendExists
<1>2. Appended(s, t, I) = f[Len(t)]
  BY DEF Appended, IsAppend, AppendStep
<1> HIDE DEF f
<1>3. \A n \in 0 .. Len(t) : f[n] = AppendStep(f, s, t, I, n)
  BY <1>1 DEF IsAppend
<1>4. QED
  BY <1>2, <1>3

(* What is appended after n entries of t. *)
Extended(r, s, t, I, n) ==
  /\ Len(s) <= Len(r) /\ \A j \in 1 .. Len(s) : r[j] = s[j]
  /\ \A j \in Len(s) + 1 .. Len(r) : \E i \in I \cap (1 .. n) : r[j] = t[i]
  /\ \A j, k \in Len(s) + 1 .. Len(r) : j # k =>
       \E i, l \in I \cap (1 .. n) : i # l /\ r[j] = t[i] /\ r[k] = t[l]
  /\ \A i \in I \cap (1 .. n) : \E j \in Len(s) + 1 .. Len(r) : r[j] = t[i]

LEMMA ExtendedNext ==
  ASSUME NEW S, NEW s \in Seq(S), NEW t, NEW I, NEW n \in Nat \ {0}, n \in I => t[n] \in S,
         NEW r \in Seq(S), Extended(r, s, t, I, n - 1),
         NEW u, u = IF n \in I THEN Append(r, t[n]) ELSE r
  PROVE  u \in Seq(S) /\ Extended(u, s, t, I, n)
<1>1. 1 .. n = (1 .. n - 1) \cup {n} /\ n \notin 1 .. n - 1
  OBVIOUS
<1>2. CASE n \notin I
  <2>1. I \cap (1 .. n) = I \cap (1 .. n - 1) /\ u = r
    BY <1>1, <1>2
  <2>2. QED
    BY <2>1 DEF Extended
<1>3. CASE n \in I
  <2> DEFINE J == I \cap (1 .. n - 1)  K == I \cap (1 .. n)
  <2>1. K = J \cup {n} /\ n \notin J
    BY <1>1, <1>3
  <2>2. /\ u \in Seq(S) /\ Len(u) = Len(r) + 1 /\ Len(r) \in Nat /\ Len(s) \in Nat
        /\ u[Len(r) + 1] = t[n] /\ \A j \in 1 .. Len(r) : u[j] = r[j]
    BY <1>3
  <2>3. /\ Len(s) <= Len(r) /\ \A j \in 1 .. Len(s) : r[j] = s[j]
        /\ \A j \in Len(s) + 1 .. Len(r) : \E i \in J : r[j] = t[i]
        /\ \A j, k \in Len(s) + 1 .. Len(r) : j # k =>
             \E i, l \in J : i # l /\ r[j] = t[i] /\ r[k] = t[l]
        /\ \A i \in J : \E j \in Len(s) + 1 .. Len(r) : r[j] = t[i]
    BY DEF Extended
  <2> HIDE DEF J, K
  <2>4. \A j \in Len(s) + 1 .. Len(u) :
          \/ j = Len(r) + 1 /\ u[j] = t[n]
          \/ j \in Len(s) + 1 .. Len(r) /\ u[j] = r[j]
    BY <2>2, <2>3
  <2>5. \A j \in Len(s) + 1 .. Len(r) : j \in Len(s) + 1 .. Len(u) /\ u[j] = r[j]
    BY <2>2, <2>3
  <2>6. Len(s) <= Len(u) /\ \A j \in 1 .. Len(s) : u[j] = s[j]
    BY <2>2, <2>3
  <2>7. \A j \in Len(s) + 1 .. Len(u) : \E i \in K : u[j] = t[i]
    BY <2>1, <2>3, <2>4
  <2>8. ASSUME NEW j \in Len(s) + 1 .. Len(u), NEW k \in Len(s) + 1 .. Len(u), j # k
        PROVE  \E i, l \in K : i # l /\ u[j] = t[i] /\ u[k] = t[l]
    <3>1. CASE j = Len(r) + 1
      <4>1. k \in Len(s) + 1 .. Len(r) /\ u[k] = r[k] /\ u[j] = t[n]
        BY <2>2, <2>4, <2>8, <3>1
      <4>2. PICK l \in J : r[k] = t[l]
        BY <2>3, <4>1
      <4>3. QED
        BY <2>1, <4>1, <4>2
    <3>2. CASE k = Len(r) + 1
      <4>1. j \in Len(s) + 1 .. Len(r) /\ u[j] = r[j] /\ u[k] = t[n]
        BY <2>2, <2>4, <2>8, <3>2
      <4>2. PICK i \in J : r[j] = t[i]
        BY <2>3, <4>1
      <4>3. QED
        BY <2>1, <4>1, <4>2
    <3>3. CASE j # Len(r) + 1 /\ k # Len(r) + 1
      <4>1. /\ j \in Len(s) + 1 .. Len(r) /\ u[j] = r[j]
            /\ k \in Len(s) + 1 .. Len(r) /\ u[k] = r[k]
        BY <2>4, <3>3
      <4>2. PICK i \in J, l \in J : i # l /\ r[j] = t[i] /\ r[k] = t[l]
        BY <2>3, <2>8, <4>1
      <4>3. QED
        BY <2>1, <4>1, <4>2
    <3>4. QED
      BY <3>1, <3>2, <3>3
  <2>9. \A i \in K : \E j \in Len(s) + 1 .. Len(u) : u[j] = t[i]
    <3>1. Len(r) + 1 \in Len(s) + 1 .. Len(u)
      BY <2>2, <2>3
    <3>2. QED
      BY <2>1, <2>2, <2>3, <2>5, <3>1
  <2>10. Extended(u, s, t, I, n)
    BY <2>6, <2>7, <2>8, <2>9 DEF Extended, K
  <2>11. QED
    BY <2>2, <2>10
<1>4. QED
  BY <1>2, <1>3

LEMMA AppendedIs ==
  ASSUME NEW S, NEW s \in Seq(S), NEW t, Len(t) \in Nat, NEW I, \A i \in I \cap (1 .. Len(t)) : t[i] \in S
  PROVE  Appended(s, t, I) \in Seq(S) /\ Extended(Appended(s, t, I), s, t, I, Len(t))
<1> DEFINE N == Len(t)
<1>1. PICK f : /\ Appended(s, t, I) = f[N]
               /\ \A n \in 0 .. N : f[n] = AppendStep(f, s, t, I, n)
  BY AppendedDef
<1> DEFINE Good(n) == f[n] \in Seq(S) /\ Extended(f[n], s, t, I, n)
           B == {n \in 0 .. N : ~Good(n)}
<1>2. B = {}
  <2> SUFFICES ASSUME B # {} PROVE FALSE
    OBVIOUS
  <2>1. PICK n \in B : \A m \in B : n <= m
    <3>1. B \in SUBSET Nat
      OBVIOUS
    <3> HIDE DEF B
    <3>2. QED
      BY <3>1, LeastOf
  <2>2. CASE n = 0
    <3>1. f[0] = s
      BY <1>1, <2>2 DEF AppendStep
    <3>2. I \cap (1 .. 0) = {} /\ Len(s) \in Nat
      OBVIOUS
    <3>3. Extended(s, s, t, I, 0)
      BY <3>2 DEF Extended
    <3>4. QED
      BY <2>2, <3>1, <3>3
  <2>3. CASE n # 0
    <3>1. n - 1 \in 0 .. N /\ n - 1 \notin B /\ n \in Nat \ {0} /\ n \in 1 .. N
      BY <2>1, <2>3
    <3>2. f[n - 1] \in Seq(S) /\ Extended(f[n - 1], s, t, I, n - 1)
      BY <3>1
    <3>3. f[n] = IF n \in I THEN Append(f[n - 1], t[n]) ELSE f[n - 1]
      BY <1>1, <3>1 DEF AppendStep
    <3>4. n \in I => t[n] \in S
      BY <3>1
    <3> HIDE DEF N
    <3>5. Good(n)
      BY <3>1, <3>2, <3>3, <3>4, ExtendedNext
    <3>6. QED
      BY <2>1, <3>5
  <2>4. QED
    BY <2>2, <2>3
<1>3. N \in 0 .. N
  OBVIOUS
<1>4. Good(N)
  BY <1>2, <1>3
<1>5. QED
  BY <1>1, <1>4

-----------------------------------------------------------------------------
(* An entry is inserted in a sorted table, where it may be; the recursive   *)
(* function of qsort exists.                                                 *)
Fits(u, kv, i) == /\ i = 0 \/ u[i].key <= kv.key
                  /\ i = Len(u) \/ kv.key <= u[i + 1].key
InsertedAt(u, kv, i, n) == SubSeq(u, 1, i) \o <<kv>> \o SubSeq(u, i + 1, n - 1)
Inserted(u, kv, n) == {InsertedAt(u, kv, i, n) : i \in {i \in 0 .. n - 1 : Fits(u, kv, i)}}
InsertStep(f, s, n) ==
  IF n = 0 THEN {<<>>} ELSE UNION {Inserted(u, s[n], n) : u \in f[n - 1]}
IsInsert(f, s, N) == f = [n \in 0 .. N |-> InsertStep(f, s, n)]
InsertUpTo(f, s, N, k) ==
  /\ f = [n \in 0 .. N |-> f[n]]
  /\ \A n \in 0 .. N : n < k => f[n] = InsertStep(f, s, n)

LEMMA InsertNext ==
  ASSUME NEW s, NEW N \in Nat, NEW k \in Nat, NEW f, InsertUpTo(f, s, N, k)
  PROVE  \E g : InsertUpTo(g, s, N, k + 1)
<1> DEFINE g == [n \in 0 .. N |-> InsertStep(f, s, n)]
<1>1. ASSUME NEW n \in 0 .. N, n < k PROVE g[n] = f[n]
  BY <1>1 DEF InsertUpTo
<1>2. ASSUME NEW n \in 0 .. N, n < k + 1 PROVE g[n] = InsertStep(g, s, n)
  <2>1. g[n] = InsertStep(f, s, n)
    OBVIOUS
  <2>2. CASE n = 0
    BY <2>1, <2>2 DEF InsertStep
  <2>3. CASE n # 0
    <3>1. n - 1 \in 0 .. N /\ n - 1 < k
      BY <1>2, <2>3
    <3>2. g[n - 1] = f[n - 1]
      BY <1>1, <3>1
    <3> HIDE DEF g
    <3>3. QED
      BY <2>1, <2>3, <3>2 DEF InsertStep
  <2>4. QED
    BY <2>2, <2>3
<1>3. g = [n \in 0 .. N |-> g[n]]
  OBVIOUS
<1> HIDE DEF g
<1>4. QED
  BY <1>2, <1>3 DEF InsertUpTo

LEMMA InsertExists ==
  ASSUME NEW s, NEW N \in Nat
  PROVE  \E f : IsInsert(f, s, N)
<1> DEFINE S == {k \in Nat : ~ \E f : InsertUpTo(f, s, N, k)}
<1>1. S = {}
  <2> SUFFICES ASSUME S # {} PROVE FALSE
    OBVIOUS
  <2>1. PICK k \in S : \A m \in S : k <= m
    <3>1. S \in SUBSET Nat
      OBVIOUS
    <3> HIDE DEF S
    <3>2. QED
      BY <3>1, LeastOf
  <2>2. CASE k = 0
    <3> DEFINE f == [n \in 0 .. N |-> 0]
    <3>1. f = [n \in 0 .. N |-> f[n]]
      OBVIOUS
    <3>2. InsertUpTo(f, s, N, 0)
      BY <3>1 DEF InsertUpTo
    <3>3. QED
      BY <2>2, <3>2
  <2>3. CASE k # 0
    <3>1. k - 1 \in Nat /\ k - 1 \notin S /\ k - 1 + 1 = k
      BY <2>1, <2>3
    <3>2. PICK f : InsertUpTo(f, s, N, k - 1)
      BY <3>1
    <3>3. \E g : InsertUpTo(g, s, N, k - 1 + 1)
      BY <3>1, <3>2, InsertNext
    <3>4. QED
      BY <3>1, <3>3
  <2>4. QED
    BY <2>2, <2>3
<1>2. PICK f : InsertUpTo(f, s, N, N + 1)
  <2>1. N + 1 \in Nat /\ N + 1 \notin S
    BY <1>1
  <2>2. QED
    BY <2>1
<1>3. ASSUME NEW n \in 0 .. N PROVE f[n] = InsertStep(f, s, n)
  BY <1>2 DEF InsertUpTo
<1> DEFINE g == [n \in 0 .. N |-> InsertStep(f, s, n)]
<1>4. f = g
  <2>1. f = [n \in 0 .. N |-> f[n]]
    BY <1>2 DEF InsertUpTo
  <2>2. QED
    BY <1>3, <2>1
<1>5. QED
  BY <1>4 DEF IsInsert

LEMMA QsortDef ==
  ASSUME NEW s, Len(s) \in Nat
  PROVE  \E f : /\ qsort(s) = f[Len(s)]
                /\ \A n \in 0 .. Len(s) : f[n] = InsertStep(f, s, n)
<1> DEFINE f == CHOOSE f : IsInsert(f, s, Len(s))
<1>1. IsInsert(f, s, Len(s))
  BY InsertExists
<1>2. qsort(s) = f[Len(s)]
  BY DEF qsort, IsInsert, InsertStep, Inserted, InsertedAt, Fits
<1> HIDE DEF f
<1>3. \A n \in 0 .. Len(s) : f[n] = InsertStep(f, s, n)
  BY <1>1 DEF IsInsert
<1>4. QED
  BY <1>2, <1>3

LEMMA JoinedIs ==
  ASSUME NEW S, NEW a \in Seq(S), NEW b \in Seq(S)
  PROVE  /\ a \o b \in Seq(S) /\ Len(a \o b) = Len(a) + Len(b)
         /\ \A j \in 1 .. Len(a) : (a \o b)[j] = a[j]
         /\ \A j \in Len(a) + 1 .. Len(a) + Len(b) : (a \o b)[j] = b[j - Len(a)]
<1>1. a \o b \in Seq(S) /\ Len(a \o b) = Len(a) + Len(b)
  OBVIOUS
<1>2. ASSUME NEW j \in 1 .. Len(a) PROVE (a \o b)[j] = a[j]
  OBVIOUS
<1>3. ASSUME NEW j \in Len(a) + 1 .. Len(a) + Len(b) PROVE (a \o b)[j] = b[j - Len(a)]
  OBVIOUS
<1>4. QED
  BY <1>1, <1>2, <1>3

LEMMA InsertedIs ==
  ASSUME NEW S, NEW u \in Seq(S), NEW n \in Nat \ {0}, Len(u) = n - 1, NEW kv \in S,
         NEW i \in 0 .. n - 1
  PROVE  LET v == InsertedAt(u, kv, i, n)
         IN /\ v \in Seq(S) /\ Len(v) = n /\ v[i + 1] = kv
            /\ \A j \in 1 .. i : v[j] = u[j]
            /\ \A j \in i + 2 .. n : v[j] = u[j - 1]
<1> DEFINE v == InsertedAt(u, kv, i, n)
<1> DEFINE a == SubSeq(u, 1, i)  c == SubSeq(u, i + 1, n - 1)  b == a \o <<kv>>
<1>1. i \in Int /\ i + 1 \in Int /\ n - 1 \in Int /\ 1 \in Int
  OBVIOUS
<1>2. /\ \A j \in 1 .. i : u[j] \in S
      /\ \A j \in i + 1 .. n - 1 : u[j] \in S
  BY <1>1
<1>3. a \in Seq(S) /\ Len(a) = i /\ \A j \in 1 .. i : a[j] = u[j]
  <2>1. /\ a \in Seq(S)
        /\ Len(a) = IF 1 <= i THEN i - 1 + 1 ELSE 0
        /\ \A j \in 1 .. i - 1 + 1 : a[j] = u[1 + j - 1]
    BY <1>1, <1>2, SubSeqProperties
  <2> HIDE DEF a
  <2>2. QED
    BY <2>1
<1>4. c \in Seq(S) /\ Len(c) = n - 1 - i /\ \A j \in 1 .. n - 1 - i : c[j] = u[i + j]
  <2>1. /\ c \in Seq(S)
        /\ Len(c) = IF i + 1 <= n - 1 THEN n - 1 - (i + 1) + 1 ELSE 0
        /\ \A j \in 1 .. n - 1 - (i + 1) + 1 : c[j] = u[i + 1 + j - 1]
    BY <1>1, <1>2, SubSeqProperties
  <2> HIDE DEF c
  <2>2. QED
    <3>1. /\ n - 1 - (i + 1) + 1 = n - 1 - i
          /\ (IF i + 1 <= n - 1 THEN n - 1 - (i + 1) + 1 ELSE 0) = n - 1 - i
          /\ \A j \in 1 .. n - 1 - i : i + 1 + j - 1 = i + j
      OBVIOUS
    <3>2. QED
      BY <2>1, <3>1
<1> HIDE DEF a, c
<1>5. b \in Seq(S) /\ Len(b) = i + 1 /\ b[i + 1] = kv /\ \A j \in 1 .. i : b[j] = a[j]
  BY <1>3
<1> HIDE DEF b
<1>6. v = b \o c
  BY DEF InsertedAt, b, a, c
<1> HIDE DEF v
<1>7. /\ v \in Seq(S) /\ Len(v) = n /\ \A j \in 1 .. i + 1 : v[j] = b[j]
      /\ \A j \in i + 2 .. n : v[j] = c[j - (i + 1)]
  <2>1. b \in Seq(S) /\ c \in Seq(S)
    BY <1>4, <1>5
  <2>2. /\ b \o c \in Seq(S) /\ Len(b \o c) = Len(b) + Len(c)
        /\ \A j \in 1 .. Len(b) : (b \o c)[j] = b[j]
        /\ \A j \in Len(b) + 1 .. Len(b) + Len(c) : (b \o c)[j] = c[j - Len(b)]
    BY <2>1, JoinedIs, Zenon
  <2>3. Len(b) = i + 1 /\ Len(b) + Len(c) = n /\ Len(b) + 1 = i + 2
    BY <1>4, <1>5
  <2>4. QED
    BY <1>6, <2>2, <2>3
<1>8. \A j \in i + 2 .. n : v[j] = u[j - 1]
  <2> TAKE j \in i + 2 .. n
  <2>1. j - (i + 1) \in 1 .. n - 1 - i /\ i + (j - (i + 1)) = j - 1
    OBVIOUS
  <2>2. c[j - (i + 1)] = u[i + (j - (i + 1))]
    BY <1>4, <2>1
  <2>3. QED
    BY <1>7, <2>1, <2>2
<1>9. /\ v \in Seq(S) /\ Len(v) = n /\ v[i + 1] = kv
      /\ \A j \in 1 .. i : v[j] = u[j]
      /\ \A j \in i + 2 .. n : v[j] = u[j - 1]
  BY <1>3, <1>5, <1>7, <1>8
<1>10. QED
  BY <1>9 DEF v

(* The first n entries of s, sorted. *)
Arranged(u, s, n) ==
  /\ Len(u) = n /\ Sorted(u)
  /\ \A j \in 1 .. n : \E i \in 1 .. n : u[j] = s[i]
  /\ \A j, k \in 1 .. n : j # k => \E i, l \in 1 .. n : i # l /\ u[j] = s[i] /\ u[k] = s[l]
  /\ \A i \in 1 .. n : \E j \in 1 .. n : u[j] = s[i]

LEMMA ArrangedNext ==
  ASSUME NEW S, \A e \in S : e.key \in Int, NEW s, NEW n \in Nat \ {0}, s[n] \in S,
         NEW u \in Seq(S), Arranged(u, s, n - 1), NEW v \in Inserted(u, s[n], n)
  PROVE  v \in Seq(S) /\ Arranged(v, s, n)
<1>1. PICK p \in 0 .. n - 1 : Fits(u, s[n], p) /\ v = InsertedAt(u, s[n], p, n)
  BY DEF Inserted
<1>2. /\ \A j \in 1 .. n - 1 : \E i \in 1 .. n - 1 : u[j] = s[i]
      /\ \A j, k \in 1 .. n - 1 : j # k =>
           \E i, l \in 1 .. n - 1 : i # l /\ u[j] = s[i] /\ u[k] = s[l]
      /\ \A i \in 1 .. n - 1 : \E j \in 1 .. n - 1 : u[j] = s[i]
  BY DEF Arranged
<1>3. Len(u) = n - 1 /\ Sorted(u) /\ p \in Nat /\ p <= n - 1 /\ n \in Nat
  BY DEF Arranged
<1>4. /\ v \in Seq(S) /\ Len(v) = n /\ v[p + 1] = s[n]
      /\ \A j \in 1 .. p : v[j] = u[j]
      /\ \A j \in p + 2 .. n : v[j] = u[j - 1]
  <2>1. LET x == InsertedAt(u, s[n], p, n)
        IN /\ x \in Seq(S) /\ Len(x) = n /\ x[p + 1] = s[n]
           /\ \A j \in 1 .. p : x[j] = u[j]
           /\ \A j \in p + 2 .. n : x[j] = u[j - 1]
    BY <1>3, InsertedIs
  <2>2. QED
    BY <1>1, <2>1
<1> DEFINE Old(j) == IF j <= p THEN j ELSE j - 1
<1>5. ASSUME NEW j \in 1 .. n, j # p + 1 PROVE Old(j) \in 1 .. n - 1 /\ v[j] = u[Old(j)]
  <2>1. CASE j <= p
    <3>1. j \in 1 .. p /\ j \in 1 .. n - 1 /\ Old(j) = j
      BY <1>3, <2>1
    <3>2. QED
      BY <1>4, <3>1
  <2>2. CASE ~(j <= p)
    <3>1. j \in p + 2 .. n /\ j - 1 \in 1 .. n - 1 /\ Old(j) = j - 1
      BY <1>5, <1>3, <2>2
    <3>2. QED
      BY <1>4, <3>1
  <2>3. QED
    BY <2>1, <2>2
<1>6. \A j, k \in 1 .. n : j # k /\ j # p + 1 /\ k # p + 1 => Old(j) # Old(k)
  OBVIOUS
<1>7. \A j \in 1 .. n - 1 : \E k \in 1 .. n : v[k] = u[j]
  <2> TAKE j \in 1 .. n - 1
  <2>1. CASE j <= p
    <3>1. j \in 1 .. p /\ j \in 1 .. n
      BY <1>3, <2>1
    <3>2. v[j] = u[j]
      BY <1>4, <3>1
    <3>3. QED
      BY <3>1, <3>2
  <2>2. CASE ~(j <= p)
    <3>1. j + 1 \in p + 2 .. n /\ j + 1 - 1 = j /\ j + 1 \in 1 .. n
      BY <1>3, <2>2
    <3>2. v[j + 1] = u[j + 1 - 1]
      BY <1>4, <3>1
    <3>3. QED
      BY <3>1, <3>2
  <2>3. QED
    BY <2>1, <2>2
<1>8. n \in 1 .. n /\ p + 1 \in 1 .. n /\ \A i \in 1 .. n - 1 : i \in 1 .. n /\ i # n
  OBVIOUS
<1>9. \A i \in 1 .. n : i # n => i \in 1 .. n - 1
  OBVIOUS
<1>10. Sorted(v)
  <2>1. \A j \in 1 .. n - 1 : u[j].key \in Int
    <3>1. \A j \in 1 .. Len(u) : u[j] \in S
      OBVIOUS
    <3>2. QED
      BY <1>3, <3>1
  <2>2. \A j, k \in 1 .. n - 1 : j <= k => u[j].key <= u[k].key
    BY <1>3 DEF Sorted
  <2>3. s[n].key \in Int
    OBVIOUS
  <2>4. \A j \in 1 .. n - 1 : /\ j <= p => u[j].key <= s[n].key
                              /\ ~(j <= p) => s[n].key <= u[j].key
    <3> TAKE j \in 1 .. n - 1
    <3>1. CASE j <= p
      <4>1. p \in 1 .. n - 1 /\ u[p].key <= s[n].key
        BY <1>1, <3>1 DEF Fits
      <4>2. u[j].key <= u[p].key /\ u[j].key \in Int /\ u[p].key \in Int
        BY <2>1, <2>2, <3>1, <4>1
      <4>3. QED
        BY <2>3, <3>1, <4>1, <4>2
    <3>2. CASE ~(j <= p)
      <4>1. p + 1 \in 1 .. n - 1 /\ p + 1 <= j
        BY <3>2
      <4>2. s[n].key <= u[p + 1].key
        BY <1>1, <1>3, <4>1 DEF Fits
      <4>3. u[p + 1].key <= u[j].key /\ u[j].key \in Int /\ u[p + 1].key \in Int
        BY <2>1, <2>2, <4>1
      <4>4. QED
        BY <2>3, <3>2, <4>2, <4>3
    <3>3. QED
      BY <3>1, <3>2
  <2>5. ASSUME NEW j \in 1 .. n, NEW k \in 1 .. n, j <= k PROVE v[j].key <= v[k].key
    <3>1. CASE j # p + 1 /\ k # p + 1
      <4>1. /\ Old(j) \in 1 .. n - 1 /\ v[j] = u[Old(j)] /\ Old(k) \in 1 .. n - 1 /\ v[k] = u[Old(k)]
            /\ Old(j) <= Old(k)
        BY <1>5, <2>5, <3>1
      <4> HIDE DEF Old
      <4>2. QED
        BY <2>2, <4>1
    <3>2. CASE j = p + 1 /\ k # p + 1
      <4>1. Old(k) \in 1 .. n - 1 /\ v[k] = u[Old(k)] /\ ~(Old(k) <= p)
        BY <1>5, <2>5, <3>2
      <4> HIDE DEF Old
      <4>2. QED
        BY <1>4, <2>4, <3>2, <4>1
    <3>3. CASE j # p + 1 /\ k = p + 1
      <4>1. Old(j) \in 1 .. n - 1 /\ v[j] = u[Old(j)] /\ Old(j) <= p
        BY <1>5, <2>5, <3>3
      <4> HIDE DEF Old
      <4>2. QED
        BY <1>4, <2>4, <3>3, <4>1
    <3>4. CASE j = p + 1 /\ k = p + 1
      BY <1>4, <2>3, <3>4
    <3>5. QED
      BY <3>1, <3>2, <3>3, <3>4
  <2>6. QED
    BY <1>4, <2>5 DEF Sorted
<1> HIDE DEF Old
<1>11. \A j \in 1 .. n : \E i \in 1 .. n : v[j] = s[i]
  <2> TAKE j \in 1 .. n
  <2>1. CASE j = p + 1
    BY <1>4, <1>8, <2>1
  <2>2. CASE j # p + 1
    <3>1. Old(j) \in 1 .. n - 1 /\ v[j] = u[Old(j)]
      BY <1>5, <2>2
    <3>2. PICK i \in 1 .. n - 1 : u[Old(j)] = s[i]
      BY <1>2, <3>1
    <3>3. QED
      BY <1>8, <3>1, <3>2
  <2>3. QED
    BY <2>1, <2>2
<1>12. ASSUME NEW j \in 1 .. n, NEW k \in 1 .. n, j # k
       PROVE  \E i, l \in 1 .. n : i # l /\ v[j] = s[i] /\ v[k] = s[l]
  <2>1. CASE j = p + 1
    <3>1. Old(k) \in 1 .. n - 1 /\ v[k] = u[Old(k)]
      BY <1>5, <1>12, <2>1
    <3>2. PICK l \in 1 .. n - 1 : u[Old(k)] = s[l]
      BY <1>2, <3>1
    <3>3. v[j] = s[n] /\ n \in 1 .. n /\ l \in 1 .. n /\ n # l
      BY <1>4, <1>8, <2>1
    <3>4. QED
      BY <3>1, <3>2, <3>3
  <2>2. CASE k = p + 1
    <3>1. Old(j) \in 1 .. n - 1 /\ v[j] = u[Old(j)]
      BY <1>5, <1>12, <2>2
    <3>2. PICK i \in 1 .. n - 1 : u[Old(j)] = s[i]
      BY <1>2, <3>1
    <3>3. v[k] = s[n] /\ n \in 1 .. n /\ i \in 1 .. n /\ n # i
      BY <1>4, <1>8, <2>2
    <3>4. QED
      BY <3>1, <3>2, <3>3
  <2>3. CASE j # p + 1 /\ k # p + 1
    <3>1. /\ Old(j) \in 1 .. n - 1 /\ v[j] = u[Old(j)] /\ Old(k) \in 1 .. n - 1 /\ v[k] = u[Old(k)]
          /\ Old(j) # Old(k)
      BY <1>5, <1>6, <1>12, <2>3
    <3>2. PICK i \in 1 .. n - 1, l \in 1 .. n - 1 : i # l /\ u[Old(j)] = s[i] /\ u[Old(k)] = s[l]
      BY <1>2, <3>1
    <3>3. QED
      BY <1>8, <3>1, <3>2
  <2>4. QED
    BY <2>1, <2>2, <2>3
<1>13. \A i \in 1 .. n : \E j \in 1 .. n : v[j] = s[i]
  <2> TAKE i \in 1 .. n
  <2>1. CASE i = n
    BY <1>4, <1>8, <2>1
  <2>2. CASE i # n
    <3>1. PICK j \in 1 .. n - 1 : u[j] = s[i]
      BY <1>2, <1>9, <2>2
    <3>2. QED
      BY <1>7, <3>1
  <2>3. QED
    BY <2>1, <2>2
<1>14. QED
  BY <1>4, <1>10, <1>11, <1>12, <1>13 DEF Arranged

(* What qsort gives is sorted and has the entries it was given. *)
LEMMA QsortIs ==
  ASSUME NEW S, \A e \in S : e.key \in Int, NEW s \in Seq(S), NEW u \in qsort(s)
  PROVE  u \in Seq(S) /\ Arranged(u, s, Len(s))
<1> DEFINE N == Len(s)
<1>1. N \in Nat /\ \A n \in 1 .. N : s[n] \in S
  OBVIOUS
<1>2. PICK f : /\ qsort(s) = f[N]
               /\ \A n \in 0 .. N : f[n] = InsertStep(f, s, n)
  BY <1>1, QsortDef
<1> HIDE DEF N
<1> DEFINE Good(n) == \A x \in f[n] : x \in Seq(S) /\ Arranged(x, s, n)
           B == {n \in 0 .. N : ~Good(n)}
<1>3. B = {}
  <2> SUFFICES ASSUME B # {} PROVE FALSE
    OBVIOUS
  <2>1. PICK n \in B : \A m \in B : n <= m
    <3>1. B \in SUBSET Nat
      OBVIOUS
    <3> HIDE DEF B
    <3>2. QED
      BY <3>1, LeastOf
  <2>2. CASE n = 0
    <3>1. f[0] = {<<>>}
      BY <1>1, <1>2, <2>2 DEF InsertStep
    <3>2. <<>> \in Seq(S) /\ Len(<<>>) = 0
      OBVIOUS
    <3>3. Arranged(<<>>, s, 0)
      BY <3>2 DEF Arranged, Sorted
    <3>4. QED
      BY <2>1, <2>2, <3>1, <3>2, <3>3
  <2>3. CASE n # 0
    <3>1. n - 1 \in 0 .. N /\ n - 1 \notin B /\ n \in Nat \ {0} /\ n \in 1 .. N
      BY <1>1, <2>1, <2>3
    <3>2. Good(n - 1)
      BY <3>1
    <3>3. f[n] = UNION {Inserted(x, s[n], n) : x \in f[n - 1]}
      BY <1>2, <3>1 DEF InsertStep
    <3>4. s[n] \in S
      BY <1>1, <3>1
    <3>5. ASSUME NEW v \in f[n] PROVE v \in Seq(S) /\ Arranged(v, s, n)
      <4>1. PICK x \in f[n - 1] : v \in Inserted(x, s[n], n)
        BY <3>3
      <4>2. x \in Seq(S) /\ Arranged(x, s, n - 1)
        BY <3>2
      <4>3. QED
        BY <3>1, <3>4, <4>1, <4>2, ArrangedNext
    <3>6. QED
      BY <2>1, <3>5
  <2>4. QED
    BY <2>2, <2>3
<1>4. N \in 0 .. N
  BY <1>1
<1>5. Good(N)
  BY <1>3, <1>4
<1>6. QED
  BY <1>2, <1>5 DEF N

-----------------------------------------------------------------------------
(* What two entries of u may have in common: they come from two places of   *)
(* s, from two places of t, or one is boxed.                                 *)
FromTwo(u, s, t, j, k) ==
  \/ u[j].boxed \/ u[k].boxed
  \/ \E i, l \in 1 .. Len(s) : i # l /\ u[j] = s[i] /\ u[k] = s[l]
  \/ \E i, l \in 1 .. Len(t) : i # l /\ u[j] = t[i] /\ u[k] = t[l]

Merged(u, s, t) ==
  /\ \A i \in 1 .. Len(s) : \E j \in 1 .. Len(u) : u[j] = s[i]
  /\ \A i \in 1 .. Len(t) : \E j \in 1 .. Len(u) : u[j].key = t[i].key
  /\ \A j, k \in 1 .. Len(u) : j # k /\ u[j].key = u[k].key => FromTwo(u, s, t, j, k)

(* KonohaSpace_mergeConstData. *)
LEMMA MergedIs ==
  ASSUME NEW S, \A e \in S : e.key \in Int, NEW s \in Seq(S), Sorted(s),
         NEW t \in Seq(S), NEW u \in mergeConstData(s, t)
  PROVE  u \in Seq(S) /\ Sorted(u) /\ Merged(u, s, t)
<1> DEFINE I == {i \in 1 .. Len(t) : s = <<>> \/ ~checkConflicted(s, t[i])}
           r == Appended(s, t, I)
<1>1. Len(s) \in Nat /\ Len(t) \in Nat
  OBVIOUS
<1>2. CASE t = <<>>
  <2>1. u = s
    BY <1>2 DEF mergeConstData
  <2>2. Len(t) = 0
    BY <1>2
  <2>3. Merged(s, s, t)
    BY <1>1, <2>2 DEF Merged, FromTwo
  <2>4. QED
    BY <2>1, <2>3
<1>3. CASE t # <<>>
  <2>1. u \in qsort(r)
    BY <1>3 DEF mergeConstData
  <2>2. I \in SUBSET (1 .. Len(t)) /\ I \cap (1 .. Len(t)) = I
    OBVIOUS
  <2>3. \A i \in I : s = <<>> \/ ~checkConflicted(s, t[i])
    OBVIOUS
  <2>4. \A i \in 1 .. Len(t) : i \notin I => s # <<>> /\ checkConflicted(s, t[i])
    OBVIOUS
  <2> HIDE DEF I
  <2>5. \A i \in 1 .. Len(t) : t[i] \in S
    OBVIOUS
  <2>6. r \in Seq(S) /\ Extended(r, s, t, I, Len(t))
    BY <1>1, <2>2, <2>5, AppendedIs
  <2> HIDE DEF r
  <2>7. u \in Seq(S) /\ Arranged(u, r, Len(r))
    BY <2>1, <2>6, QsortIs
  <2>8. \A i \in 1 .. Len(s) : s[i].key \in Int
    OBVIOUS
  <2>9. \A i \in 1 .. Len(t) : t[i].key \in Int
    BY <2>5
  <2>10. /\ Len(r) \in Nat /\ Len(u) = Len(r) /\ Sorted(u)
         /\ \A j, k \in 1 .. Len(r) : j # k => \E i, l \in 1 .. Len(r) : i # l /\ u[j] = r[i] /\ u[k] = r[l]
         /\ \A i \in 1 .. Len(r) : \E j \in 1 .. Len(r) : u[j] = r[i]
    <3>1. Len(r) \in Nat
      BY <2>6
    <3>2. QED
      BY <2>7, <3>1, Zenon DEF Arranged
  <2>11. /\ Len(s) <= Len(r) /\ \A j \in 1 .. Len(s) : r[j] = s[j]
         /\ \A j \in Len(s) + 1 .. Len(r) : \E i \in I : r[j] = t[i]
         /\ \A j, k \in Len(s) + 1 .. Len(r) : j # k =>
              \E i, l \in I : i # l /\ r[j] = t[i] /\ r[k] = t[l]
         /\ \A i \in I : \E j \in Len(s) + 1 .. Len(r) : r[j] = t[i]
    <3> DEFINE J == I \cap (1 .. Len(t))
    <3>1. /\ Len(s) <= Len(r) /\ \A j \in 1 .. Len(s) : r[j] = s[j]
          /\ \A j \in Len(s) + 1 .. Len(r) : \E i \in J : r[j] = t[i]
          /\ \A j, k \in Len(s) + 1 .. Len(r) : j # k =>
               \E i, l \in J : i # l /\ r[j] = t[i] /\ r[k] = t[l]
          /\ \A i \in J : \E j \in Len(s) + 1 .. Len(r) : r[j] = t[i]
      BY <2>6, Zenon DEF Extended
    <3>2. J = I
      BY <2>2
    <3> HIDE DEF J
    <3>3. QED
      BY <3>1, <3>2
  <2>12. /\ Len(s) \in Nat /\ Len(r) \in Nat /\ Len(s) <= Len(r)
         /\ \A j \in 1 .. Len(s) : r[j] = s[j]
    <3>1. Len(s) \in Nat /\ Len(r) \in Nat
      BY <1>1, <2>6
    <3>2. QED
      BY <2>11, <3>1, Zenon
  <2>13. \A i \in 1 .. Len(s) : \E j \in 1 .. Len(u) : u[j] = s[i]
    <3> TAKE i \in 1 .. Len(s)
    <3>1. i \in 1 .. Len(r) /\ r[i] = s[i]
      BY <2>12
    <3>2. QED
      BY <2>10, <3>1
  <2>14. \A i \in 1 .. Len(t) : \E j \in 1 .. Len(u) : u[j].key = t[i].key
    <3> TAKE i \in 1 .. Len(t)
    <3>1. CASE i \in I
      <4>1. PICK j \in Len(s) + 1 .. Len(r) : r[j] = t[i]
        BY <2>11, <3>1
      <4>2. j \in 1 .. Len(r)
        BY <2>12
      <4>3. PICK k \in 1 .. Len(r) : u[k] = r[j]
        BY <2>10, <4>2
      <4>4. QED
        BY <2>10, <4>1, <4>3
    <3>2. CASE i \notin I
      <4>1. getConst(s, t[i].key) # 0
        BY <2>4, <3>2 DEF checkConflicted
      <4>2. LET g == getConst(s, t[i].key) IN g \in 1 .. Len(s) /\ s[g].key = t[i].key
        BY <1>1, <2>8, <2>9, <4>1, GetConstFinds
      <4>3. PICK j \in 1 .. Len(u) : u[j] = s[getConst(s, t[i].key)]
        BY <2>13, <4>2
      <4>4. QED
        BY <4>2, <4>3
    <3>3. QED
      BY <3>1, <3>2
  <2>15. ASSUME NEW i \in 1 .. Len(s), NEW l \in I, s[i].key = t[l].key
         PROVE  t[l].boxed
    <3>1. l \in 1 .. Len(t) /\ Len(s) # 0
      BY <1>1, <2>2
    <3>2. s # <<>>
      BY <3>1
    <3>3. ~checkConflicted(s, t[l])
      BY <2>3, <3>2
    <3>4. getConst(s, t[l].key) # 0
      BY <1>1, <2>8, <2>9, <2>15, <3>1, GetConstFinds
    <3>5. QED
      BY <3>3, <3>4 DEF checkConflicted
  <2>16. ASSUME NEW j \in 1 .. Len(u), NEW k \in 1 .. Len(u), j # k, u[j].key = u[k].key
         PROVE  FromTwo(u, s, t, j, k)
    <3>1. PICK i \in 1 .. Len(r), l \in 1 .. Len(r) : i # l /\ u[j] = r[i] /\ u[k] = r[l]
      BY <2>10, <2>16
    <3>2. CASE i <= Len(s) /\ l <= Len(s)
      <4>1. i \in 1 .. Len(s) /\ l \in 1 .. Len(s) /\ u[j] = s[i] /\ u[k] = s[l]
        BY <2>12, <3>1, <3>2
      <4>2. QED
        BY <3>1, <4>1 DEF FromTwo
    <3>3. CASE i <= Len(s) /\ ~(l <= Len(s))
      <4>1. i \in 1 .. Len(s) /\ u[j] = s[i]
        BY <2>12, <3>1, <3>3
      <4>2. l \in Len(s) + 1 .. Len(r)
        BY <2>12, <3>3
      <4>3. PICK m \in I : u[k] = t[m]
        BY <2>11, <3>1, <4>2
      <4>4. QED
        BY <2>15, <2>16, <4>1, <4>3 DEF FromTwo
    <3>4. CASE ~(i <= Len(s)) /\ l <= Len(s)
      <4>1. l \in 1 .. Len(s) /\ u[k] = s[l]
        BY <2>12, <3>1, <3>4
      <4>2. i \in Len(s) + 1 .. Len(r)
        BY <2>12, <3>4
      <4>3. PICK m \in I : u[j] = t[m]
        BY <2>11, <3>1, <4>2
      <4>4. QED
        BY <2>15, <2>16, <4>1, <4>3 DEF FromTwo
    <3>5. CASE ~(i <= Len(s)) /\ ~(l <= Len(s))
      <4>1. i \in Len(s) + 1 .. Len(r) /\ l \in Len(s) + 1 .. Len(r)
        <5>1. PICK p \in Nat, q \in Nat : p = Len(s) /\ q = Len(r)
          BY <1>1, <2>10
        <5>2. i \in 1 .. q /\ l \in 1 .. q /\ ~(i <= p) /\ ~(l <= p)
          BY <3>5, <5>1
        <5>3. i \in p + 1 .. q /\ l \in p + 1 .. q
          BY ONLY <5>2, p \in Nat, q \in Nat
        <5>4. QED
          BY <5>1, <5>3
      <4>2. PICK m \in I, n \in I : m # n /\ r[i] = t[m] /\ r[l] = t[n]
        BY <2>11, <3>1, <4>1
      <4>3. m \in 1 .. Len(t) /\ n \in 1 .. Len(t)
        BY <2>2
      <4>4. QED
        BY <3>1, <4>2, <4>3 DEF FromTwo
    <3>6. QED
      BY <3>2, <3>3, <3>4, <3>5
  <2>17. Merged(u, s, t)
    BY <2>13, <2>14, <2>16 DEF Merged
  <2>18. QED
    BY <2>7, <2>10, <2>17
<1>4. QED
  BY <1>2, <1>3

-----------------------------------------------------------------------------
(* What the tables of constants and the class table keep. *)
Entry(n) == [key : Nat, boxed : BOOLEAN, val : ({"class"} \X (1 .. n)) \cup ({"const"} \X Nat)]
Reloaded(c) == \E s, t \in 1 .. Len(spaces) : s # t /\ spaces[s].pack = c /\ spaces[t].pack = c

(* Two entries of a table that may have the same key. *)
Alike(a, b) ==
  \/ a.boxed \/ b.boxed
  \/ a.val[1] = "const" /\ a.val = b.val
  \/ /\ a.val[1] = "class" /\ b.val[1] = "class"
     /\ ca[a.val[2]].pack = ca[b.val[2]].pack /\ Reloaded(ca[a.val[2]].pack)

Listed(kvs) ==
  /\ kvs \in Seq(Entry(Len(ca)))
  /\ \A i, j \in 1 .. Len(kvs) : i # j /\ kvs[i].key = kvs[j].key => Alike(kvs[i], kvs[j])

SpacesGood ==
  /\ Len(spaces) \in Nat \ {0}
  /\ \A s \in 1 .. Len(spaces) :
       /\ spaces[s] = [pack |-> spaces[s].pack, cl |-> spaces[s].cl]
       /\ Listed(spaces[s].cl) /\ Sorted(spaces[s].cl)

(* Classes of one name and package are there because it was loaded again. *)
ClassesGood ==
  /\ ca \in Seq([key : Nat, pack : Nat])
  /\ \A i \in 1 .. Len(ca) : \E s \in 1 .. Len(spaces) : spaces[s].pack = ca[i].pack
  /\ \A i, j \in 1 .. Len(ca) :
       i # j /\ ca[i].key = ca[j].key /\ ca[i].pack = ca[j].pack => Reloaded(ca[i].pack)

(* The names of a loaded package are seen where a frame merged it. *)
SeenBy(f) ==
  /\ f.into # 0 /\ Packs(Code(f.pack)) # {}
  /\ Keys(spaces[Pack(Code(f.pack))].cl) \subseteq Keys(spaces[f.into].cl)
  /\ f.pack # PN_konoha =>
       \A i \in 1 .. Len(ca) : ca[i].pack = Code(f.pack) => ca[i].key \in Keys(spaces[f.into].cl)

FrameGood(f) ==
  /\ f.into \in 0 .. Len(spaces)
  /\ f.at \in Loading =>
       /\ f.own \in 2 .. Len(spaces) /\ spaces[f.own].pack = Code(f.pack)
       /\ \A i \in 1 .. Len(packageMapNO) : packageMapNO[i].space # f.own
  /\ f.at = "require" =>
       /\ spaces[f.own].cl = <<>>
       /\ \A i \in 1 .. Len(ca) : ca[i].pack = Code(f.pack) => Reloaded(Code(f.pack))
  /\ f.at = "export" => SeenBy(f)

FramesGood == \A d \in 1 .. Len(stack) : FrameGood(stack[d])

(* Each frame that loads has a name space of its own; an import merges into *)
(* the program's or that of the script below it that made it.               *)
Nested(s) ==
  /\ \A c, d \in 1 .. Len(s) : c # d /\ s[c].at \in Loading /\ s[d].at \in Loading => s[c].own # s[d].own
  /\ \A d \in 1 .. Len(s) : s[d].into > 1 =>
       \E c \in 1 .. d - 1 : s[c].at = "script" /\ s[c].own = s[d].into

TableSpaces == \A i \in 1 .. Len(packageMapNO) : packageMapNO[i].space \in 2 .. Len(spaces)

NamesInv == SpacesGood /\ ClassesGood /\ FramesGood /\ Nested(stack) /\ TableSpaces

-----------------------------------------------------------------------------
LEMMA ClassFields ==
  ASSUME ClassesGood
  PROVE  Len(ca) \in Nat /\ \A i \in 1 .. Len(ca) : ca[i].key \in Nat /\ ca[i].pack \in Nat
<1>1. PICK C : ca \in Seq(C) /\ \A c \in C : c.key \in Nat /\ c.pack \in Nat
  <2>1. ca \in Seq([key : Nat, pack : Nat])
    BY DEF ClassesGood
  <2>2. \A c \in [key : Nat, pack : Nat] : c.key \in Nat /\ c.pack \in Nat
    OBVIOUS
  <2>3. QED
    BY <2>1, <2>2
<1>2. Len(ca) \in Nat /\ \A i \in 1 .. Len(ca) : ca[i] \in C
  BY <1>1
<1>3. QED
  BY <1>1, <1>2

LEMMA ClassNamesAre ==
  ASSUME ClassesGood, NEW name
  PROVE  /\ Listed(ClassNames(name))
         /\ name = PN_konoha => Len(ClassNames(name)) = 0
         /\ name # PN_konoha =>
              \A i \in 1 .. Len(ca) : ca[i].pack = Code(name) =>
                \E j \in 1 .. Len(ClassNames(name)) : ClassNames(name)[j].key = ca[i].key
         /\ \A j \in 1 .. Len(ClassNames(name)) :
              \E i \in 1 .. Len(ca) : ca[i].pack = Code(name) /\ ClassNames(name)[j].key = ca[i].key
<1>1. Len(ca) \in Nat /\ \A i \in 1 .. Len(ca) : ca[i].key \in Nat /\ ca[i].pack \in Nat
  BY ClassFields
<1> DEFINE N == Len(ca)
           kvs == [i \in 1 .. Len(ca) |-> [key |-> ca[i].key, boxed |-> FALSE, val |-> <<"class", i>>]]
           I == {i \in 1 .. Len(ca) : ca[i].pack = Code(name)}
           r == Appended(<<>>, kvs, I)
<1>2. \A i \in 1 .. N : /\ kvs[i] \in Entry(N) /\ kvs[i].key = ca[i].key /\ ~kvs[i].boxed
                        /\ kvs[i].val = <<"class", i>>
  BY <1>1 DEF Entry
<1>3. Len(kvs) = N /\ I \cap (1 .. N) = I
  BY <1>1
<1>4. \A i \in 1 .. N : i \in I <=> ca[i].pack = Code(name)
  OBVIOUS
<1>5. I \subseteq 1 .. N
  OBVIOUS
<1>6. ClassNames(name) = IF name = PN_konoha THEN <<>> ELSE r
  BY DEF ClassNames
<1> HIDE DEF kvs, I
<1>7. r \in Seq(Entry(N)) /\ Extended(r, <<>>, kvs, I, N)
  <2>1. <<>> \in Seq(Entry(N)) /\ Len(kvs) \in Nat
    BY <1>1, <1>3
  <2>2. \A i \in I \cap (1 .. Len(kvs)) : kvs[i] \in Entry(N)
    BY <1>2, <1>3
  <2> HIDE DEF N
  <2>3. r \in Seq(Entry(N)) /\ Extended(r, <<>>, kvs, I, Len(kvs))
    BY <2>1, <2>2, AppendedIs
  <2>4. QED
    BY <1>3, <2>3
<1> HIDE DEF r
<1>8. /\ \A j \in 1 .. Len(r) : \E i \in I : r[j] = kvs[i]
      /\ \A j, k \in 1 .. Len(r) : j # k => \E i, l \in I : i # l /\ r[j] = kvs[i] /\ r[k] = kvs[l]
      /\ \A i \in I : \E j \in 1 .. Len(r) : r[j] = kvs[i]
  <2>1. PICK e : e = <<>> /\ Len(e) = 0
    OBVIOUS
  <2> HIDE DEF N
  <2>2. Extended(r, e, kvs, I, N) /\ Len(e) + 1 = 1
    BY <1>7, <2>1
  <2>3. /\ \A j \in Len(e) + 1 .. Len(r) : \E i \in I \cap (1 .. N) : r[j] = kvs[i]
        /\ \A j, k \in Len(e) + 1 .. Len(r) : j # k =>
             \E i, l \in I \cap (1 .. N) : i # l /\ r[j] = kvs[i] /\ r[k] = kvs[l]
        /\ \A i \in I \cap (1 .. N) : \E j \in Len(e) + 1 .. Len(r) : r[j] = kvs[i]
    BY <2>2, Zenon DEF Extended
  <2>4. Len(e) + 1 .. Len(r) = 1 .. Len(r)
    BY <2>2
  <2> DEFINE P == Len(e) + 1 .. Len(r)  Q == 1 .. Len(r)  J == I \cap (1 .. N)
  <2>5. /\ \A j \in P : \E i \in J : r[j] = kvs[i]
        /\ \A j, k \in P : j # k => \E i, l \in J : i # l /\ r[j] = kvs[i] /\ r[k] = kvs[l]
        /\ \A i \in J : \E j \in P : r[j] = kvs[i]
    BY <2>3
  <2>6. P = Q /\ J = I
    BY <1>3, <2>4
  <2> HIDE DEF P, Q, J
  <2>7. /\ \A j \in Q : \E i \in I : r[j] = kvs[i]
        /\ \A j, k \in Q : j # k => \E i, l \in I : i # l /\ r[j] = kvs[i] /\ r[k] = kvs[l]
        /\ \A i \in I : \E j \in Q : r[j] = kvs[i]
    BY <2>5, <2>6
  <2>8. QED
    BY <2>7 DEF Q
<1>9. ASSUME NEW j \in 1 .. Len(r), NEW k \in 1 .. Len(r), j # k, r[j].key = r[k].key
      PROVE  Alike(r[j], r[k])
  <2>1. PICK i \in I, l \in I : i # l /\ r[j] = kvs[i] /\ r[k] = kvs[l]
    BY <1>8, <1>9
  <2>2. /\ i \in 1 .. N /\ l \in 1 .. N /\ ca[i].key = ca[l].key
        /\ ca[i].pack = ca[l].pack /\ r[j].val = <<"class", i>> /\ r[k].val = <<"class", l>>
    BY <1>2, <1>4, <1>5, <1>9, <2>1
  <2>3. Reloaded(ca[i].pack)
    BY <2>1, <2>2 DEF ClassesGood
  <2>4. r[j].val[1] = "class" /\ r[j].val[2] = i /\ r[k].val[1] = "class" /\ r[k].val[2] = l
    BY <2>2
  <2>5. QED
    BY <2>2, <2>3, <2>4 DEF Alike
<1>10. CASE name = PN_konoha
  <2>1. ClassNames(name) = <<>> /\ Len(<<>>) = 0 /\ <<>> \in Seq(Entry(Len(ca)))
    BY <1>6, <1>10
  <2>2. Listed(<<>>)
    BY <2>1 DEF Listed
  <2>3. QED
    BY <1>10, <2>1, <2>2
<1>11. CASE name # PN_konoha
  <2>1. ClassNames(name) = r
    BY <1>6, <1>11
  <2>2. Listed(r)
    BY <1>7, <1>9 DEF Listed
  <2>3. \A i \in 1 .. Len(ca) : ca[i].pack = Code(name) => \E j \in 1 .. Len(r) : r[j].key = ca[i].key
    <3> SUFFICES ASSUME NEW i \in 1 .. N, ca[i].pack = Code(name)
                 PROVE  \E j \in 1 .. Len(r) : r[j].key = ca[i].key
      OBVIOUS
    <3>1. PICK j \in 1 .. Len(r) : r[j] = kvs[i]
      BY <1>4, <1>8
    <3>2. QED
      BY <1>2, <3>1
  <2>4. \A j \in 1 .. Len(r) : \E i \in 1 .. Len(ca) : ca[i].pack = Code(name) /\ r[j].key = ca[i].key
    <3> TAKE j \in 1 .. Len(r)
    <3>1. PICK i \in I : r[j] = kvs[i]
      BY <1>8
    <3>2. i \in 1 .. N /\ ca[i].pack = Code(name) /\ r[j].key = ca[i].key
      BY <1>2, <1>4, <1>5, <3>1
    <3>3. QED
      BY <3>2
  <2>5. QED
    BY <1>11, <2>1, <2>2, <2>3, <2>4
<1>12. QED
  BY <1>10, <1>11

(* A table with what is merged into it. *)
LEMMA ListedMerge ==
  ASSUME NEW s, Listed(s), Sorted(s), NEW t, Listed(t), NEW u \in mergeConstData(s, t), Len(ca) \in Nat
  PROVE  Listed(u) /\ Sorted(u) /\ Merged(u, s, t)
<1>1. \A e \in Entry(Len(ca)) : e.key \in Int
  BY DEF Entry
<1>2. u \in Seq(Entry(Len(ca))) /\ Sorted(u) /\ Merged(u, s, t)
  BY <1>1, MergedIs DEF Listed
<1>3. ASSUME NEW j \in 1 .. Len(u), NEW k \in 1 .. Len(u), j # k, u[j].key = u[k].key
      PROVE  Alike(u[j], u[k])
  <2>1. FromTwo(u, s, t, j, k)
    BY <1>2, <1>3 DEF Merged
  <2>2. CASE u[j].boxed \/ u[k].boxed
    BY <2>2 DEF Alike
  <2>3. CASE \E i, l \in 1 .. Len(s) : i # l /\ u[j] = s[i] /\ u[k] = s[l]
    BY <1>3, <2>3 DEF Listed
  <2>4. CASE \E i, l \in 1 .. Len(t) : i # l /\ u[j] = t[i] /\ u[k] = t[l]
    BY <1>3, <2>4 DEF Listed
  <2>5. QED
    BY <2>1, <2>2, <2>3, <2>4 DEF FromTwo
<1>4. QED
  BY <1>2, <1>3 DEF Listed

(* Every entry of s is in u. *)
Holds(u, s) == \A i \in 1 .. Len(s) : \E j \in 1 .. Len(u) : u[j] = s[i]

(* KonohaSpace_merge: the names of the package are seen. *)
LEMMA MergeIs ==
  ASSUME SpacesGood, ClassesGood, NEW into \in 1 .. Len(spaces), NEW from \in 1 .. Len(spaces),
         NEW name, NEW u \in merge(spaces[into].cl, name, from)
  PROVE  /\ Listed(u) /\ Sorted(u) /\ Holds(u, spaces[into].cl)
         /\ Keys(spaces[from].cl) \subseteq Keys(u)
         /\ name # PN_konoha =>
              \A i \in 1 .. Len(ca) : ca[i].pack = Code(name) => ca[i].key \in Keys(u)
<1> DEFINE s == spaces[into].cl  t == spaces[from].cl  kvs == ClassNames(name)
<1>1. PICK m \in mergeConstData(s, kvs) : u \in mergeConstData(m, t)
  BY DEF merge
<1>2. Len(ca) \in Nat
  BY DEF ClassesGood
<1>3. Listed(s) /\ Sorted(s) /\ Listed(t)
  BY DEF SpacesGood
<1>4. /\ Listed(kvs)
      /\ name # PN_konoha =>
           \A i \in 1 .. Len(ca) : ca[i].pack = Code(name) => \E j \in 1 .. Len(kvs) : kvs[j].key = ca[i].key
  BY ClassNamesAre
<1> HIDE DEF s, t, kvs
<1>5. Listed(m) /\ Sorted(m) /\ Merged(m, s, kvs)
  BY <1>1, <1>2, <1>3, <1>4, ListedMerge
<1>6. Listed(u) /\ Sorted(u) /\ Merged(u, m, t)
  BY <1>1, <1>2, <1>3, <1>5, ListedMerge
<1>7. Holds(u, s)
  BY <1>5, <1>6 DEF Holds, Merged
<1>8. Keys(t) \subseteq Keys(u)
  <2>1. \A i \in 1 .. Len(t) : t[i].key \in Keys(u)
    BY <1>6 DEF Merged, Keys
  <2>2. QED
    BY <2>1 DEF Keys
<1>9. ASSUME name # PN_konoha, NEW i \in 1 .. Len(ca), ca[i].pack = Code(name)
      PROVE  ca[i].key \in Keys(u)
  <2>1. PICK j \in 1 .. Len(kvs) : kvs[j].key = ca[i].key
    BY <1>4, <1>9
  <2>2. PICK k \in 1 .. Len(m) : m[k].key = kvs[j].key
    BY <1>5 DEF Merged
  <2>3. PICK l \in 1 .. Len(u) : u[l] = m[k]
    BY <1>6 DEF Merged
  <2>4. QED
    BY <2>1, <2>2, <2>3 DEF Keys
<1>10. QED
  BY <1>6, <1>7, <1>8, <1>9 DEF s, t

(* A step may fill the table of name space k, add name spaces and classes    *)
(* of the package with code c; the rest stays.                               *)
StateStep(k, c) ==
  /\ Len(spaces) \in Nat /\ Len(spaces') \in Nat /\ Len(spaces) <= Len(spaces')
  /\ \A s \in 1 .. Len(spaces) : /\ spaces'[s].pack = spaces[s].pack
                                 /\ Holds(spaces'[s].cl, spaces[s].cl)
                                 /\ s # k => spaces'[s] = spaces[s]
  /\ Len(ca) \in Nat /\ Len(ca') \in Nat /\ Len(ca) <= Len(ca')
  /\ \A i \in 1 .. Len(ca) : ca'[i] = ca[i]
  /\ \A i \in 1 .. Len(ca') : i > Len(ca) => ca'[i].pack = c

LEMMA ReloadedKept ==
  ASSUME NEW k, NEW c, StateStep(k, c), NEW p, Reloaded(p)
  PROVE  Reloaded(p)'
<1>1. PICK s \in 1 .. Len(spaces), t \in 1 .. Len(spaces) :
        s # t /\ spaces[s].pack = p /\ spaces[t].pack = p
  BY DEF Reloaded
<1>2. /\ s \in 1 .. Len(spaces') /\ t \in 1 .. Len(spaces')
      /\ spaces'[s].pack = p /\ spaces'[t].pack = p
  BY <1>1 DEF StateStep
<1>3. QED
  BY <1>1, <1>2 DEF Reloaded

LEMMA AlikeKept ==
  ASSUME NEW k, NEW c, StateStep(k, c), NEW a, NEW b, Alike(a, b),
         a.val[1] = "class" => a.val[2] \in 1 .. Len(ca),
         b.val[1] = "class" => b.val[2] \in 1 .. Len(ca)
  PROVE  Alike(a, b)'
<1>1. CASE a.boxed \/ b.boxed \/ (a.val[1] = "const" /\ a.val = b.val)
  BY <1>1 DEF Alike
<1>2. CASE /\ a.val[1] = "class" /\ b.val[1] = "class"
           /\ ca[a.val[2]].pack = ca[b.val[2]].pack /\ Reloaded(ca[a.val[2]].pack)
  <2>1. PICK p : p = ca[a.val[2]].pack
    OBVIOUS
  <2>2. Reloaded(p)'
    BY <1>2, <2>1, ReloadedKept
  <2>3. ca'[a.val[2]].pack = p /\ ca'[b.val[2]].pack = p
    BY <1>2, <2>1 DEF StateStep
  <2>4. QED
    BY <1>2, <2>2, <2>3 DEF Alike, Reloaded
<1>3. QED
  BY <1>1, <1>2 DEF Alike

LEMMA EntryFields ==
  ASSUME NEW n \in Nat, NEW e \in Entry(n)
  PROVE  /\ e.val[1] = "class" => e.val[2] \in 1 .. n
         /\ e.key \in Nat
         /\ \A m \in Nat : n <= m => e \in Entry(m)
<1>1. e \in [key : Nat, boxed : BOOLEAN, val : ({"class"} \X (1 .. n)) \cup ({"const"} \X Nat)]
  BY DEF Entry
<1>2. e.val \in ({"class"} \X (1 .. n)) \cup ({"const"} \X Nat)
  BY <1>1
<1>3. e.val[1] = "class" => e.val[2] \in 1 .. n
  BY <1>2
<1>4. \A m \in Nat : n <= m => e.val \in ({"class"} \X (1 .. m)) \cup ({"const"} \X Nat)
  BY <1>2
<1>5. QED
  BY <1>1, <1>3, <1>4 DEF Entry

LEMMA ListedKept ==
  ASSUME NEW k, NEW c, StateStep(k, c), NEW kvs, Listed(kvs)
  PROVE  Listed(kvs)'
<1>1. Len(ca) \in Nat /\ Len(ca') \in Nat /\ Len(ca) <= Len(ca')
  BY DEF StateStep
<1>2. /\ kvs \in Seq(Entry(Len(ca)))
      /\ \A i, j \in 1 .. Len(kvs) : i # j /\ kvs[i].key = kvs[j].key => Alike(kvs[i], kvs[j])
  BY DEF Listed
<1>3. \A i \in 1 .. Len(kvs) : kvs[i] \in Entry(Len(ca))
  BY <1>2
<1>4. kvs \in Seq(Entry(Len(ca')))
  <2>1. \A i \in 1 .. Len(kvs) : kvs[i] \in Entry(Len(ca'))
    BY <1>1, <1>3, EntryFields
  <2>2. QED
    BY <1>2, <2>1
<1>5. ASSUME NEW i \in 1 .. Len(kvs), NEW j \in 1 .. Len(kvs), i # j, kvs[i].key = kvs[j].key
      PROVE  Alike(kvs[i], kvs[j])'
  <2>1. Alike(kvs[i], kvs[j])
    BY <1>2, <1>5
  <2>2. /\ kvs[i].val[1] = "class" => kvs[i].val[2] \in 1 .. Len(ca)
        /\ kvs[j].val[1] = "class" => kvs[j].val[2] \in 1 .. Len(ca)
    BY <1>1, <1>3, EntryFields
  <2>3. QED
    BY <2>1, <2>2, AlikeKept
<1>6. QED
  BY <1>4, <1>5 DEF Listed

(* The name spaces after a step, when what is new in them is good. *)
LEMMA SpacesStep ==
  ASSUME NEW k, NEW c, StateStep(k, c), SpacesGood,
         \A s \in 1 .. Len(spaces') : s > Len(spaces) \/ s = k =>
           /\ spaces'[s] = [pack |-> spaces'[s].pack, cl |-> spaces'[s].cl]
           /\ Sorted(spaces'[s].cl),
         \A s \in 1 .. Len(spaces') : s > Len(spaces) \/ s = k => Listed(spaces[s].cl)'
  PROVE  SpacesGood'
<1>1. Len(spaces) \in Nat \ {0} /\ Len(spaces') \in Nat \ {0}
  BY DEF StateStep, SpacesGood
<1>2. ASSUME NEW s \in 1 .. Len(spaces'), ~(s > Len(spaces) \/ s = k)
      PROVE  /\ spaces'[s] = [pack |-> spaces'[s].pack, cl |-> spaces'[s].cl]
             /\ Sorted(spaces'[s].cl) /\ Listed(spaces[s].cl)'
  <2>1. s \in 1 .. Len(spaces) /\ spaces'[s] = spaces[s]
    BY <1>1, <1>2 DEF StateStep
  <2>2. PICK cl : cl = spaces[s].cl
    OBVIOUS
  <2>3. Listed(cl) /\ Sorted(cl) /\ spaces[s] = [pack |-> spaces[s].pack, cl |-> spaces[s].cl]
    BY <2>1, <2>2 DEF SpacesGood
  <2>4. Listed(cl)'
    BY <2>3, ListedKept, SMTT(30)
  <2>5. Listed(spaces[s].cl)'
    <3>1. spaces'[s].cl = cl
      BY <2>1, <2>2
    <3>2. ASSUME NEW i \in 1 .. Len(cl), NEW j \in 1 .. Len(cl), i # j /\ cl[i].key = cl[j].key
          PROVE  Alike(spaces[s].cl[i], spaces[s].cl[j])'
      <4>1. Alike(cl[i], cl[j])'
        BY <2>4, <3>2 DEF Listed
      <4>2. QED
        BY <3>1, <4>1 DEF Alike, Reloaded
    <3>3. cl \in Seq(Entry(Len(ca')))
      BY <2>4 DEF Listed
    <3>4. QED
      BY <3>1, <3>2, <3>3 DEF Listed
  <2>6. QED
    BY <2>1, <2>2, <2>3, <2>5
<1>3. \A s \in 1 .. Len(spaces') :
        /\ spaces'[s] = [pack |-> spaces'[s].pack, cl |-> spaces'[s].cl]
        /\ Sorted(spaces'[s].cl) /\ Listed(spaces[s].cl)'
  BY <1>2
<1>4. QED
  BY <1>1, <1>3 DEF SpacesGood, Sorted

LEMMA ClassesStep ==
  ASSUME NEW k, NEW c, StateStep(k, c), ClassesGood, ca' = ca
  PROVE  ClassesGood'
<1>1. ASSUME NEW i \in 1 .. Len(ca) PROVE \E s \in 1 .. Len(spaces') : spaces'[s].pack = ca[i].pack
  <2>1. PICK s \in 1 .. Len(spaces) : spaces[s].pack = ca[i].pack
    BY DEF ClassesGood
  <2>2. s \in 1 .. Len(spaces') /\ spaces'[s].pack = ca[i].pack
    BY <2>1 DEF StateStep
  <2>3. QED
    BY <2>2
<1>2. ASSUME NEW i \in 1 .. Len(ca), NEW j \in 1 .. Len(ca),
             i # j /\ ca[i].key = ca[j].key /\ ca[i].pack = ca[j].pack
      PROVE  Reloaded(ca[i].pack)'
  <2>1. PICK p : p = ca[i].pack
    OBVIOUS
  <2>2. Reloaded(p)
    BY <1>2, <2>1 DEF ClassesGood
  <2>3. Reloaded(p)'
    BY <2>2, ReloadedKept
  <2>4. QED
    BY <2>1, <2>3 DEF Reloaded
<1>3. QED
  BY <1>1, <1>2 DEF ClassesGood

(* The table of packages keeps its entries; one that is new has space o.     *)
TableStep(o) ==
  /\ \A j \in 1 .. Len(packageMapNO) : \E i \in 1 .. Len(packageMapNO') : packageMapNO'[i] = packageMapNO[j]
  /\ \A i \in 1 .. Len(packageMapNO') :
       \/ packageMapNO'[i].space = o
       \/ \E j \in 1 .. Len(packageMapNO) : packageMapNO'[i] = packageMapNO[j]

LEMMA PackIs ==
  ASSUME LoadedOnce, NEW i \in 1 .. Len(packageMapNO), NEW c, packageMapNO[i].id = c
  PROVE  Packs(c) # {} /\ Pack(c) = packageMapNO[i].space
<1>1. Packs(c) = {i}
  BY DEF Packs, LoadedOnce
<1>2. (CHOOSE n \in Packs(c) : \A m \in Packs(c) : n <= m) = i
  <2>1. i <= i
    OBVIOUS
  <2>2. QED
    BY <1>1, <2>1
<1>3. QED
  BY <1>1, <1>2 DEF Pack

LEMMA PackIsNext ==
  ASSUME LoadedOnce', NEW i \in 1 .. Len(packageMapNO'), NEW c, packageMapNO'[i].id = c
  PROVE  Packs(c)' # {} /\ Pack(c)' = packageMapNO'[i].space
<1>1. Packs(c)' = {i}
  BY DEF Packs, LoadedOnce
<1>2. (CHOOSE n \in Packs(c)' : \A m \in Packs(c)' : n <= m) = i
  <2>1. i <= i
    OBVIOUS
  <2>2. QED
    BY <1>1, <2>1
<1>3. QED
  BY <1>1, <1>2 DEF Pack

LEMMA PackKept ==
  ASSUME LoadedOnce, LoadedOnce', NEW o, TableStep(o), NEW c, Packs(c) # {}
  PROVE  /\ Packs(c)' # {} /\ Pack(c)' = Pack(c)
         /\ \E i \in 1 .. Len(packageMapNO) : Pack(c) = packageMapNO[i].space
<1>1. PICK i \in 1 .. Len(packageMapNO) : packageMapNO[i].id = c
  BY DEF Packs
<1>2. Pack(c) = packageMapNO[i].space
  BY <1>1, PackIs
<1>3. PICK j \in 1 .. Len(packageMapNO') : packageMapNO'[j] = packageMapNO[i]
  BY DEF TableStep
<1>4. Packs(c)' # {} /\ Pack(c)' = packageMapNO'[j].space
  BY <1>1, <1>3, PackIsNext
<1>5. QED
  BY <1>2, <1>3, <1>4

LEMMA KeysKept ==
  ASSUME NEW s, NEW u, Holds(u, s)
  PROVE  Keys(s) \subseteq Keys(u)
BY DEF Keys, Holds

(* What a step leaves of a frame. *)
LEMMA FrameKept ==
  ASSUME NEW k, NEW c, StateStep(k, c), LoadedOnce, LoadedOnce', NEW o, TableStep(o), CodesGrow,
         TableSpaces, NEW f, FrameGood(f), f.pack \in Interned,
         f.at \in Loading => f.own # o,
         f.at = "require" => f.own # k /\ Code(f.pack) # c,
         f.at = "export" => Pack(Code(f.pack)) # k /\ Code(f.pack) # c
  PROVE  FrameGood(f)'
<1>1. /\ Len(spaces) \in Nat /\ Len(spaces') \in Nat /\ Len(spaces) <= Len(spaces')
      /\ \A s \in 1 .. Len(spaces) : /\ spaces'[s].pack = spaces[s].pack
                                     /\ Holds(spaces'[s].cl, spaces[s].cl)
                                     /\ s # k => spaces'[s] = spaces[s]
  BY DEF StateStep
<1>2. /\ Len(ca) \in Nat /\ Len(ca') \in Nat /\ Len(ca) <= Len(ca')
      /\ \A i \in 1 .. Len(ca) : ca'[i] = ca[i]
      /\ \A i \in 1 .. Len(ca') : i > Len(ca) => ca'[i].pack = c
  BY DEF StateStep
<1>3. PICK p : p = Code(f.pack)
  OBVIOUS
<1>4. Code(f.pack)' = p
  BY <1>3 DEF CodesGrow
<1>5. f.into \in 0 .. Len(spaces')
  BY <1>1 DEF FrameGood
<1>6. ASSUME f.at \in Loading
      PROVE  /\ f.own \in 2 .. Len(spaces') /\ spaces'[f.own].pack = p
             /\ \A i \in 1 .. Len(packageMapNO') : packageMapNO'[i].space # f.own
  <2>1. /\ f.own \in 2 .. Len(spaces) /\ spaces[f.own].pack = p
        /\ \A i \in 1 .. Len(packageMapNO) : packageMapNO[i].space # f.own
    BY <1>3, <1>6 DEF FrameGood
  <2>2. f.own \in 1 .. Len(spaces) /\ f.own \in 2 .. Len(spaces')
    BY <1>1, <2>1
  <2>3. spaces'[f.own].pack = p
    BY <1>1, <2>1, <2>2
  <2>4. \A i \in 1 .. Len(packageMapNO') : packageMapNO'[i].space # f.own
    BY <1>6, <2>1 DEF TableStep
  <2>5. QED
    BY <2>2, <2>3, <2>4
<1>7. ASSUME f.at = "require"
      PROVE  /\ spaces'[f.own].cl = <<>>
             /\ \A i \in 1 .. Len(ca') : ca'[i].pack = p => Reloaded(p)'
  <2>1. /\ f.own \in 2 .. Len(spaces) /\ spaces[f.own].cl = <<>>
        /\ \A i \in 1 .. Len(ca) : ca[i].pack = p => Reloaded(p)
    BY <1>3, <1>7 DEF FrameGood, Loading
  <2>2. f.own \in 1 .. Len(spaces) /\ spaces'[f.own] = spaces[f.own]
    BY <1>1, <1>7, <2>1
  <2>3. ASSUME NEW i \in 1 .. Len(ca'), ca'[i].pack = p PROVE Reloaded(p)'
    <3>1. ~(i > Len(ca))
      BY <1>2, <1>3, <1>7, <2>3
    <3>2. i \in 1 .. Len(ca) /\ ca[i].pack = p
      BY <1>2, <2>3, <3>1
    <3>3. QED
      BY <2>1, <3>2, ReloadedKept
  <2>4. QED
    BY <2>1, <2>2, <2>3
<1>8. ASSUME f.at = "export"
      PROVE  /\ f.into # 0 /\ Packs(p)' # {}
             /\ Keys(spaces'[Pack(p)'].cl) \subseteq Keys(spaces'[f.into].cl)
             /\ f.pack # PN_konoha =>
                  \A i \in 1 .. Len(ca') : ca'[i].pack = p => ca'[i].key \in Keys(spaces'[f.into].cl)
  <2>1. /\ f.into \in 0 .. Len(spaces) /\ f.into # 0 /\ Packs(p) # {}
        /\ Keys(spaces[Pack(p)].cl) \subseteq Keys(spaces[f.into].cl)
        /\ f.pack # PN_konoha =>
             \A i \in 1 .. Len(ca) : ca[i].pack = p => ca[i].key \in Keys(spaces[f.into].cl)
    BY <1>3, <1>8 DEF FrameGood, SeenBy
  <2>2. /\ Packs(p)' # {} /\ Pack(p)' = Pack(p)
        /\ \E i \in 1 .. Len(packageMapNO) : Pack(p) = packageMapNO[i].space
    BY <2>1, PackKept
  <2>3. Pack(p) \in 2 .. Len(spaces)
    BY <2>2 DEF TableSpaces
  <2>4. Pack(p) \in 1 .. Len(spaces) /\ spaces'[Pack(p)] = spaces[Pack(p)]
    BY <1>1, <1>3, <1>8, <2>3
  <2>5. f.into \in 1 .. Len(spaces) /\ Holds(spaces'[f.into].cl, spaces[f.into].cl)
    BY <1>1, <2>1
  <2>6. Keys(spaces[f.into].cl) \subseteq Keys(spaces'[f.into].cl)
    BY <2>5, KeysKept
  <2>7. ASSUME f.pack # PN_konoha, NEW i \in 1 .. Len(ca'), ca'[i].pack = p
        PROVE  ca'[i].key \in Keys(spaces'[f.into].cl)
    <3>1. ~(i > Len(ca))
      BY <1>2, <1>3, <1>8, <2>7
    <3>2. i \in 1 .. Len(ca) /\ ca'[i] = ca[i]
      BY <1>2, <3>1
    <3>3. QED
      BY <2>1, <2>6, <2>7, <3>2
  <2>8. QED
    BY <2>1, <2>2, <2>4, <2>6, <2>7
<1>9. f.at = "export" => SeenBy(f)'
  BY <1>4, <1>8 DEF SeenBy, Keys
<1>10. f.at = "require" => /\ spaces'[f.own].cl = <<>>
                           /\ \A i \in 1 .. Len(ca') : ca'[i].pack = Code(f.pack)' => Reloaded(Code(f.pack))'
  BY <1>4, <1>7 DEF Reloaded
<1>11. QED
  BY <1>4, <1>5, <1>6, <1>9, <1>10 DEF FrameGood

LEMMA ShapePrefix ==
  ASSUME NEW s \in Seq(Frame), Nested(s), NEW n \in 0 .. Len(s)
  PROVE  Nested(SubSeq(s, 1, n))
<1> DEFINE p == SubSeq(s, 1, n)
<1>1. Len(p) = n /\ (\A i \in 1 .. n : p[i] = s[i]) /\ Len(s) \in Nat
  BY PrefixProperties
<1>2. \A d \in 1 .. n : d \in 1 .. Len(s) /\ \A c \in 1 .. d - 1 : c \in 1 .. n
  BY <1>1
<1> HIDE DEF p
<1>3. Nested(p)
  <2>1. \A c, d \in 1 .. n : c # d /\ p[c].at \in Loading /\ p[d].at \in Loading => p[c].own # p[d].own
    BY <1>1, <1>2 DEF Nested
  <2>2. \A d \in 1 .. n : p[d].into > 1 =>
          \E c \in 1 .. d - 1 : p[c].at = "script" /\ p[c].own = p[d].into
    <3> SUFFICES ASSUME NEW d \in 1 .. n, p[d].into > 1
                 PROVE  \E c \in 1 .. d - 1 : p[c].at = "script" /\ p[c].own = p[d].into
      OBVIOUS
    <3>1. PICK c \in 1 .. d - 1 : s[c].at = "script" /\ s[c].own = s[d].into
      BY <1>1, <1>2 DEF Nested
    <3>2. p[c] = s[c] /\ p[d] = s[d]
      BY <1>1, <1>2
    <3>3. QED
      BY <3>1, <3>2
  <2>3. QED
    BY <1>1, <2>1, <2>2 DEF Nested
<1>4. QED
  BY <1>3 DEF p

LEMMA ShapePush ==
  ASSUME NEW s \in Seq(Frame), Nested(s), NEW f \in Frame,
         f.at \in Loading => \A d \in 1 .. Len(s) : s[d].at \in Loading => s[d].own # f.own,
         f.into > 1 => \E c \in 1 .. Len(s) : s[c].at = "script" /\ s[c].own = f.into
  PROVE  Nested(Append(s, f))
<1> DEFINE t == Append(s, f)
<1>1. /\ Len(t) = Len(s) + 1 /\ Len(s) \in Nat /\ t[Len(s) + 1] = f
      /\ \A i \in 1 .. Len(s) : t[i] = s[i]
  OBVIOUS
<1> HIDE DEF t
<1>2. \A d \in 1 .. Len(t) : (d = Len(s) + 1 /\ t[d] = f) \/ (d \in 1 .. Len(s) /\ t[d] = s[d])
  BY <1>1
<1>3. ASSUME NEW c \in 1 .. Len(t), NEW d \in 1 .. Len(t), c # d, t[c].at \in Loading, t[d].at \in Loading
      PROVE  t[c].own # t[d].own
  BY <1>2, <1>3 DEF Nested
<1>4. ASSUME NEW d \in 1 .. Len(t), t[d].into > 1
      PROVE  \E c \in 1 .. d - 1 : t[c].at = "script" /\ t[c].own = t[d].into
  <2>1. CASE d = Len(s) + 1
    <3>1. PICK c \in 1 .. Len(s) : s[c].at = "script" /\ s[c].own = f.into
      BY <1>1, <1>4, <2>1
    <3>2. c \in 1 .. d - 1 /\ t[c] = s[c] /\ t[d] = f
      BY <1>1, <2>1
    <3>3. QED
      BY <3>1, <3>2
  <2>2. CASE d \in 1 .. Len(s) /\ t[d] = s[d]
    <3>1. PICK c \in 1 .. d - 1 : s[c].at = "script" /\ s[c].own = s[d].into
      BY <1>4, <2>2 DEF Nested
    <3>2. t[c] = s[c]
      BY <1>1, <2>2
    <3>3. QED
      BY <2>2, <3>1, <3>2
  <2>3. QED
    BY <1>2, <2>1, <2>2
<1>5. Nested(t)
  BY <1>3, <1>4 DEF Nested
<1>6. QED
  BY <1>5 DEF t

(* What a step that fills table k, adds classes of code c and enters a       *)
(* package with space o must not be about.                                   *)
Untouched(f, k, c, o) ==
  /\ f.at \in Loading => f.own # o
  /\ f.at = "require" => f.own # k /\ Code(f.pack) # c
  /\ f.at = "export" => Pack(Code(f.pack)) # k /\ Code(f.pack) # c

LEMMA PackPlace ==
  ASSUME LoadedOnce, NEW c, Packs(c) # {}
  PROVE  \E i \in 1 .. Len(packageMapNO) : packageMapNO[i].id = c /\ Pack(c) = packageMapNO[i].space
<1>1. PICK i \in 1 .. Len(packageMapNO) : packageMapNO[i].id = c
  BY DEF Packs
<1>2. QED
  BY <1>1, PackIs

LEMMA QuietUntouched ==
  ASSUME LoadedOnce, TableSpaces, CodesInv, NEW f, FrameGood(f), f.pack \in Interned
  PROVE  Untouched(f, 0, -1, 0)
<1>1. Code(f.pack) \in Nat
  BY DEF CodesInv
<1>2. f.at = "export" => Pack(Code(f.pack)) \in 2 .. Len(spaces)
  <2> SUFFICES ASSUME f.at = "export" PROVE Pack(Code(f.pack)) \in 2 .. Len(spaces)
    OBVIOUS
  <2>1. PICK c : c = Code(f.pack)
    OBVIOUS
  <2>2. Packs(c) # {}
    BY <2>1 DEF FrameGood, SeenBy
  <2>3. PICK i \in 1 .. Len(packageMapNO) : Pack(c) = packageMapNO[i].space
    BY <2>2, PackPlace
  <2>4. QED
    BY <2>1, <2>3 DEF TableSpaces
<1>3. f.at \in Loading => f.own \in 2 .. Len(spaces)
  BY DEF FrameGood
<1>4. QED
  BY <1>1, <1>2, <1>3 DEF Untouched, Loading

(* The frames after a step: the first n stay, the others are good.           *)
LEMMA FramesStep ==
  ASSUME PackageInv, PackageInv', CodesGrow, FramesGood, TableSpaces,
         NEW k, NEW c, StateStep(k, c), NEW o, TableStep(o), NEW u, stack' = u,
         NEW n \in 0 .. Len(stack), \A d \in 1 .. n : Untouched(stack[d], k, c, o),
         \A d \in 1 .. Len(u) : (d \in 1 .. n /\ u[d] = stack[d]) \/ FrameGood(u[d])'
  PROVE  FramesGood'
<1>1. LoadedOnce /\ LoadedOnce' /\ Len(stack) \in Nat /\ \A d \in 1 .. Len(stack) : stack[d].pack \in Interned
  BY DEF PackageInv, OnceInv, Asked, StackOK
<1>2. ASSUME NEW d \in 1 .. n, d \in 1 .. Len(u), u[d] = stack[d] PROVE FrameGood(u[d])'
  <2>1. PICK f : f = u[d]
    OBVIOUS
  <2>2. FrameGood(f) /\ f.pack \in Interned /\ Untouched(f, k, c, o)
    BY <1>1, <1>2, <2>1 DEF FramesGood
  <2>3. FrameGood(f)'
    BY <1>1, <2>2, FrameKept DEF Untouched
  <2>4. QED
    BY <2>1, <2>3
<1>3. \A d \in 1 .. Len(u) : FrameGood(u[d])'
  BY <1>2
<1>4. ASSUME NEW d \in 1 .. Len(stack') PROVE FrameGood(stack[d])'
  <2>1. PICK f : f = u[d]
    OBVIOUS
  <2>2. FrameGood(f)'
    BY <1>3, <2>1
  <2>3. stack'[d] = f
    BY <2>1
  <2>4. QED
    BY <2>2, <2>3 DEF FrameGood, SeenBy
<1>5. QED
  BY <1>4 DEF FramesGood

LEMMA HoldsSelf == \A s : Holds(s, s)
BY DEF Holds

(* Steps that leave the name spaces, the classes and the table alone.        *)
LEMMA QuietStep ==
  ASSUME PackageInv, PackageInv', CodesGrow, NamesInv,
         spaces' = spaces, ca' = ca, packageMapNO' = packageMapNO,
         NEW u, stack' = u, Nested(u), NEW n \in 0 .. Len(stack),
         \A d \in 1 .. Len(u) : \/ d \in 1 .. n /\ u[d] = stack[d]
                                \/ FrameGood(u[d]) /\ u[d].pack \in Interned
                                \/ u[d].at = "find" /\ u[d].into \in 0 .. Len(spaces)
  PROVE  NamesInv' /\ StateStep(0, -1)
<1>1. StateStep(0, -1)
  <2>1. Len(ca) \in Nat /\ Len(spaces) \in Nat
    BY ClassFields DEF NamesInv, SpacesGood
  <2>2. QED
    BY <2>1, HoldsSelf DEF StateStep
<1>2. TableStep(0)
  BY DEF TableStep
<1>3. LoadedOnce /\ CodesInv /\ Len(stack) \in Nat /\ \A d \in 1 .. Len(stack) : stack[d].pack \in Interned
  BY SMTT(30) DEF PackageInv, OnceInv, Asked, StackOK
<1>4. LoadedOnce' /\ \A d \in 1 .. Len(u) : u[d].pack \in Interned'
  BY DEF PackageInv, OnceInv, Asked
<1>5. \A d \in 1 .. n : Untouched(stack[d], 0, -1, 0)
  BY <1>3, QuietUntouched DEF NamesInv, FramesGood
<1>6. SpacesGood'
  <2>1. \A s \in 1 .. Len(spaces') : ~(s > Len(spaces) \/ s = 0)
    BY <1>1 DEF StateStep
  <2>2. QED
    BY <1>1, <2>1, SpacesStep DEF NamesInv
<1>7. ClassesGood'
  BY <1>1, ClassesStep DEF NamesInv
<1>8. TableSpaces' /\ Nested(stack)'
  BY DEF NamesInv, TableSpaces, Nested
<1>9. ASSUME NEW d \in 1 .. Len(u), ~(d \in 1 .. n /\ u[d] = stack[d])
      PROVE  FrameGood(u[d])'
  <2>1. PICK f : f = u[d]
    OBVIOUS
  <2>2. CASE FrameGood(f) /\ f.pack \in Interned
    <3>1. Untouched(f, 0, -1, 0)
      BY <1>3, <2>2, QuietUntouched DEF NamesInv
    <3>2. FrameGood(f)'
      BY <1>1, <1>2, <1>3, <1>4, <2>2, <3>1, FrameKept DEF NamesInv, Untouched
    <3>3. QED
      BY <2>1, <3>2
  <2>3. CASE f.at = "find" /\ f.into \in 0 .. Len(spaces)
    <3>1. FrameGood(f)'
      BY <2>3 DEF FrameGood, Loading
    <3>2. QED
      BY <2>1, <3>1
  <2>4. QED
    BY <1>9, <2>1, <2>2, <2>3
<1>10. FramesGood'
  BY <1>1, <1>2, <1>5, <1>9, FramesStep DEF NamesInv
<1>11. QED
  BY <1>1, <1>6, <1>7, <1>8, <1>10 DEF NamesInv

-----------------------------------------------------------------------------
LEMMA TopNames ==
  ASSUME PackageInv, NamesInv, stack # <<>>
  PROVE  /\ FrameGood(Top) /\ Below \in Seq(Frame) /\ Nested(Below)
         /\ Top.at \in Loading =>
              \A d \in 1 .. Len(Below) : Below[d].at \in Loading => Below[d].own # Top.own
         /\ Top.into > 1 => \E c \in 1 .. Len(Below) : Below[c].at = "script" /\ Below[c].own = Top.into
<1>1. /\ Len(stack) \in Nat \ {0} /\ Len(Below) = Len(stack) - 1
      /\ (\A d \in 1 .. Len(Below) : Below[d] = stack[d]) /\ stack \in Seq(Frame) /\ Below \in Seq(Frame)
  BY TopOK DEF PackageInv, OnceInv, StackOK
<1>2. Len(stack) \in 1 .. Len(stack) /\ Len(stack) - 1 \in 0 .. Len(stack) /\ Top = stack[Len(stack)]
  BY <1>1 DEF Top
<1>3. FrameGood(Top)
  <2>1. FrameGood(stack[Len(stack)])
    BY <1>2 DEF NamesInv, FramesGood
  <2>2. QED
    BY <2>1 DEF Top
<1>4. Nested(Below)
  BY <1>1, <1>2, ShapePrefix DEF NamesInv, Below
<1>5. \A d \in 1 .. Len(Below) : d \in 1 .. Len(stack) /\ d # Len(stack)
  BY <1>1
<1>6. 1 .. Len(stack) - 1 = 1 .. Len(Below)
  BY <1>1
<1>7. QED
  <2>1. Top.at \in Loading =>
          \A d \in 1 .. Len(Below) : Below[d].at \in Loading => Below[d].own # Top.own
    BY <1>1, <1>2, <1>5 DEF NamesInv, Nested
  <2>2. ASSUME Top.into > 1
        PROVE  \E c \in 1 .. Len(Below) : Below[c].at = "script" /\ Below[c].own = Top.into
    <3>1. PICK c \in 1 .. Len(stack) - 1 : stack[c].at = "script" /\ stack[c].own = Top.into
      BY <1>2, <2>2 DEF NamesInv, Nested
    <3>2. QED
      BY <1>1, <1>6, <3>1
  <2>3. QED
    BY <1>1, <1>3, <1>4, <2>1, <2>2

LEMMA PushedIs ==
  ASSUME NEW S, NEW s \in Seq(S), NEW f \in S
  PROVE  LET t == Append(s, f)
         IN /\ t \in Seq(S) /\ Len(s) \in Nat /\ Len(t) = Len(s) + 1
            /\ \A d \in 1 .. Len(t) : (d = Len(s) + 1 /\ t[d] = f) \/ (d \in 1 .. Len(s) /\ t[d] = s[d])
<1> DEFINE t == Append(s, f)
<1>1. /\ t \in Seq(S) /\ Len(t) = Len(s) + 1 /\ Len(s) \in Nat /\ t[Len(s) + 1] = f
      /\ \A i \in 1 .. Len(s) : t[i] = s[i]
  OBVIOUS
<1> HIDE DEF t
<1>2. \A d \in 1 .. Len(t) : (d = Len(s) + 1 /\ t[d] = f) \/ (d \in 1 .. Len(s) /\ t[d] = s[d])
  BY <1>1
<1>3. QED
  BY <1>1, <1>2 DEF t

(* The innermost frame is followed by f. *)
LEMMA GotoNames ==
  ASSUME PackageInv, NamesInv, stack # <<>>, NEW f \in Frame, f.into = Top.into,
         f.at \in Loading => \A d \in 1 .. Len(Below) : Below[d].at \in Loading => Below[d].own # f.own
  PROVE  LET u == Append(Below, f)
         IN /\ Nested(u) /\ u \in Seq(Frame) /\ Len(u) = Len(stack)
            /\ Len(stack) \in Nat \ {0} /\ Len(stack) - 1 \in 0 .. Len(stack)
            /\ \A d \in 1 .. Len(u) : (d \in 1 .. Len(stack) - 1 /\ u[d] = stack[d]) \/ (d = Len(stack) /\ u[d] = f)
<1>1. /\ Len(stack) \in Nat \ {0} /\ Len(Below) = Len(stack) - 1 /\ Below \in Seq(Frame)
      /\ \A d \in 1 .. Len(Below) : Below[d] = stack[d]
  BY TopOK, TopNames DEF PackageInv
<1>2. Nested(Append(Below, f))
  BY TopNames, ShapePush
<1> DEFINE u == Append(Below, f)
<1>3. /\ u \in Seq(Frame) /\ Len(u) = Len(Below) + 1
      /\ \A d \in 1 .. Len(u) : (d = Len(Below) + 1 /\ u[d] = f) \/ (d \in 1 .. Len(Below) /\ u[d] = Below[d])
  BY <1>1, PushedIs
<1> HIDE DEF u
<1>4. /\ Len(u) = Len(stack) /\ Len(stack) - 1 \in 0 .. Len(stack)
      /\ \A d \in 1 .. Len(u) : (d \in 1 .. Len(stack) - 1 /\ u[d] = stack[d]) \/ (d = Len(stack) /\ u[d] = f)
  BY <1>1, <1>3
<1>5. QED
  BY <1>1, <1>2, <1>3, <1>4 DEF u

LEMMA DropNames ==
  ASSUME PackageInv, PackageInv', CodesGrow, NamesInv,
         spaces' = spaces, ca' = ca, packageMapNO' = packageMapNO,
         NEW n \in 0 .. Len(stack), stack' = SubSeq(stack, 1, n)
  PROVE  NamesInv' /\ StateStep(0, -1)
<1>1. stack \in Seq(Frame) /\ Nested(stack)
  BY DEF PackageInv, OnceInv, StackOK, NamesInv
<1>2. PICK u : u = SubSeq(stack, 1, n)
  OBVIOUS
<1>3. Nested(u) /\ Len(u) = n /\ \A d \in 1 .. n : u[d] = stack[d]
  BY <1>1, <1>2, ShapePrefix, PrefixProperties
<1>4. QED
  BY <1>2, <1>3, QuietStep

LEMMA ImportNames ==
  ASSUME PackageInv, PackageInv', CodesGrow, NamesInv, NEW name \in Name, Import(name)
  PROVE  NamesInv' /\ StateStep(0, -1)
<1> DEFINE f == [pack |-> name, into |-> 1, own |-> 0, at |-> "find", next |-> 1]
<1>1. f \in Frame /\ f.at = "find" /\ f.into = 1
  BY DEF Frame
<1>2. /\ stack' = Append(<<>>, f) /\ spaces' = spaces /\ ca' = ca /\ packageMapNO' = packageMapNO
      /\ stack = <<>>
  BY DEF Import, Enter
<1> HIDE DEF f
<1>3. PICK s \in Seq(Frame) : s = <<>> /\ Len(s) = 0
  <2>1. <<>> \in Seq(Frame) /\ Len(<<>>) = 0
    OBVIOUS
  <2>2. QED
    BY <2>1
<1>4. Nested(s)
  BY <1>3 DEF Nested
<1>5. PICK u : u = Append(s, f)
  OBVIOUS
<1>6. Nested(u)
  BY <1>1, <1>4, <1>5, ShapePush DEF Loading
<1>7. \A d \in 1 .. Len(u) : u[d] = f
  BY <1>1, <1>3, <1>5, PushedIs
<1>8. 0 \in 0 .. Len(stack) /\ 1 \in 0 .. Len(spaces) /\ stack' = u
  BY <1>2, <1>3, <1>5 DEF NamesInv, SpacesGood
<1>9. QED
  BY <1>1, <1>2, <1>6, <1>7, <1>8, QuietStep

LEMMA ImportNextNames ==
  ASSUME PackageInv, PackageInv', CodesGrow, NamesInv, ImportNext
  PROVE  NamesInv' /\ StateStep(0, -1)
<1> DEFINE g == [Top EXCEPT !.next = @ + 1]
           ns == Target(Top)
           name == Steps(Top)[Top.next]
           f == [pack |-> name, into |-> ns, own |-> 0, at |-> "find", next |-> 1]
           low == Append(Below, g)
<1>1. /\ stack # <<>> /\ Top.next <= Len(Steps(Top)) /\ stack' = Append(low, f)
      /\ spaces' = spaces /\ ca' = ca /\ packageMapNO' = packageMapNO
  BY DEF ImportNext, Enter
<1>2. name \in Name /\ ns \in Nat /\ Top.at # "find"
  BY <1>1, StepsUsed DEF PackageInv
<1>3. f \in Frame /\ f.at = "find" /\ f.into = ns
  BY <1>2 DEF Frame
<1>4. Top \in Frame /\ Top.pack \in Interned
  BY <1>1, TopOK DEF PackageInv
<1>5. /\ g \in Frame /\ g.pack = Top.pack /\ g.at = Top.at /\ g.into = Top.into /\ g.own = Top.own
  BY <1>4, FrameFields
<1>6. FrameGood(Top) /\ Top.at \in {"require", "script", "export"}
  BY <1>1, <1>2, <1>4, TopNames DEF Frame
<1>7. ns = IF Top.at = "require" THEN 0 ELSE IF Top.at = "script" THEN Top.own ELSE Top.into
  BY <1>6 DEF Target
<1> HIDE DEF g, f, ns, name
<1>8. FrameGood(g)
  BY <1>5, <1>6 DEF FrameGood, SeenBy
<1>9. /\ Nested(low) /\ low \in Seq(Frame) /\ Len(low) = Len(stack)
      /\ Len(stack) \in Nat \ {0} /\ Len(stack) - 1 \in 0 .. Len(stack)
      /\ \A d \in 1 .. Len(low) : \/ d \in 1 .. Len(stack) - 1 /\ low[d] = stack[d]
                                  \/ d = Len(stack) /\ low[d] = g
  BY <1>1, <1>5, TopNames, GotoNames
<1>10. ns \in 0 .. Len(spaces)
  <2>1. Top.into \in 0 .. Len(spaces) /\ Len(spaces) \in Nat
    BY <1>6 DEF FrameGood, NamesInv, SpacesGood
  <2>2. Top.at = "script" => Top.own \in 0 .. Len(spaces)
    BY <1>6, <2>1 DEF FrameGood, Loading
  <2>3. QED
    BY <1>7, <2>1, <2>2
<1>11. ASSUME ns > 1 PROVE \E c \in 1 .. Len(low) : low[c].at = "script" /\ low[c].own = ns
  <2>1. Len(stack) \in 1 .. Len(low) /\ low[Len(stack)] = g
    BY <1>9
  <2>2. CASE Top.at = "script"
    BY <1>5, <1>7, <2>1, <2>2
  <2>3. CASE Top.at = "export"
    <3>1. ns = Top.into /\ Top.into > 1
      BY <1>7, <1>11, <2>3
    <3>2. PICK c \in 1 .. Len(Below) : Below[c].at = "script" /\ Below[c].own = Top.into
      BY <1>1, <3>1, TopNames
    <3>3. c \in 1 .. Len(low) /\ low[c] = Below[c]
      <4>1. Len(Below) = Len(stack) - 1 /\ \A d \in 1 .. Len(Below) : Below[d] = stack[d]
        BY <1>1, TopOK DEF PackageInv
      <4>2. c \in 1 .. Len(stack) - 1 /\ c # Len(stack) /\ c \in 1 .. Len(low)
        BY <1>9, <4>1
      <4>3. low[c] = stack[c]
        BY <1>9, <4>2
      <4>4. QED
        BY <4>1, <4>2, <4>3
    <3>4. QED
      BY <3>1, <3>2, <3>3
  <2>4. QED
    BY <1>6, <1>7, <1>11, <2>2, <2>3
<1> HIDE DEF low
<1>12. PICK u : u = Append(low, f)
  OBVIOUS
<1>13. Nested(u)
  BY <1>3, <1>9, <1>11, <1>12, ShapePush DEF Loading
<1>14. \A d \in 1 .. Len(u) : u[d] = f \/ (d \in 1 .. Len(low) /\ u[d] = low[d])
  BY <1>3, <1>9, <1>12, PushedIs
<1>15. \A d \in 1 .. Len(u) : \/ d \in 1 .. Len(stack) - 1 /\ u[d] = stack[d]
                              \/ u[d] = g \/ u[d] = f
  BY <1>9, <1>14
<1>16. g.pack \in Interned
  BY <1>4, <1>5
<1>17. QED
  <2>1. \A d \in 1 .. Len(u) : \/ d \in 1 .. Len(stack) - 1 /\ u[d] = stack[d]
                               \/ FrameGood(u[d]) /\ u[d].pack \in Interned
                               \/ u[d].at = "find" /\ u[d].into \in 0 .. Len(spaces)
    BY <1>3, <1>8, <1>10, <1>15, <1>16
  <2>2. stack' = u
    BY <1>1, <1>12
  <2>3. QED
    BY <1>1, <1>9, <1>13, <2>1, <2>2, QuietStep

(* loadPackageNULL: the name space is new. *)
LEMMA LoadNames ==
  ASSUME PackageInv, PackageInv', CodesGrow, NamesInv, Load
  PROVE  NamesInv' /\ StateStep(0, -1)
<1> DEFINE f == [Top EXCEPT !.own = Len(spaces) + 1, !.at = "require"]
           e == [pack |-> Code(Top.pack), cl |-> <<>>]
<1>1. /\ stack # <<>> /\ Top.at = "find" /\ spaces' = Append(spaces, e) /\ stack' = Append(Below, f)
      /\ ca' = ca /\ packageMapNO' = packageMapNO /\ kmap' = kmap
  BY DEF Load, At, Goto
<1>2. Top \in Frame /\ Top.pack \in Interned /\ FrameGood(Top)
  BY <1>1, TopOK, TopNames DEF PackageInv
<1>3. PICK S : spaces \in Seq(S)
  BY DEF PackageInv, OnceInv, SpacesOK
<1>4. /\ Len(spaces) \in Nat \ {0} /\ Len(spaces') = Len(spaces) + 1
      /\ spaces'[Len(spaces) + 1] = e /\ \A s \in 1 .. Len(spaces) : spaces'[s] = spaces[s]
  BY <1>1, <1>3 DEF NamesInv, SpacesGood
<1>5. f \in Frame /\ f.pack = Top.pack /\ f.at = "require" /\ f.into = Top.into /\ f.own = Len(spaces) + 1
  <2>1. PICK t \in Frame, o \in Nat : t = Top /\ o = Len(spaces) + 1
    BY <1>2, <1>4
  <2>2. LET g == [t EXCEPT !.own = o, !.at = "require"]
        IN g \in Frame /\ g.pack = t.pack /\ g.at = "require" /\ g.into = t.into /\ g.own = o
    BY DEF Frame
  <2>3. QED
    BY <2>1, <2>2
<1>6. e.pack = Code(Top.pack) /\ e.cl = <<>> /\ e = [pack |-> e.pack, cl |-> e.cl]
  OBVIOUS
<1> HIDE DEF f, e
<1>7. Len(ca) \in Nat
  BY ClassFields DEF NamesInv
<1>8. StateStep(0, -1)
  BY <1>1, <1>4, <1>7, HoldsSelf DEF StateStep
<1>9. TableStep(0)
  BY <1>1 DEF TableStep
<1>10. SpacesGood'
  <2>1. \A s \in 1 .. Len(spaces') : s > Len(spaces) \/ s = 0 => spaces'[s] = e
    BY <1>4
  <2>2. PICK kvs : kvs = <<>> /\ Len(kvs) = 0 /\ kvs \in Seq(Entry(Len(ca')))
    <3>1. <<>> \in Seq(Entry(Len(ca'))) /\ Len(<<>>) = 0
      OBVIOUS
    <3>2. QED
      BY <3>1
  <2>3. Listed(kvs)'
    BY <2>2 DEF Listed
  <2>4. ASSUME NEW s \in 1 .. Len(spaces'), s > Len(spaces) \/ s = 0
        PROVE  Listed(spaces[s].cl)'
    <3>1. spaces'[s].cl = kvs
      BY <1>6, <2>1, <2>2, <2>4
    <3>2. QED
      BY <2>3, <3>1 DEF Listed, Alike, Reloaded
  <2>5. Sorted(kvs)
    BY <2>2 DEF Sorted
  <2>6. QED
    BY <1>6, <1>8, <2>1, <2>2, <2>4, <2>5, SpacesStep DEF NamesInv
<1>11. ClassesGood'
  BY <1>1, <1>8, ClassesStep DEF NamesInv
<1>12. TableSpaces'
  BY <1>1, <1>4 DEF NamesInv, TableSpaces
<1>13. PICK u : u = Append(Below, f)
  OBVIOUS
<1>14. ASSUME NEW d \in 1 .. Len(Below), Below[d].at \in Loading PROVE Below[d].own # f.own
  <2>1. d \in 1 .. Len(stack) /\ Below[d] = stack[d]
    BY <1>1, TopOK DEF PackageInv
  <2>2. FrameGood(stack[d])
    BY <2>1 DEF NamesInv, FramesGood
  <2>3. Below[d].own \in 2 .. Len(spaces)
    BY <1>14, <2>1, <2>2 DEF FrameGood
  <2>4. QED
    BY <1>4, <1>5, <2>3
<1>15. /\ Nested(u) /\ Len(stack) \in Nat \ {0} /\ Len(stack) - 1 \in 0 .. Len(stack)
       /\ \A d \in 1 .. Len(u) : \/ d \in 1 .. Len(stack) - 1 /\ u[d] = stack[d]
                                 \/ d = Len(stack) /\ u[d] = f
  BY <1>1, <1>5, <1>13, <1>14, GotoNames
<1>16. Nested(stack)'
  BY <1>1, <1>13, <1>15 DEF Nested
<1>17. PICK c \in Nat, x \in Frame, n \in Interned : n = Top.pack /\ c = Code(n) /\ x = f /\ x.pack = n
  BY <1>2, <1>5 DEF PackageInv, OnceInv, CodesInv
<1>18. Code(x.pack)' = c
  BY <1>17 DEF CodesGrow
<1>19. FrameGood(x)'
  <2>1. x.into \in 0 .. Len(spaces')
    BY <1>2, <1>4, <1>5, <1>17 DEF FrameGood
  <2>2. x.own \in 2 .. Len(spaces') /\ spaces'[x.own].pack = c /\ spaces'[x.own].cl = <<>>
    BY <1>4, <1>5, <1>6, <1>17
  <2>3. \A i \in 1 .. Len(packageMapNO') : packageMapNO'[i].space # x.own
    BY <1>1, <1>4, <1>5, <1>17 DEF NamesInv, TableSpaces
  <2>4. ASSUME NEW i \in 1 .. Len(ca'), ca'[i].pack = c PROVE Reloaded(c)'
    <3>1. PICK s \in 1 .. Len(spaces) : spaces[s].pack = c
      BY <1>1, <2>4 DEF NamesInv, ClassesGood
    <3>2. s # x.own /\ s \in 1 .. Len(spaces') /\ spaces'[s].pack = c /\ x.own \in 1 .. Len(spaces')
      BY <1>4, <1>5, <1>17, <3>1
    <3>3. QED
      BY <2>2, <3>2 DEF Reloaded
  <2>5. QED
    BY <1>5, <1>17, <1>18, <2>1, <2>2, <2>3, <2>4 DEF FrameGood, Reloaded
<1>20. \A d \in 1 .. Len(stack) - 1 : Untouched(stack[d], 0, -1, 0)
  <2>1. \A d \in 1 .. Len(stack) - 1 : d \in 1 .. Len(stack)
    BY <1>15
  <2>2. QED
    BY <2>1, QuietUntouched DEF PackageInv, OnceInv, Asked, NamesInv, FramesGood
<1>21. FramesGood'
  <2>1. \A d \in 1 .. Len(u) : (d \in 1 .. Len(stack) - 1 /\ u[d] = stack[d]) \/ FrameGood(u[d])'
    BY <1>15, <1>17, <1>19
  <2>2. stack' = u
    BY <1>1, <1>13
  <2>3. QED
    BY <1>8, <1>9, <1>15, <1>20, <2>1, <2>2, FramesStep DEF NamesInv
<1>22. QED
  BY <1>8, <1>10, <1>11, <1>12, <1>16, <1>21 DEF NamesInv

-----------------------------------------------------------------------------
(* Classes of code c are added. *)
ClassStep(c) ==
  /\ Len(ca) \in Nat /\ Len(ca') \in Nat /\ Len(ca) <= Len(ca')
  /\ \A i \in 1 .. Len(ca) : ca'[i] = ca[i]
  /\ \A i \in 1 .. Len(ca') : i > Len(ca) => ca'[i].pack = c

(* The table of a name space is filled. *)
LEMMA WrittenStep ==
  ASSUME PackageInv, SpacesGood, NEW c, ClassStep(c), NEW k \in 1 .. Len(spaces), NEW u,
         spaces' = [spaces EXCEPT ![k].cl = u], Holds(u, spaces[k].cl), Listed(u), Sorted(u)
  PROVE  /\ StateStep(k, c) /\ SpacesGood' /\ Len(spaces') = Len(spaces)
         /\ spaces'[k].cl = u /\ \A s \in 1 .. Len(spaces) : s # k => spaces'[s] = spaces[s]
<1>1. PICK S : spaces \in Seq(S)
  BY DEF PackageInv, OnceInv, SpacesOK
<1>2. Len(spaces) \in Nat \ {0} /\ spaces[k] = [pack |-> spaces[k].pack, cl |-> spaces[k].cl]
  BY DEF SpacesGood
<1>3. PICK e : e = [pack |-> spaces[k].pack, cl |-> u]
  OBVIOUS
<1>4. [spaces[k] EXCEPT !.cl = u] = e
  BY <1>2, <1>3
<1>5. spaces' = [spaces EXCEPT ![k] = e]
  BY <1>4
<1>6. Len(spaces') = Len(spaces) /\ spaces'[k] = e /\ \A s \in 1 .. Len(spaces) : s # k => spaces'[s] = spaces[s]
  BY <1>1, <1>5
<1>7. e.cl = u /\ e.pack = spaces[k].pack /\ e = [pack |-> e.pack, cl |-> e.cl]
  BY <1>3
<1>8. StateStep(k, c)
  <2>1. \A s \in 1 .. Len(spaces) : /\ spaces'[s].pack = spaces[s].pack
                                    /\ Holds(spaces'[s].cl, spaces[s].cl)
                                    /\ s # k => spaces'[s] = spaces[s]
    BY <1>6, <1>7, HoldsSelf
  <2>2. QED
    BY <1>2, <1>6, <2>1 DEF StateStep, ClassStep
<1>9. Listed(u)'
  BY <1>8, ListedKept
<1>10. \A s \in 1 .. Len(spaces') : s > Len(spaces) \/ s = k => s = k
  <2>1. Len(spaces) \in Nat /\ Len(spaces') = Len(spaces)
    BY <1>2, <1>6
  <2>2. QED
    BY ONLY <2>1
<1>11. Listed(spaces[k].cl)'
  <2>1. spaces'[k].cl = u
    BY ONLY <1>6, <1>7
  <2>2. QED
    BY ONLY <1>9, <2>1 DEF Listed, Alike, Reloaded
<1>12. SpacesGood'
  <2>1. \A s \in 1 .. Len(spaces') : s > Len(spaces) \/ s = k =>
          /\ spaces'[s] = [pack |-> spaces'[s].pack, cl |-> spaces'[s].cl]
          /\ Sorted(spaces'[s].cl)
    BY <1>6, <1>7, <1>10
  <2>2. \A s \in 1 .. Len(spaces') : s > Len(spaces) \/ s = k => Listed(spaces[s].cl)'
    BY <1>10, <1>11
  <2>3. QED
    BY <1>8, <2>1, <2>2, SpacesStep
<1>13. QED
  BY <1>6, <1>7, <1>8, <1>12

(* Where an import merges, no frame below has a name space or a package. *)
LEMMA IntoUntouched ==
  ASSUME PackageInv, NamesInv, stack # <<>>, NEW o, o = 0 \/ (o = Top.own /\ Top.at \in Loading),
         NEW d \in 1 .. Len(stack) - 1
  PROVE  Untouched(stack[d], Top.into, -1, o)
<1>1. PICK f : f = stack[d]
  OBVIOUS
<1>2. /\ Len(stack) \in Nat \ {0} /\ Len(Below) = Len(stack) - 1
      /\ (\A i \in 1 .. Len(Below) : Below[i] = stack[i]) /\ \A i \in 1 .. Len(stack) : stack[i].pack \in Interned
  BY TopOK DEF PackageInv
<1>3. d \in 1 .. Len(stack) /\ d \in 1 .. Len(Below) /\ f = Below[d] /\ f.pack \in Interned
  BY <1>1, <1>2
<1>4. FrameGood(f) /\ LoadedOnce /\ Code(f.pack) \in Nat
  BY <1>1, <1>3 DEF NamesInv, FramesGood, PackageInv, OnceInv, CodesInv
<1>5. FrameGood(Top) /\ Top.into \in 0 .. Len(spaces)
  BY TopNames DEF FrameGood
<1>6. f.at \in Loading => f.own # o
  <2>1. f.at \in Loading => f.own \in 2 .. Len(spaces)
    BY <1>4 DEF FrameGood
  <2>2. Top.at \in Loading /\ f.at \in Loading => f.own # Top.own
    BY <1>3, TopNames
  <2>3. QED
    BY <2>1, <2>2
<1>7. ASSUME f.at = "require" PROVE f.own # Top.into
  <2>1. f.own \in 2 .. Len(spaces)
    BY <1>4, <1>7 DEF FrameGood, Loading
  <2>2. CASE Top.into > 1
    <3>1. PICK c \in 1 .. Len(Below) : Below[c].at = "script" /\ Below[c].own = Top.into
      BY <2>2, TopNames
    <3>2. c \in 1 .. Len(stack) /\ stack[c].at = "script" /\ stack[c].own = Top.into /\ c # d
      BY <1>2, <1>3, <1>7, <3>1
    <3>3. stack[c].own # stack[d].own
      BY <1>1, <1>3, <1>7, <3>2 DEF NamesInv, Nested, Loading
    <3>4. QED
      BY <1>1, <3>2, <3>3
  <2>3. CASE ~(Top.into > 1)
    BY <1>5, <2>1, <2>3
  <2>4. QED
    BY <2>2, <2>3
<1>8. ASSUME f.at = "export" PROVE Pack(Code(f.pack)) # Top.into
  <2>1. PICK c : c = Code(f.pack)
    OBVIOUS
  <2>2. Packs(c) # {}
    BY <1>4, <1>8, <2>1 DEF FrameGood, SeenBy
  <2>3. PICK i \in 1 .. Len(packageMapNO) : Pack(c) = packageMapNO[i].space
    BY <1>4, <2>2, PackPlace
  <2>4. Pack(c) \in 2 .. Len(spaces)
    BY <2>3 DEF NamesInv, TableSpaces
  <2>5. CASE Top.into > 1
    <3>1. PICK b \in 1 .. Len(Below) : Below[b].at = "script" /\ Below[b].own = Top.into
      BY <2>5, TopNames
    <3>2. b \in 1 .. Len(stack) /\ Below[b] = stack[b] /\ stack[b].at = "script"
      BY <1>2, <3>1
    <3>3. FrameGood(stack[b])
      BY <3>2 DEF NamesInv, FramesGood
    <3>4. packageMapNO[i].space # Top.into
      BY <3>1, <3>2, <3>3 DEF FrameGood, Loading
    <3>5. QED
      BY <2>1, <2>3, <3>4
  <2>6. CASE ~(Top.into > 1)
    BY <1>5, <2>1, <2>4, <2>6
  <2>7. QED
    BY <2>5, <2>6
<1>9. Untouched(f, Top.into, -1, o)
  BY <1>4, <1>6, <1>7, <1>8 DEF Untouched, Loading
<1>10. QED
  BY <1>1, <1>9

(* The space of a loaded package, or that of the one whose script ends, is   *)
(* not the one that the innermost import merges into.                        *)
LEMMA FromElsewhere ==
  ASSUME PackageInv, NamesInv, stack # <<>>, NEW from,
         \/ \E i \in 1 .. Len(packageMapNO) : from = packageMapNO[i].space
         \/ Top.at \in Loading /\ from = Top.own
  PROVE  from \in 2 .. Len(spaces) /\ from # Top.into
<1>1. FrameGood(Top) /\ Top.into \in 0 .. Len(spaces)
  BY TopNames DEF FrameGood
<1>2. from \in 2 .. Len(spaces)
  BY <1>1 DEF NamesInv, TableSpaces, FrameGood
<1>3. CASE Top.into > 1
  <2>1. PICK b \in 1 .. Len(Below) : Below[b].at = "script" /\ Below[b].own = Top.into
    BY <1>3, TopNames
  <2>2. CASE Top.at \in Loading /\ from = Top.own
    <3>1. Below[b].own # Top.own
      BY <2>1, <2>2, TopNames DEF Loading
    <3>2. QED
      BY <1>2, <2>1, <2>2, <3>1
  <2>3. CASE \E i \in 1 .. Len(packageMapNO) : from = packageMapNO[i].space
    <3>1. b \in 1 .. Len(stack) /\ Below[b] = stack[b]
      BY <2>1, TopOK DEF PackageInv
    <3>2. FrameGood(stack[b])
      BY <3>1 DEF NamesInv, FramesGood
    <3>3. from # stack[b].own
      BY <2>1, <2>3, <3>1, <3>2 DEF FrameGood, Loading
    <3>4. QED
      BY <1>2, <2>1, <3>1, <3>3
  <2>4. QED
    BY <2>2, <2>3
<1>4. CASE ~(Top.into > 1)
  BY <1>1, <1>2, <1>4
<1>5. QED
  BY <1>3, <1>4

(* KonohaSpace_merge of a package that is in the table. *)
LEMMA MergeStep ==
  ASSUME PackageInv, CodesGrow, NamesInv, stack # <<>>, Top.into # 0,
         NEW from \in 2 .. Len(spaces), from # Top.into,
         NEW u \in merge(spaces[Top.into].cl, Top.pack, from),
         spaces' = [spaces EXCEPT ![Top.into].cl = u], ca' = ca,
         NEW x, x.pack = Top.pack, x.at = "export", x.into = Top.into,
         NEW c, c = Code(Top.pack), Packs(c)' # {}, Pack(c)' = from
  PROVE  StateStep(Top.into, -1) /\ SpacesGood' /\ ClassesGood' /\ FrameGood(x)' /\ Len(spaces') = Len(spaces)
<1>1. FrameGood(Top) /\ Top.pack \in Interned
  BY TopOK, TopNames DEF PackageInv
<1>2. /\ Len(spaces) \in Nat /\ Top.into \in 1 .. Len(spaces) /\ from \in 1 .. Len(spaces)
  BY <1>1 DEF FrameGood, NamesInv, SpacesGood
<1>3. /\ Listed(u) /\ Sorted(u) /\ Holds(u, spaces[Top.into].cl)
      /\ Keys(spaces[from].cl) \subseteq Keys(u)
      /\ Top.pack # PN_konoha =>
           \A i \in 1 .. Len(ca) : ca[i].pack = c => ca[i].key \in Keys(u)
  BY <1>2, MergeIs DEF NamesInv
<1>4. ClassStep(-1)
  BY ClassFields DEF NamesInv, ClassStep
<1>5. PICK k \in 1 .. Len(spaces) : k = Top.into
  BY <1>2
<1>6. /\ StateStep(k, -1) /\ SpacesGood' /\ Len(spaces') = Len(spaces)
      /\ spaces'[k].cl = u /\ \A s \in 1 .. Len(spaces) : s # k => spaces'[s] = spaces[s]
  BY <1>3, <1>4, <1>5, WrittenStep DEF NamesInv
<1>7. ClassesGood'
  BY <1>6, ClassesStep DEF NamesInv
<1>8. Code(x.pack)' = c
  BY <1>1 DEF CodesGrow
<1>9. FrameGood(x)'
  <2>1. x.into = k /\ k # 0 /\ k \in 0 .. Len(spaces')
    BY <1>5, <1>6
  <2>2. spaces'[from] = spaces[from]
    BY <1>2, <1>5, <1>6
  <2>3. Keys(spaces'[from].cl) \subseteq Keys(spaces'[k].cl)
    BY <1>3, <1>6, <2>2
  <2>4. x.pack # PN_konoha => \A i \in 1 .. Len(ca') : ca'[i].pack = c => ca'[i].key \in Keys(spaces'[k].cl)
    BY <1>3, <1>6
  <2>5. /\ x.into # 0 /\ Packs(c)' # {}
        /\ Keys(spaces'[Pack(c)'].cl) \subseteq Keys(spaces'[x.into].cl)
        /\ x.pack # PN_konoha =>
             \A i \in 1 .. Len(ca') : ca'[i].pack = c => ca'[i].key \in Keys(spaces'[x.into].cl)
    BY <2>1, <2>3, <2>4
  <2>6. SeenBy(x)'
    BY <1>8, <2>5 DEF SeenBy, Keys
  <2>7. QED
    BY <2>1, <2>6 DEF FrameGood, Loading
<1>10. QED
  BY <1>5, <1>6, <1>7, <1>9

LEMMA FrontIs ==
  ASSUME NEW S, NEW p \in Seq(S), NEW e \in S
  PROVE  LET t == <<e>> \o p
         IN /\ Len(t) = Len(p) + 1 /\ Len(p) \in Nat /\ t[1] = e
            /\ \A j \in 1 .. Len(p) : t[j + 1] = p[j]
OBVIOUS

(* The frames after a merge. *)
LEMMA MergedFrames ==
  ASSUME PackageInv, PackageInv', CodesGrow, NamesInv, stack # <<>>, StateStep(Top.into, -1),
         NEW o, o = 0 \/ (o = Top.own /\ Top.at \in Loading), TableStep(o),
         NEW x \in Frame, x.at = "export", x.into = Top.into,
         stack' = Below \/ (stack' = Append(Below, x) /\ FrameGood(x)')
  PROVE  FramesGood' /\ Nested(stack)'
<1>1. /\ Len(stack) \in Nat \ {0} /\ Len(Below) = Len(stack) - 1
      /\ \A i \in 1 .. Len(Below) : Below[i] = stack[i]
  BY TopOK DEF PackageInv
<1>2. PICK k, n : k = Top.into /\ n = Len(stack) - 1 /\ n \in 0 .. Len(stack)
  BY <1>1
<1>3. \A d \in 1 .. n : Untouched(stack[d], k, -1, o)
  BY <1>2, IntoUntouched
<1>4. CASE stack' = Below
  <2>1. PICK u : u = Below
    OBVIOUS
  <2>2. Nested(stack)'
    BY <1>4, TopNames DEF Nested
  <2>3. stack' = u /\ \A d \in 1 .. Len(u) : d \in 1 .. n /\ u[d] = stack[d]
    BY <1>1, <1>2, <1>4, <2>1
  <2>4. FramesGood'
    BY <1>2, <1>3, <2>3, FramesStep DEF NamesInv
  <2>5. QED
    BY <2>2, <2>4
<1>5. CASE stack' = Append(Below, x) /\ FrameGood(x)'
  <2>1. PICK u : u = Append(Below, x)
    OBVIOUS
  <2>2. /\ Nested(u)
        /\ \A d \in 1 .. Len(u) : (d \in 1 .. n /\ u[d] = stack[d]) \/ u[d] = x
    BY <1>2, <2>1, GotoNames DEF Loading
  <2>3. stack' = u
    BY <1>5, <2>1
  <2>4. Nested(stack)'
    BY <2>2, <2>3 DEF Nested
  <2>5. \A d \in 1 .. Len(u) : (d \in 1 .. n /\ u[d] = stack[d]) \/ FrameGood(u[d])'
    BY <1>5, <2>2
  <2>6. FramesGood'
    BY <1>2, <1>3, <2>3, <2>5, FramesStep DEF NamesInv
  <2>7. QED
    BY <2>4, <2>6
<1>6. QED
  BY <1>4, <1>5

LEMMA FoundNames ==
  ASSUME PackageInv, PackageInv', CodesGrow, NamesInv, Found
  PROVE  NamesInv' /\ \E k, c : StateStep(k, c)
<1> DEFINE from == Pack(Code(Top.pack))
           f == [Top EXCEPT !.at = "export", !.next = 1]
<1>1. /\ stack # <<>> /\ Packs(Code(Top.pack)) # {} /\ MergeInto(from)
      /\ kmap' = kmap /\ packageMapNO' = packageMapNO /\ ca' = ca
  BY DEF Found, At
<1>2. /\ Top \in Frame /\ Top.pack \in Interned /\ Len(stack) - 1 \in 0 .. Len(stack)
      /\ LoadedOnce /\ LoadedOnce'
  BY <1>1, TopOK DEF PackageInv, OnceInv
<1>3. f \in Frame /\ f.pack = Top.pack /\ f.at = "export" /\ f.into = Top.into
  BY <1>2, FrameFields
<1>4. CASE Top.into = 0
  <2>1. stack' = SubSeq(stack, 1, Len(stack) - 1) /\ spaces' = spaces
    BY <1>1, <1>4 DEF MergeInto, Below
  <2>2. QED
    BY <1>1, <1>2, <2>1, DropNames
<1>5. CASE Top.into # 0
  <2>1. PICK u \in merge(spaces[Top.into].cl, Top.pack, from) :
          spaces' = [spaces EXCEPT ![Top.into].cl = u]
    BY <1>1, <1>5 DEF MergeInto
  <2>2. stack' = Append(Below, f)
    BY <1>1, <1>5 DEF MergeInto, Goto
  <2>3. PICK c, s : c = Code(Top.pack) /\ s = from
    OBVIOUS
  <2>4. TableStep(0)
    BY <1>1 DEF TableStep
  <2>5. Packs(c)' # {} /\ Pack(c)' = s /\ \E i \in 1 .. Len(packageMapNO) : s = packageMapNO[i].space
    BY <1>1, <1>2, <2>3, <2>4, PackKept
  <2>6. s \in 2 .. Len(spaces) /\ s # Top.into
    BY <1>1, <2>5, FromElsewhere
  <2>7. u \in merge(spaces[Top.into].cl, Top.pack, s)
    BY <2>1, <2>3
  <2> HIDE DEF f, from
  <2>8. PICK x \in Frame : x = f
    BY <1>3
  <2>9. x.pack = Top.pack /\ x.at = "export" /\ x.into = Top.into
    BY <1>3, <2>8
  <2>10. /\ StateStep(Top.into, -1) /\ SpacesGood' /\ ClassesGood' /\ FrameGood(x)'
         /\ Len(spaces') = Len(spaces)
    BY <1>1, <1>5, <2>1, <2>3, <2>5, <2>6, <2>7, <2>9, MergeStep
  <2>11. stack' = Append(Below, x)
    BY <2>2, <2>8
  <2>12. FramesGood' /\ Nested(stack)'
    BY <1>1, <2>4, <2>8, <2>9, <2>10, <2>11, MergedFrames
  <2>13. TableSpaces'
    BY <1>1, <2>10 DEF NamesInv, TableSpaces
  <2>14. QED
    BY <2>10, <2>12, <2>13 DEF NamesInv
<1>6. QED
  BY <1>4, <1>5

LEMMA ScriptEndsNames ==
  ASSUME PackageInv, PackageInv', CodesGrow, NamesInv, ScriptEnds
  PROVE  NamesInv' /\ \E k, c : StateStep(k, c)
<1> DEFINE f == [Top EXCEPT !.at = "export", !.next = 1]
           e == [id |-> Code(Top.pack), space |-> Top.own]
<1>1. /\ stack # <<>> /\ Top.at = "script" /\ MergeInto(Top.own)
      /\ packageMapNO' = <<e>> \o packageMapNO /\ kmap' = kmap /\ ca' = ca
  BY DEF ScriptEnds, Done, At
<1>2. /\ Top \in Frame /\ Top.pack \in Interned /\ LoadedOnce' /\ Code(Top.pack) \in Nat
      /\ packageMapNO \in Seq([id : Nat, space : Nat])
  BY <1>1, TopOK DEF PackageInv, OnceInv, CodesInv, TableOK
<1>3. f \in Frame /\ f.pack = Top.pack /\ f.at = "export" /\ f.into = Top.into
  BY <1>2, FrameFields
<1>4. e \in [id : Nat, space : Nat] /\ e.space = Top.own /\ e.id = Code(Top.pack)
  BY <1>2 DEF Frame
<1>5. PICK c \in Nat, s \in 2 .. Len(spaces) : c = Code(Top.pack) /\ s = Top.own /\ s # Top.into
  <2>1. Top.own \in 2 .. Len(spaces) /\ Top.own # Top.into
    BY <1>1, FromElsewhere DEF Loading
  <2>2. QED
    BY <1>2, <2>1
<1> HIDE DEF f, e
<1>6. /\ Len(packageMapNO') = Len(packageMapNO) + 1 /\ Len(packageMapNO) \in Nat /\ packageMapNO'[1] = e
      /\ \A j \in 1 .. Len(packageMapNO) : packageMapNO'[j + 1] = packageMapNO[j]
  <2>1. PICK E, p, x : p = packageMapNO /\ x = e /\ p \in Seq(E) /\ x \in E
    BY <1>2, <1>4
  <2>2. LET t == <<x>> \o p
        IN /\ Len(t) = Len(p) + 1 /\ Len(p) \in Nat /\ t[1] = x
           /\ \A j \in 1 .. Len(p) : t[j + 1] = p[j]
    BY ONLY <2>1, FrontIs
  <2>3. QED
    BY <1>1, <2>1, <2>2
<1>7. \A i \in 1 .. Len(packageMapNO') :
        packageMapNO'[i] = e \/ \E j \in 1 .. Len(packageMapNO) : packageMapNO'[i] = packageMapNO[j]
  <2> TAKE i \in 1 .. Len(packageMapNO')
  <2>1. i = 1 \/ (i - 1 \in 1 .. Len(packageMapNO) /\ i - 1 + 1 = i)
    BY <1>6
  <2>2. QED
    BY <1>6, <2>1
<1>8. TableStep(s)
  <2>1. \A j \in 1 .. Len(packageMapNO) : j + 1 \in 1 .. Len(packageMapNO')
    BY <1>6
  <2>2. QED
    BY <1>4, <1>5, <1>6, <1>7, <2>1 DEF TableStep
<1>9. Packs(c)' # {} /\ Pack(c)' = s
  <2>1. 1 \in 1 .. Len(packageMapNO') /\ packageMapNO'[1].id = c /\ packageMapNO'[1].space = s
    BY <1>4, <1>5, <1>6
  <2>2. QED
    BY <1>2, <2>1, PackIsNext
<1>10. PICK x \in Frame : x = f /\ x.pack = Top.pack /\ x.at = "export" /\ x.into = Top.into
  BY <1>3
<1>11. /\ StateStep(Top.into, -1) /\ SpacesGood' /\ ClassesGood' /\ Len(spaces') = Len(spaces)
       /\ stack' = Below \/ (stack' = Append(Below, x) /\ FrameGood(x)')
  <2>1. CASE Top.into = 0
    <3>1. stack' = Below /\ spaces' = spaces
      BY <1>1, <2>1 DEF MergeInto
    <3>2. StateStep(0, -1)
      <4>1. Len(ca) \in Nat /\ Len(spaces) \in Nat
        BY ClassFields DEF NamesInv, SpacesGood
      <4>2. QED
        BY <1>1, <3>1, <4>1, HoldsSelf DEF StateStep
    <3>3. \A i \in 1 .. Len(spaces') : ~(i > Len(spaces) \/ i = 0)
      BY <3>1, <3>2 DEF StateStep
    <3>4. SpacesGood'
      BY <3>2, <3>3, SpacesStep DEF NamesInv
    <3>5. ClassesGood'
      BY <1>1, <3>2, ClassesStep DEF NamesInv
    <3>6. QED
      BY <2>1, <3>1, <3>2, <3>4, <3>5
  <2>2. CASE Top.into # 0
    <3>1. PICK u \in merge(spaces[Top.into].cl, Top.pack, s) :
            spaces' = [spaces EXCEPT ![Top.into].cl = u]
      BY <1>1, <1>5, <2>2 DEF MergeInto
    <3>2. stack' = Append(Below, x)
      BY <1>1, <1>10, <2>2 DEF MergeInto, Goto, f
    <3>3. /\ StateStep(Top.into, -1) /\ SpacesGood' /\ ClassesGood' /\ FrameGood(x)'
          /\ Len(spaces') = Len(spaces)
      BY <1>1, <1>5, <1>9, <1>10, <2>2, <3>1, MergeStep
    <3>4. QED
      BY <3>2, <3>3
  <2>3. QED
    BY <2>1, <2>2
<1>12. FramesGood' /\ Nested(stack)'
  <2>1. s = Top.own /\ Top.at \in Loading
    BY <1>1, <1>5 DEF Loading
  <2>2. QED
    BY <1>1, <1>8, <1>10, <1>11, <2>1, MergedFrames
<1>13. TableSpaces'
  <2>1. \A j \in 1 .. Len(packageMapNO) : packageMapNO[j].space \in 2 .. Len(spaces')
    BY <1>11 DEF NamesInv, TableSpaces
  <2>2. e.space \in 2 .. Len(spaces')
    BY <1>4, <1>5, <1>11
  <2>3. QED
    BY <1>7, <2>1, <2>2 DEF TableSpaces
<1>14. QED
  BY <1>11, <1>12, <1>13 DEF NamesInv

-----------------------------------------------------------------------------
(* initPackage: the classes of the package. *)
LEMMA DefinedStep ==
  ASSUME PackageInv, NamesInv, initPackage, NEW c \in Nat, c = Code(Top.pack)
  PROVE  /\ ClassStep(c) /\ ca' \in Seq([key : Nat, pack : Nat])
         /\ \A i, j \in 1 .. Len(ca') :
              i # j /\ ca'[i].key = ca'[j].key /\ ca'[i].pack = ca'[j].pack => Reloaded(ca'[i].pack)
<1>1. PICK cts : cts = Classes[Top.pack]
  OBVIOUS
<1>2. /\ stack # <<>> /\ Top.at = "require" /\ Top.pack \in File /\ FrameGood(Top)
      /\ ca' = ca \o [i \in 1 .. Len(cts) |-> [key |-> cts[i], pack |-> c]]
  <2>1. stack # <<>> /\ Top.at = "require"
    BY DEF initPackage, Done, At
  <2>2. ca' = ca \o [i \in 1 .. Len(cts) |-> [key |-> cts[i], pack |-> c]]
    BY <1>1 DEF initPackage
  <2>3. QED
    BY <2>1, <2>2, TopOK, TopNames DEF PackageInv
<1>3. cts \in Seq(Nat) /\ \A i, j \in 1 .. Len(cts) : cts[i] = cts[j] => i = j
  BY <1>1, <1>2, GlueAssumption
<1>4. Len(cts) \in Nat /\ \A i \in 1 .. Len(cts) : cts[i] \in Nat
  BY <1>3
<1> DEFINE C == [key : Nat, pack : Nat]
           new == [i \in 1 .. Len(cts) |-> [key |-> cts[i], pack |-> c]]
<1>5. new \in [1 .. Len(cts) -> C] /\ \A i \in 1 .. Len(cts) : new[i].key = cts[i] /\ new[i].pack = c
  BY <1>4
<1>6. ca \in Seq(C) /\ ca' = ca \o new
  BY <1>2 DEF NamesInv, ClassesGood
<1> HIDE DEF C, new
<1>7. /\ ca' \in Seq(C) /\ Len(ca') = Len(ca) + Len(cts) /\ Len(ca) \in Nat
      /\ \A i \in 1 .. Len(ca) : ca'[i] = ca[i]
      /\ \A i \in 1 .. Len(ca') : i > Len(ca) => i - Len(ca) \in 1 .. Len(cts) /\ ca'[i] = new[i - Len(ca)]
  <2>1. new \in Seq(C) /\ Len(new) = Len(cts)
    BY <1>4, <1>5
  <2>2. /\ ca \o new \in Seq(C) /\ Len(ca \o new) = Len(ca) + Len(new)
        /\ \A j \in 1 .. Len(ca) : (ca \o new)[j] = ca[j]
        /\ \A j \in Len(ca) + 1 .. Len(ca) + Len(new) : (ca \o new)[j] = new[j - Len(ca)]
    BY <1>6, <2>1, JoinedIs, Zenon
  <2>3. Len(ca) \in Nat
    BY <1>6
  <2>4. \A i \in 1 .. Len(ca') :
          i > Len(ca) => i - Len(ca) \in 1 .. Len(cts) /\ i \in Len(ca) + 1 .. Len(ca) + Len(new)
    BY <1>4, <1>6, <2>1, <2>2, <2>3
  <2>5. QED
    BY <1>6, <2>1, <2>2, <2>3, <2>4
<1>8. \A i \in 1 .. Len(ca') : i > Len(ca) =>
        i - Len(ca) \in 1 .. Len(cts) /\ ca'[i].pack = c /\ ca'[i].key = cts[i - Len(ca)]
  BY <1>5, <1>7
<1>9. ClassStep(c)
  BY <1>4, <1>7, <1>8 DEF ClassStep
<1>10. \A i \in 1 .. Len(ca) : ca[i].pack = c => Reloaded(c)
  BY <1>2 DEF FrameGood
<1>11. \A i \in 1 .. Len(ca') : i > Len(ca) \/ (i \in 1 .. Len(ca) /\ ca'[i] = ca[i])
  BY <1>7
<1>12. ASSUME NEW i \in 1 .. Len(ca'), NEW j \in 1 .. Len(ca'), i # j,
              ca'[i].key = ca'[j].key, ca'[i].pack = ca'[j].pack
       PROVE  Reloaded(ca'[i].pack)
  <2>1. CASE i \in 1 .. Len(ca) /\ ca'[i] = ca[i] /\ j \in 1 .. Len(ca) /\ ca'[j] = ca[j]
    BY <1>12, <2>1 DEF NamesInv, ClassesGood
  <2>2. CASE i > Len(ca) /\ j > Len(ca)
    <3>1. /\ i - Len(ca) \in 1 .. Len(cts) /\ j - Len(ca) \in 1 .. Len(cts)
          /\ cts[i - Len(ca)] = cts[j - Len(ca)]
      BY <1>8, <1>12, <2>2
    <3>2. i - Len(ca) = j - Len(ca)
      BY <1>3, <3>1
    <3>3. QED
      BY <1>7, <1>12, <3>2
  <2>3. CASE i > Len(ca) /\ j \in 1 .. Len(ca) /\ ca'[j] = ca[j]
    <3>1. ca'[i].pack = c
      BY <1>8, <2>3
    <3>2. QED
      BY <1>10, <1>12, <2>3, <3>1
  <2>4. CASE j > Len(ca) /\ i \in 1 .. Len(ca) /\ ca'[i] = ca[i]
    <3>1. ca'[j].pack = c
      BY <1>8, <2>4
    <3>2. QED
      BY <1>10, <1>12, <2>4, <3>1
  <2>5. QED
    BY <1>11, <2>1, <2>2, <2>3, <2>4
<1>13. QED
  BY <1>7, <1>9, <1>12 DEF C

(* initPackage: the constants of the package. *)
LEMMA LoadedConsts ==
  ASSUME NEW c \in Nat, NEW s, s \in Seq([key : Nat, boxed : BOOLEAN]), Len(ca) \in Nat,
         NEW u \in mergeConstData(<<>>, [i \in 1 .. Len(s) |->
                      [key |-> s[i].key, boxed |-> s[i].boxed, val |-> <<"const", c>>]])
  PROVE  Listed(u) /\ Sorted(u)
<1> DEFINE kvs == [i \in 1 .. Len(s) |-> [key |-> s[i].key, boxed |-> s[i].boxed, val |-> <<"const", c>>]]
<1>1. Len(s) \in Nat /\ \A i \in 1 .. Len(s) : s[i].key \in Nat /\ s[i].boxed \in BOOLEAN
  <2>1. PICK B : s \in Seq(B) /\ \A b \in B : b.key \in Nat /\ b.boxed \in BOOLEAN
    <3>1. \A b \in [key : Nat, boxed : BOOLEAN] : b.key \in Nat /\ b.boxed \in BOOLEAN
      OBVIOUS
    <3>2. QED
      BY <3>1
  <2>2. Len(s) \in Nat /\ \A i \in 1 .. Len(s) : s[i] \in B
    BY ONLY <2>1
  <2>3. QED
    BY <2>1, <2>2
<1>2. <<"const", c>> \in ({"class"} \X (1 .. Len(ca))) \cup ({"const"} \X Nat)
  OBVIOUS
<1>3. \A i \in 1 .. Len(s) : kvs[i] \in Entry(Len(ca)) /\ kvs[i].val = <<"const", c>>
  BY <1>1, <1>2 DEF Entry
<1>4. kvs \in Seq(Entry(Len(ca))) /\ Len(kvs) = Len(s)
  <2>1. kvs \in [1 .. Len(s) -> Entry(Len(ca))]
    BY <1>3
  <2> HIDE DEF kvs
  <2>2. QED
    BY <1>1, <2>1
<1> HIDE DEF kvs
<1>5. Listed(kvs)
  <2>1. ASSUME NEW i \in 1 .. Len(kvs), NEW j \in 1 .. Len(kvs) PROVE Alike(kvs[i], kvs[j])
    <3>1. kvs[i].val = <<"const", c>> /\ kvs[j].val = <<"const", c>>
      BY <1>3, <1>4
    <3>2. kvs[i].val[1] = "const" /\ kvs[i].val = kvs[j].val
      BY <3>1
    <3>3. QED
      BY <3>2 DEF Alike
  <2>2. QED
    BY <1>4, <2>1 DEF Listed
<1>6. PICK e : e = <<>> /\ Listed(e) /\ Sorted(e)
  <2>1. PICK e : e = <<>> /\ Len(e) = 0 /\ e \in Seq(Entry(Len(ca)))
    <3>1. <<>> \in Seq(Entry(Len(ca))) /\ Len(<<>>) = 0
      OBVIOUS
    <3>2. QED
      BY <3>1
  <2>2. Listed(e) /\ Sorted(e)
    BY <2>1 DEF Listed, Sorted
  <2>3. QED
    BY <2>1, <2>2
<1>7. u \in mergeConstData(e, kvs)
  BY <1>6 DEF kvs
<1>8. QED
  BY <1>5, <1>6, <1>7, ListedMerge

(* While a package is set up, no frame below has its name space or its code. *)
LEMMA OwnUntouched ==
  ASSUME PackageInv, NamesInv, stack # <<>>, Top.at = "require", NEW d \in 1 .. Len(stack) - 1
  PROVE  Untouched(stack[d], Top.own, Code(Top.pack), 0)
<1>1. PICK f : f = stack[d]
  OBVIOUS
<1>2. /\ Len(stack) \in Nat \ {0} /\ Len(Below) = Len(stack) - 1 /\ Top.pack \in Interned
      /\ (\A i \in 1 .. Len(Below) : Below[i] = stack[i]) /\ \A i \in 1 .. Len(stack) : stack[i].pack \in Interned
      /\ StackOK(stack) /\ Packs(Code(Top.pack)) = {}
  BY TopOK DEF PackageInv, OnceInv, Loading
<1>3. /\ d \in 1 .. Len(stack) /\ Len(stack) \in 1 .. Len(stack) /\ d < Len(stack)
      /\ d \in 1 .. Len(Below) /\ f = Below[d] /\ f.pack \in Interned
  BY <1>1, <1>2
<1>4. FrameGood(f) /\ FrameGood(Top) /\ LoadedOnce /\ CodesInv
  BY <1>1, <1>3, TopNames DEF NamesInv, FramesGood, PackageInv, OnceInv
<1>5. Code(f.pack) # Code(Top.pack)
  <2>1. stack[d].pack # stack[Len(stack)].pack
    BY <1>2, <1>3, Distinct
  <2>2. QED
    BY <1>1, <1>2, <1>3, <1>4, <2>1 DEF Top, CodesInv
<1>6. f.at \in Loading => f.own # Top.own /\ f.own # 0
  BY <1>3, <1>4, TopNames DEF FrameGood, Loading
<1>7. ASSUME f.at = "export" PROVE Pack(Code(f.pack)) # Top.own
  <2>1. PICK c : c = Code(f.pack)
    OBVIOUS
  <2>2. Packs(c) # {}
    BY <1>4, <1>7, <2>1 DEF FrameGood, SeenBy
  <2>3. PICK i \in 1 .. Len(packageMapNO) : Pack(c) = packageMapNO[i].space
    BY <1>4, <2>2, PackPlace
  <2>4. QED
    BY <1>4, <2>1, <2>3 DEF FrameGood, Loading
<1>8. Untouched(f, Top.own, Code(Top.pack), 0)
  BY <1>5, <1>6, <1>7 DEF Untouched, Loading
<1>9. QED
  BY <1>1, <1>8

(* The class table after the package's classes were added. *)
LEMMA DefinedClasses ==
  ASSUME ClassesGood, NEW k \in 1 .. Len(spaces), NEW c, StateStep(k, c), spaces[k].pack = c,
         ca' \in Seq([key : Nat, pack : Nat]),
         \A i, j \in 1 .. Len(ca') :
           i # j /\ ca'[i].key = ca'[j].key /\ ca'[i].pack = ca'[j].pack => Reloaded(ca'[i].pack)
  PROVE  ClassesGood'
<1>1. ASSUME NEW i \in 1 .. Len(ca') PROVE \E s \in 1 .. Len(spaces') : spaces'[s].pack = ca'[i].pack
  <2>1. CASE i > Len(ca)
    <3>1. k \in 1 .. Len(spaces') /\ spaces'[k].pack = c
      BY DEF StateStep
    <3>2. ca'[i].pack = c
      BY <2>1 DEF StateStep
    <3>3. QED
      BY <3>1, <3>2
  <2>2. CASE i \in 1 .. Len(ca)
    <3>1. PICK s \in 1 .. Len(spaces) : spaces[s].pack = ca[i].pack
      BY <2>2 DEF ClassesGood
    <3>2. ca'[i] = ca[i] /\ s \in 1 .. Len(spaces') /\ spaces'[s].pack = spaces[s].pack
      BY <2>2 DEF StateStep
    <3>3. QED
      BY <3>1, <3>2
  <2>3. QED
    BY <2>1, <2>2 DEF StateStep
<1>2. ASSUME NEW i \in 1 .. Len(ca'), NEW j \in 1 .. Len(ca'),
             i # j /\ ca'[i].key = ca'[j].key /\ ca'[i].pack = ca'[j].pack
      PROVE  Reloaded(ca[i].pack)'
  <2>1. PICK p : p = ca'[i].pack
    OBVIOUS
  <2>2. Reloaded(p)
    BY <1>2, <2>1
  <2>3. Reloaded(p)'
    BY <2>2, ReloadedKept
  <2>4. QED
    BY <2>1, <2>3 DEF Reloaded
<1>3. QED
  BY <1>1, <1>2 DEF ClassesGood

LEMMA InitPackageNames ==
  ASSUME PackageInv, PackageInv', CodesGrow, NamesInv, initPackage
  PROVE  NamesInv' /\ \E k, c : StateStep(k, c)
<1> DEFINE f == [Top EXCEPT !.at = "script", !.next = 1]
           kvs == Consts[Top.pack]
<1>1. /\ stack # <<>> /\ Top.at = "require" /\ stack' = Append(Below, f)
      /\ packageMapNO' = packageMapNO /\ kmap' = kmap
  BY DEF initPackage, Done, At, Goto
<1>2. /\ Top \in Frame /\ Top.pack \in Interned \cap File /\ FrameGood(Top)
      /\ Len(stack) \in Nat \ {0} /\ CodesInv
  BY <1>1, TopOK, TopNames DEF PackageInv, OnceInv
<1>3. f \in Frame /\ f.pack = Top.pack /\ f.at = "script" /\ f.into = Top.into /\ f.own = Top.own
  BY <1>2, FrameFields
<1>4. PICK c \in Nat, k \in 2 .. Len(spaces), x \in Frame, n \in Interned :
        /\ n = Top.pack /\ c = Code(n) /\ k = Top.own
        /\ x = f /\ x.pack = n /\ x.at = "script" /\ x.into = Top.into /\ x.own = k
        /\ spaces[k].pack = c /\ spaces[k].cl = <<>>
        /\ \A i \in 1 .. Len(packageMapNO) : packageMapNO[i].space # k
  <2>1. /\ Top.own \in 2 .. Len(spaces) /\ spaces[Top.own].pack = Code(Top.pack)
        /\ spaces[Top.own].cl = <<>>
        /\ \A i \in 1 .. Len(packageMapNO) : packageMapNO[i].space # Top.own
    BY <1>1, <1>2 DEF FrameGood, Loading
  <2>2. Code(Top.pack) \in Nat /\ Top.pack \in Interned
    BY <1>2 DEF CodesInv
  <2> HIDE DEF f
  <2>3. QED
    BY <1>3, <2>1, <2>2
<1> HIDE DEF f
<1>5. PICK s \in Seq([key : Nat, boxed : BOOLEAN]) : s = kvs
  BY <1>2, GlueAssumption
<1>6. PICK u \in mergeConstData(<<>>, [i \in 1 .. Len(s) |->
                    [key |-> s[i].key, boxed |-> s[i].boxed, val |-> <<"const", c>>]]) :
        spaces' = [spaces EXCEPT ![k].cl = u]
  <2>1. \E cl \in mergeConstData(<<>>, [i \in 1 .. Len(kvs) |->
               [key |-> kvs[i].key, boxed |-> kvs[i].boxed, val |-> <<"const", Code(Top.pack)>>]]) :
          spaces' = [spaces EXCEPT ![Top.own].cl = cl]
    BY DEF initPackage
  <2> HIDE DEF kvs
  <2>2. c = Code(Top.pack) /\ k = Top.own /\ s = kvs
    BY <1>4, <1>5
  <2>3. QED
    BY <2>1, <2>2
<1>7. Len(ca) \in Nat /\ Len(spaces) \in Nat
  BY ClassFields DEF NamesInv, SpacesGood
<1>8. Listed(u) /\ Sorted(u)
  BY <1>6, <1>7, LoadedConsts
<1>9. /\ ClassStep(c) /\ ca' \in Seq([key : Nat, pack : Nat])
       /\ \A i, j \in 1 .. Len(ca') :
            i # j /\ ca'[i].key = ca'[j].key /\ ca'[i].pack = ca'[j].pack => Reloaded(ca'[i].pack)
  BY <1>4, DefinedStep
<1>10. Holds(u, spaces[k].cl) /\ k \in 1 .. Len(spaces)
  <2>1. Len(<<>>) = 0
    OBVIOUS
  <2>2. QED
    BY <1>4, <1>7, <2>1 DEF Holds
<1>11. StateStep(k, c) /\ SpacesGood' /\ Len(spaces') = Len(spaces)
  BY <1>6, <1>8, <1>9, <1>10, WrittenStep DEF NamesInv
<1>12. ClassesGood'
  BY <1>4, <1>9, <1>10, <1>11, DefinedClasses DEF NamesInv
<1>13. TableSpaces' /\ TableStep(0)
  BY <1>1, <1>11 DEF NamesInv, TableSpaces, TableStep
<1>14. Code(x.pack)' = c
  BY <1>4 DEF CodesGrow
<1>15. FrameGood(x)'
  <2>1. x.into \in 0 .. Len(spaces')
    BY <1>2, <1>4, <1>11 DEF FrameGood
  <2>2. x.own \in 2 .. Len(spaces') /\ spaces'[x.own].pack = c
    BY <1>4, <1>10, <1>11 DEF StateStep
  <2>3. \A i \in 1 .. Len(packageMapNO') : packageMapNO'[i].space # x.own
    BY <1>1, <1>4
  <2>4. QED
    BY <1>4, <1>14, <2>1, <2>2, <2>3 DEF FrameGood
<1>16. PICK v : v = Append(Below, x)
  OBVIOUS
<1>17. /\ Nested(v) /\ Len(stack) - 1 \in 0 .. Len(stack)
       /\ \A d \in 1 .. Len(v) : (d \in 1 .. Len(stack) - 1 /\ v[d] = stack[d]) \/ v[d] = x
  BY <1>1, <1>4, <1>16, TopNames, GotoNames DEF Loading
<1>18. stack' = v
  BY <1>1, <1>4, <1>16
<1>19. Nested(stack)'
  BY <1>17, <1>18 DEF Nested
<1>20. \A d \in 1 .. Len(stack) - 1 : Untouched(stack[d], k, c, 0)
  BY <1>1, <1>4, OwnUntouched
<1>21. FramesGood'
  <2>1. \A d \in 1 .. Len(v) : (d \in 1 .. Len(stack) - 1 /\ v[d] = stack[d]) \/ FrameGood(v[d])'
    BY <1>15, <1>17
  <2>2. QED
    BY <1>11, <1>13, <1>17, <1>18, <1>20, <2>1, FramesStep DEF NamesInv
<1>22. QED
  BY <1>11, <1>12, <1>13, <1>19, <1>21 DEF NamesInv

-----------------------------------------------------------------------------
LEMMA NamesFirst == Init => NamesInv
<1> SUFFICES ASSUME Init PROVE NamesInv
  OBVIOUS
<1>1. PICK e : e = <<>> /\ Len(e) = 0 /\ \A S : e \in Seq(S)
  <2>1. Len(<<>>) = 0 /\ \A S : <<>> \in Seq(S)
    OBVIOUS
  <2>2. QED
    BY <2>1
<1>2. packageMapNO = e /\ ca = e /\ stack = e
  BY <1>1 DEF Init
<1>3. Len(spaces) = 1 /\ spaces[1].cl = e /\ spaces[1] = [pack |-> spaces[1].pack, cl |-> spaces[1].cl]
  BY <1>1 DEF Init
<1>4. Listed(e) /\ Sorted(e)
  BY <1>1 DEF Listed, Sorted
<1>5. SpacesGood
  <2>1. \A s \in 1 .. Len(spaces) : s = 1
    BY <1>3
  <2>2. QED
    BY <1>3, <1>4, <2>1 DEF SpacesGood
<1>6. ClassesGood
  BY <1>1, <1>2 DEF ClassesGood
<1>7. FramesGood /\ Nested(stack) /\ TableSpaces
  BY <1>1, <1>2 DEF FramesGood, Nested, TableSpaces
<1>8. QED
  BY <1>5, <1>6, <1>7 DEF NamesInv

(* What the name spaces, the class table and the frames keep in every step. *)
LEMMA NamesStep ==
  ASSUME PackageInv, NamesInv, [Next]_vars
  PROVE  PackageInv' /\ NamesInv' /\ \E k, c : StateStep(k, c)
<1>1. PackageInv' /\ CodesGrow
  BY PackageStep, StepInterns, CodesStep DEF PackageInv
<1>2. CASE (\E name \in Name : Import(name)) \/ ImportNext
  BY <1>1, <1>2, ImportNames, ImportNextNames
<1>3. CASE Found
  BY <1>1, <1>3, FoundNames
<1>4. CASE Load
  BY <1>1, <1>4, LoadNames
<1>5. CASE initPackage
  BY <1>1, <1>5, InitPackageNames
<1>6. CASE ScriptEnds
  BY <1>1, <1>6, ScriptEndsNames
<1>7. CASE NotFound \/ ScriptFails \/ ImportEnds
  <2>1. Len(stack) \in Nat \ {0}
    BY <1>7, TopOK DEF NotFound, ScriptFails, ImportEnds, Done, At, PackageInv
  <2>2. PICK n \in 0 .. Len(stack) : stack' = SubSeq(stack, 1, n)
    <3>1. CASE NotFound
      BY <2>1, <3>1 DEF NotFound
    <3>2. CASE ScriptFails \/ ImportEnds
      BY <2>1, <3>2 DEF ScriptFails, ImportEnds, Below
    <3>3. QED
      BY <1>7, <3>1, <3>2
  <2>3. spaces' = spaces /\ ca' = ca /\ packageMapNO' = packageMapNO
    BY <1>7 DEF NotFound, ScriptFails, ImportEnds
  <2>4. QED
    BY <1>1, <2>2, <2>3, DropNames
<1>8. CASE UNCHANGED vars
  <2>1. stack' = stack /\ spaces' = spaces /\ ca' = ca /\ packageMapNO' = packageMapNO
    BY <1>8 DEF vars
  <2>2. PICK u, n : u = stack /\ n = Len(stack)
    OBVIOUS
  <2>3. Nested(u) /\ stack' = u /\ n \in 0 .. Len(stack) /\ \A d \in 1 .. Len(u) : d \in 1 .. n /\ u[d] = stack[d]
    BY <2>1, <2>2 DEF NamesInv, PackageInv, OnceInv, StackOK
  <2>4. QED
    BY <1>1, <2>1, <2>3, QuietStep
<1>9. QED
  BY <1>2, <1>3, <1>4, <1>5, <1>6, <1>7, <1>8 DEF Next

(* A name that a table has is found by the binary search. *)
LEMMA FoundIn ==
  ASSUME NEW n \in Nat, NEW cl \in Seq(Entry(n)), Sorted(cl), NEW key \in Keys(cl)
  PROVE  /\ getConst(cl, key) # 0 /\ getConst(cl, key) \in 1 .. Len(cl)
         /\ cl[getConst(cl, key)].key = key
<1>1. Len(cl) \in Nat /\ \A i \in 1 .. Len(cl) : cl[i] \in Entry(n)
  OBVIOUS
<1>2. \A i \in 1 .. Len(cl) : cl[i].key \in Int
  BY <1>1, EntryFields
<1>3. key \in Int /\ \E i \in 1 .. Len(cl) : cl[i].key = key
  BY <1>2 DEF Keys
<1> DEFINE g == getConst(cl, key)
<1>4. /\ g # 0 => g \in 1 .. Len(cl) /\ cl[g].key = key
      /\ Sorted(cl) /\ (\E i \in 1 .. Len(cl) : cl[i].key = key) => g # 0
  BY <1>1, <1>2, <1>3, GetConstFinds
<1>5. QED
  BY <1>3, <1>4

(* A set with two members has more than one. *)
LEMMA TwoPlaces ==
  ASSUME NEW n \in Nat, NEW S \in SUBSET (1 .. n)
  PROVE  (\E i, j \in S : i # j) => Cardinality(S) > 1
<1>1. IsFiniteSet(S) /\ Cardinality(S) \in Nat
  <2>1. 1 \in Int /\ n \in Int
    OBVIOUS
  <2>2. IsFiniteSet(1 .. n)
    BY <2>1, FS_Interval
  <2>3. IsFiniteSet(S)
    BY <2>2, FS_Subset
  <2>4. QED
    BY <2>3, FS_CardinalityType
<1>2. Cardinality(S) = 1 => \E x : S = {x}
  BY <1>1, FS_Singleton
<1>3. Cardinality(S) = 0 => S = {}
  BY <1>1, FS_EmptySet
<1>4. QED
  BY <1>1, <1>2, <1>3

LEMMA ReloadedIs ==
  ASSUME SpacesGood, NEW c, Reloaded(c)
  PROVE  IsRetried(c)
<1>1. PICK n \in Nat : n = Len(spaces)
  BY DEF SpacesGood
<1>2. PICK S : S = {s \in 1 .. Len(spaces) : spaces[s].pack = c}
  OBVIOUS
<1>3. S \in SUBSET (1 .. n) /\ \E s, t \in S : s # t
  BY <1>1, <1>2 DEF Reloaded
<1>4. Cardinality(S) > 1
  BY <1>3, TwoPlaces
<1>5. QED
  BY <1>2, <1>4 DEF IsRetried

LEMMA SeenIs ==
  ASSUME NamesInv, NEW d \in 1 .. Len(stack), stack[d].at = "export",
         NEW key \in Keys(spaces[Pack(Code(stack[d].pack))].cl) \cup Keys(ClassNames(stack[d].pack))
  PROVE  IsFound(stack[d].into, key)
<1>1. PICK f : f = stack[d]
  OBVIOUS
<1>2. FrameGood(f) /\ f.at = "export"
  BY <1>1 DEF NamesInv, FramesGood
<1>3. SeenBy(f) /\ f.into \in 1 .. Len(spaces) /\ Len(ca) \in Nat
  BY <1>2, ClassFields DEF FrameGood, SeenBy, NamesInv, SpacesGood
<1>4. PICK t : t = spaces[f.into].cl
  OBVIOUS
<1>5. t \in Seq(Entry(Len(ca))) /\ Sorted(t)
  BY <1>3, <1>4 DEF NamesInv, SpacesGood, Listed
<1>6. key \in Keys(t)
  <2>1. CASE key \in Keys(spaces[Pack(Code(f.pack))].cl)
    BY <1>3, <1>4, <2>1 DEF SeenBy
  <2>2. CASE key \in Keys(ClassNames(f.pack))
    <3>1. PICK kvs : kvs = ClassNames(f.pack)
      OBVIOUS
    <3>2. PICK j \in 1 .. Len(kvs) : key = kvs[j].key
      BY <2>2, <3>1 DEF Keys
    <3>3. f.pack # PN_konoha
      <4>1. f.pack = PN_konoha => Len(kvs) = 0
        BY <3>1, ClassNamesAre DEF NamesInv
      <4>2. QED
        BY <3>2, <4>1
    <3>4. \E i \in 1 .. Len(ca) : ca[i].pack = Code(f.pack) /\ kvs[j].key = ca[i].key
      BY <3>1, <3>2, ClassNamesAre, SMTT(30) DEF NamesInv
    <3>5. QED
      BY <1>3, <1>4, <3>2, <3>3, <3>4 DEF SeenBy
  <2>3. QED
    BY <1>1, <2>1, <2>2
<1>7. getConst(t, key) # 0
  BY <1>3, <1>5, <1>6, FoundIn
<1>8. QED
  BY <1>1, <1>4, <1>7 DEF IsFound

LEMMA TwiceIs ==
  ASSUME NamesInv, NEW ns \in 1 .. Len(spaces), NEW i \in 1 .. Len(spaces[ns].cl),
         NEW j \in 1 .. Len(spaces[ns].cl), i < j, spaces[ns].cl[i].key = spaces[ns].cl[j].key
  PROVE  LET a == spaces[ns].cl[i]  b == spaces[ns].cl[j]
         IN \/ a.boxed \/ b.boxed
            \/ a.val[1] = "const" /\ a.val = b.val
            \/ /\ a.val[1] = "class" /\ b.val[1] = "class"
               /\ ca[a.val[2]].pack = ca[b.val[2]].pack /\ IsRetried(ca[a.val[2]].pack)
<1>1. PICK t : t = spaces[ns].cl
  OBVIOUS
<1>2. Listed(t)
  BY <1>1 DEF NamesInv, SpacesGood
<1>3. i \in 1 .. Len(t) /\ j \in 1 .. Len(t) /\ i # j /\ t[i].key = t[j].key
  BY <1>1
<1>4. PICK a, b : a = t[i] /\ b = t[j] /\ Alike(a, b)
  BY <1>2, <1>3 DEF Listed
<1>5. Reloaded(ca[a.val[2]].pack) => IsRetried(ca[a.val[2]].pack)
  BY ReloadedIs DEF NamesInv
<1>6. QED
  BY <1>1, <1>4, <1>5 DEF Alike

LEMMA KeptIs ==
  ASSUME NamesInv, NamesInv', NEW k, NEW c, StateStep(k, c),
         NEW ns \in 1 .. Len(spaces), NEW key \in Keys(spaces[ns].cl)
  PROVE  IsFound(ns, key)' /\ (Unanimous(ns, key)' => Value(ns, key)' = Value(ns, key))
<1>1. PICK s, t, n, m : /\ s = spaces[ns].cl /\ t = spaces'[ns].cl
                        /\ n = Len(ca) /\ m = Len(ca') /\ n \in Nat /\ m \in Nat
  BY DEF StateStep
<1>2. ns \in 1 .. Len(spaces') /\ Holds(t, s)
  BY <1>1 DEF StateStep
<1>3. s \in Seq(Entry(n)) /\ Sorted(s) /\ key \in Keys(s)
  BY <1>1 DEF NamesInv, SpacesGood, Listed
<1>4. t \in Seq(Entry(m)) /\ Sorted(t) /\ Len(t) \in Nat
  <2>1. t \in Seq(Entry(m)) /\ Sorted(t)
    BY <1>1, <1>2 DEF NamesInv, SpacesGood, Listed, Sorted
  <2>2. QED
    BY <2>1
<1>5. key \in Keys(t)
  BY <1>2, <1>3, KeysKept
<1>6. PICK g, h : /\ g = getConst(s, key) /\ g \in 1 .. Len(s) /\ s[g].key = key
                  /\ h = getConst(t, key) /\ h # 0 /\ h \in 1 .. Len(t) /\ t[h].key = key
  <2>1. n \in Nat /\ m \in Nat
    BY <1>1
  <2>2. getConst(s, key) \in 1 .. Len(s) /\ s[getConst(s, key)].key = key
    BY <1>3, <2>1, FoundIn
  <2>3. /\ getConst(t, key) # 0 /\ getConst(t, key) \in 1 .. Len(t)
        /\ t[getConst(t, key)].key = key
    BY <1>4, <1>5, <2>1, FoundIn
  <2>4. QED
    BY <2>2, <2>3
<1>7. PICK j \in 1 .. Len(t) : t[j] = s[g]
  BY <1>2, <1>6 DEF Holds
<1>8. IsFound(ns, key)'
  BY <1>1, <1>6 DEF IsFound
<1>9. ASSUME Unanimous(ns, key)' PROVE Value(ns, key)' = Value(ns, key)
  <2>1. h \in 1 .. Len(t) /\ j \in 1 .. Len(t) /\ t[h].key = key /\ t[j].key = key
    BY <1>6, <1>7
  <2>2. t[h].val = t[j].val
    BY <1>1, <1>9, <2>1 DEF Unanimous
  <2>3. QED
    BY <1>1, <1>6, <1>7, <2>2 DEF Value
<1>10. QED
  BY <1>8, <1>9

(* An import is seen: once a package is merged, each name that it has, its   *)
(* classes' and those it imported itself, is found by the binary search in   *)
(* the importing name space (KonohaSpace_merge, KonohaSpace_getConstNULL).   *)
THEOREM ImportsAreSeen == Spec => []ImportedSeen
<1>1. PackageInv /\ NamesInv /\ [Next]_vars => PackageInv' /\ NamesInv'
  BY NamesStep
<1>2. NamesInv => ImportedSeen
  BY SeenIs, SMTT(30) DEF ImportedSeen
<1>3. QED
  BY PackageFirst, NamesFirst, <1>1, <1>2, PTL DEF Spec

(* A name gets a second entry in a name space only when it is boxed, a class *)
(* of a package that was loaded again, or a constant that one package's      *)
(* table has twice (checkConflictedConst, KonohaSpace_mergeConstData).       *)
THEOREM SecondEntries == Spec => []TwiceOnlyReloaded
<1>1. PackageInv /\ NamesInv /\ [Next]_vars => PackageInv' /\ NamesInv'
  BY NamesStep
<1>2. NamesInv => TwiceOnlyReloaded
  BY TwiceIs DEF TwiceOnlyReloaded
<1>3. QED
  BY PackageFirst, NamesFirst, <1>1, <1>2, PTL DEF Spec

(* A name that is found stays so, whatever is imported later, and keeps its  *)
(* value unless an entry with another one is merged.                         *)
THEOREM FoundNamesStay == Spec => NamesKept
<1> DEFINE Kept == \A ns \in 1 .. Len(spaces) : \A key \in Keys(spaces[ns].cl) :
                     IsFound(ns, key)' /\ (Unanimous(ns, key)' => Value(ns, key)' = Value(ns, key))
<1>1. PackageInv /\ NamesInv /\ [Next]_vars => PackageInv' /\ NamesInv' /\ Kept
  <2> SUFFICES ASSUME PackageInv, NamesInv, [Next]_vars PROVE PackageInv' /\ NamesInv' /\ Kept
    OBVIOUS
  <2>1. PackageInv' /\ NamesInv' /\ \E k, c : StateStep(k, c)
    BY NamesStep
  <2>2. Kept
    BY <2>1, KeptIs
  <2>3. QED
    BY <2>1, <2>2
<1>2. QED
  BY PackageFirst, NamesFirst, <1>1, PTL DEF Spec, NamesKept
=============================================================================
