----------------------------- MODULE Reader_proofs -----------------------------
(***************************************************************************)
(* What holds of the write buffers of klibexec.h, and of the reader and    *)
(* the tokenizer that share them, for every size of the array, every       *)
(* nesting and every file, as long as no format produces a text of InitMax *)
(* bytes or more: of a longer one Kwb_vprintf may lose the end, for it     *)
(* counts the room that it asks for from the start of the array.           *)
(***************************************************************************)
EXTENDS Reader, FiniteSetTheorems, FunctionTheorems, WellFoundedInduction, TLAPS

(* Any set of natural numbers has a least element: the induction of the      *)
(* proofs below.                                                             *)
LEMMA LeastOf ==
  ASSUME NEW S \in SUBSET Nat, S # {}
  PROVE  \E m \in S : \A k \in S : m <= k
<1> DEFINE R == OpToRel(<, Nat)
<1>1. \A j, k \in Nat : j < k => <<j, k>> \in R
  BY DEF OpToRel
<1>2. IsWellFoundedOn(R, Nat)
  BY NatLessThanWellFounded
<1> HIDE DEF R
<1>3. PICK m \in S : \A k \in S : ~ (<<k, m>> \in R)
  BY <1>2, WFMin
<1>4. ASSUME NEW k \in S PROVE m <= k
  <2>1. m \in Nat /\ k \in Nat /\ ~(k < m)
    BY <1>1, <1>3
  <2>2. QED
    BY <2>1
<1>5. QED
  BY <1>4

(* The buffers lie one behind the other, in the used part of the array. *)
Ordered ==
  /\ \A k \in 1 .. Len(wb) : wb[k].pos <= bytesize
  /\ \A j, k \in 1 .. Len(wb) : j <= k => wb[j].pos <= wb[k].pos

IInv ==
  /\ TypeOK /\ Fits /\ InitMax <= bytemax
  /\ Ordered /\ TextWhole /\ ZeroBehind

(* The strings the model writes are sequences of bytes. *)
LEMMA TextType ==
  ASSUME NEW n \in Nat, NEW t \in Text(n)
  PROVE  t \in Seq(Byte) /\ Len(t) \in Nat /\ Len(t) <= n
<1>1. PICK m \in 0 .. n, b \in Byte : t = [i \in 1 .. m |-> b]
  BY DEF Text
<1> QED BY <1>1

LEMMA SeqElement ==
  ASSUME NEW S, NEW s \in Seq(S), NEW k \in 1 .. Len(s)
  PROVE  s[k] \in S
OBVIOUS

LEMMA SeqExcept ==
  ASSUME NEW S, NEW s \in Seq(S), NEW k \in 1 .. Len(s), NEW e \in S
  PROVE  /\ [s EXCEPT ![k] = e] \in Seq(S) /\ Len([s EXCEPT ![k] = e]) = Len(s)
         /\ \A j \in 1 .. Len(s) : [s EXCEPT ![k] = e][j] = IF j = k THEN e ELSE s[j]
OBVIOUS

LEMMA SeqConcat ==
  ASSUME NEW S, NEW s \in Seq(S), NEW u \in Seq(S)
  PROVE  /\ Len(s \o u) = Len(s) + Len(u)
         /\ \A j \in 1 .. Len(s \o u) :
              (s \o u)[j] = IF j <= Len(s) THEN s[j] ELSE u[j - Len(s)]
OBVIOUS

LEMMA SeqAppend ==
  ASSUME NEW S, NEW s \in Seq(S), NEW e \in S
  PROVE  /\ Append(s, e) \in Seq(S) /\ Len(Append(s, e)) = Len(s) + 1
         /\ Append(s, e)[Len(s) + 1] = e
         /\ \A j \in 1 .. Len(s) : Append(s, e)[j] = s[j]
OBVIOUS

LEMMA SeqPrefix ==
  ASSUME NEW S, NEW s \in Seq(S), NEW n \in 1 .. Len(s)
  PROVE  /\ SubSeq(s, 1, n - 1) \in Seq(S) /\ Len(s) \in Nat /\ n \in Nat \ {0} /\ n <= Len(s)
         /\ Len(SubSeq(s, 1, n - 1)) = n - 1
         /\ \A j \in 1 .. n - 1 : SubSeq(s, 1, n - 1)[j] = s[j]
<1> DEFINE u == SubSeq(s, 1, n - 1)
<1>1. Len(s) \in Nat /\ n \in Nat \ {0} /\ n <= Len(s)
  OBVIOUS
<1>2. u = [j \in 1 .. n - 1 |-> s[j]]
  BY <1>1
<1>3. \A j \in 1 .. n - 1 : j \in 1 .. Len(s)
  BY <1>1
<1>4. \A j \in 1 .. n - 1 : s[j] \in S
  BY <1>3, SeqElement
<1> HIDE DEF u
<1>5. u \in Seq(S) /\ Len(u) = n - 1
  BY <1>1, <1>2, <1>4
<1> QED BY <1>1, <1>2, <1>5 DEF u

LEMMA BufferFields ==
  ASSUME NEW r \in Buffer
  PROVE  r.pos \in Nat /\ r.text \in Seq(Byte) /\ Len(r.text) \in Nat
BY DEF Buffer

(* What the invariant says of one buffer. *)
LEMMA BufferFacts ==
  ASSUME IInv, NEW k \in 1 .. Len(wb)
  PROVE  /\ wb[k].pos \in Nat /\ wb[k].text \in Seq(Byte) /\ Len(wb[k].text) \in Nat
         /\ wb[k].pos <= bytesize
         /\ End(k) \in Nat /\ End(k) <= bytesize
         /\ End(k) - wb[k].pos = Len(wb[k].text)
         /\ \A i \in 1 .. Len(wb[k].text) :
              /\ wb[k].pos + i - 1 \in 0 .. bytesize - 1
              /\ At(wb[k].pos + i - 1) = wb[k].text[i]
<1>1. bytesize \in Nat /\ wb \in Seq(Buffer)
  BY DEF IInv, TypeOK
<1>2. \A j \in 1 .. Len(wb) : wb[j].pos \in Nat /\ wb[j].pos <= bytesize
  BY <1>1, SeqElement, BufferFields DEF IInv, Ordered
<1>3. wb[k].text \in Seq(Byte) /\ Len(wb[k].text) \in Nat
  BY <1>1, SeqElement, BufferFields
<1>4. End(k) \in Nat /\ End(k) <= bytesize
  BY <1>1, <1>2 DEF End
<1>5. /\ End(k) - wb[k].pos = Len(wb[k].text)
      /\ \A i \in 1 .. Len(wb[k].text) : At(wb[k].pos + i - 1) = wb[k].text[i]
  BY DEF IInv, TextWhole
<1>6. wb[k].pos \in Nat /\ wb[k].pos <= bytesize
  BY <1>2
<1>7. \A i \in 1 .. Len(wb[k].text) : wb[k].pos + i - 1 \in 0 .. bytesize - 1
  <2> DEFINE p == wb[k].pos
             l == Len(wb[k].text)
             e == End(k)
  <2>1. p \in Nat /\ l \in Nat /\ e \in Nat /\ bytesize \in Nat /\ e <= bytesize /\ e - p = l
    BY <1>1, <1>3, <1>4, <1>5, <1>6
  <2> HIDE DEF p, l, e
  <2>2. \A i \in 1 .. l : p + i - 1 \in 0 .. bytesize - 1
    BY ONLY <2>1
  <2> QED BY <2>2 DEF p, l
<1> QED BY <1>3, <1>4, <1>5, <1>6, <1>7, Zenon

(* The byte at i after the step. *)
Now(i) == IF i < bytemax' THEN bytebuf'[i] ELSE 0

(* The buffers up to h keep their text when the bytes below p, where the   *)
(* text of each of them ends, stay what they are.                          *)
LEMMA KeptTexts ==
  ASSUME IInv, NEW h \in Nat, h <= Len(wb), NEW p,
         \A k \in 1 .. h : wb'[k] = wb[k] /\ End(k)' = End(k) /\ End(k) <= p,
         \A i \in 0 .. bytesize - 1 : i < p => Now(i) = At(i), p \in Nat
  PROVE  \A k \in 1 .. h :
           /\ End(k)' - wb'[k].pos = Len(wb'[k].text)
           /\ \A i \in 1 .. Len(wb'[k].text) : Now(wb'[k].pos + i - 1) = wb'[k].text[i]
<1> SUFFICES ASSUME NEW k \in 1 .. h
             PROVE  /\ End(k) - wb[k].pos = Len(wb[k].text)
                    /\ \A i \in 1 .. Len(wb[k].text) : Now(wb[k].pos + i - 1) = wb[k].text[i]
  OBVIOUS
<1> DEFINE x == wb[k].text
           q == wb[k].pos
           e == End(k)
<1>1. /\ q \in Nat /\ x \in Seq(Byte) /\ Len(x) \in Nat /\ e \in Nat /\ e - q = Len(x)
      /\ \A i \in 1 .. Len(x) : q + i - 1 \in 0 .. bytesize - 1 /\ At(q + i - 1) = x[i]
  <2>1. Len(wb) \in Nat
    BY DEF IInv, TypeOK
  <2>2. k \in 1 .. Len(wb)
    BY <2>1
  <2> QED BY <2>2, BufferFacts
<1>2. e <= p
  OBVIOUS
<1> HIDE DEF x, q, e
<1>3. \A i \in 1 .. Len(x) : q + i - 1 < p
  BY <1>1, <1>2
<1>4. \A i \in 1 .. Len(x) : Now(q + i - 1) = x[i]
  BY <1>1, <1>3
<1> QED BY <1>1, <1>4 DEF x, q, e

(* A text is added to the newest buffer, the others stay as they are. *)
LEMMA WroteFacts ==
  ASSUME wb \in Seq(Buffer), wb # <<>>, NEW t \in Seq(Byte), Wrote(t)
  PROVE  /\ wb' \in Seq(Buffer) /\ Len(wb') = Len(wb) /\ Len(wb) \in Nat \ {0}
         /\ \A k \in 1 .. Len(wb) : wb'[k].pos = wb[k].pos
         /\ \A k \in 1 .. Len(wb) - 1 : wb'[k].text = wb[k].text
         /\ wb'[Len(wb)].text = wb[Len(wb)].text \o t
<1> DEFINE n == Len(wb)
           e == [wb[n] EXCEPT !.text = wb[n].text \o t]
<1>1. n \in 1 .. Len(wb)
  OBVIOUS
<1>2. wb[n] \in Buffer
  BY <1>1, SeqElement
<1>3. wb[n].text \o t \in Seq(Byte)
  BY <1>2, BufferFields
<1>4. e \in Buffer /\ e.pos = wb[n].pos /\ e.text = wb[n].text \o t
  BY <1>2, <1>3 DEF Buffer
<1>5. wb' = [wb EXCEPT ![n] = e]
  BY <1>4 DEF Wrote
<1> HIDE DEF e
<1>6. /\ wb' \in Seq(Buffer) /\ Len(wb') = n
      /\ \A j \in 1 .. n : wb'[j] = IF j = n THEN e ELSE wb[j]
  BY <1>1, <1>4, <1>5, SeqExcept
<1>7. \A k \in 1 .. n : wb'[k].pos = wb[k].pos
  BY <1>4, <1>6
<1>8. n \in Nat \ {0} /\ \A k \in 1 .. n - 1 : k \in 1 .. n /\ k # n
  BY <1>1
<1>9. \A k \in 1 .. n - 1 : wb'[k].text = wb[k].text
  BY <1>6, <1>8
<1>10. wb'[n].text = wb[n].text \o t
  BY <1>1, <1>4, <1>6
<1> QED BY <1>6, <1>7, <1>8, <1>9, <1>10

(* A step that adds a text to the newest buffer, in an array large enough. *)
Appends(t) ==
  /\ t \in Seq(Byte) /\ wb # <<>>
  /\ bytemax' \in Nat /\ bytemax <= bytemax' /\ bytesize + Len(t) <= bytemax'
  /\ bytebuf' = Written(bytemax', bytesize, t)
  /\ bytesize' = bytesize + Len(t) /\ Wrote(t) /\ overrun' = overrun

LEMMA AppendKeeps == ASSUME IInv, NEW t, Appends(t) PROVE IInv'
<1> DEFINE n == Len(wb)
           l == Len(t)
           m == bytemax'
           z == bytesize'
<1>1. /\ bytesize \in Nat /\ bytemax \in Nat /\ bytesize <= bytemax
      /\ m \in Nat /\ bytemax <= m /\ bytesize + l <= m
      /\ z = bytesize + l /\ l \in Nat
  BY DEF IInv, TypeOK, Fits, Appends
<1>0. wb \in Seq(Buffer) /\ overrun' \in BOOLEAN /\ ~overrun'
  <2>1. overrun' = overrun
    BY DEF Appends
  <2> QED BY <2>1, Zenon DEF IInv, TypeOK, Fits
<1>2. /\ wb' \in Seq(Buffer) /\ Len(wb') = n /\ n \in Nat \ {0}
      /\ \A k \in 1 .. n : wb'[k].pos = wb[k].pos
      /\ \A k \in 1 .. n - 1 : wb'[k].text = wb[k].text
      /\ wb'[n].text = wb[n].text \o t
  BY <1>0, WroteFacts DEF Appends
<1>3. \A i \in 0 .. m - 1 :
        bytebuf'[i] = IF i \in bytesize .. bytesize + l - 1 THEN t[i - bytesize + 1]
                      ELSE IF i < bytemax THEN bytebuf[i] ELSE 0
  BY DEF Written, Appends
<1>t. t \in Seq(Byte)
  BY DEF Appends
<1>d. \A i \in 1 .. l : t[i] \in Byte
  BY SeqElement DEF Appends
<1>m. m = bytemax' /\ z = bytesize' /\ l = Len(t)
  OBVIOUS
<1> HIDE DEF l, m, z
<1>a. \A i \in 0 .. bytesize - 1 : bytebuf'[i] = bytebuf[i]
  BY <1>1, <1>3
<1>b. \A j \in 1 .. l : bytebuf'[bytesize + j - 1] = t[j]
  <2> SUFFICES ASSUME NEW j \in 1 .. l
               PROVE  bytebuf'[bytesize + j - 1] = t[j]
    OBVIOUS
  <2> DEFINE i == bytesize + j - 1
  <2>1. i \in 0 .. m - 1 /\ i \in bytesize .. bytesize + l - 1 /\ i - bytesize + 1 = j
    BY <1>1
  <2> HIDE DEF i
  <2>2. bytebuf'[i] = t[j]
    BY <2>1, <1>3
  <2> QED BY <2>2 DEF i
<1>c. \A i \in z .. m - 1 : bytebuf'[i] = 0
  <2> SUFFICES ASSUME NEW i \in z .. m - 1
               PROVE  bytebuf'[i] = 0
    OBVIOUS
  <2>1. i \in 0 .. m - 1 /\ i \notin bytesize .. bytesize + l - 1
    BY <1>1
  <2>2. bytebuf'[i] = IF i < bytemax THEN bytebuf[i] ELSE 0
    BY <2>1, <1>3
  <2>3. i < bytemax => i \in bytesize .. bytemax - 1
    BY <1>1, <2>1
  <2>4. \A j \in bytesize .. bytemax - 1 : bytebuf[j] = 0
    BY DEF IInv, ZeroBehind
  <2> QED BY <2>2, <2>3, <2>4
<1>4. TypeOK'
  <2>2. \A i \in 0 .. m - 1 : bytebuf'[i] \in Byte \cup {0}
    <3> SUFFICES ASSUME NEW i \in 0 .. m - 1
                 PROVE  bytebuf'[i] \in Byte \cup {0}
      OBVIOUS
    <3>1. CASE i < bytesize
      <4>1. i \in 0 .. bytesize - 1 /\ i \in 0 .. bytemax - 1
        BY <3>1, <1>1
      <4>2. bytebuf[i] \in Byte \cup {0}
        BY <4>1 DEF IInv, TypeOK
      <4> QED BY <4>1, <4>2, <1>a
    <3>2. CASE bytesize <= i /\ i < z
      <4>1. i - bytesize + 1 \in 1 .. l /\ bytesize + (i - bytesize + 1) - 1 = i
        BY <3>2, <1>1
      <4>2. bytebuf'[i] = t[i - bytesize + 1]
        BY <4>1, <1>b
      <4> QED BY <4>1, <4>2, <1>d
    <3>3. CASE z <= i
      <4>1. i \in z .. m - 1
        BY <3>3, <1>1
      <4> QED BY <4>1, <1>c
    <3> QED BY <3>1, <3>2, <3>3, <1>1
  <2>3. bytebuf' \in [0 .. m - 1 -> Byte \cup {0}]
    BY <2>2, <1>m DEF Written, Appends
  <2>4. z \in Nat
    BY <1>1
  <2> QED BY <1>0, <1>1, <1>2, <1>m, <2>3, <2>4 DEF TypeOK
<1>5. Fits' /\ InitMax <= bytemax'
  BY <1>0, <1>1, <1>m, SizeAssumption DEF Fits, IInv, TypeOK
<1>6. Ordered'
  <2>1. \A k \in 1 .. n : wb[k].pos \in Nat /\ wb[k].pos <= bytesize
    BY BufferFacts, <1>2
  <2>2. \A k \in 1 .. n : wb'[k].pos <= z
    BY <1>1, <1>2, <2>1
  <2>3. \A j, k \in 1 .. n : j <= k => wb'[j].pos <= wb'[k].pos
    BY <1>2 DEF IInv, Ordered
  <2> QED BY <1>2, <1>m, <2>2, <2>3 DEF Ordered
<1>7. ZeroBehind'
  BY <1>c, <1>m DEF ZeroBehind
<1>8. TextWhole'
  <2> DEFINE now(i) == IF i < m THEN bytebuf'[i] ELSE 0
  <2>1. \A i \in 0 .. bytesize - 1 : now(i) = At(i)
    BY <1>1, <1>a DEF At
  <2>2. \A j \in 1 .. l : now(bytesize + j - 1) = t[j]
    <3> SUFFICES ASSUME NEW j \in 1 .. l
                 PROVE  now(bytesize + j - 1) = t[j]
      OBVIOUS
    <3>1. bytesize + j - 1 < m
      BY <1>1
    <3> QED BY <3>1, <1>b
  <2> SUFFICES ASSUME NEW k \in 1 .. n
               PROVE  /\ End(k)' - wb'[k].pos = Len(wb'[k].text)
                      /\ \A i \in 1 .. Len(wb'[k].text) :
                           now(wb'[k].pos + i - 1) = wb'[k].text[i]
    BY <1>2, <1>m DEF TextWhole, At
  <2> HIDE DEF now
  <2> DEFINE x == wb[k].text
             p == wb[k].pos
  <2>3. /\ p \in Nat /\ x \in Seq(Byte) /\ Len(x) \in Nat
        /\ End(k) - p = Len(x)
        /\ End(k) \in Nat /\ End(k) <= bytesize
        /\ \A i \in 1 .. Len(x) : p + i - 1 \in 0 .. bytesize - 1 /\ At(p + i - 1) = x[i]
    BY BufferFacts
  <2>p. wb'[k].pos = p
    BY <1>2
  <2> HIDE DEF p
  <2>7. \A i \in 1 .. Len(x) : now(p + i - 1) = x[i]
    BY <2>1, <2>3
  <2>4. CASE k < n
    <3>1. End(k)' = End(k) /\ wb'[k].text = x
      BY <1>1, <1>2, <1>m, <2>4 DEF End
    <3> QED BY <3>1, <2>p, <2>3, <2>7
  <2>5. CASE k = n
    <3>0. End(k) = bytesize /\ End(k)' = z /\ wb'[k].text = x \o t
      BY <1>2, <1>m, <2>5 DEF End
    <3> HIDE DEF x
    <3>1. z = bytesize + l /\ p = bytesize - Len(x)
      BY <3>0, <1>1, <2>3
    <3>2. /\ Len(x \o t) = Len(x) + l
          /\ \A i \in 1 .. Len(x \o t) :
               (x \o t)[i] = IF i <= Len(x) THEN x[i] ELSE t[i - Len(x)]
      BY <2>3, <1>m, <1>t, SeqConcat
    <3>3. ASSUME NEW i \in 1 .. Len(x \o t)
          PROVE  now(p + i - 1) = (x \o t)[i]
      <4>1. CASE i <= Len(x)
        BY <4>1, <3>2, <2>3, <2>7
      <4>2. CASE ~(i <= Len(x))
        <5> DEFINE j == i - Len(x)
        <5>1. j \in 1 .. l /\ p + i - 1 = bytesize + j - 1
          BY <4>2, <3>1, <3>2, <2>3, <1>1
        <5>2. (x \o t)[i] = t[j]
          BY <4>2, <3>2
        <5> HIDE DEF j
        <5> QED BY <5>1, <5>2, <2>2
      <4> QED BY <4>1, <4>2
    <3>4. z - p = Len(x \o t)
      BY <3>1, <3>2, <2>3, <1>1
    <3> QED BY <3>0, <3>3, <3>4, <2>p
  <2> QED BY <2>4, <2>5, <1>2
<1> QED BY <1>4, <1>5, <1>6, <1>7, <1>8 DEF IInv

-----------------------------------------------------------------------------
LEMMA InitInv == Init => IInv
<1> USE SizeAssumption
<1> SUFFICES ASSUME Init PROVE IInv
  OBVIOUS
<1>0. /\ bytesize = 0 /\ bytemax = InitMax /\ InitMax \in Nat
      /\ bytebuf = [i \in 0 .. InitMax - 1 |-> 0] /\ wb = <<>> /\ overrun = FALSE
  BY DEF Init
<1>1. TypeOK
  <2>1. bytebuf \in [0 .. bytemax - 1 -> Byte \cup {0}]
    BY <1>0
  <2> QED BY <1>0, <2>1 DEF TypeOK
<1>3. Fits /\ InitMax <= bytemax
  BY <1>0 DEF Fits
<1>4. ZeroBehind
  BY <1>0 DEF ZeroBehind
<1>2. Ordered /\ TextWhole
  BY DEF Init, Ordered, TextWhole
<1> QED BY <1>1, <1>2, <1>3, <1>4 DEF IInv

(* An empty buffer is opened at the end of the used part. *)
LEMMA OpenKeeps == IInv /\ Open => IInv'
<1> USE SizeAssumption
<1> SUFFICES ASSUME IInv, Open PROVE IInv'
  OBVIOUS
<1> DEFINE n == Len(wb)
           new == [pos |-> bytesize, text |-> <<>>]
<1>1. /\ bytesize \in Nat /\ wb \in Seq(Buffer) /\ n \in Nat
      /\ wb' = Append(wb, new) /\ UNCHANGED <<bytesize, bytemax, bytebuf, overrun>>
  BY DEF IInv, TypeOK, Open
<1>2. /\ wb' \in Seq(Buffer) /\ Len(wb') = n + 1
      /\ wb'[n + 1] = new /\ \A k \in 1 .. n : wb'[k] = wb[k]
  <2>1. new \in Buffer
    BY <1>1 DEF Buffer
  <2> HIDE DEF new
  <2> QED BY <1>1, <2>1, SeqAppend
<1>3. TypeOK' /\ Fits' /\ InitMax <= bytemax' /\ ZeroBehind'
  BY <1>1, <1>2 DEF IInv, TypeOK, Fits, ZeroBehind
<1>0. \A k \in 1 .. n : wb[k].pos \in Nat /\ wb[k].pos <= bytesize
  BY BufferFacts
<1>4. Ordered'
  <2>1. \A k \in 1 .. n + 1 : wb'[k].pos <= bytesize
    BY <1>0, <1>1, <1>2
  <2>2. \A j, k \in 1 .. n + 1 : j <= k => wb'[j].pos <= wb'[k].pos
    BY <1>0, <1>1, <1>2 DEF IInv, Ordered
  <2> QED BY <1>1, <1>2, <2>1, <2>2 DEF Ordered
<1>5. TextWhole'
  <2>1. \A k \in 1 .. n : wb'[k] = wb[k] /\ End(k)' = End(k) /\ End(k) <= bytesize
    <3>1. \A k \in 1 .. n : End(k)' = End(k)
      BY <1>1, <1>2 DEF End
    <3> QED BY <1>2, <3>1, BufferFacts
  <2>2. \A i \in 0 .. bytesize - 1 : i < bytesize => Now(i) = At(i)
    BY <1>1 DEF At, Now
  <2>3. \A k \in 1 .. n :
          /\ End(k)' - wb'[k].pos = Len(wb'[k].text)
          /\ \A i \in 1 .. Len(wb'[k].text) : Now(wb'[k].pos + i - 1) = wb'[k].text[i]
    <3>1. n <= Len(wb) /\ bytesize \in Nat /\ n \in Nat
      BY <1>1
    <3> HIDE DEF n
    <3> QED BY <2>1, <2>2, <3>1, KeptTexts
  <2>4. ASSUME NEW k \in 1 .. n + 1, k = n + 1
        PROVE  /\ End(k)' - wb'[k].pos = Len(wb'[k].text)
               /\ \A i \in 1 .. Len(wb'[k].text) : Now(wb'[k].pos + i - 1) = wb'[k].text[i]
    <3>1. End(k)' = bytesize /\ wb'[k].pos = bytesize /\ Len(wb'[k].text) = 0
      BY <1>1, <1>2, <2>4 DEF End
    <3> QED BY <3>1, <1>1
  <2>5. \A k \in 1 .. n + 1 : k \in 1 .. n \/ k = n + 1
    BY <1>1
  <2> QED BY <1>2, <2>3, <2>4, <2>5 DEF TextWhole, At, Now
<1> QED BY <1>3, <1>4, <1>5 DEF IInv

(* A string that is written fits the array after it was expanded. *)
LEMMA WriteKeeps == ASSUME IInv, NEW t \in Seq(Byte), Write(t) PROVE IInv' /\ Appends(t)
<1>1. t \in Seq(Byte) /\ Len(t) \in Nat
  OBVIOUS
<1>2. /\ bytesize \in Nat /\ bytemax \in Nat /\ bytesize <= bytemax /\ ~overrun
      /\ overrun \in BOOLEAN
  BY DEF IInv, TypeOK, Fits
<1>3. bytemax' \in Nat /\ bytemax <= bytemax' /\ bytesize + Len(t) <= bytemax'
  BY <1>1, <1>2 DEF Write, Expanded, Larger
<1>4. overrun' = overrun
  <2>1. ~(bytesize + Len(t) > bytemax')
    BY <1>1, <1>2, <1>3
  <2> QED BY <1>2, <2>1, Zenon DEF Write
<1>5. Appends(t)
  BY <1>1, <1>3, <1>4 DEF Write, Appends
<1> QED BY AppendKeeps, <1>5

(* A text shorter than a new array fits the array once that is doubled,    *)
(* wherever in it the text begins.                                         *)
LEMMA PrintfKeeps ==
  ASSUME IInv, MaxPrint < InitMax, NEW t \in Seq(Byte), Len(t) <= MaxPrint, Printf(t)
  PROVE  IInv' /\ Appends(t)
<1>1. t \in Seq(Byte) /\ Len(t) \in Nat /\ Len(t) < InitMax
  BY SizeAssumption
<1>2. /\ bytesize \in Nat /\ bytemax \in Nat /\ bytesize <= bytemax /\ InitMax <= bytemax
      /\ ~overrun /\ overrun \in BOOLEAN
  BY DEF IInv, TypeOK, Fits
<1>3. bytemax' \in Nat /\ bytemax <= bytemax' /\ bytesize + Len(t) < bytemax'
  BY <1>1, <1>2, SizeAssumption DEF Printf, TooLong, Expanded, Larger
<1> DEFINE l == Len(t)
           m == bytemax'
           u == t \o <<0>>
<1>4. bytebuf' = Written(m, bytesize, t)
  <2>1. bytebuf' = Written(m, bytesize, SubSeq(t, 1, l) \o <<0>>)
    BY <1>1, <1>2, <1>3 DEF Printf, Formatted
  <2>2. SubSeq(t, 1, l) = t
    BY <1>1
  <2>3. /\ Len(u) = l + 1 /\ u[l + 1] = 0 /\ \A j \in 1 .. l : u[j] = t[j]
    BY <1>1
  <2>4. l \in Nat /\ m \in Nat /\ bytemax <= m /\ bytesize + l < m
    BY <1>1, <1>3
  <2>5. \A i \in bytesize .. bytemax - 1 : bytebuf[i] = 0
    BY DEF IInv, ZeroBehind
  <2> HIDE DEF l, m, u
  <2>6. ASSUME NEW i \in 0 .. m - 1
        PROVE  (IF i \in bytesize .. bytesize + l THEN u[i - bytesize + 1]
                ELSE IF i < bytemax THEN bytebuf[i] ELSE 0)
             = (IF i \in bytesize .. bytesize + l - 1 THEN t[i - bytesize + 1]
                ELSE IF i < bytemax THEN bytebuf[i] ELSE 0)
    <3>1. CASE i \in bytesize .. bytesize + l - 1
      <4>1. i - bytesize + 1 \in 1 .. l /\ i \in bytesize .. bytesize + l
        BY <1>2, <2>4, <3>1
      <4> QED BY <3>1, <4>1, <2>3
    <3>2. CASE i = bytesize + l
      <4>1. i - bytesize + 1 = l + 1 /\ i \in bytesize .. bytesize + l
            /\ i \notin bytesize .. bytesize + l - 1
        BY <1>2, <2>4, <3>2
      <4>2. i < bytemax => i \in bytesize .. bytemax - 1
        BY <1>2, <2>4, <3>2
      <4> QED BY <4>1, <4>2, <2>3, <2>5
    <3>3. CASE i \notin bytesize .. bytesize + l
      <4>1. i \notin bytesize .. bytesize + l - 1
        BY <1>2, <2>4, <3>3
      <4> QED BY <4>1, <3>3
    <3> QED BY <3>1, <3>2, <3>3, <1>2, <2>4
  <2>7. bytesize + Len(u) - 1 = bytesize + l
    BY <1>2, <2>3, <2>4
  <2>8. Written(m, bytesize, u) = Written(m, bytesize, t)
    BY <2>6, <2>7 DEF Written, l
  <2> QED BY <2>1, <2>2, <2>8 DEF u
<1>5. overrun' = overrun
  <2>1. ~(bytemax < bytesize)
    BY <1>2
  <2> QED BY <1>2, <2>1, Zenon DEF Printf
<1>6. Appends(t)
  BY <1>1, <1>3, <1>4, <1>5 DEF Printf, Appends
<1> QED BY AppendKeeps, <1>6

(* A zero behind the text changes no text. *)
LEMMA TopKeeps == IInv /\ Top => IInv'
<1> SUFFICES ASSUME IInv, Top PROVE IInv'
  OBVIOUS
<1> DEFINE m == bytemax'
<1>1. /\ bytesize \in Nat /\ bytemax \in Nat /\ bytesize <= bytemax
      /\ wb' = wb /\ bytesize' = bytesize
  BY DEF IInv, TypeOK, Fits, Top
<1>2. m \in Nat /\ bytemax <= m /\ bytesize < m
  BY <1>1 DEF Top, Expanded, Larger
<1>3. overrun' \in BOOLEAN /\ ~overrun'
  <2>1. ~(bytesize >= bytemax')
    BY <1>1, <1>2
  <2> QED BY <2>1, Zenon DEF Top, IInv, TypeOK, Fits
<1>4. \A i \in 0 .. m - 1 :
        bytebuf'[i] = IF i = bytesize THEN 0 ELSE IF i < bytemax THEN bytebuf[i] ELSE 0
  <2>1. bytebuf' = Written(m, bytesize, <<0>>) /\ Len(<<0>>) = 1 /\ <<0>>[1] = 0
    BY DEF Top
  <2>2. \A i \in 0 .. m - 1 : (i \in bytesize .. bytesize + 1 - 1) = (i = bytesize)
    BY <1>1, <1>2
  <2>3. \A i \in 0 .. m - 1 : i = bytesize => i - bytesize + 1 = 1
    BY <1>1, <1>2
  <2> QED BY <2>1, <2>2, <2>3 DEF Written
<1>m. m = bytemax' /\ DOMAIN bytebuf' = 0 .. m - 1 /\ bytebuf' = [i \in 0 .. m - 1 |-> bytebuf'[i]]
  BY DEF Top, Written
<1> HIDE DEF m
<1>5. \A i \in 0 .. bytesize - 1 : bytebuf'[i] = bytebuf[i]
  BY <1>1, <1>2, <1>4
<1>6. \A i \in bytesize .. m - 1 : bytebuf'[i] = 0
  <2> SUFFICES ASSUME NEW i \in bytesize .. m - 1 PROVE bytebuf'[i] = 0
    OBVIOUS
  <2>1. i \in 0 .. m - 1 /\ (i < bytemax => i \in bytesize .. bytemax - 1)
    BY <1>1, <1>2
  <2> QED BY <2>1, <1>4 DEF IInv, ZeroBehind
<1>7. TypeOK'
  <2>1. ASSUME NEW i \in 0 .. m - 1 PROVE bytebuf'[i] \in Byte \cup {0}
    <3>1. CASE i < bytesize
      <4>1. i \in 0 .. bytesize - 1 /\ i \in 0 .. bytemax - 1
        BY <3>1, <1>1, <1>2
      <4>2. bytebuf[i] \in Byte \cup {0}
        BY <4>1 DEF IInv, TypeOK
      <4> QED BY <4>1, <4>2, <1>5
    <3>2. CASE ~(i < bytesize)
      <4>1. i \in bytesize .. m - 1
        BY <3>2, <1>1, <1>2
      <4> QED BY <4>1, <1>6
    <3> QED BY <3>1, <3>2
  <2>2. bytebuf' \in [0 .. m - 1 -> Byte \cup {0}]
    BY <2>1, <1>m
  <2> QED BY <1>1, <1>2, <1>3, <1>m, <2>2 DEF IInv, TypeOK
<1>8. Fits' /\ InitMax <= bytemax'
  BY <1>1, <1>2, <1>3, <1>m, SizeAssumption DEF IInv, Fits
<1>9. ZeroBehind' /\ Ordered'
  BY <1>1, <1>6, <1>m DEF IInv, ZeroBehind, Ordered
<1>10. TextWhole'
  <2>1. Len(wb) \in Nat
    BY DEF IInv, TypeOK
  <2>2. \A k \in 1 .. Len(wb) : wb'[k] = wb[k] /\ End(k)' = End(k) /\ End(k) <= bytesize
    <3>1. \A k \in 1 .. Len(wb) : End(k)' = End(k)
      BY <1>1 DEF End
    <3> QED BY <1>1, <3>1, BufferFacts
  <2>3. \A i \in 0 .. bytesize - 1 : i < bytesize => Now(i) = At(i)
    BY <1>1, <1>2, <1>5, <1>m DEF At, Now
  <2>4. \A k \in 1 .. Len(wb) :
          /\ End(k)' - wb'[k].pos = Len(wb'[k].text)
          /\ \A i \in 1 .. Len(wb'[k].text) : Now(wb'[k].pos + i - 1) = wb'[k].text[i]
    <3>1. Len(wb) <= Len(wb) /\ bytesize \in Nat
      BY <1>1, <2>1
    <3> QED BY <2>1, <2>2, <2>3, <3>1, KeptTexts
  <2> QED BY <1>1, <2>4 DEF TextWhole, At, Now
<1> QED BY <1>7, <1>8, <1>9, <1>10 DEF IInv

(* The buffers from the n-th on are freed: the texts of those before it are *)
(* left, and zeros behind them.                                            *)
Pops(n) ==
  /\ bytesize' = wb[n].pos /\ wb' = SubSeq(wb, 1, n - 1)
  /\ bytebuf' = [i \in 0 .. bytemax - 1 |-> IF i \in wb[n].pos .. bytesize - 1 THEN 0 ELSE bytebuf[i]]
  /\ UNCHANGED <<bytemax, overrun>>

LEMMA PopKeeps == ASSUME IInv, NEW n \in 1 .. Len(wb), Pops(n) PROVE IInv'
<1> DEFINE p == wb[n].pos
<1>1. /\ bytesize \in Nat /\ bytemax \in Nat /\ bytesize <= bytemax
      /\ bytemax' = bytemax /\ bytesize' = p /\ overrun' = overrun
  BY DEF IInv, TypeOK, Fits, Pops
<1>2. /\ wb' \in Seq(Buffer) /\ Len(wb') = n - 1 /\ n \in Nat \ {0} /\ n <= Len(wb) /\ Len(wb) \in Nat
      /\ \A k \in 1 .. n - 1 : wb'[k] = wb[k]
  <2>1. wb \in Seq(Buffer) /\ wb' = SubSeq(wb, 1, n - 1)
    BY DEF IInv, TypeOK, Pops
  <2> QED BY <2>1, SeqPrefix
<1>0. p \in Nat /\ p <= bytesize
  BY <1>2, BufferFacts
<1>4. bytebuf' = [i \in 0 .. bytemax - 1 |-> IF i \in p .. bytesize - 1 THEN 0 ELSE bytebuf[i]]
  BY DEF Pops
<1> HIDE DEF p
<1>5. \A i \in 0 .. p - 1 : bytebuf'[i] = bytebuf[i]
  BY <1>0, <1>1, <1>4
<1>6. \A i \in p .. bytemax - 1 : bytebuf'[i] = 0
  <2> SUFFICES ASSUME NEW i \in p .. bytemax - 1 PROVE bytebuf'[i] = 0
    OBVIOUS
  <2>1. i \in 0 .. bytemax - 1 /\ (i \notin p .. bytesize - 1 => i \in bytesize .. bytemax - 1)
    BY <1>0, <1>1
  <2> QED BY <2>1, <1>4 DEF IInv, ZeroBehind
<1>7. TypeOK'
  <2>1. \A i \in 0 .. bytemax - 1 : bytebuf[i] \in Byte \cup {0}
    BY DEF IInv, TypeOK
  <2>2. \A i \in 0 .. bytemax - 1 :
          (IF i \in p .. bytesize - 1 THEN 0 ELSE bytebuf[i]) \in Byte \cup {0}
    BY <2>1
  <2>3. bytebuf' \in [0 .. bytemax - 1 -> Byte \cup {0}]
    BY <2>2, <1>4
  <2> QED BY <1>0, <1>1, <1>2, <2>3 DEF IInv, TypeOK
<1>8. Fits' /\ InitMax <= bytemax' /\ ZeroBehind'
  BY <1>0, <1>1, <1>6 DEF IInv, Fits, ZeroBehind
<1>9. Ordered'
  <2>1. \A j, k \in 1 .. n : j <= k => wb[j].pos <= wb[k].pos
    BY DEF IInv, Ordered
  <2>2. \A k \in 1 .. n - 1 : wb'[k].pos <= p
    BY <1>2, <2>1 DEF p
  <2>3. \A j, k \in 1 .. n - 1 : j <= k => wb'[j].pos <= wb'[k].pos
    BY <1>2, <2>1
  <2> QED BY <1>1, <1>2, <2>2, <2>3 DEF Ordered
<1>10. TextWhole'
  <2>1. \A k \in 1 .. n - 1 : wb'[k] = wb[k] /\ End(k)' = End(k) /\ End(k) <= p
    <3> SUFFICES ASSUME NEW k \in 1 .. n - 1
                 PROVE  End(k)' = End(k) /\ End(k) <= p
      BY <1>2
    <3>1. End(k) = wb[k + 1].pos
      BY <1>2 DEF End
    <3>2. CASE k = n - 1
      <4>1. End(k)' = bytesize' /\ k + 1 = n
        BY <1>2, <3>2 DEF End
      <4> QED BY <3>1, <4>1, <1>0, <1>1 DEF p
    <3>3. CASE k < n - 1
      <4>1. End(k)' = wb'[k + 1].pos /\ k + 1 \in 1 .. n - 1
        BY <1>2, <3>3 DEF End
      <4>2. wb[k + 1].pos <= p
        BY <1>2, <4>1 DEF IInv, Ordered, p
      <4> QED BY <3>1, <4>1, <4>2, <1>2
    <3> QED BY <3>2, <3>3, <1>2
  <2>2. \A i \in 0 .. bytesize - 1 : i < p => Now(i) = At(i)
    BY <1>0, <1>1, <1>5 DEF At, Now
  <2>3. \A k \in 1 .. n - 1 :
          /\ End(k)' - wb'[k].pos = Len(wb'[k].text)
          /\ \A i \in 1 .. Len(wb'[k].text) : Now(wb'[k].pos + i - 1) = wb'[k].text[i]
    <3>1. n - 1 \in Nat /\ n - 1 <= Len(wb)
      BY <1>2
    <3> QED BY <1>0, <2>1, <2>2, <3>1, KeptTexts
  <2> QED BY <1>2, <2>3 DEF TextWhole, At, Now
<1> QED BY <1>7, <1>8, <1>9, <1>10 DEF IInv

LEMMA FreeKeeps == IInv /\ Free => IInv' /\ Pops(Len(wb))
<1> SUFFICES ASSUME IInv, Free PROVE IInv' /\ Pops(Len(wb))
  OBVIOUS
<1>1. Len(wb) \in 1 .. Len(wb)
  BY DEF Free, IInv, TypeOK
<1>2. Pops(Len(wb))
  BY DEF Free, Pops
<1> QED BY <1>1, <1>2, PopKeeps

LEMMA NextKeeps == MaxPrint < InitMax /\ IInv /\ [Next]_vars => IInv'
<1> SUFFICES ASSUME MaxPrint < InitMax, IInv, [Next]_vars PROVE IInv'
  OBVIOUS
<1>1. CASE UNCHANGED vars
  BY <1>1 DEF vars, IInv, TypeOK, Fits, Ordered, TextWhole, ZeroBehind, End, At
<1>2. CASE Open
  BY <1>2, OpenKeeps
<1>3. CASE Top
  BY <1>3, TopKeeps
<1>4. CASE Free
  BY <1>4, FreeKeeps
<1>5. CASE \E t \in Text(MaxWrite) : Write(t)
  <2>1. PICK t \in Text(MaxWrite) : Write(t)
    BY <1>5
  <2>2. t \in Seq(Byte)
    BY TextType, SizeAssumption
  <2> QED BY <2>1, <2>2, WriteKeeps
<1>6. CASE \E t \in Text(MaxPrint) : Printf(t)
  <2>1. PICK t \in Text(MaxPrint) : Printf(t)
    BY <1>6
  <2>2. t \in Seq(Byte) /\ Len(t) <= MaxPrint
    BY TextType, SizeAssumption
  <2> QED BY <2>1, <2>2, PrintfKeeps
<1> QED BY <1>1, <1>2, <1>3, <1>4, <1>5, <1>6 DEF Next

LEMMA InvHolds == MaxPrint < InitMax => (Spec => []IInv)
<1> SUFFICES ASSUME MaxPrint < InitMax PROVE Spec => []IInv
  OBVIOUS
<1>1. Init => IInv
  BY InitInv
<1>2. IInv /\ [Next]_vars => IInv'
  BY NextKeeps
<1> QED BY <1>1, <1>2, PTL DEF Spec

(* No write or format leaves the array, and the position of the end of the *)
(* text is never past it (Kwb_write, Kwb_vprintf, Kwb_top).                *)
THEOREM NothingOverruns == MaxPrint < InitMax => (Spec => []Fits)
<1>1. IInv => Fits
  BY DEF IInv
<1> QED BY <1>1, InvHolds, PTL

(* However many buffers are opened, grow the array and are freed, each     *)
(* still reads as what was written to it.                                  *)
THEOREM TextKept == MaxPrint < InitMax => (Spec => []TextWhole)
<1>1. IInv => TextWhole
  BY DEF IInv
<1> QED BY <1>1, InvHolds, PTL

(* Kwb_free, karray_resize: there is never an old text behind the text.    *)
THEOREM CleanBehind == MaxPrint < InitMax => (Spec => []ZeroBehind)
<1>1. IInv => ZeroBehind
  BY DEF IInv
<1> QED BY <1>1, InvHolds, PTL

(* The buffers and the array have their types. *)
THEOREM TypeCorrect == MaxPrint < InitMax => (Spec => []TypeOK)
<1>1. IInv => TypeOK
  BY DEF IInv
<1> QED BY <1>1, InvHolds, PTL

-----------------------------------------------------------------------------
(* The reader over these buffers: how many are open, how a chunk ends, and  *)
(* where in it the tokenizer is.                                            *)
Height ==
  /\ phase \in {"start", "end"} => Len(wb) = 1
  /\ phase \in {"read", "chunk", "token", "tokenised", "empty", "refused", "abort"} => Len(wb) = 2
  /\ phase \in {"literal", "close"} => Len(wb) = 3
  /\ phase = "astray" => Len(wb) \in {2, 3}
  /\ phase = "run" => Len(wb) >= 2
  /\ phase \in {"start", "end", "read", "chunk", "token", "tokenised", "empty", "refused", "abort",
                "literal", "close", "astray", "run"}

Scanned == phase \in {"token", "literal", "close", "tokenised", "abort", "astray"}

(* A chunk ends with a newline, or with the file; #! names konoha. *)
ChunkEnds ==
  /\ Scanned \/ phase = "chunk" => feof \/ (Chunk # <<>> /\ Chunk[Len(Chunk)] = NL)
  /\ Scanned => ~NotKonoha /\ Chunk # <<>>

Kind == {"", "INDENT", "SYMBOL", "OPERATOR", "TEXT", "CODE", "ERR"}

Tenv == [src : Nat, pos : Nat, uline : Nat, level : Nat, start : Nat, prev : Byte \cup {0},
         room : Int, moved : BOOLEAN]

TenvTyped ==
  /\ tenv \in Tenv /\ uline \in Nat /\ feof \in BOOLEAN /\ rest \in Seq(Byte \cup {CR})
  /\ tokens \in Seq([tt : Kind, text : Seq(Byte)])

Tokenising == phase \in {"token", "literal", "close"} /\ ~tenv.moved

Placed ==
  /\ phase \in {"read", "chunk"} => tenv.pos = 1 /\ tenv.level = 0 /\ ~tenv.moved
  /\ Tokenising =>
       /\ tenv.src = wb[Own].pos + Skipped /\ tenv.pos >= 1
       /\ tenv.level > 0 => tenv.start \in 1 .. Len(Body) /\ tenv.start < tenv.pos /\ Body[tenv.start] = LBR

BaseInv == IInv /\ Height /\ ChunkEnds /\ TenvTyped /\ Placed

LEMMA ByteFacts ==
  /\ {NL, SP, DQUOTE, LBR, RBR, BKSLASH, 97, 110, KONOHA, SLASH, STAR, SHEBANG} \subseteq Byte
  /\ 0 \notin Byte /\ CR \notin Byte /\ Byte \subseteq Nat \ {0}
  /\ NL # 0 /\ NL # DQUOTE /\ NL # LBR /\ NL # RBR /\ NL # BKSLASH /\ NL # 110 /\ LBR # 0
  /\ DQUOTE # LBR /\ DQUOTE # RBR /\ LBR # RBR /\ DQUOTE # 0 /\ DQUOTE # BKSLASH /\ DQUOTE # 110
  /\ BKSLASH # 110 /\ BKSLASH # 0 /\ BKSLASH # LBR /\ BKSLASH # RBR /\ RBR # 0
BY ByteAssumption, SizeAssumption
   DEF Letter, Operator, Unquoted, NL, SP, DQUOTE, SEMI, LBR, RBR, BKSLASH, KONOHA, SLASH, STAR,
       SHEBANG, QUOTE, CR

(* What is said of the chunk depends on the chunk alone. *)
LEMMA ChunkAlone ==
  ASSUME Chunk' = Chunk
  PROVE  /\ Skipped' = Skipped /\ Body' = Body /\ NotKonoha' = NotKonoha
BY DEF Skipped, Body, NotKonoha

LEMMA SubSeqFacts ==
  ASSUME NEW S, NEW s \in Seq(S), NEW m \in 1 .. Len(s) + 1
  PROVE  /\ SubSeq(s, m, Len(s)) \in Seq(S) /\ Len(SubSeq(s, m, Len(s))) = Len(s) - m + 1
         /\ \A i \in 1 .. Len(s) - m + 1 : SubSeq(s, m, Len(s))[i] = s[m + i - 1]
<1> DEFINE u == SubSeq(s, m, Len(s))
           l == Len(s) - m + 1
<1>1. Len(s) \in Nat /\ m \in Nat /\ l \in Nat
  OBVIOUS
<1>2. u = [j \in 1 .. l |-> s[m + j - 1]]
  BY <1>1
<1>3. \A j \in 1 .. l : m + j - 1 \in 1 .. Len(s)
  BY <1>1
<1>4. \A j \in 1 .. l : s[m + j - 1] \in S
  BY <1>3, SeqElement
<1> HIDE DEF u, l
<1>5. u \in Seq(S) /\ Len(u) = l
  BY <1>1, <1>2, <1>4
<1> QED BY <1>2, <1>5 DEF u, l

LEMMA SkippedFacts ==
  ASSUME Chunk \in Seq(Byte), ~NotKonoha
  PROVE  Skipped \in 0 .. Len(Chunk)
<1> DEFINE P(n) == Chunk[n] = KONOHA /\ \A i \in 1 .. n - 1 : Chunk[i] # KONOHA
<1>1. Len(Chunk) \in Nat
  OBVIOUS
<1>2. CASE Len(Chunk) > 1 /\ Chunk[1] = SHEBANG
  <2> DEFINE S == {n \in 1 .. Len(Chunk) : Chunk[n] = KONOHA}
  <2>1. S # {} /\ S \in SUBSET Nat
    BY <1>2 DEF NotKonoha
  <2>2. PICK m \in S : \A k \in S : m <= k
    BY <2>1, LeastOf
  <2>3. m \in 1 .. Len(Chunk) /\ P(m)
    BY <1>1, <2>2
  <2>4. (CHOOSE n \in 1 .. Len(Chunk) : P(n)) \in 1 .. Len(Chunk)
    BY <2>3
  <2> QED BY <1>1, <1>2, <2>4 DEF Skipped
<1>3. CASE ~(Len(Chunk) > 1 /\ Chunk[1] = SHEBANG)
  BY <1>1, <1>3 DEF Skipped
<1> QED BY <1>2, <1>3

(* The text of a chunk. *)
LEMMA BodyFacts ==
  ASSUME Chunk \in Seq(Byte), ~NotKonoha
  PROVE  /\ Skipped \in 0 .. Len(Chunk) /\ Len(Chunk) \in Nat
         /\ Body \in Seq(Byte) /\ Len(Body) = Len(Chunk) - Skipped /\ Len(Body) \in Nat
         /\ \A i \in 1 .. Len(Body) : Body[i] = Chunk[Skipped + i]
<1>1. Skipped \in 0 .. Len(Chunk) /\ Len(Chunk) \in Nat
  BY SkippedFacts
<1> DEFINE m == Skipped + 1
<1>2. m \in 1 .. Len(Chunk) + 1 /\ m = Skipped + 1
  BY <1>1
<1>3. Body = SubSeq(Chunk, m, Len(Chunk))
  BY DEF Body
<1> HIDE DEF m
<1>4. /\ Body \in Seq(Byte) /\ Len(Body) = Len(Chunk) - m + 1
      /\ \A i \in 1 .. Len(Chunk) - m + 1 : Body[i] = Chunk[m + i - 1]
  BY <1>2, <1>3, SubSeqFacts
<1>5. Len(Body) = Len(Chunk) - Skipped /\ Len(Body) \in Nat
  BY <1>1, <1>2, <1>4
<1>6. \A i \in 1 .. Len(Body) : Body[i] = Chunk[Skipped + i]
  <2> SUFFICES ASSUME NEW i \in 1 .. Len(Body) PROVE Body[i] = Chunk[Skipped + i]
    OBVIOUS
  <2>1. i \in 1 .. Len(Chunk) - m + 1 /\ m + i - 1 = Skipped + i
    BY <1>1, <1>2, <1>4
  <2> QED BY <1>4, <2>1
<1> QED BY <1>1, <1>4, <1>5, <1>6

-----------------------------------------------------------------------------
(* Least, Upto, Lines and the handlers. *)
LEMMA LeastIs ==
  ASSUME NEW S \in SUBSET Nat, S # {}
  PROVE  Least(S) \in S /\ \A j \in S : Least(S) <= j
<1>1. \E m \in S : \A j \in S : m <= j
  BY LeastOf
<1> QED BY <1>1 DEF Least

LEMMA LeastEquals ==
  ASSUME NEW S \in SUBSET Nat, NEW m \in S, \A j \in S : m <= j
  PROVE  Least(S) = m
<1>1. Least(S) \in S /\ Least(S) <= m
  BY LeastIs
<1>2. m <= Least(S) /\ m \in Nat /\ Least(S) \in Nat
  BY <1>1
<1> QED BY <1>1, <1>2

LEMMA UptoFacts ==
  ASSUME NEW s \in Seq(Byte), NEW p \in 1 .. Len(s) + 1, NEW stop
  PROVE  /\ Upto(s, p, stop) \in p .. Len(s) + 1
         /\ \A i \in p .. Upto(s, p, stop) - 1 : s[i] \notin stop
         /\ p <= Len(s) /\ s[p] \notin stop => Upto(s, p, stop) \in p + 1 .. Len(s) + 1
<1> DEFINE l == Len(s)
           S == {q \in p .. l + 1 : Ch(s, q) \in stop \cup {0}}
           u == Upto(s, p, stop)
<1>1. l \in Nat /\ p \in Nat \ {0} /\ p <= l + 1
  OBVIOUS
<1>2. \A q \in p .. l + 1 : q \in Nat /\ q >= 1 /\ (q <= l => q \in 1 .. l /\ Ch(s, q) = s[q]) /\ (q = l + 1 => Ch(s, q) = 0)
  BY <1>1 DEF Ch
<1>3. \A q \in 1 .. l : s[q] # 0
  BY SeqElement, ByteFacts
<1>4. S \in SUBSET Nat /\ l + 1 \in S
  BY <1>1, <1>2
<1>5. u \in S /\ \A j \in S : u <= j
  BY <1>4, LeastIs DEF Upto
<1>6. u \in p .. l + 1
  BY <1>5
<1>7. ASSUME NEW i \in p .. u - 1 PROVE s[i] \notin stop
  <2>1. i \in p .. l + 1 /\ i <= l /\ i < u
    BY <1>1, <1>6
  <2>2. i \notin S
    BY <1>1, <1>5, <1>6, <2>1
  <2> QED BY <1>2, <2>1, <2>2
<1>8. ASSUME p <= l, s[p] \notin stop PROVE u \in p + 1 .. l + 1
  <2>1. p \in 1 .. l /\ p \in p .. l + 1 /\ Ch(s, p) = s[p]
    BY <1>1, <1>2, <1>8
  <2>2. p \notin S
    BY <1>3, <1>8, <2>1
  <2>3. u # p
    BY <1>5, <2>2
  <2> QED BY <1>1, <1>6, <2>3
<1> QED BY <1>6, <1>7, <1>8

LEMMA LinesFinite ==
  ASSUME NEW s, NEW p \in Int, NEW q \in Int
  PROVE  IsFiniteSet({i \in p .. q - 1 : s[i] = NL})
<1>1. IsFiniteSet(p .. q - 1)
  BY FS_Interval
<1> QED BY <1>1, FS_Subset

LEMMA LinesNat ==
  ASSUME NEW s, NEW p \in Int, NEW q \in Int
  PROVE  Lines(s, p, q) \in Nat
BY LinesFinite, FS_CardinalityType DEF Lines

LEMMA LinesSplit ==
  ASSUME NEW s, NEW p \in Int, NEW q \in Int, NEW r \in Int, p <= q, q <= r
  PROVE  Lines(s, p, r) = Lines(s, p, q) + Lines(s, q, r)
<1> DEFINE A == {i \in p .. q - 1 : s[i] = NL}
           B == {i \in q .. r - 1 : s[i] = NL}
<1>1. IsFiniteSet(A) /\ IsFiniteSet(B)
  BY LinesFinite
<1>2. A \cap B = {} /\ {i \in p .. r - 1 : s[i] = NL} = A \cup B
  OBVIOUS
<1>3. Cardinality(A) \in Nat /\ Cardinality(B) \in Nat
  BY <1>1, FS_CardinalityType
<1> HIDE DEF A, B
<1>4. Cardinality(A \cup B) = Cardinality(A) + Cardinality(B)
  <2>1. Cardinality(A \cup B) = Cardinality(A) + Cardinality(B) - Cardinality(A \cap B)
    BY <1>1, FS_Union
  <2>2. Cardinality(A \cap B) = 0
    <3>1. A \cap B = {}
      BY <1>2
    <3> QED BY <3>1, FS_EmptySet
  <2> QED BY ONLY <1>3, <2>1, <2>2
<1> QED BY <1>2, <1>4 DEF Lines, A, B

LEMMA LinesNone ==
  ASSUME NEW s, NEW p \in Int, NEW q \in Int, \A i \in p .. q - 1 : s[i] # NL
  PROVE  Lines(s, p, q) = 0
<1>1. {i \in p .. q - 1 : s[i] = NL} = {}
  OBVIOUS
<1> QED BY <1>1, FS_EmptySet DEF Lines

LEMMA LinesOne ==
  ASSUME NEW s, NEW p \in Int
  PROVE  Lines(s, p, p + 1) = IF s[p] = NL THEN 1 ELSE 0
<1>1. CASE s[p] = NL
  <2>1. {i \in p .. p + 1 - 1 : s[i] = NL} = {p}
    BY <1>1
  <2> QED BY <1>1, <2>1, FS_Singleton DEF Lines
<1>2. CASE s[p] # NL
  <2>1. \A i \in p .. p + 1 - 1 : s[i] # NL
    BY <1>2
  <2>2. p + 1 \in Int
    OBVIOUS
  <2> QED BY <1>2, <2>1, <2>2, LinesNone
<1> QED BY <1>1, <1>2

LEMMA CommentFacts ==
  ASSUME NEW s \in Seq(Byte), NEW p \in 1 .. Len(s) + 1
  PROVE  /\ CommentEnd(s, p).pos \in p .. Len(s) + 1 /\ CommentEnd(s, p).closed \in BOOLEAN
         /\ ~CommentEnd(s, p).closed => CommentEnd(s, p).pos = Len(s) + 1
<1> DEFINE depth[q \in p .. Len(s) + 1] ==
             IF q = p THEN 1
             ELSE Level(depth[q - 1], IF q - 1 = p THEN 0 ELSE s[q - 2], s[q - 1])
           ends == {q \in p .. Len(s) + 1 : depth[q] = 0}
<1>1. Len(s) \in Nat /\ p \in Nat /\ p <= Len(s) + 1
  OBVIOUS
<1>2. CommentEnd(s, p) = IF ends = {} THEN [pos |-> Len(s) + 1, closed |-> FALSE]
                         ELSE [pos |-> Least(ends), closed |-> TRUE]
  BY DEF CommentEnd
<1>3. ends \in SUBSET Nat /\ ends \subseteq p .. Len(s) + 1
  BY <1>1
<1> HIDE DEF ends
<1>4. ends # {} => Least(ends) \in p .. Len(s) + 1
  BY <1>3, LeastIs
<1>5. Len(s) + 1 \in p .. Len(s) + 1
  BY <1>1
<1> QED BY <1>2, <1>4, <1>5

(* The kinds of bytes are disjoint. *)
LEMMA KindsDisjoint ==
  /\ NL \in Byte \ Letter /\ NL \in Byte \ Operator /\ NL # SP /\ NL # SLASH /\ SP # SLASH
  /\ \A x \in Letter : x # NL /\ x # SP /\ x # SLASH
  /\ \A x \in Operator : x # NL /\ x # SP /\ x \notin Letter
  /\ \A x \in {SEMI, RBR} : x # NL /\ x # SP /\ x # SLASH /\ x \notin Letter /\ x \notin Operator
  /\ \A x \in Unquoted : x # NL /\ x # SP /\ x # SLASH /\ x \notin Letter /\ x \notin Operator /\ x \notin {SEMI, RBR}
  /\ SP \notin Letter /\ SP \notin Operator /\ SP \notin {SEMI, RBR} /\ SP \notin Unquoted
  /\ NL \notin {SEMI, RBR} /\ NL \notin Unquoted /\ SLASH \notin Unquoted /\ SLASH \notin {SEMI, RBR}
  /\ Byte = Letter \cup Operator \cup Unquoted \cup {NL, SP, DQUOTE, SEMI, LBR, RBR}
  /\ SLASH \in Operator /\ SLASH \notin Letter
BY ByteAssumption
   DEF Letter, Operator, Unquoted, NL, SP, DQUOTE, SEMI, LBR, RBR, BKSLASH, KONOHA, SLASH, STAR,
       SHEBANG, QUOTE

LEMMA BlockHandled ==
  ASSUME NEW s, NEW p, s[p] \in {SEMI, RBR}
  PROVE  fmat(s, p) = Handled("OPERATOR", p + 1, 0)
BY KindsDisjoint DEF fmat, parseOP1

LEMMA NewlineHandled ==
  ASSUME NEW s, NEW p, s[p] = NL
  PROVE  fmat(s, p) = Handled("INDENT", p + 1, 1)
BY KindsDisjoint DEF fmat, parseNL

(* A handler passes one byte at least and counts the lines it passes, but   *)
(* for the one that gives up at the end of the text.                        *)
WellHandled(s, p, h) ==
  /\ h.tt \in Kind /\ h.end \in p + 1 .. Len(s) + 1 /\ h.lines \in Nat
  /\ h.lines = Lines(s, p, h.end) \/ (h.tt = "ERR" /\ h.end = Len(s) + 1)

LEMMA HandledIs ==
  ASSUME NEW s, NEW p, NEW tt \in Kind, NEW e \in p + 1 .. Len(s) + 1, NEW n \in Nat,
         n = Lines(s, p, e) \/ (tt = "ERR" /\ e = Len(s) + 1)
  PROVE  WellHandled(s, p, Handled(tt, e, n))
<1> DEFINE h == Handled(tt, e, n)
<1>1. h.tt = tt /\ h.end = e /\ h.lines = n
  BY DEF Handled
<1> HIDE DEF h
<1> QED BY <1>1, Zenon DEF WellHandled, h

LEMMA HandledFacts ==
  ASSUME NEW s \in Seq(Byte), NEW p \in 1 .. Len(s), s[p] \notin {DQUOTE, LBR}
  PROVE  WellHandled(s, p, fmat(s, p))
<1> DEFINE l == Len(s)
           b == s[p]
<1>1. l \in Nat /\ p \in Nat \ {0} /\ p <= l /\ p + 1 \in 1 .. l + 1 /\ p \in 1 .. l + 1
  OBVIOUS
<1>2. \A q \in 1 .. l : s[q] \in Byte
  BY SeqElement
<1>3. ASSUME NEW tt \in Kind PROVE b # NL => WellHandled(s, p, Handled(tt, p + 1, 0))
  <2>1. b # NL => Lines(s, p, p + 1) = 0
    BY LinesOne
  <2>2. p + 1 \in p + 1 .. l + 1
    BY <1>1
  <2> QED BY <2>1, <2>2, HandledIs
<1>4. ASSUME NEW tt \in Kind, NEW stop, b \notin stop, NL \in stop
      PROVE  WellHandled(s, p, Handled(tt, Upto(s, p, stop), 0))
  <2> DEFINE u == Upto(s, p, stop)
  <2>1. u \in p + 1 .. l + 1 /\ \A i \in p .. u - 1 : s[i] \notin stop
    BY <1>1, <1>4, UptoFacts
  <2>2. Lines(s, p, u) = 0
    <3>1. \A i \in p .. u - 1 : s[i] # NL
      BY <1>4, <2>1
    <3>2. u \in Int /\ p \in Int
      BY <2>1
    <3> HIDE DEF u
    <3> QED BY <3>1, <3>2, LinesNone
  <2> HIDE DEF u
  <2>3. u \in p + 1 .. l + 1 /\ 0 \in Nat
    BY <2>1
  <2>4. WellHandled(s, p, Handled(tt, u, 0))
    BY <2>2, <2>3, HandledIs
  <2> QED BY <2>4 DEF u
<1>6. CASE b = NL
  <2>1. fmat(s, p) = Handled("INDENT", p + 1, 1)
    BY <1>6, NewlineHandled
  <2>2. Lines(s, p, p + 1) = 1
    BY <1>6, LinesOne
  <2>3. p + 1 \in p + 1 .. l + 1 /\ 1 \in Nat
    BY <1>1
  <2>4. WellHandled(s, p, Handled("INDENT", p + 1, 1))
    BY <2>2, <2>3, HandledIs DEF Kind
  <2> QED BY <2>1, <2>4, Zenon
<1>7. CASE b = SP
  <2>1. fmat(s, p) = Handled("", p + 1, 0)
    BY KindsDisjoint, <1>7 DEF fmat, parseSKIP
  <2>2. b # NL
    BY KindsDisjoint, <1>7
  <2> HIDE DEF b
  <2> QED BY <1>3, <2>1, <2>2, Zenon DEF Kind
<1>8. CASE b = SLASH
  <2>1. fmat(s, p) = parseSLASH(s, p)
    BY KindsDisjoint, <1>8 DEF fmat
  <2>2. CASE Ch(s, p + 1) = SLASH
    <3>1. fmat(s, p) = Handled("", Upto(s, p, {NL}), 0)
      BY <2>1, <2>2 DEF parseSLASH, parseLINE
    <3>2. b \notin {NL}
      BY KindsDisjoint, <1>8
    <3> HIDE DEF b
    <3>3. WellHandled(s, p, Handled("", Upto(s, p, {NL}), 0))
      BY <1>4, <3>2 DEF Kind
    <3> QED BY <3>1, <3>3, Zenon
  <2>3. CASE Ch(s, p + 1) # SLASH /\ Ch(s, p + 1) = STAR
    <3> DEFINE e == CommentEnd(s, p + 2)
    <3>1. fmat(s, p) = Handled(IF e.closed THEN "" ELSE "ERR", e.pos, Lines(s, p, e.pos))
      BY <2>1, <2>3 DEF parseSLASH, parseCOMMENT
    <3>2. p + 1 <= l
      BY <1>1, <2>3 DEF Ch, STAR
    <3>3. e.pos \in p + 2 .. l + 1
      BY <1>1, <3>2, CommentFacts
    <3> HIDE DEF e
    <3>4. e.pos \in Int /\ e.pos \in p + 1 .. l + 1
      BY <1>1, <3>3
    <3>5. Lines(s, p, e.pos) \in Nat
      BY <1>1, <3>4, LinesNat
    <3>6. (IF e.closed THEN "" ELSE "ERR") \in Kind
      BY DEF Kind
    <3>7. WellHandled(s, p, Handled(IF e.closed THEN "" ELSE "ERR", e.pos, Lines(s, p, e.pos)))
      BY <3>4, <3>5, <3>6, HandledIs
    <3> QED BY <3>1, <3>7, Zenon
  <2>4. CASE Ch(s, p + 1) # SLASH /\ Ch(s, p + 1) # STAR
    <3>1. fmat(s, p) = Handled("OPERATOR", Upto(s, p, Byte \ Operator), 0)
      BY <2>1, <2>4 DEF parseSLASH, parseOP
    <3>2. b \notin Byte \ Operator /\ NL \in Byte \ Operator
      BY KindsDisjoint, <1>8
    <3> HIDE DEF b
    <3>3. WellHandled(s, p, Handled("OPERATOR", Upto(s, p, Byte \ Operator), 0))
      BY <1>4, <3>2 DEF Kind
    <3> QED BY <3>1, <3>3, Zenon
  <2> QED BY <2>2, <2>3, <2>4
<1>9. CASE b \in Letter
  <2>1. fmat(s, p) = Handled("SYMBOL", Upto(s, p, Byte \ Letter), 0)
    BY KindsDisjoint, <1>9 DEF fmat, parseSYMBOL
  <2>2. b \notin Byte \ Letter /\ NL \in Byte \ Letter
    BY KindsDisjoint, <1>9
  <2> HIDE DEF b
  <2>3. WellHandled(s, p, Handled("SYMBOL", Upto(s, p, Byte \ Letter), 0))
    BY <1>4, <2>2 DEF Kind
  <2> QED BY <2>1, <2>3, Zenon
<1>10. CASE b \in Operator \ {SLASH}
  <2>1. fmat(s, p) = Handled("OPERATOR", Upto(s, p, Byte \ Operator), 0)
    BY KindsDisjoint, <1>10 DEF fmat, parseOP
  <2>2. b \notin Byte \ Operator /\ NL \in Byte \ Operator
    BY KindsDisjoint, <1>10
  <2> HIDE DEF b
  <2>3. WellHandled(s, p, Handled("OPERATOR", Upto(s, p, Byte \ Operator), 0))
    BY <1>4, <2>2 DEF Kind
  <2> QED BY <2>1, <2>3, Zenon
<1>11. CASE b \in {SEMI, RBR}
  <2>1. fmat(s, p) = Handled("OPERATOR", p + 1, 0)
    BY <1>11, BlockHandled
  <2>2. b # NL
    BY KindsDisjoint, <1>11
  <2> HIDE DEF b
  <2> QED BY <1>3, <2>1, <2>2, Zenon DEF Kind
<1>12. CASE b \in Unquoted
  <2>1. fmat(s, p) = Handled("ERR", l + 1, 0)
    BY KindsDisjoint, <1>12 DEF fmat, parseUNDEF
  <2>2. l + 1 \in p + 1 .. l + 1 /\ 0 \in Nat
    BY <1>1
  <2>3. WellHandled(s, p, Handled("ERR", l + 1, 0))
    BY <2>2, HandledIs DEF Kind
  <2> QED BY <2>1, <2>3, Zenon
<1>13. b \in Byte
  BY <1>1, <1>2
<1> HIDE DEF b
<1>14. b # DQUOTE /\ b # LBR
  BY DEF b
<1> QED BY KindsDisjoint, <1>6, <1>7, <1>8, <1>9, <1>10, <1>11, <1>12, <1>13, <1>14

-----------------------------------------------------------------------------
(* What the tokenizer reads. *)
LEMMA ZerosBehind ==
  ASSUME IInv, NEW i \in Nat, bytesize <= i
  PROVE  At(i) = 0
<1>1. bytemax \in Nat /\ bytesize \in Nat
  BY DEF IInv, TypeOK
<1>2. i < bytemax => i \in bytesize .. bytemax - 1
  BY <1>1
<1> QED BY <1>2 DEF IInv, ZeroBehind, At

LEMMA ScanFacts ==
  ASSUME BaseInv, Scanned
  PROVE  /\ Len(wb) >= 2 /\ wb \in Seq(Buffer) /\ wb[Own].pos \in Nat /\ Chunk \in Seq(Byte)
         /\ Skipped \in 0 .. Len(Chunk) /\ Len(Chunk) \in Nat \ {0}
         /\ Body \in Seq(Byte) /\ Len(Body) = Len(Chunk) - Skipped /\ Len(Body) \in Nat
         /\ \A i \in 1 .. Len(Body) : Body[i] = Chunk[Skipped + i] /\ Body[i] \in Byte
         /\ End(Own) = wb[Own].pos + Len(Chunk)
<1>1. wb \in Seq(Buffer) /\ Len(wb) >= 2 /\ ~NotKonoha /\ Chunk # <<>>
  BY DEF BaseInv, IInv, TypeOK, Height, ChunkEnds, Scanned
<1>2. Own \in 1 .. Len(wb)
  BY <1>1 DEF Own
<1>3. /\ wb[Own].pos \in Nat /\ Chunk \in Seq(Byte) /\ Len(Chunk) \in Nat /\ End(Own) \in Nat
      /\ End(Own) - wb[Own].pos = Len(Chunk)
  BY <1>2, BufferFacts DEF BaseInv, Chunk
<1>4. Len(Chunk) # 0
  BY <1>1, <1>3
<1>5. /\ Skipped \in 0 .. Len(Chunk)
      /\ Body \in Seq(Byte) /\ Len(Body) = Len(Chunk) - Skipped /\ Len(Body) \in Nat
      /\ \A i \in 1 .. Len(Body) : Body[i] = Chunk[Skipped + i]
  BY <1>1, <1>3, BodyFacts
<1>6. \A i \in 1 .. Len(Body) : Body[i] \in Byte
  BY <1>5, SeqElement
<1>7. End(Own) = wb[Own].pos + Len(Chunk)
  BY <1>3
<1> QED BY <1>1, <1>3, <1>4, <1>5, <1>6, <1>7

LEMMA TokenisingFacts ==
  ASSUME BaseInv, Tokenising
  PROVE  /\ Scanned /\ tenv.pos \in Nat \ {0} /\ tenv.src \in Nat /\ tenv.level \in Nat /\ tenv.start \in Nat
         /\ tenv.src + Len(Body) = End(Own)
         /\ \A i \in 1 .. Len(Body) : At(tenv.src + i - 1) = Body[i]
<1>1. Scanned /\ tenv.pos \in Nat \ {0} /\ tenv.src \in Nat /\ tenv.level \in Nat /\ tenv.start \in Nat
  BY DEF Tokenising, Scanned, BaseInv, Placed, TenvTyped, Tenv
<1>2. tenv.src = wb[Own].pos + Skipped
  BY DEF BaseInv, Placed
<1>3. tenv.src + Len(Body) = End(Own)
  BY <1>1, <1>2, ScanFacts
<1>4. ASSUME NEW i \in 1 .. Len(Body) PROVE At(tenv.src + i - 1) = Body[i]
  <2>1. Own \in 1 .. Len(wb)
    BY <1>1, ScanFacts DEF Own
  <2>2. \A j \in 1 .. Len(Chunk) : At(wb[Own].pos + j - 1) = Chunk[j]
    BY <2>1, BufferFacts DEF BaseInv, Chunk
  <2> DEFINE l == Len(Body)
             m == Len(Chunk)
             k == Skipped
             q == wb[Own].pos
  <2>3. k \in Nat /\ m \in Nat /\ l = m - k /\ q \in Nat /\ i \in 1 .. l /\ tenv.src = q + k
    BY <1>1, <1>2, ScanFacts
  <2>4. Body[i] = Chunk[k + i]
    BY <1>1, ScanFacts
  <2> HIDE DEF l, m, k, q
  <2>5. k + i \in 1 .. m /\ tenv.src + i - 1 = q + (k + i) - 1
    BY ONLY <2>3
  <2>6. At(q + (k + i) - 1) = Chunk[k + i]
    BY <2>2, <2>5 DEF m, q
  <2> QED BY <2>4, <2>5, <2>6
<1> QED BY <1>1, <1>3, <1>4

(* With no buffer above it the string is the chunk. *)
LEMMA SourceIs ==
  ASSUME BaseInv, Tokenising, phase = "token"
  PROVE  Source = Body
<1> DEFINE L == Len(Body)
           a(i) == At(tenv.src + i)
           P(n) == a(n) = 0 /\ \A i \in 0 .. n - 1 : a(i) # 0
<1>1. /\ Scanned /\ tenv.src \in Nat /\ tenv.src + L = End(Own)
      /\ \A i \in 1 .. L : At(tenv.src + i - 1) = Body[i]
  BY TokenisingFacts
<1>2. Len(wb) = 2 /\ IInv
  BY DEF BaseInv, Height
<1>3. /\ L \in Nat /\ Body \in Seq(Byte) /\ \A i \in 1 .. L : Body[i] # 0
  BY <1>1, ScanFacts, ByteFacts
<1>4. bytesize \in Nat /\ bytemax \in Nat /\ bytesize <= bytemax /\ tenv.src + L = bytesize
  BY <1>1, <1>2 DEF IInv, TypeOK, Fits, End, Own
<1>5. a(L) = 0
  BY <1>2, <1>4, ZerosBehind
<1>6. \A i \in 0 .. L - 1 : a(i) = Body[i + 1] /\ a(i) # 0
  <2> SUFFICES ASSUME NEW i \in 0 .. L - 1 PROVE a(i) = Body[i + 1] /\ a(i) # 0
    OBVIOUS
  <2>1. i + 1 \in 1 .. L /\ tenv.src + (i + 1) - 1 = tenv.src + i
    BY <1>1, <1>3
  <2>2. At(tenv.src + (i + 1) - 1) = Body[i + 1] /\ Body[i + 1] # 0
    BY <1>1, <1>3, <2>1
  <2> QED BY <2>1, <2>2
<1> HIDE DEF a
<1>7. P(L) /\ L \in 0 .. bytemax
  BY <1>1, <1>3, <1>4, <1>5, <1>6
<1>8. ASSUME NEW n \in 0 .. bytemax, P(n) PROVE n = L
  <2>1. ~(n < L)
    BY <1>3, <1>6, <1>8
  <2>2. ~(L < n)
    BY <1>3, <1>5, <1>8
  <2> QED BY <1>3, <1>4, <2>1, <2>2
<1>9. (CHOOSE n \in 0 .. bytemax : P(n)) = L
  BY <1>7, <1>8
<1>10. Source = [i \in 1 .. L |-> At(tenv.src + i - 1)]
  BY <1>9 DEF Source, a
<1>11. Body = [i \in 1 .. L |-> Body[i]]
  BY <1>3
<1> HIDE DEF L
<1> QED BY <1>1, <1>10, <1>11

(* A literal lies behind the chunk: over its end the tokenizer reads what   *)
(* it wrote.                                                               *)
LEMMA LiteralBytes ==
  ASSUME BaseInv, Tokenising, phase \in {"literal", "close"}, NEW p \in Nat \ {0}
  PROVE  /\ wb[3].text \in Seq(Byte) /\ Len(wb[3].text) \in Nat /\ Len(wb) = 3
         /\ bytesize = End(Own) + Len(wb[3].text) /\ wb[3].pos = End(Own)
         /\ At(tenv.src + p - 1) = IF p <= Len(Body) THEN Body[p]
                                   ELSE IF p - Len(Body) <= Len(wb[3].text) THEN wb[3].text[p - Len(Body)]
                                   ELSE 0
<1> DEFINE T == wb[3].text
           L == Len(Body)
           q == wb[3].pos
<1>1. /\ Scanned /\ tenv.src \in Nat /\ tenv.src + L = End(Own)
      /\ \A i \in 1 .. L : At(tenv.src + i - 1) = Body[i]
  BY TokenisingFacts
<1>2. Len(wb) = 3 /\ 3 \in 1 .. Len(wb) /\ IInv
  BY DEF BaseInv, Height
<1>3. /\ T \in Seq(Byte) /\ Len(T) \in Nat /\ q \in Nat /\ End(3) - q = Len(T)
      /\ \A i \in 1 .. Len(T) : At(q + i - 1) = T[i]
  BY <1>2, BufferFacts
<1>4. End(3) = bytesize /\ End(Own) = q /\ bytesize \in Nat
  BY <1>2 DEF End, Own, IInv, TypeOK
<1>5. L \in Nat
  BY <1>1, ScanFacts
<1> HIDE DEF T, L, q
<1>6. bytesize = q + Len(T) /\ tenv.src + L = q
  BY <1>1, <1>3, <1>4
<1>7. CASE p <= L
  <2>1. p \in 1 .. L
    BY <1>5, <1>7
  <2> QED BY <1>1, <1>2, <1>3, <1>4, <1>6, <2>1 DEF T, L, q
<1>8. CASE ~(p <= L) /\ p - L <= Len(T)
  <2>1. p - L \in 1 .. Len(T) /\ q + (p - L) - 1 = tenv.src + p - 1
    <3> DEFINE a == tenv.src
               n == Len(T)
    <3>1. a \in Nat /\ n \in Nat /\ q \in Nat /\ a + L = q /\ p - L <= n
      BY <1>1, <1>3, <1>6, <1>8
    <3>2. p \in Nat /\ ~(p <= L) /\ L \in Nat
      BY <1>5, <1>8
    <3> HIDE DEF a, n
    <3>3. p - L \in 1 .. n /\ q + (p - L) - 1 = a + p - 1
      BY ONLY <3>1, <3>2
    <3> QED BY <3>3 DEF a, n
  <2>2. At(tenv.src + p - 1) = T[p - L]
    BY <1>3, <2>1
  <2> QED BY <1>2, <1>3, <1>4, <1>6, <1>8, <2>2 DEF T, L, q
<1>9. CASE ~(p <= L) /\ ~(p - L <= Len(T))
  <2>1. tenv.src + p - 1 \in Nat /\ bytesize <= tenv.src + p - 1
    BY <1>1, <1>3, <1>5, <1>6, <1>9
  <2>2. At(tenv.src + p - 1) = 0
    BY <1>2, <2>1, ZerosBehind
  <2> QED BY <1>2, <1>3, <1>4, <1>6, <1>9, <2>2 DEF T, L, q
<1> QED BY <1>7, <1>8, <1>9

-----------------------------------------------------------------------------
(* The steps. *)
LEMMA TenvFields ==
  ASSUME NEW t \in Tenv
  PROVE  /\ t.src \in Nat /\ t.pos \in Nat /\ t.uline \in Nat /\ t.level \in Nat /\ t.start \in Nat
         /\ t.prev \in Byte \cup {0} /\ t.room \in Int /\ t.moved \in BOOLEAN
BY DEF Tenv

LEMMA TenvStep ==
  ASSUME NEW t \in Tenv, NEW p \in Nat, NEW u \in Nat, NEW l \in Nat, NEW s \in Nat
  PROVE  /\ [t EXCEPT !.pos = p, !.uline = u] \in Tenv
         /\ [t EXCEPT !.pos = p, !.level = l, !.start = s] \in Tenv
         /\ [t EXCEPT !.pos = p, !.level = l] \in Tenv
BY DEF Tenv

LEMMA TenvLiteral ==
  ASSUME NEW t \in Tenv, NEW p \in Nat, NEW c \in Byte \cup {0}, NEW m \in BOOLEAN
  PROVE  /\ [t EXCEPT !.pos = p, !.prev = c] \in Tenv
         /\ [t EXCEPT !.pos = p, !.prev = c, !.moved = m] \in Tenv
         /\ [t EXCEPT !.pos = p, !.moved = m] \in Tenv
BY DEF Tenv

LEMMA TenvChunk ==
  ASSUME NEW t \in Tenv, NEW s \in Nat, NEW r \in Int
  PROVE  [t EXCEPT !.src = s, !.room = r] \in Tenv
BY DEF Tenv

LEMMA NoTokensTyped == NoTokens \in Tenv /\ \A u \in Nat : [NoTokens EXCEPT !.uline = u] \in Tenv
<1>1. 0 \in Nat /\ 1 \in Nat /\ 0 \in Byte \cup {0} /\ 0 \in Int /\ FALSE \in BOOLEAN
  OBVIOUS
<1>2. NoTokens \in Tenv
  BY <1>1, Zenon DEF Tenv, NoTokens
<1>3. ASSUME NEW t \in Tenv, NEW u \in Nat PROVE [t EXCEPT !.uline = u] \in Tenv
  BY DEF Tenv
<1> QED BY <1>2, <1>3

(* What is said of the chunk is said of its text alone. *)
LEMMA ChunkKept ==
  ASSUME wb'[Own].text = wb[Own].text
  PROVE  Chunk' = Chunk /\ Skipped' = Skipped /\ Body' = Body /\ NotKonoha' = NotKonoha
<1>1. Chunk' = Chunk
  BY DEF Chunk, Own
<1> QED BY <1>1, ChunkAlone

LEMMA SameArray == IInv /\ UNCHANGED vars => IInv'
BY DEF vars, IInv, TypeOK, Fits, Ordered, TextWhole, ZeroBehind, End, At

(* A step that leaves the array, or changes what lies above the chunk. *)
LEMMA Rest ==
  ASSUME BaseInv, Scanned, wb'[Own].text = wb[Own].text, feof' = feof,
         phase' \in {"token", "literal", "close", "tokenised", "abort", "astray"}
  PROVE  ChunkEnds'
<1>1. Chunk' = Chunk /\ NotKonoha' = NotKonoha
  BY ChunkKept
<1> QED BY <1>1 DEF BaseInv, ChunkEnds

LEMMA TokenTyped ==
  ASSUME tokens \in Seq([tt : Kind, text : Seq(Byte)]), NEW k \in Kind, NEW x \in Seq(Byte),
         tokens' = Append(tokens, [tt |-> k, text |-> x]) \/ tokens' = tokens
  PROVE  tokens' \in Seq([tt : Kind, text : Seq(Byte)])
<1> DEFINE S == [tt : Kind, text : Seq(Byte)]
           e == [tt |-> k, text |-> x]
<1>1. e \in S
  OBVIOUS
<1> HIDE DEF S, e
<1>2. Append(tokens, e) \in Seq(S)
  BY <1>1, SeqAppend DEF S
<1> QED BY <1>2 DEF S, e

LEMMA SubSeqTyped ==
  ASSUME NEW S, NEW s \in Seq(S), NEW m \in Nat \ {0}, NEW n \in Nat, n <= Len(s)
  PROVE  SubSeq(s, m, n) \in Seq(S)
<1> DEFINE l == IF m <= n THEN n - m + 1 ELSE 0
<1>1. SubSeq(s, m, n) = [j \in 1 .. l |-> s[m + j - 1]]
  OBVIOUS
<1>2. Len(s) \in Nat /\ \A j \in 1 .. l : m + j - 1 \in 1 .. Len(s)
  OBVIOUS
<1>3. \A j \in 1 .. l : s[m + j - 1] \in S
  BY <1>2, SeqElement
<1>4. l \in Nat
  OBVIOUS
<1> HIDE DEF l
<1> QED BY <1>1, <1>3, <1>4

LEMMA ReaderFirst == ReaderInit => BaseInv
<1> SUFFICES ASSUME ReaderInit PROVE BaseInv
  OBVIOUS
<1>1. PICK t \in Outer :
        /\ bytesize = Len(t) /\ bytemax = InitMax
        /\ bytebuf = [i \in 0 .. InitMax - 1 |-> IF i < Len(t) THEN t[i + 1] ELSE 0]
        /\ wb = <<[pos |-> 0, text |-> t]>> /\ overrun = FALSE
  BY DEF ReaderInit
<1>2. t \in Seq(Byte) /\ Len(t) <= InitMax /\ Len(t) \in Nat /\ InitMax \in Nat \ {0}
  BY ByteAssumption, SizeAssumption
<1>3. \A i \in 1 .. Len(t) : t[i] \in Byte
  BY <1>2, SeqElement
<1>4. bytebuf \in [0 .. bytemax - 1 -> Byte \cup {0}]
  <2>1. ASSUME NEW i \in 0 .. InitMax - 1 PROVE (IF i < Len(t) THEN t[i + 1] ELSE 0) \in Byte \cup {0}
    <3>1. i < Len(t) => i + 1 \in 1 .. Len(t)
      BY <1>2
    <3> QED BY <1>3, <3>1
  <2> QED BY <1>1, <2>1
<1>5. wb \in Seq(Buffer) /\ Len(wb) = 1 /\ wb[1].pos = 0 /\ wb[1].text = t
  <2>1. [pos |-> 0, text |-> t] \in Buffer
    BY <1>2 DEF Buffer
  <2> QED BY <1>1, <2>1
<1>6. TypeOK /\ Fits /\ InitMax <= bytemax
  <2>1. bytesize \in Nat /\ bytemax \in Nat /\ bytesize <= bytemax /\ InitMax <= bytemax
    BY <1>1, <1>2
  <2>2. overrun \in BOOLEAN /\ ~overrun
    BY <1>1
  <2> QED BY <1>4, <1>5, <2>1, <2>2 DEF TypeOK, Fits
<1>7. Ordered
  BY <1>1, <1>2, <1>5 DEF Ordered
<1>8. TextWhole
  <2>1. End(1) = Len(t)
    BY <1>1, <1>5 DEF End
  <2>2. ASSUME NEW i \in 1 .. Len(t) PROVE At(0 + i - 1) = t[i]
    <3> DEFINE j == 0 + i - 1
    <3>1. j \in 0 .. InitMax - 1 /\ j < Len(t) /\ j + 1 = i /\ j < InitMax
      BY <1>2
    <3> HIDE DEF j
    <3>2. At(j) = t[i]
      BY <1>1, <3>1 DEF At
    <3> QED BY <3>2 DEF j
  <2>3. Len(t) - 0 = Len(t)
    BY <1>2
  <2> QED BY <1>5, <2>1, <2>2, <2>3 DEF TextWhole
<1>9. ZeroBehind
  BY <1>1, <1>2 DEF ZeroBehind
<1>10. /\ tenv = NoTokens /\ phase = "start" /\ uline = 1 /\ feof = FALSE /\ tokens = <<>>
       /\ rest \in Files
  BY DEF ReaderInit
<1>11. TenvTyped
  <2>1. NoTokens \in Tenv
    BY NoTokensTyped
  <2>2. rest \in Seq(Byte \cup {CR})
    BY <1>10, ByteAssumption
  <2>3. tokens \in Seq([tt : Kind, text : Seq(Byte)]) /\ uline \in Nat
    BY <1>10
  <2>4. feof \in BOOLEAN
    BY <1>10, Zenon
  <2> QED BY <1>10, <2>1, <2>2, <2>3, <2>4, Zenon DEF TenvTyped
<1>12. Height /\ ChunkEnds /\ Placed
  BY <1>5, <1>10 DEF Height, ChunkEnds, Placed, Scanned, Tokenising
<1> QED BY <1>6, <1>7, <1>8, <1>9, <1>11, <1>12 DEF BaseInv, IInv

LEMMA NextChunkKeeps == ASSUME BaseInv, NextChunk PROVE BaseInv'
<1>1. IInv'
  BY OpenKeeps DEF BaseInv, NextChunk
<1>2. /\ phase = "start" /\ phase' = "read" /\ tenv' = [NoTokens EXCEPT !.uline = uline]
      /\ UNCHANGED <<rest, feof, uline, tokens>> /\ wb' = Append(wb, [pos |-> bytesize, text |-> <<>>])
  BY DEF NextChunk, Open
<1>3. Len(wb') = 2
  <2>1. Len(wb) = 1 /\ wb \in Seq(Buffer)
    BY <1>2 DEF BaseInv, Height, IInv, TypeOK
  <2> QED BY <1>2, <2>1
<1>4. TenvTyped'
  <2>1. [NoTokens EXCEPT !.uline = uline] \in Tenv
    BY NoTokensTyped DEF BaseInv, TenvTyped
  <2> QED BY <1>2, <2>1 DEF BaseInv, TenvTyped
<1>5. tenv'.pos = 1 /\ tenv'.level = 0 /\ ~tenv'.moved
  BY <1>2 DEF NoTokens
<1>6. Height' /\ ChunkEnds' /\ Placed'
  BY <1>2, <1>3, <1>5 DEF Height, ChunkEnds, Placed, Scanned, Tokenising
<1> QED BY <1>1, <1>4, <1>6 DEF BaseInv

(* A byte of the file is read. *)
LEMMA FetchKeeps ==
  ASSUME BaseInv, NEW ch \in Byte, Fetch(ch), phase' \in {"read", "chunk"}, phase' = "chunk" => ch = NL
  PROVE  BaseInv' /\ Appends(<<ch>>) /\ Len(wb) = 2 /\ Chunk' = Chunk \o <<ch>>
<1>1. /\ phase = "read" /\ rest # <<>> /\ rest' = Tail(rest) /\ Write(<<ch>>)
      /\ uline' = (IF ch = NL THEN uline + 1 ELSE uline) /\ UNCHANGED <<feof, tenv, tokens>>
  BY DEF Fetch
<1>2. <<ch>> \in Seq(Byte)
  OBVIOUS
<1>3. IInv' /\ Appends(<<ch>>)
  BY <1>1, <1>2, WriteKeeps DEF BaseInv
<1>4. Len(wb) = 2 /\ wb \in Seq(Buffer) /\ wb # <<>> /\ Wrote(<<ch>>)
  <2>1. Len(wb) = 2 /\ wb \in Seq(Buffer)
    BY <1>1 DEF BaseInv, Height, IInv, TypeOK
  <2> QED BY <1>1, <2>1 DEF Write
<1>5. Len(wb') = 2 /\ wb'[Own].text = wb[Own].text \o <<ch>>
  BY <1>2, <1>4, WroteFacts DEF Own
<1>6. Chunk' = Chunk \o <<ch>>
  BY <1>5 DEF Chunk, Own
<1>7. Chunk' # <<>> /\ Chunk'[Len(Chunk')] = ch
  <2>1. Own \in 1 .. Len(wb)
    BY <1>4 DEF Own
  <2>2. Chunk \in Seq(Byte)
    BY <2>1, BufferFacts DEF BaseInv, Chunk
  <2> HIDE DEF Chunk
  <2>3. Len(Chunk \o <<ch>>) = Len(Chunk) + 1 /\ Len(Chunk) \in Nat /\ (Chunk \o <<ch>>)[Len(Chunk) + 1] = ch
    BY <2>2
  <2> QED BY <1>6, <2>3
<1>8. TenvTyped'
  <2>1. uline \in Nat /\ feof \in BOOLEAN /\ rest \in Seq(Byte \cup {CR}) /\ tenv \in Tenv
        /\ tokens \in Seq([tt : Kind, text : Seq(Byte)])
    BY DEF BaseInv, TenvTyped
  <2>2. uline' \in Nat /\ rest' \in Seq(Byte \cup {CR})
    BY <1>1, <2>1
  <2> QED BY <1>1, <2>1, <2>2 DEF TenvTyped
<1>9. Height'
  BY <1>5 DEF Height
<1>10. ChunkEnds'
  BY <1>7 DEF ChunkEnds, Scanned
<1>11. Placed'
  BY <1>1 DEF BaseInv, Placed, Tokenising
<1> QED BY <1>3, <1>4, <1>6, <1>8, <1>9, <1>10, <1>11 DEF BaseInv

(* Reading takes the loop of readchunk, or one of the two inside of it. *)
LEMMA ReadsFetch ==
  ASSUME NEW ch, readchunk(ch) \/ readquote(ch) \/ readcomment(ch)
  PROVE  Fetch(ch) /\ phase' \in {"read", "chunk"} /\ (phase' = "chunk" => ch = NL)
<1>1. Fetch(ch) => phase = "read"
  BY DEF Fetch
<1> QED BY <1>1 DEF readchunk, readquote, readcomment

(* A step that leaves the buffers as they are. *)
LEMMA FetchEnds == ASSUME BaseInv, FetchCR \/ FetchEOF PROVE BaseInv'
<1>1. /\ phase = "read" /\ UNCHANGED <<vars, tenv, tokens, uline>> /\ phase' \in {"read", "chunk"}
      /\ phase' = "chunk" => feof' = TRUE
  BY DEF FetchCR, FetchEOF
<1>2. IInv' /\ wb' = wb
  BY <1>1, SameArray DEF BaseInv, vars
<1>3. rest' \in Seq(Byte \cup {CR}) /\ feof' \in BOOLEAN
  <2>1. rest \in Seq(Byte \cup {CR}) /\ feof \in BOOLEAN
    BY DEF BaseInv, TenvTyped
  <2>2. CASE FetchCR
    BY <2>1, <2>2 DEF FetchCR
  <2>3. CASE FetchEOF
    BY <2>1, <2>3 DEF FetchEOF
  <2> QED BY <2>2, <2>3
<1>4. TenvTyped'
  BY <1>1, <1>3 DEF BaseInv, TenvTyped
<1>5. Height' /\ ChunkEnds' /\ Placed'
  BY <1>1, <1>2 DEF BaseInv, Height, ChunkEnds, Placed, Scanned, Tokenising
<1> QED BY <1>2, <1>4, <1>5 DEF BaseInv

-----------------------------------------------------------------------------
(* The tokenizer reads; the array stays as it is. *)
LEMMA ScanKeeps ==
  ASSUME BaseInv, Scanning("token"), UNCHANGED <<vars, stream>>, phase' \in {"token", "tokenised", "abort"},
         tenv' \in Tenv, tokens' \in Seq([tt : Kind, text : Seq(Byte)]),
         tenv'.src = tenv.src, tenv'.pos >= 1,
         tenv'.level > 0 => tenv'.start \in 1 .. Len(Body) /\ tenv'.start < tenv'.pos /\ Body[tenv'.start] = LBR
  PROVE  BaseInv' /\ Chunk' = Chunk /\ Body' = Body /\ Skipped' = Skipped
<1>1. phase = "token" /\ Tokenising /\ Scanned /\ wb' = wb /\ feof' = feof /\ rest' = rest /\ uline' = uline
  BY DEF Scanning, Tokenising, Scanned, vars, stream
<1>2. Chunk' = Chunk /\ Body' = Body /\ Skipped' = Skipped
  BY <1>1, ChunkKept
<1>3. IInv'
  BY SameArray DEF BaseInv
<1>4. ChunkEnds'
  BY <1>1, Rest
<1>5. TenvTyped'
  BY <1>1 DEF BaseInv, TenvTyped
<1>6. Height'
  BY <1>1 DEF BaseInv, Height
<1>7. Placed'
  <2>1. tenv.src = wb[Own].pos + Skipped
    BY <1>1 DEF BaseInv, Placed
  <2>2. (wb[Own].pos)' = wb[Own].pos
    BY <1>1 DEF Own
  <2>3. phase' \notin {"read", "chunk"}
    OBVIOUS
  <2> QED BY <1>2, <2>1, <2>2, <2>3 DEF Placed
<1> QED BY <1>2, <1>3, <1>4, <1>5, <1>6, <1>7 DEF BaseInv

(* What is scanned, and where. *)
LEMMA ScanFrom ==
  ASSUME BaseInv, Scanning("token")
  PROVE  /\ phase = "token" /\ Tokenising /\ Scanned /\ Source = Body /\ Body \in Seq(Byte) /\ Len(Body) \in Nat
         /\ tenv \in Tenv /\ tenv.pos \in Nat \ {0} /\ tenv.uline \in Nat /\ tenv.level \in Nat /\ tenv.start \in Nat
         /\ tokens \in Seq([tt : Kind, text : Seq(Byte)])
         /\ tenv.level > 0 => tenv.start \in 1 .. Len(Body) /\ tenv.start < tenv.pos /\ Body[tenv.start] = LBR
         /\ Ch(Source, tenv.pos) # 0 => tenv.pos \in 1 .. Len(Body) /\ Ch(Source, tenv.pos) = Body[tenv.pos]
         /\ Ch(Source, tenv.pos) = 0 => tenv.pos >= Len(Body) + 1
<1>1. phase = "token" /\ Tokenising /\ Scanned
  BY DEF Scanning, Tokenising, Scanned
<1>2. Source = Body
  BY <1>1, SourceIs
<1>3. Body \in Seq(Byte) /\ Len(Body) \in Nat /\ \A i \in 1 .. Len(Body) : Body[i] # 0
  BY <1>1, ScanFacts, ByteFacts
<1>4. tenv \in Tenv /\ tokens \in Seq([tt : Kind, text : Seq(Byte)])
  BY DEF BaseInv, TenvTyped
<1>5. tenv.pos \in Nat \ {0} /\ tenv.uline \in Nat /\ tenv.level \in Nat /\ tenv.start \in Nat
  BY <1>1, <1>4, TenvFields, TokenisingFacts
<1>6. tenv.level > 0 => tenv.start \in 1 .. Len(Body) /\ tenv.start < tenv.pos /\ Body[tenv.start] = LBR
  BY <1>1 DEF BaseInv, Placed
<1>7. Ch(Source, tenv.pos) = IF tenv.pos <= Len(Body) THEN Body[tenv.pos] ELSE 0
  BY <1>2 DEF Ch
<1> QED BY <1>1, <1>2, <1>3, <1>4, <1>5, <1>6, <1>7

LEMMA LexemeKeeps ==
  ASSUME BaseInv, Lexeme
  PROVE  /\ BaseInv' /\ Chunk' = Chunk /\ Body' = Body /\ Skipped' = Skipped
         /\ Scanning("token") /\ phase' = "token" /\ ~tenv'.moved
         /\ tenv.pos \in 1 .. Len(Body) /\ Body[tenv.pos] \notin {DQUOTE, LBR} /\ ~(tenv.level > 0 /\ Body[tenv.pos] = RBR)
         /\ LET h == fmat(Body, tenv.pos)
            IN /\ tenv' = [tenv EXCEPT !.pos = h.end, !.uline = @ + h.lines]
               /\ Token(h.tt, TextOf(h.tt, Body, tenv.pos, h.end))
               /\ WellHandled(Body, tenv.pos, h)
<1> DEFINE s == Body
           p == tenv.pos
           h == fmat(s, p)
           x == TextOf(h.tt, s, p, h.end)
<1>1. Scanning("token") /\ phase' = phase /\ UNCHANGED <<vars, stream>>
  BY DEF Lexeme
<1>2. /\ phase = "token" /\ Source = s /\ s \in Seq(Byte) /\ Len(s) \in Nat
      /\ tenv \in Tenv /\ tenv.uline \in Nat
      /\ tokens \in Seq([tt : Kind, text : Seq(Byte)])
      /\ tenv.level > 0 => tenv.start \in 1 .. Len(Body) /\ tenv.start < tenv.pos /\ Body[tenv.start] = LBR
      /\ Ch(Source, p) # 0 => p \in 1 .. Len(s) /\ Ch(Source, p) = s[p]
  BY <1>1, ScanFrom
<1>3. /\ Ch(Source, p) \notin {0, DQUOTE, LBR} /\ ~(tenv.level > 0 /\ Ch(Source, p) = RBR)
      /\ tenv' = [tenv EXCEPT !.pos = h.end, !.uline = @ + h.lines]
      /\ Token(h.tt, x)
  BY <1>2 DEF Lexeme
<1>4. p \in 1 .. Len(s) /\ s[p] \notin {DQUOTE, LBR} /\ ~(tenv.level > 0 /\ s[p] = RBR)
  BY <1>2, <1>3
<1>5. WellHandled(s, p, h)
  BY <1>2, <1>4, HandledFacts
<1>6. h.tt \in Kind /\ h.end \in Nat /\ h.end > p /\ h.end <= Len(s) + 1 /\ h.lines \in Nat
  BY <1>4, <1>5 DEF WellHandled
<1>7. x \in Seq(Byte)
  <2>1. p \in Nat \ {0} /\ h.end - 1 \in Nat /\ h.end - 1 <= Len(s)
    BY <1>2, <1>4, <1>6
  <2>2. SubSeq(s, p, h.end - 1) \in Seq(Byte)
    BY <1>2, <2>1, SubSeqTyped
  <2> QED BY <2>2 DEF TextOf
<1> HIDE DEF h, x
<1>8. tokens' \in Seq([tt : Kind, text : Seq(Byte)])
  <2>1. tokens' = tokens \/ tokens' = Append(tokens, [tt |-> h.tt, text |-> x])
    BY <1>3 DEF Token
  <2> QED BY <1>2, <1>6, <1>7, <2>1, TokenTyped
<1>9. tenv' \in Tenv /\ tenv'.src = tenv.src /\ tenv'.pos = h.end /\ tenv'.level = tenv.level /\ tenv'.start = tenv.start
      /\ tenv'.moved = tenv.moved
  <2>1. tenv.uline + h.lines \in Nat
    BY <1>2, <1>6
  <2>2. tenv' = [tenv EXCEPT !.pos = h.end, !.uline = tenv.uline + h.lines]
    BY <1>3
  <2>3. tenv' \in Tenv
    <3>1. 0 \in Nat
      OBVIOUS
    <3> QED BY <1>2, <1>6, <2>1, <2>2, <3>1, TenvStep
  <2> QED BY <1>2, <2>2, <2>3 DEF Tenv
<1>10. BaseInv' /\ Chunk' = Chunk /\ Body' = Body /\ Skipped' = Skipped
  <2>1. tenv'.pos >= 1
    BY <1>4, <1>6, <1>9
  <2>2. tenv'.level > 0 => tenv'.start \in 1 .. Len(Body) /\ tenv'.start < tenv'.pos /\ Body[tenv'.start] = LBR
    BY <1>2, <1>4, <1>6, <1>9
  <2> QED BY <1>1, <1>2, <1>8, <1>9, <2>1, <2>2, ScanKeeps
<1>11. ~tenv'.moved /\ phase' = "token"
  BY <1>1, <1>2, <1>9 DEF Scanning
<1> QED BY <1>1, <1>3, <1>4, <1>5, <1>10, <1>11, Zenon DEF h, x

LEMMA BlockOpenKeeps ==
  ASSUME BaseInv, BlockOpen
  PROVE  /\ BaseInv' /\ Chunk' = Chunk /\ Body' = Body /\ Skipped' = Skipped
         /\ Scanning("token") /\ phase' = "token" /\ ~tenv'.moved
         /\ tenv.pos \in 1 .. Len(Body) /\ Body[tenv.pos] = LBR /\ tokens' = tokens
         /\ tenv'.pos = tenv.pos + 1 /\ tenv'.level = tenv.level + 1 /\ tenv'.uline = tenv.uline
         /\ tenv'.start = IF tenv.level = 0 THEN tenv.pos ELSE tenv.start
<1>1. Scanning("token") /\ phase' = phase /\ UNCHANGED <<vars, stream>> /\ tokens' = tokens
  BY DEF BlockOpen
<1>2. /\ phase = "token" /\ tenv \in Tenv /\ tenv.level \in Nat /\ tenv.start \in Nat /\ tenv.pos \in Nat
      /\ tokens \in Seq([tt : Kind, text : Seq(Byte)])
      /\ tenv.level > 0 => tenv.start \in 1 .. Len(Body) /\ tenv.start < tenv.pos /\ Body[tenv.start] = LBR
      /\ Ch(Source, tenv.pos) # 0 => tenv.pos \in 1 .. Len(Body) /\ Ch(Source, tenv.pos) = Body[tenv.pos]
  BY <1>1, ScanFrom
<1> DEFINE st == IF tenv.level = 0 THEN tenv.pos ELSE tenv.start
<1>3. /\ Ch(Source, tenv.pos) = LBR
      /\ tenv' = [tenv EXCEPT !.pos = tenv.pos + 1, !.level = tenv.level + 1, !.start = st]
  BY DEF BlockOpen
<1>4. tenv.pos \in 1 .. Len(Body) /\ Body[tenv.pos] = LBR
  BY <1>2, <1>3, ByteFacts
<1>5. st \in 1 .. Len(Body) /\ st < tenv.pos + 1 /\ Body[st] = LBR /\ st \in Nat
  BY <1>2, <1>4
<1> HIDE DEF st
<1>6. tenv' \in Tenv
  <2>1. tenv.pos + 1 \in Nat /\ tenv.level + 1 \in Nat /\ 0 \in Nat
    BY <1>2
  <2> QED BY <1>2, <1>3, <1>5, <2>1, TenvStep
<1>7. tenv'.src = tenv.src /\ tenv'.pos = tenv.pos + 1 /\ tenv'.level = tenv.level + 1 /\ tenv'.start = st
      /\ tenv'.moved = tenv.moved /\ tenv'.uline = tenv.uline
  BY <1>2, <1>3 DEF Tenv
<1>8. BaseInv' /\ Chunk' = Chunk /\ Body' = Body /\ Skipped' = Skipped
  <2>1. tenv'.pos >= 1
    BY <1>2, <1>7
  <2>2. tenv'.level > 0 => tenv'.start \in 1 .. Len(Body) /\ tenv'.start < tenv'.pos /\ Body[tenv'.start] = LBR
    BY <1>5, <1>7
  <2> QED BY <1>1, <1>2, <1>6, <1>7, <2>1, <2>2, ScanKeeps
<1> QED BY <1>1, <1>2, <1>4, <1>7, <1>8 DEF Scanning, st

LEMMA BlockCloseKeeps ==
  ASSUME BaseInv, BlockClose
  PROVE  /\ BaseInv' /\ Chunk' = Chunk /\ Body' = Body /\ Skipped' = Skipped
         /\ Scanning("token") /\ phase' = "token" /\ ~tenv'.moved
         /\ tenv.pos \in 1 .. Len(Body) /\ Body[tenv.pos] = RBR /\ tenv.level > 0
         /\ tenv'.pos = tenv.pos + 1 /\ tenv'.level = tenv.level - 1 /\ tenv'.uline = tenv.uline
         /\ tenv'.start = tenv.start
         /\ tokens' = IF tenv.level = 1
                      THEN Append(tokens, [tt |-> "CODE", text |-> SubSeq(Body, tenv.start + 1, tenv.pos - 1)])
                      ELSE tokens
<1>1. Scanning("token") /\ phase' = phase /\ UNCHANGED <<vars, stream>> /\ tenv.level > 0
  BY DEF BlockClose
<1>2. /\ phase = "token" /\ tenv \in Tenv /\ tenv.level \in Nat /\ tenv.start \in Nat /\ tenv.pos \in Nat
      /\ Source = Body /\ Body \in Seq(Byte) /\ Len(Body) \in Nat
      /\ tokens \in Seq([tt : Kind, text : Seq(Byte)])
      /\ tenv.level > 0 => tenv.start \in 1 .. Len(Body) /\ tenv.start < tenv.pos /\ Body[tenv.start] = LBR
      /\ Ch(Source, tenv.pos) # 0 => tenv.pos \in 1 .. Len(Body) /\ Ch(Source, tenv.pos) = Body[tenv.pos]
  BY <1>1, ScanFrom
<1> DEFINE x == SubSeq(Body, tenv.start + 1, tenv.pos - 1)
<1>3. /\ Ch(Source, tenv.pos) = RBR
      /\ tenv' = [tenv EXCEPT !.pos = tenv.pos + 1, !.level = tenv.level - 1]
      /\ tokens' = IF tenv.level = 1 THEN Append(tokens, [tt |-> "CODE", text |-> x]) ELSE tokens
  BY <1>2 DEF BlockClose
<1>4. tenv.pos \in 1 .. Len(Body) /\ Body[tenv.pos] = RBR
  BY <1>2, <1>3, ByteFacts
<1>5. x \in Seq(Byte)
  <2>1. tenv.start + 1 \in Nat \ {0} /\ tenv.pos - 1 \in Nat /\ tenv.pos - 1 <= Len(Body)
    BY <1>2, <1>4
  <2> QED BY <1>2, <2>1, SubSeqTyped
<1>6. tokens' \in Seq([tt : Kind, text : Seq(Byte)])
  <2>1. tokens' = Append(tokens, [tt |-> "CODE", text |-> x]) \/ tokens' = tokens
    BY <1>3
  <2>2. "CODE" \in Kind
    BY DEF Kind
  <2> HIDE DEF x
  <2> QED BY <1>2, <1>5, <2>1, <2>2, TokenTyped
<1>7. tenv' \in Tenv
  <2>1. tenv.pos + 1 \in Nat /\ tenv.level - 1 \in Nat /\ 0 \in Nat
    BY <1>1, <1>2
  <2> QED BY <1>2, <1>3, <2>1, TenvStep
<1>8. tenv'.src = tenv.src /\ tenv'.pos = tenv.pos + 1 /\ tenv'.level = tenv.level - 1 /\ tenv'.start = tenv.start
      /\ tenv'.moved = tenv.moved /\ tenv'.uline = tenv.uline
  BY <1>2, <1>3 DEF Tenv
<1>9. BaseInv' /\ Chunk' = Chunk /\ Body' = Body /\ Skipped' = Skipped
  <2>1. tenv'.pos >= 1
    BY <1>2, <1>8
  <2>2. tenv'.start \in 1 .. Len(Body) /\ tenv'.start < tenv'.pos /\ Body[tenv'.start] = LBR
    BY <1>1, <1>2, <1>8
  <2> QED BY <1>1, <1>2, <1>6, <1>7, <1>8, <2>1, <2>2, ScanKeeps
<1> QED BY <1>1, <1>2, <1>3, <1>4, <1>8, <1>9 DEF Scanning

LEMMA BlockUnclosedKeeps ==
  ASSUME BaseInv, BlockUnclosed
  PROVE  /\ BaseInv' /\ Chunk' = Chunk /\ Body' = Body /\ Skipped' = Skipped
         /\ Scanning("token") /\ ~tenv'.moved
         /\ phase' = IF tenv.pos - 1 > tenv.start THEN "token" ELSE "abort"
         /\ tenv.pos >= Len(Body) + 1 /\ tenv.level > 0
         /\ tenv.start \in 1 .. Len(Body) /\ tenv.start < tenv.pos /\ Body[tenv.start] = LBR
         /\ tenv'.pos = tenv.pos - 1 /\ tenv'.level = 0 /\ tenv'.uline = tenv.uline
         /\ tokens' = Append(tokens, [tt |-> "ERR", text |-> <<>>])
<1>1. Scanning("token") /\ UNCHANGED <<vars, stream>> /\ tenv.level > 0 /\ Ch(Source, tenv.pos) = 0
  BY DEF BlockUnclosed
<1>2. /\ phase = "token" /\ tenv \in Tenv /\ tenv.level \in Nat /\ tenv.start \in Nat /\ tenv.pos \in Nat
      /\ tokens \in Seq([tt : Kind, text : Seq(Byte)])
      /\ tenv.start \in 1 .. Len(Body) /\ tenv.start < tenv.pos /\ Body[tenv.start] = LBR
      /\ tenv.pos >= Len(Body) + 1
  BY <1>1, ScanFrom
<1>3. /\ tenv' = [tenv EXCEPT !.pos = tenv.pos - 1, !.level = 0]
      /\ tokens' = Append(tokens, [tt |-> "ERR", text |-> <<>>])
      /\ phase' = IF tenv.pos - 1 > tenv.start THEN "token" ELSE "abort"
  BY DEF BlockUnclosed
<1>4. tokens' \in Seq([tt : Kind, text : Seq(Byte)])
  <2>1. "ERR" \in Kind /\ <<>> \in Seq(Byte)
    BY DEF Kind
  <2> QED BY <1>2, <1>3, <2>1, TokenTyped
<1>5. tenv' \in Tenv
  <2>1. tenv.pos - 1 \in Nat /\ 0 \in Nat
    BY <1>2
  <2> QED BY <1>2, <1>3, <2>1, TenvStep
<1>6. tenv'.src = tenv.src /\ tenv'.pos = tenv.pos - 1 /\ tenv'.level = 0
      /\ tenv'.moved = tenv.moved /\ tenv'.uline = tenv.uline
  BY <1>2, <1>3 DEF Tenv
<1>7. BaseInv' /\ Chunk' = Chunk /\ Body' = Body /\ Skipped' = Skipped
  <2>1. tenv'.pos >= 1 /\ ~(tenv'.level > 0)
    BY <1>2, <1>6
  <2>2. phase' \in {"token", "tokenised", "abort"}
    BY <1>3
  <2> QED BY <1>1, <1>4, <1>5, <1>6, <2>1, <2>2, ScanKeeps
<1> QED BY <1>1, <1>2, <1>3, <1>6, <1>7 DEF Scanning

LEMMA TokenisedKeeps ==
  ASSUME BaseInv, ChunkTokenised
  PROVE  /\ BaseInv' /\ Chunk' = Chunk /\ Body' = Body /\ Skipped' = Skipped
         /\ Scanning("token") /\ phase' = "tokenised" /\ tenv' = tenv /\ tokens' = tokens
         /\ tenv.pos >= Len(Body) + 1 /\ tenv.level = 0
<1>1. /\ Scanning("token") /\ UNCHANGED <<vars, stream, tenv, tokens>> /\ tenv.level = 0
      /\ Ch(Source, tenv.pos) = 0 /\ phase' = "tokenised"
  BY DEF ChunkTokenised
<1>2. /\ phase = "token" /\ tenv \in Tenv /\ tenv.pos \in Nat \ {0} /\ tenv.pos >= Len(Body) + 1
      /\ tokens \in Seq([tt : Kind, text : Seq(Byte)])
  BY <1>1, ScanFrom
<1>3. BaseInv' /\ Chunk' = Chunk /\ Body' = Body /\ Skipped' = Skipped
  <2>1. tenv.pos >= 1 /\ ~(tenv.level > 0)
    BY <1>1, <1>2
  <2> QED BY <1>1, <1>2, <2>1, ScanKeeps
<1> QED BY <1>1, <1>2, <1>3

-----------------------------------------------------------------------------
(* The chunk is read: the tokenizer begins with it. *)
LEMMA ChunkReadKeeps ==
  ASSUME BaseInv, ChunkRead
  PROVE  /\ BaseInv' /\ Chunk' = Chunk /\ phase = "chunk" /\ Len(wb) = 2 /\ wb' = wb /\ bytesize' = bytesize
         /\ UNCHANGED stream /\ tenv.pos = 1 /\ tenv.level = 0 /\ ~tenv.moved
         /\ tenv'.pos = 1 /\ tenv'.level = 0 /\ ~tenv'.moved /\ tenv'.uline = tenv.uline
         /\ phase' = "token" \/ phase' \in {"empty", "refused"}
         /\ phase' = "token" =>
              /\ tenv'.room = bytemax' - bytesize /\ tokens' = <<[tt |-> "INDENT", text |-> <<>>]>>
              /\ bytesize = End(Own) /\ End(Own) = wb[Own].pos + Len(Chunk)
<1>1. /\ phase = "chunk" /\ Top /\ UNCHANGED stream
      /\ phase' = (IF NotKonoha THEN "refused" ELSE IF isemptychunk THEN "empty" ELSE "token")
  BY DEF ChunkRead
<1>2. IInv' /\ wb' = wb /\ bytesize' = bytesize
  BY <1>1, TopKeeps DEF BaseInv, Top
<1>3. Len(wb) = 2 /\ IInv /\ TenvTyped /\ tenv.pos = 1 /\ tenv.level = 0 /\ ~tenv.moved
  BY <1>1 DEF BaseInv, Height, Placed
<1>4. Chunk' = Chunk /\ Skipped' = Skipped /\ Body' = Body /\ NotKonoha' = NotKonoha
  <2>1. wb'[Own].text = wb[Own].text
    BY <1>2
  <2> QED BY <2>1, ChunkKept
<1>5. Own \in 1 .. Len(wb)
  BY <1>3 DEF Own
<1>6. Chunk \in Seq(Byte) /\ wb[Own].pos \in Nat /\ End(Own) - wb[Own].pos = Len(Chunk) /\ End(Own) \in Nat
  BY <1>3, <1>5, BufferFacts DEF Chunk
<1>7. ~NotKonoha => Skipped \in Nat
  BY <1>6, SkippedFacts
<1>8. tenv \in Tenv /\ tokens \in Seq([tt : Kind, text : Seq(Byte)])
  BY <1>3 DEF TenvTyped
<1>9. CASE phase' = "token"
  <2>1. /\ ~NotKonoha /\ ~isemptychunk
        /\ tenv' = [tenv EXCEPT !.src = wb[Own].pos + Skipped, !.room = bytemax' - bytesize]
        /\ tokens' = <<[tt |-> "INDENT", text |-> <<>>]>>
    BY <1>1, <1>9 DEF ChunkRead
  <2>2. wb[Own].pos + Skipped \in Nat /\ bytemax' - bytesize \in Int
    <3>1. bytemax' \in Nat /\ bytesize \in Nat
      BY <1>2, <1>3 DEF IInv, TypeOK
    <3>2. wb[Own].pos \in Nat /\ Skipped \in Nat
      BY <1>6, <1>7, <2>1
    <3> QED BY <3>1, <3>2
  <2>3. tenv' \in Tenv
    BY <1>8, <2>1, <2>2, TenvChunk
  <2>4. tenv'.src = wb[Own].pos + Skipped /\ tenv'.room = bytemax' - bytesize /\ tenv'.pos = 1 /\ tenv'.level = 0
        /\ ~tenv'.moved /\ tenv'.uline = tenv.uline
    BY <1>3, <1>8, <2>1 DEF Tenv
  <2>5. tokens' \in Seq([tt : Kind, text : Seq(Byte)])
    <3>1. [tt |-> "INDENT", text |-> <<>>] \in [tt : Kind, text : Seq(Byte)]
      BY DEF Kind
    <3> DEFINE S == [tt : Kind, text : Seq(Byte)]
    <3> HIDE DEF S
    <3>2. \A e \in S : <<e>> \in Seq(S)
      OBVIOUS
    <3> QED BY <2>1, <3>1, <3>2 DEF S
  <2>6. TenvTyped'
    BY <1>1, <1>3, <2>3, <2>5 DEF TenvTyped, stream
  <2>7. ChunkEnds'
    <3>1. Chunk # <<>>
      BY <2>1 DEF isemptychunk
    <3>2. feof \/ (Chunk # <<>> /\ Chunk[Len(Chunk)] = NL)
      BY <1>1 DEF BaseInv, ChunkEnds
    <3> QED BY <1>1, <1>4, <2>1, <3>1, <3>2 DEF ChunkEnds, stream
  <2>8. Placed'
    <3>1. (wb[Own].pos)' = wb[Own].pos
      BY <1>2 DEF Own
    <3> QED BY <1>4, <1>9, <2>4, <3>1 DEF Placed
  <2>9. Height'
    BY <1>2, <1>3, <1>9 DEF Height
  <2>10. bytesize = End(Own) /\ End(Own) = wb[Own].pos + Len(Chunk)
    BY <1>3, <1>6 DEF End, Own
  <2> QED BY <1>1, <1>2, <1>3, <1>4, <1>9, <2>1, <2>4, <2>6, <2>7, <2>8, <2>9, <2>10 DEF BaseInv
<1>10. CASE phase' # "token"
  <2>1. phase' \in {"empty", "refused"} /\ tenv' = tenv /\ tokens' = tokens
    BY <1>1, <1>10 DEF ChunkRead
  <2>2. TenvTyped'
    BY <1>1, <1>3, <2>1 DEF TenvTyped, stream
  <2>3. Height' /\ ChunkEnds' /\ Placed'
    BY <1>2, <1>3, <2>1 DEF Height, ChunkEnds, Placed, Scanned, Tokenising
  <2> QED BY <1>1, <1>2, <1>3, <1>4, <2>1, <2>2, <2>3 DEF BaseInv
<1> QED BY <1>9, <1>10

-----------------------------------------------------------------------------
(* Literals: the buffer above the chunk changes. *)
LEMMA AboveKeeps ==
  ASSUME BaseInv, Scanned, IInv', wb'[Own].text = wb[Own].text, wb'[Own].pos = wb[Own].pos, UNCHANGED stream,
         phase' \in {"token", "literal", "close"}, Len(wb') = IF phase' = "token" THEN 2 ELSE 3,
         tenv' \in Tenv, tokens' \in Seq([tt : Kind, text : Seq(Byte)]),
         phase \in {"token", "literal", "close"}, ~tenv'.moved => ~tenv.moved,
         tenv'.src = tenv.src, tenv'.level = tenv.level, tenv'.start = tenv.start, tenv'.pos >= tenv.pos
  PROVE  BaseInv' /\ Chunk' = Chunk /\ Body' = Body /\ Skipped' = Skipped
<1>1. Chunk' = Chunk /\ Skipped' = Skipped /\ Body' = Body
  BY ChunkKept
<1>2. ChunkEnds'
  BY Rest DEF stream
<1>3. TenvTyped'
  BY DEF BaseInv, TenvTyped, stream
<1>4. Height'
  BY DEF Height
<1>5. Placed'
  <2>1. phase' \notin {"read", "chunk"}
    OBVIOUS
  <2>2. ASSUME ~tenv'.moved
        PROVE  /\ tenv'.src = wb'[Own].pos + Skipped /\ tenv'.pos >= 1
               /\ tenv'.level > 0 => tenv'.start \in 1 .. Len(Body) /\ tenv'.start < tenv'.pos /\ Body[tenv'.start] = LBR
    <3>1. /\ tenv.src = wb[Own].pos + Skipped /\ tenv.pos >= 1
          /\ tenv.level > 0 => tenv.start \in 1 .. Len(Body) /\ tenv.start < tenv.pos /\ Body[tenv.start] = LBR
      BY <2>2 DEF BaseInv, Placed, Tokenising
    <3>2. tenv.pos \in Nat /\ tenv'.pos \in Nat /\ tenv.start \in Nat /\ tenv'.pos >= tenv.pos
      BY TenvFields DEF BaseInv, TenvTyped
    <3>3. tenv'.pos >= 1 /\ (tenv.start < tenv.pos => tenv.start < tenv'.pos)
      BY <3>1, <3>2
    <3> QED BY <3>1, <3>3
  <2>3. (wb[Own].pos)' = wb'[Own].pos
    BY DEF Own
  <2> QED BY <1>1, <2>1, <2>2, <2>3 DEF Placed, Tokenising
<1> QED BY <1>1, <1>2, <1>3, <1>4, <1>5 DEF BaseInv

LEMMA LiteralOpenKeeps ==
  ASSUME BaseInv, LiteralOpen
  PROVE  /\ BaseInv' /\ Chunk' = Chunk /\ Body' = Body /\ Skipped' = Skipped
         /\ Scanning("token") /\ phase' = "literal" /\ ~tenv'.moved /\ bytemax' = bytemax
         /\ wb'[3].text = <<>> /\ wb'[Own].pos = wb[Own].pos
         /\ tenv.pos \in 1 .. Len(Body) /\ Body[tenv.pos] = DQUOTE /\ tokens' = tokens /\ uline' = uline
         /\ tenv'.pos = tenv.pos + 1 /\ tenv'.level = tenv.level /\ tenv'.start = tenv.start /\ tenv'.prev = DQUOTE
         /\ tenv'.uline = tenv.uline /\ tenv'.room = tenv.room
<1>1. /\ Scanning("token") /\ Ch(Source, tenv.pos) = DQUOTE /\ Open /\ phase' = "literal"
      /\ tenv' = [tenv EXCEPT !.pos = tenv.pos + 1, !.prev = DQUOTE] /\ UNCHANGED <<stream, tokens>>
  BY DEF LiteralOpen
<1>2. /\ phase = "token" /\ Scanned /\ tenv \in Tenv /\ tenv.pos \in Nat
      /\ tokens \in Seq([tt : Kind, text : Seq(Byte)])
      /\ Ch(Source, tenv.pos) # 0 => tenv.pos \in 1 .. Len(Body) /\ Ch(Source, tenv.pos) = Body[tenv.pos]
  BY <1>1, ScanFrom
<1>3. tenv.pos \in 1 .. Len(Body) /\ Body[tenv.pos] = DQUOTE
  BY <1>1, <1>2, ByteFacts
<1>4. IInv' /\ wb' = Append(wb, [pos |-> bytesize, text |-> <<>>]) /\ bytemax' = bytemax
  BY <1>1, OpenKeeps DEF BaseInv, Open
<1>5. Len(wb) = 2 /\ wb \in Seq(Buffer)
  BY <1>2 DEF BaseInv, Height, IInv, TypeOK
<1>6. Len(wb') = 3 /\ wb'[3].text = <<>> /\ wb'[Own] = wb[Own]
  <2> DEFINE e == [pos |-> bytesize, text |-> <<>>]
  <2>1. e.text = <<>>
    OBVIOUS
  <2>2. e \in Buffer
    BY DEF Buffer, BaseInv, IInv, TypeOK
  <2> HIDE DEF e
  <2>3. /\ Len(Append(wb, e)) = Len(wb) + 1 /\ Append(wb, e)[Len(wb) + 1] = e
        /\ \A j \in 1 .. Len(wb) : Append(wb, e)[j] = wb[j]
    <3>1. wb \in Seq(Buffer)
      BY <1>5
    <3> QED BY ONLY <2>2, <3>1, SeqAppend
  <2>4. wb' = Append(wb, e)
    BY <1>4 DEF e
  <2> QED BY <1>5, <2>1, <2>3, <2>4 DEF Own
<1>7. tenv' \in Tenv
  <2>1. tenv.pos + 1 \in Nat /\ DQUOTE \in Byte \cup {0}
    BY <1>2, ByteFacts
  <2>2. TRUE \in BOOLEAN
    BY Zenon
  <2> QED BY <1>1, <1>2, <2>1, <2>2, TenvLiteral
<1>8. tenv'.src = tenv.src /\ tenv'.pos = tenv.pos + 1 /\ tenv'.level = tenv.level /\ tenv'.start = tenv.start
      /\ tenv'.moved = tenv.moved /\ tenv'.uline = tenv.uline /\ tenv'.room = tenv.room /\ tenv'.prev = DQUOTE
  BY <1>1, <1>2 DEF Tenv
<1>9. BaseInv' /\ Chunk' = Chunk /\ Body' = Body /\ Skipped' = Skipped
  <2>1. tenv'.pos >= tenv.pos /\ wb'[Own].text = wb[Own].text /\ wb'[Own].pos = wb[Own].pos
    BY <1>2, <1>6, <1>8
  <2> QED BY <1>1, <1>2, <1>4, <1>6, <1>7, <1>8, <2>1, AboveKeeps
<1>10. uline' = uline /\ ~tenv'.moved
  BY <1>1, <1>8 DEF stream, Scanning
<1> QED BY <1>1, <1>3, <1>4, <1>6, <1>8, <1>9, <1>10

(* The byte at p of the string, with the literal behind the chunk. *)
ReadAt(p) ==
  IF p <= Len(Body) THEN Body[p]
  ELSE IF p - Len(Body) <= Len(wb[3].text) THEN wb[3].text[p - Len(Body)] ELSE 0

LEMMA LiteralFrom ==
  ASSUME BaseInv, Scanning("literal")
  PROVE  /\ phase = "literal" /\ Tokenising /\ Scanned /\ Len(wb) = 3 /\ wb \in Seq(Buffer) /\ wb # <<>>
         /\ wb[3].text \in Seq(Byte) /\ Len(wb[3].text) \in Nat
         /\ bytesize = End(Own) + Len(wb[3].text) /\ Body \in Seq(Byte) /\ Len(Body) \in Nat
         /\ tenv \in Tenv /\ tenv.pos \in Nat \ {0} /\ tenv.level \in Nat
         /\ tokens \in Seq([tt : Kind, text : Seq(Byte)])
         /\ This = ReadAt(tenv.pos) /\ Following = ReadAt(tenv.pos + 1)
         /\ This \in Byte \cup {0} /\ Following \in Byte \cup {0}
<1>1. phase = "literal" /\ Tokenising /\ Scanned
  BY DEF Scanning, Tokenising, Scanned
<1>2. tenv \in Tenv /\ tokens \in Seq([tt : Kind, text : Seq(Byte)]) /\ wb \in Seq(Buffer)
  BY DEF BaseInv, TenvTyped, IInv, TypeOK
<1>3. tenv.pos \in Nat \ {0} /\ tenv.level \in Nat /\ tenv.src \in Nat
  BY <1>1, <1>2, TenvFields, TokenisingFacts
<1>4. /\ wb[3].text \in Seq(Byte) /\ Len(wb[3].text) \in Nat /\ Len(wb) = 3
      /\ bytesize = End(Own) + Len(wb[3].text)
  BY <1>1, <1>3, LiteralBytes
<1>5. This = ReadAt(tenv.pos)
  BY <1>1, <1>3, LiteralBytes DEF This, ReadAt
<1>6. Following = ReadAt(tenv.pos + 1)
  <2>1. tenv.pos + 1 \in Nat \ {0} /\ tenv.src + (tenv.pos + 1) - 1 = tenv.src + tenv.pos
    BY <1>3
  <2>2. At(tenv.src + (tenv.pos + 1) - 1) = ReadAt(tenv.pos + 1)
    BY <1>1, <2>1, LiteralBytes DEF ReadAt
  <2> QED BY <2>1, <2>2 DEF Following
<1>7. Body \in Seq(Byte) /\ Len(Body) \in Nat /\ \A i \in 1 .. Len(Body) : Body[i] \in Byte
  BY <1>1, ScanFacts
<1>8. ASSUME NEW p \in Nat \ {0} PROVE ReadAt(p) \in Byte \cup {0}
  <2>1. CASE p <= Len(Body)
    <3>1. p \in 1 .. Len(Body)
      BY <1>7, <2>1
    <3> QED BY <1>7, <2>1, <3>1 DEF ReadAt
  <2>2. CASE ~(p <= Len(Body)) /\ p - Len(Body) <= Len(wb[3].text)
    <3>1. p - Len(Body) \in 1 .. Len(wb[3].text)
      BY <1>4, <1>7, <2>2
    <3>2. wb[3].text[p - Len(Body)] \in Byte
      BY <1>4, <3>1, SeqElement
    <3> QED BY <2>2, <3>2 DEF ReadAt
  <2> QED BY <2>1, <2>2 DEF ReadAt
<1>9. This \in Byte \cup {0} /\ Following \in Byte \cup {0}
  BY <1>3, <1>5, <1>6, <1>8
<1>10. wb # <<>>
  BY <1>2, <1>4
<1> QED BY <1>1, <1>2, <1>3, <1>4, <1>5, <1>6, <1>7, <1>9, <1>10

Escaped == This = BKSLASH /\ Following = 110

LEMMA LiteralByteKeeps ==
  ASSUME BaseInv, LiteralByte
  PROVE  /\ BaseInv' /\ Chunk' = Chunk /\ Body' = Body /\ Skipped' = Skipped
         /\ Scanning("literal") /\ phase' = "literal"
         /\ tenv'.moved <=> bytemax' # bytemax
         /\ bytemax' # bytemax => bytesize + 1 >= bytemax
         /\ This \in Byte \ {NL} /\ ~Closing /\ wb'[Own].pos = wb[Own].pos
         /\ wb'[3].text = wb[3].text \o <<IF Escaped THEN NL ELSE This>> /\ tokens' = tokens /\ uline' = uline
         /\ tenv'.pos = IF Escaped THEN tenv.pos + 2 ELSE tenv.pos + 1
         /\ tenv'.level = tenv.level /\ tenv'.start = tenv.start
         /\ tenv'.prev = IF Escaped THEN NL ELSE This
         /\ tenv'.uline = tenv.uline /\ tenv'.room = tenv.room
<1> DEFINE ch == IF Escaped THEN NL ELSE This
           p == IF Escaped THEN tenv.pos + 2 ELSE tenv.pos + 1
           m == bytemax' # bytemax
<1>1. /\ Scanning("literal") /\ This \notin {0, NL} /\ ~Closing /\ Write(<<ch>>)
      /\ tenv' = [tenv EXCEPT !.pos = p, !.prev = ch, !.moved = m] /\ UNCHANGED <<phase, stream, tokens>>
  BY DEF LiteralByte, Escaped
<1>2. /\ phase = "literal" /\ Scanned /\ Len(wb) = 3 /\ wb \in Seq(Buffer) /\ wb # <<>>
      /\ tenv \in Tenv /\ tenv.pos \in Nat /\ tokens \in Seq([tt : Kind, text : Seq(Byte)])
      /\ This \in Byte \cup {0}
  BY <1>1, LiteralFrom
<1>3. ch \in Byte /\ p \in Nat /\ p >= tenv.pos /\ m \in BOOLEAN /\ This \in Byte \ {NL}
  <2>1. ch \in Byte /\ This \in Byte \ {NL}
    BY <1>1, <1>2, ByteFacts
  <2>2. p \in Nat /\ p >= tenv.pos
    BY <1>2
  <2>3. m \in BOOLEAN
    BY Zenon
  <2> QED BY <2>1, <2>2, <2>3
<1>4. <<ch>> \in Seq(Byte) /\ Len(<<ch>>) = 1
  BY <1>3
<1>5. bytemax' # bytemax => bytesize + 1 >= bytemax
  <2>1. bytesize + 1 < bytemax => bytemax' = bytemax
    BY <1>1, <1>4 DEF Write
  <2>2. bytesize \in Nat /\ bytemax \in Nat
    BY DEF BaseInv, IInv, TypeOK
  <2> QED BY <2>1, <2>2
<1> HIDE DEF ch, p, m
<1>6. IInv'
  BY <1>1, <1>4, WriteKeeps DEF BaseInv
<1>7. /\ Len(wb') = 3 /\ wb'[3].text = wb[3].text \o <<ch>>
      /\ wb'[Own].text = wb[Own].text /\ wb'[Own].pos = wb[Own].pos
  <2>1. Wrote(<<ch>>)
    BY <1>1 DEF Write
  <2>2. /\ Len(wb') = Len(wb)
        /\ \A k \in 1 .. Len(wb) : wb'[k].pos = wb[k].pos
        /\ \A k \in 1 .. Len(wb) - 1 : wb'[k].text = wb[k].text
        /\ wb'[Len(wb)].text = wb[Len(wb)].text \o <<ch>>
    BY <1>2, <1>4, <2>1, WroteFacts
  <2>3. 2 \in 1 .. Len(wb) /\ 2 \in 1 .. Len(wb) - 1
    BY <1>2
  <2> QED BY <1>2, <2>2, <2>3 DEF Own
<1>8. tenv' \in Tenv
  <2>1. ch \in Byte \cup {0}
    BY <1>3
  <2> QED BY <1>1, <1>2, <1>3, <2>1, TenvLiteral
<1>9. tenv'.src = tenv.src /\ tenv'.pos = p /\ tenv'.level = tenv.level /\ tenv'.start = tenv.start
      /\ tenv'.moved = m /\ tenv'.uline = tenv.uline /\ tenv'.room = tenv.room /\ tenv'.prev = ch
  BY <1>1, <1>2 DEF Tenv
<1>10. ~tenv.moved
  BY <1>1 DEF Scanning
<1>11. BaseInv' /\ Chunk' = Chunk /\ Body' = Body /\ Skipped' = Skipped
  <2>1. tenv'.pos >= tenv.pos /\ (~tenv'.moved => ~tenv.moved)
    BY <1>3, <1>9, <1>10
  <2>2. phase' = "literal"
    BY <1>1, <1>2
  <2> QED BY <1>1, <1>2, <1>6, <1>7, <1>8, <1>9, <2>1, <2>2, AboveKeeps
<1>12. uline' = uline /\ phase' = "literal"
  BY <1>1, <1>2 DEF stream
<1> QED BY <1>1, <1>3, <1>5, <1>7, <1>9, <1>11, <1>12, Zenon DEF ch, p, m

LEMMA LiteralCloseKeeps ==
  ASSUME BaseInv, LiteralClose
  PROVE  /\ BaseInv' /\ Chunk' = Chunk /\ Body' = Body /\ Skipped' = Skipped
         /\ Scanning("literal") /\ phase' = "close"
         /\ tenv'.moved <=> bytemax' # bytemax
         /\ bytemax' # bytemax => bytesize + 1 >= bytemax
         /\ Closing /\ wb' = wb /\ tokens' = tokens /\ uline' = uline
         /\ tenv'.pos = tenv.pos + 1
         /\ tenv'.level = tenv.level /\ tenv'.start = tenv.start /\ tenv'.prev = tenv.prev
         /\ tenv'.uline = tenv.uline /\ tenv'.room = tenv.room
<1> DEFINE m == bytemax' # bytemax
<1>1. /\ Scanning("literal") /\ Closing /\ phase' = "close"
      /\ tenv' = [tenv EXCEPT !.pos = tenv.pos + 1, !.moved = m] /\ UNCHANGED <<stream, tokens>>
  BY DEF LiteralClose
<1>2. /\ phase = "literal" /\ Scanned /\ Len(wb) = 3
      /\ tenv \in Tenv /\ tenv.pos \in Nat /\ tokens \in Seq([tt : Kind, text : Seq(Byte)])
  BY <1>1, LiteralFrom
<1>3. IInv' /\ wb' = wb /\ (bytemax' # bytemax => bytesize + 1 >= bytemax)
  <2>1. bytesize \in Nat /\ bytemax \in Nat /\ IInv
    BY DEF BaseInv, IInv, TypeOK
  <2>2. CASE Top
    <3>1. bytesize + 1 < bytemax => bytemax' = bytemax
      BY <2>2 DEF Top
    <3> QED BY <2>1, <2>2, <3>1, TopKeeps DEF Top
  <2>3. CASE UNCHANGED vars
    BY <2>1, <2>3, SameArray DEF vars
  <2> QED BY <2>2, <2>3 DEF LiteralClose
<1>4. m \in BOOLEAN
  BY Zenon
<1> HIDE DEF m
<1>5. tenv' \in Tenv
  <2>1. tenv.pos + 1 \in Nat /\ 0 \in Byte \cup {0}
    BY <1>2
  <2> QED BY <1>1, <1>2, <1>4, <2>1, TenvLiteral
<1>6. tenv'.src = tenv.src /\ tenv'.pos = tenv.pos + 1 /\ tenv'.level = tenv.level /\ tenv'.start = tenv.start
      /\ tenv'.moved = m /\ tenv'.uline = tenv.uline /\ tenv'.room = tenv.room /\ tenv'.prev = tenv.prev
  BY <1>1, <1>2 DEF Tenv
<1>7. BaseInv' /\ Chunk' = Chunk /\ Body' = Body /\ Skipped' = Skipped
  <2>1. tenv'.pos >= tenv.pos /\ (~tenv'.moved => ~tenv.moved)
    BY <1>1, <1>2, <1>6 DEF Scanning
  <2>2. Len(wb') = 3 /\ wb'[Own].text = wb[Own].text /\ wb'[Own].pos = wb[Own].pos
    BY <1>2, <1>3
  <2> QED BY <1>1, <1>2, <1>3, <1>5, <1>6, <2>1, <2>2, AboveKeeps
<1>8. uline' = uline
  BY <1>1 DEF stream
<1> QED BY <1>1, <1>3, <1>6, <1>7, <1>8, Zenon DEF m

(* The literal's buffer is freed. *)
LEMMA LiteralFreeKeeps ==
  ASSUME BaseInv, phase \in {"literal", "close"}, Free, NEW k \in Kind, NEW x \in Seq(Byte), Token(k, x),
         phase' = "token", UNCHANGED <<stream, tenv>>
  PROVE  /\ BaseInv' /\ Chunk' = Chunk /\ Body' = Body /\ Skipped' = Skipped
         /\ bytemax' = bytemax /\ uline' = uline /\ wb'[Own].pos = wb[Own].pos
<1>1. IInv' /\ Pops(Len(wb)) /\ Len(wb) = 3 /\ wb \in Seq(Buffer) /\ Scanned
  BY FreeKeeps DEF BaseInv, Height, IInv, TypeOK, Scanned
<1>2. /\ Len(wb') = 2 /\ bytemax' = bytemax
      /\ wb'[Own].text = wb[Own].text /\ wb'[Own].pos = wb[Own].pos
  <2>1. wb' = SubSeq(wb, 1, 3 - 1) /\ bytemax' = bytemax /\ 3 \in 1 .. Len(wb)
    BY <1>1 DEF Pops
  <2>2. Len(SubSeq(wb, 1, 3 - 1)) = 3 - 1 /\ \A j \in 1 .. 3 - 1 : SubSeq(wb, 1, 3 - 1)[j] = wb[j]
    BY <1>1, <2>1, SeqPrefix
  <2> QED BY <2>1, <2>2 DEF Own
<1>3. tenv \in Tenv /\ tokens \in Seq([tt : Kind, text : Seq(Byte)])
  BY DEF BaseInv, TenvTyped
<1>4. tokens' \in Seq([tt : Kind, text : Seq(Byte)])
  BY <1>3, TokenTyped DEF Token
<1>5. tenv' = tenv /\ tenv.pos >= tenv.pos
  BY <1>3, TenvFields
<1> QED BY <1>1, <1>2, <1>3, <1>4, <1>5, AboveKeeps DEF stream

LEMMA LiteralEndKeeps ==
  ASSUME BaseInv, LiteralEnd
  PROVE  /\ BaseInv' /\ Chunk' = Chunk /\ Body' = Body /\ Skipped' = Skipped
         /\ phase = "close" /\ phase' = "token" /\ tenv' = tenv /\ bytemax' = bytemax /\ uline' = uline
         /\ wb'[Own].pos = wb[Own].pos /\ wb[3].text \in Seq(Byte) /\ Token("TEXT", wb[3].text)
<1> DEFINE x == [i \in 1 .. bytesize - wb[Own + 1].pos |-> At(wb[Own + 1].pos + i - 1)]
<1>1. phase = "close" /\ Free /\ Token("TEXT", x) /\ phase' = "token" /\ UNCHANGED <<stream, tenv>>
  BY DEF LiteralEnd
<1>2. Len(wb) = 3 /\ 3 \in 1 .. Len(wb) /\ IInv
  BY <1>1 DEF BaseInv, Height
<1>3. /\ wb[3].text \in Seq(Byte) /\ Len(wb[3].text) \in Nat /\ End(3) - wb[3].pos = Len(wb[3].text)
      /\ \A i \in 1 .. Len(wb[3].text) : At(wb[3].pos + i - 1) = wb[3].text[i]
  BY <1>2, BufferFacts
<1>4. x = wb[3].text
  <2>1. bytesize - wb[3].pos = Len(wb[3].text)
    BY <1>2, <1>3 DEF End
  <2>2. x = [i \in 1 .. Len(wb[3].text) |-> At(wb[3].pos + i - 1)]
    BY <2>1 DEF Own
  <2>3. wb[3].text = [i \in 1 .. Len(wb[3].text) |-> wb[3].text[i]]
    BY <1>3
  <2> QED BY <1>3, <2>2, <2>3
<1>5. "TEXT" \in Kind
  BY DEF Kind
<1>6. BaseInv' /\ Chunk' = Chunk /\ Body' = Body /\ Skipped' = Skipped
      /\ bytemax' = bytemax /\ uline' = uline /\ wb'[Own].pos = wb[Own].pos
  BY <1>1, <1>3, <1>4, <1>5, LiteralFreeKeeps
<1> QED BY <1>1, <1>3, <1>4, <1>6

LEMMA LiteralUnclosedKeeps ==
  ASSUME BaseInv, LiteralUnclosed
  PROVE  /\ BaseInv' /\ Chunk' = Chunk /\ Body' = Body /\ Skipped' = Skipped
         /\ Scanning("literal") /\ phase' = "token" /\ tenv' = tenv /\ bytemax' = bytemax /\ uline' = uline
         /\ wb'[Own].pos = wb[Own].pos /\ This \in {0, NL} /\ Token("ERR", <<>>)
<1>1. /\ Scanning("literal") /\ This \in {0, NL} /\ Free /\ Token("ERR", <<>>) /\ phase' = "token"
      /\ UNCHANGED <<stream, tenv>>
  BY DEF LiteralUnclosed
<1>2. phase = "literal"
  BY <1>1 DEF Scanning
<1>3. "ERR" \in Kind /\ <<>> \in Seq(Byte)
  BY DEF Kind
<1>4. BaseInv' /\ Chunk' = Chunk /\ Body' = Body /\ Skipped' = Skipped
      /\ bytemax' = bytemax /\ uline' = uline /\ wb'[Own].pos = wb[Own].pos
  BY <1>1, <1>2, <1>3, LiteralFreeKeeps
<1> QED BY <1>1, <1>4

-----------------------------------------------------------------------------
(* The statements of a chunk run, and it is freed. *)
LEMMA AstrayKeeps ==
  ASSUME BaseInv, ReadFreed
  PROVE  /\ BaseInv' /\ phase' = "astray" /\ Chunk' = Chunk /\ tenv' = tenv
         /\ phase \in {"token", "literal"} /\ tenv.moved
<1>1. phase \in {"token", "literal"} /\ tenv.moved /\ phase' = "astray" /\ UNCHANGED <<vars, stream, tenv, tokens>>
  BY DEF ReadFreed
<1>2. IInv' /\ wb' = wb
  BY <1>1, SameArray DEF BaseInv, vars
<1>3. Height'
  BY <1>1, <1>2 DEF BaseInv, Height
<1>4. Chunk' = Chunk /\ ChunkEnds'
  <2>1. Scanned /\ wb'[Own].text = wb[Own].text /\ feof' = feof
    BY <1>1, <1>2 DEF Scanned, stream
  <2> QED BY <1>1, <2>1, ChunkKept, Rest
<1>5. TenvTyped' /\ Placed'
  BY <1>1 DEF BaseInv, TenvTyped, stream, Placed, Tokenising
<1> QED BY <1>1, <1>2, <1>3, <1>4, <1>5 DEF BaseInv

LEMMA EvalStartKeeps == ASSUME BaseInv, EvalStart PROVE BaseInv' /\ phase' = "run" /\ tokens' = <<>>
<1>1. /\ phase = "tokenised" /\ phase' = "run" /\ tenv' = NoTokens /\ tokens' = <<>>
      /\ UNCHANGED <<vars, stream>>
  BY DEF EvalStart
<1>2. IInv' /\ wb' = wb
  BY <1>1, SameArray DEF BaseInv, vars
<1>3. Len(wb') >= 2
  BY <1>1, <1>2 DEF BaseInv, Height
<1>4. TenvTyped'
  <2>1. tokens' \in Seq([tt : Kind, text : Seq(Byte)])
    BY <1>1
  <2> QED BY <1>1, <2>1, NoTokensTyped DEF BaseInv, TenvTyped, stream
<1>5. Height' /\ ChunkEnds' /\ Placed'
  BY <1>1, <1>3 DEF Height, ChunkEnds, Placed, Scanned, Tokenising
<1> QED BY <1>1, <1>2, <1>4, <1>5 DEF BaseInv

LEMMA StatementTextType ==
  ASSUME NEW n \in Nat, NEW t \in StatementText(n)
  PROVE  t \in Seq(Byte) /\ Len(t) <= n
<1>1. PICK k \in 0 .. n : t = [i \in 1 .. k |-> 97]
  BY DEF StatementText
<1>2. 97 \in Byte
  BY ByteFacts
<1> QED BY <1>1, <1>2

LEMMA StatementKeeps == ASSUME MaxPrint < InitMax, BaseInv, Statement PROVE BaseInv' /\ phase' = "run"
<1>1. phase = "run" /\ phase' = "run" /\ UNCHANGED <<stream, tenv, tokens>>
  BY DEF Statement
<1>2. Len(wb) >= 2 /\ wb \in Seq(Buffer) /\ IInv /\ Len(wb) \in Nat
  BY <1>1 DEF BaseInv, Height, IInv, TypeOK
<1>3. IInv' /\ Len(wb') >= 2
  <2>1. CASE Open
    <3>1. Len(wb') = Len(wb) + 1
      BY <1>2, <2>1 DEF Open
    <3> QED BY <1>2, <2>1, <3>1, OpenKeeps
  <2>2. CASE Top
    BY <1>2, <2>2, TopKeeps DEF Top
  <2>3. CASE Len(wb) > Own /\ Free
    <3>1. IInv' /\ Pops(Len(wb))
      BY <1>2, <2>3, FreeKeeps
    <3>2. wb' = SubSeq(wb, 1, Len(wb) - 1) /\ Len(wb) \in 1 .. Len(wb) /\ Len(wb) > 2
      BY <1>2, <2>3, <3>1 DEF Pops, Own
    <3>3. Len(wb') = Len(wb) - 1
      BY <1>2, <3>2, SeqPrefix
    <3> QED BY <1>2, <3>1, <3>2, <3>3
  <2>4. CASE \E t \in StatementText(MaxWrite) : Fitting(t) /\ Write(t)
    <3>1. PICK t \in StatementText(MaxWrite) : Write(t)
      BY <2>4
    <3>2. t \in Seq(Byte)
      BY StatementTextType, SizeAssumption
    <3>3. IInv' /\ Wrote(t) /\ wb # <<>>
      BY <1>2, <3>1, <3>2, WriteKeeps DEF Write
    <3>4. Len(wb') = Len(wb)
      BY <1>2, <3>2, <3>3, WroteFacts
    <3> QED BY <1>2, <3>3, <3>4
  <2>5. CASE \E t \in StatementText(MaxPrint) : Fitting(t) /\ Printf(t)
    <3>1. PICK t \in StatementText(MaxPrint) : Printf(t)
      BY <2>5
    <3>2. t \in Seq(Byte) /\ Len(t) <= MaxPrint
      BY StatementTextType, SizeAssumption
    <3>3. IInv' /\ Wrote(t) /\ wb # <<>>
      BY <1>2, <3>1, <3>2, PrintfKeeps DEF Printf
    <3>4. Len(wb') = Len(wb)
      BY <1>2, <3>2, <3>3, WroteFacts
    <3> QED BY <1>2, <3>3, <3>4
  <2> QED BY <2>1, <2>2, <2>3, <2>4, <2>5 DEF Statement
<1>4. TenvTyped'
  BY <1>1 DEF BaseInv, TenvTyped, stream
<1>5. Height' /\ ChunkEnds' /\ Placed'
  BY <1>1, <1>3 DEF Height, ChunkEnds, Placed, Scanned, Tokenising
<1> QED BY <1>1, <1>3, <1>4, <1>5 DEF BaseInv

LEMMA ChunkFreeKeeps ==
  ASSUME BaseInv, phase \in {"run", "empty", "refused"}, NEW goon, ChunkFree(goon)
  PROVE  BaseInv' /\ phase' \in {"start", "end"}
<1>1. Pops(Own) /\ phase' \in {"start", "end"} /\ tenv' = NoTokens /\ UNCHANGED <<rest, feof, uline, tokens>>
  BY DEF ChunkFree, Pops
<1>2. IInv /\ Len(wb) >= 2 /\ wb \in Seq(Buffer) /\ Len(wb) \in Nat
  <2>1. IInv /\ Height
    BY DEF BaseInv
  <2>2. wb \in Seq(Buffer)
    BY <2>1 DEF IInv, TypeOK
  <2>3. Len(wb) = 2 \/ Len(wb) >= 2
    BY <2>1, Zenon DEF Height
  <2> QED BY <2>1, <2>2, <2>3
<1>3. Own \in 1 .. Len(wb) /\ Own - 1 = 1
  BY <1>2 DEF Own
<1>4. IInv'
  BY <1>1, <1>2, <1>3, PopKeeps
<1>5. Len(wb') = 1
  <2>1. wb' = SubSeq(wb, 1, Own - 1)
    BY <1>1 DEF Pops
  <2> QED BY <1>2, <1>3, <2>1, SeqPrefix
<1>6. TenvTyped'
  BY <1>1, NoTokensTyped DEF BaseInv, TenvTyped
<1>7. Height' /\ ChunkEnds' /\ Placed'
  BY <1>1, <1>5 DEF Height, ChunkEnds, Placed, Scanned, Tokenising
<1> QED BY <1>1, <1>4, <1>6, <1>7 DEF BaseInv

LEMMA StandsStill == ASSUME BaseInv, UNCHANGED readerVars PROVE BaseInv' /\ Chunk' = Chunk /\ Body' = Body /\ Skipped' = Skipped
<1>1. UNCHANGED <<vars, phase, rest, feof, uline, tenv, tokens>> /\ wb' = wb
  BY DEF readerVars, stream, vars
<1>2. IInv'
  BY <1>1, SameArray DEF BaseInv
<1>3. Chunk' = Chunk /\ Body' = Body /\ Skipped' = Skipped /\ NotKonoha' = NotKonoha
  BY <1>1, ChunkKept
<1>4. (wb[Own].pos)' = wb[Own].pos
  BY <1>1 DEF Own
<1>5. Height' /\ TenvTyped'
  BY <1>1 DEF BaseInv, Height, TenvTyped
<1>6. ChunkEnds'
  BY <1>1, <1>3 DEF BaseInv, ChunkEnds, Scanned
<1>7. Placed'
  BY <1>1, <1>3, <1>4 DEF BaseInv, Placed, Tokenising
<1> QED BY <1>2, <1>3, <1>5, <1>6, <1>7 DEF BaseInv

(* The steps of the reader. *)
LEMMA StepIs ==
  ASSUME [ReaderNext]_readerVars
  PROVE  \/ NextChunk \/ FetchCR \/ FetchEOF \/ ChunkRead
         \/ \E ch \in Byte : readchunk(ch) \/ readquote(ch) \/ readcomment(ch)
         \/ Lexeme \/ BlockOpen \/ BlockClose \/ BlockUnclosed
         \/ LiteralOpen \/ LiteralByte \/ LiteralClose \/ LiteralEnd \/ LiteralUnclosed
         \/ ReadFreed \/ ChunkTokenised \/ EvalStart \/ Statement
         \/ (\E goon \in BOOLEAN : phase \in {"run", "empty", "refused"} /\ ChunkFree(goon))
         \/ UNCHANGED readerVars
<1>1. TRUE \in BOOLEAN /\ FALSE \in BOOLEAN
  BY Zenon
<1>2. ASSUME ChunkSkip PROVE phase \in {"run", "empty", "refused"} /\ ChunkFree(TRUE)
  BY <1>2 DEF ChunkSkip
<1>3. ASSUME ChunkRefuse PROVE phase \in {"run", "empty", "refused"} /\ ChunkFree(FALSE)
  BY <1>3 DEF ChunkRefuse
<1>4. ASSUME EvalEnd PROVE \E goon \in BOOLEAN : phase \in {"run", "empty", "refused"} /\ ChunkFree(goon)
  BY <1>4 DEF EvalEnd
<1> QED BY <1>1, <1>2, <1>3, <1>4, Zenon DEF ReaderNext, Reading

LEMMA BaseStep == ASSUME MaxPrint < InitMax, BaseInv, [ReaderNext]_readerVars PROVE BaseInv'
<1>1. CASE \E ch \in Byte : readchunk(ch) \/ readquote(ch) \/ readcomment(ch)
  BY <1>1, ReadsFetch, FetchKeeps
<1>2. CASE \E goon \in BOOLEAN : phase \in {"run", "empty", "refused"} /\ ChunkFree(goon)
  BY <1>2, ChunkFreeKeeps
<1> QED
  BY <1>1, <1>2, StepIs, NextChunkKeeps, FetchEnds, ChunkReadKeeps, LexemeKeeps, BlockOpenKeeps, BlockCloseKeeps,
     BlockUnclosedKeeps, LiteralOpenKeeps, LiteralByteKeeps, LiteralCloseKeeps, LiteralEndKeeps,
     LiteralUnclosedKeeps, AstrayKeeps, TokenisedKeeps, EvalStartKeeps, StatementKeeps, StandsStill

LEMMA BaseHolds == MaxPrint < InitMax => (ReaderSpec => []BaseInv)
<1> SUFFICES ASSUME MaxPrint < InitMax PROVE ReaderSpec => []BaseInv
  OBVIOUS
<1>1. ReaderInit => BaseInv
  BY ReaderFirst
<1>2. BaseInv /\ [ReaderNext]_readerVars => BaseInv'
  BY BaseStep
<1> QED BY <1>1, <1>2, PTL DEF ReaderSpec

(* What the reader, the tokenizer and the statements of a chunk write to    *)
(* the buffers they share is what is read from them (KonohaSpace_loadstream, *)
(* parseDQUOTE, Kwb_write).                                                *)
THEOREM ReaderTextKept == MaxPrint < InitMax => (ReaderSpec => []TextWhole)
<1>1. BaseInv => TextWhole
  BY DEF BaseInv, IInv
<1> QED BY <1>1, BaseHolds, PTL

-----------------------------------------------------------------------------
(* Progress: the brace of the block that fails the assertion is the last    *)
(* byte of the chunk.                                                      *)
LEMMA ProgressStep == ASSUME MaxPrint < InitMax, BaseInv, Progresses, [ReaderNext]_readerVars PROVE Progresses'
<1>1. CASE BlockUnclosed
  <2> DEFINE L == Len(Body)
  <2>1. /\ Chunk' = Chunk /\ tenv.pos >= L + 1 /\ tenv.start \in 1 .. L /\ tenv.start < tenv.pos
        /\ Body[tenv.start] = LBR
        /\ phase' = IF tenv.pos - 1 > tenv.start THEN "token" ELSE "abort"
    BY <1>1, BlockUnclosedKeeps
  <2>2. Scanned /\ tenv.pos \in Nat /\ feof' = feof
    BY <1>1, ScanFrom DEF BlockUnclosed, stream
  <2>3. L \in Nat /\ L = Len(Chunk) - Skipped /\ Skipped \in Nat /\ Len(Chunk) \in Nat
        /\ \A i \in 1 .. L : Body[i] = Chunk[Skipped + i]
    BY <2>2, ScanFacts
  <2> HIDE DEF L
  <2>4. ASSUME phase' = "abort" PROVE feof /\ Chunk[Len(Chunk)] = LBR
    <3>1. ~(tenv.pos - 1 > tenv.start)
      BY <2>1, <2>4
    <3>2. tenv.start = L /\ L \in 1 .. L
      BY <2>1, <2>2, <2>3, <3>1
    <3>3. Skipped + L = Len(Chunk)
      BY <2>3
    <3>4. Chunk[Len(Chunk)] = LBR
      BY <2>1, <2>3, <3>2, <3>3
    <3>5. LBR # NL
      BY ByteFacts
    <3> QED BY <2>2, <3>4, <3>5 DEF BaseInv, ChunkEnds
  <2> QED BY <2>1, <2>2, <2>4 DEF Progresses
<1>2. CASE UNCHANGED readerVars
  BY <1>2, StandsStill DEF Progresses, readerVars, stream
<1>3. CASE ~BlockUnclosed /\ ~UNCHANGED readerVars
  <2>1. phase' # "abort"
    <3>1. CASE \E ch \in Byte : readchunk(ch) \/ readquote(ch) \/ readcomment(ch)
      BY <3>1, ReadsFetch
    <3>2. CASE \E goon \in BOOLEAN : phase \in {"run", "empty", "refused"} /\ ChunkFree(goon)
      BY <3>2, ChunkFreeKeeps
    <3>3. CASE NextChunk \/ FetchCR \/ FetchEOF \/ ChunkRead
      BY <3>3, ChunkReadKeeps DEF NextChunk, FetchCR, FetchEOF
    <3> QED
      BY <1>3, <3>1, <3>2, <3>3, StepIs, LexemeKeeps, BlockOpenKeeps, BlockCloseKeeps,
         LiteralOpenKeeps, LiteralByteKeeps, LiteralCloseKeeps, LiteralEndKeeps,
         LiteralUnclosedKeeps, AstrayKeeps, TokenisedKeeps, EvalStartKeeps, StatementKeeps
  <2> QED BY <2>1 DEF Progresses
<1> QED BY <1>1, <1>2, <1>3

(* tokenize fails its assertion that the position grows only when the file  *)
(* ends behind the brace of a block (parseBLOCK steps back onto it).        *)
THEOREM TokenizerProgresses == MaxPrint < InitMax => (ReaderSpec => []Progresses)
<1> SUFFICES ASSUME MaxPrint < InitMax PROVE ReaderSpec => []Progresses
  OBVIOUS
<1>1. ReaderInit => Progresses
  BY DEF ReaderInit, Progresses
<1>2. BaseInv /\ Progresses /\ [ReaderNext]_readerVars => Progresses'
  BY ProgressStep
<1> QED BY <1>1, <1>2, BaseHolds, PTL DEF ReaderSpec

-----------------------------------------------------------------------------
(* The values of a function in the order of their numbers. *)
LEMMA ListedEmpty == ASSUME NEW f PROVE Listed(f, {}) = <<>>
BY FS_EmptySet DEF Listed

LEMMA ListedAppend ==
  ASSUME NEW f, NEW S \in SUBSET Int, IsFiniteSet(S), NEW m \in Int, \A i \in S : i < m
  PROVE  Listed(f, S \cup {m}) = Listed(f, S) \o <<f[m]>>
<1> DEFINE n == Cardinality(S)
           R == S \cup {m}
           upto(T, i) == {j \in T : j <= i}
           of(T, k) == {i \in T : Cardinality(upto(T, i)) = k}
           a == Listed(f, S)
           b == Listed(f, R)
<1>1. n \in Nat
  BY FS_CardinalityType
<1>2. IsFiniteSet(R) /\ Cardinality(R) = n + 1
  <2>1. m \notin S
    OBVIOUS
  <2> QED BY <2>1, FS_AddElement
<1>3. \A i \in S : upto(R, i) = upto(S, i) /\ upto(S, i) \subseteq S
  OBVIOUS
<1>4. \A i \in S : Cardinality(upto(S, i)) \in Nat /\ Cardinality(upto(S, i)) <= n
  <2> SUFFICES ASSUME NEW i \in S PROVE Cardinality(upto(S, i)) \in Nat /\ Cardinality(upto(S, i)) <= n
    OBVIOUS
  <2> DEFINE U == upto(S, i)
  <2>1. U \subseteq S
    OBVIOUS
  <2> HIDE DEF U
  <2>2. IsFiniteSet(U) /\ Cardinality(U) <= n
    BY <2>1, FS_Subset
  <2>3. Cardinality(U) \in Nat
    BY <2>2, FS_CardinalityType
  <2> QED BY <2>2, <2>3 DEF U
<1>5. upto(R, m) = R
  <2>1. \A j \in R : j <= m
    OBVIOUS
  <2> HIDE DEF R
  <2> QED BY <2>1
<1>6. of(R, n + 1) = {m}
  <2>1. \A i \in S : Cardinality(upto(R, i)) # n + 1
    <3> SUFFICES ASSUME NEW i \in S PROVE Cardinality(upto(R, i)) # n + 1
      OBVIOUS
    <3> DEFINE c == Cardinality(upto(S, i))
    <3>1. c \in Nat /\ c <= n
      BY <1>4
    <3>2. Cardinality(upto(R, i)) = c
      BY <1>3
    <3> HIDE DEF c, upto, n
    <3> QED BY <1>1, <3>1, <3>2
  <2>2. Cardinality(upto(R, m)) = n + 1
    BY <1>2, <1>5
  <2> HIDE DEF upto, n
  <2> QED BY <2>1, <2>2
<1>7. \A k \in 1 .. n : of(R, k) = of(S, k)
  <2> SUFFICES ASSUME NEW k \in 1 .. n PROVE of(R, k) = of(S, k)
    OBVIOUS
  <2>1. Cardinality(upto(R, m)) # k
    <3>1. Cardinality(upto(R, m)) = n + 1
      BY <1>2, <1>5
    <3> HIDE DEF upto, n
    <3> QED BY <1>1, <3>1
  <2>2. \A i \in S : Cardinality(upto(R, i)) = Cardinality(upto(S, i))
    BY <1>3
  <2> HIDE DEF upto, n
  <2> QED BY <2>1, <2>2
<1>8. a = [k \in 1 .. n |-> f[Least(of(S, k))]]
  BY DEF Listed
<1>9. b = [k \in 1 .. n + 1 |-> f[Least(of(R, k))]]
  BY <1>2 DEF Listed
<1>10. Least({m}) = m
  BY DEF Least
<1> HIDE DEF n, of, upto, a, b, R
<1> DEFINE U == {a[k] : k \in 1 .. n} \cup {f[m]}
<1>11. a \in Seq(U) /\ Len(a) = n /\ <<f[m]>> \in Seq(U) /\ Len(<<f[m]>>) = 1
  BY <1>1, <1>8
<1>12. b[n + 1] = f[m] /\ \A k \in 1 .. n : b[k] = a[k]
  <2>1. n + 1 \in 1 .. n + 1 /\ \A k \in 1 .. n : k \in 1 .. n + 1
    BY <1>1
  <2>2. b[n + 1] = f[Least(of(R, n + 1))]
    BY <1>9, <2>1
  <2>3. \A k \in 1 .. n : b[k] = f[Least(of(R, k))] /\ a[k] = f[Least(of(S, k))]
    BY <1>8, <1>9, <2>1
  <2>4. b[n + 1] = f[m]
    BY <1>6, <1>10, <2>2
  <2> QED BY <1>7, <2>3, <2>4
<1>13. /\ Len(a \o <<f[m]>>) = n + 1 /\ a \o <<f[m]>> \in Seq(U)
       /\ \A j \in 1 .. n + 1 : (a \o <<f[m]>>)[j] = IF j <= n THEN a[j] ELSE <<f[m]>>[j - n]
  <2> HIDE DEF U
  <2>1. a \o <<f[m]>> \in Seq(U)
    BY <1>11
  <2> QED BY <1>11, <2>1, SeqConcat
<1>14. \A j \in 1 .. n + 1 : b[j] = (a \o <<f[m]>>)[j]
  BY <1>1, <1>12, <1>13
<1>15. a \o <<f[m]>> = [j \in 1 .. n + 1 |-> (a \o <<f[m]>>)[j]]
  <2> DEFINE c == a \o <<f[m]>>
  <2> HIDE DEF U, c
  <2>1. c \in Seq(U) /\ Len(c) = n + 1
    BY <1>13 DEF c
  <2>2. c = [j \in 1 .. n + 1 |-> c[j]]
    BY <2>1
  <2> QED BY <2>2 DEF c
<1>16. b = [j \in 1 .. n + 1 |-> b[j]]
  BY <1>9
<1>17. b = a \o <<f[m]>>
  BY <1>14, <1>15, <1>16
<1> QED BY <1>17 DEF a, b, R

(* A literal's text, byte by byte. *)
LEMMA LiteralTextEmpty == ASSUME NEW t, NEW a \in Nat PROVE LiteralText(t, a, a + 1) = <<>>
<1> DEFINE f == [i \in 1 .. Len(t) |-> IF Escape(t, i) THEN NL ELSE t[i]]
           S == {i \in a + 1 .. a + 1 - 1 : ~Escape(t, i - 1)}
<1>1. S = {}
  OBVIOUS
<1>2. LiteralText(t, a, a + 1) = Listed(f, S)
  BY DEF LiteralText
<1> HIDE DEF f, S
<1> QED BY <1>1, <1>2, ListedEmpty

LEMMA LiteralTextStep ==
  ASSUME NEW t, Len(t) \in Nat, NEW a \in Nat, NEW q \in a + 1 .. Len(t), ~Escape(t, q - 1)
  PROVE  /\ ~Escape(t, q) => LiteralText(t, a, q + 1) = LiteralText(t, a, q) \o <<t[q]>>
         /\ Escape(t, q) => LiteralText(t, a, q + 2) = LiteralText(t, a, q) \o <<NL>>
<1> DEFINE f == [i \in 1 .. Len(t) |-> IF Escape(t, i) THEN NL ELSE t[i]]
           S(p) == {i \in a + 1 .. p - 1 : ~Escape(t, i - 1)}
<1>1. S(q) \in SUBSET Int /\ \A i \in S(q) : i < q
  OBVIOUS
<1>2. IsFiniteSet(S(q))
  <2>1. IsFiniteSet(a + 1 .. q - 1)
    BY FS_Interval
  <2> QED BY <2>1, FS_Subset
<1>3. S(q + 1) = S(q) \cup {q}
  OBVIOUS
<1>4. Escape(t, q) => S(q + 2) = S(q) \cup {q}
  <2>1. \A i \in a + 1 .. q + 2 - 1 : i \in a + 1 .. q - 1 \/ i = q \/ i = q + 1
    OBVIOUS
  <2>2. q + 1 - 1 = q
    OBVIOUS
  <2> QED BY <2>1, <2>2
<1>5. f[q] = IF Escape(t, q) THEN NL ELSE t[q]
  OBVIOUS
<1>6. \A p \in Int : LiteralText(t, a, p) = Listed(f, S(p))
  BY DEF LiteralText
<1>7. q \in Int /\ q + 1 \in Int /\ q + 2 \in Int
  OBVIOUS
<1> HIDE DEF f, S
<1>8. Listed(f, S(q) \cup {q}) = Listed(f, S(q)) \o <<f[q]>>
  BY <1>1, <1>2, <1>7, ListedAppend
<1> QED BY <1>3, <1>4, <1>5, <1>6, <1>7, <1>8

-----------------------------------------------------------------------------
(* A literal that begins at a is being read: what was collected, and the    *)
(* byte before, up to pos; or, over the end of the chunk, what no quote in  *)
(* the text collected can close.                                           *)
Collected == wb[3].text
Final == Chunk[Len(Chunk)]

Unended(B, a, q) ==
  \A i \in a + 1 .. q - 1 : B[i] # NL /\ ~(B[i] = DQUOTE /\ B[i - 1] # BKSLASH)

Quoting(T, prev) ==
  /\ \A j \in 1 .. Len(T) : T[j] = DQUOTE => j > 1 /\ T[j - 1] = BKSLASH
  /\ prev = IF Len(T) = 0 THEN DQUOTE ELSE T[Len(T)]

Inside(B, T, p, prev, a) ==
  /\ p <= Len(B) + 1 /\ Unended(B, a, p)
  /\ T = LiteralText(B, a, p) /\ Len(T) <= p - a - 1
  /\ B[p - 1] = BKSLASH <=> prev = BKSLASH
  /\ ~Escape(B, p - 1)

Beyond(B, last, T, p, prev, a) ==
  /\ p > Len(B) + 1 /\ last # NL /\ Unended(B, a, Len(B) + 1)
  /\ p - Len(B) - 1 <= Len(T)
  /\ T[p - Len(B) - 1] = BKSLASH => prev = BKSLASH

LiteralOf(B, last, T, p, prev, a) ==
  /\ a \in 1 .. Len(B) /\ B[a] = DQUOTE /\ a < p
  /\ Quoting(T, prev) /\ (Inside(B, T, p, prev, a) \/ Beyond(B, last, T, p, prev, a))

ClosedOf(B, T, p, a) ==
  /\ a \in 1 .. Len(B) /\ B[a] = DQUOTE /\ a < p - 1 /\ p - 1 <= Len(B)
  /\ B[p - 1] = DQUOTE /\ B[p - 2] # BKSLASH
  /\ Unended(B, a, p - 1) /\ T = LiteralText(B, a, p - 1)

Literal(a) == LiteralOf(Body, Final, Collected, tenv.pos, tenv.prev, a)
Closed(a) == ClosedOf(Body, Collected, tenv.pos, a)

LEMMA UnendedIs ==
  ASSUME NEW B, NEW a, NEW q, NEW r, r = q - 1,
         \A i \in a + 1 .. r : B[i] # NL /\ ~(B[i] = DQUOTE /\ B[i - 1] # BKSLASH)
  PROVE  Unended(B, a, q)
BY DEF Unended

LEMMA InsideIs ==
  ASSUME NEW B, NEW T, NEW p, NEW prev, NEW a, NEW m, m = p - 1,
         p <= Len(B) + 1, Unended(B, a, p), T = LiteralText(B, a, p), Len(T) <= m - a,
         B[m] = BKSLASH <=> prev = BKSLASH, ~Escape(B, m), p \in Nat, a \in Nat, Len(T) \in Nat
  PROVE  Inside(B, T, p, prev, a)
<1>1. p - a - 1 = m - a
  OBVIOUS
<1> QED BY <1>1 DEF Inside

LEMMA BeyondIs ==
  ASSUME NEW B, NEW last, NEW T, NEW p, NEW prev, NEW a, NEW k, k = p - Len(B) - 1,
         p > Len(B) + 1, last # NL, Unended(B, a, Len(B) + 1), k <= Len(T),
         T[k] = BKSLASH => prev = BKSLASH
  PROVE  Beyond(B, last, T, p, prev, a)
BY DEF Beyond

LEMMA LiteralOpens ==
  ASSUME BaseInv, LiteralOpen, NEW a, a = tenv.pos
  PROVE  Literal(a)'
<1>1. /\ Body' = Body /\ wb'[3].text = <<>> /\ tenv'.pos = a + 1 /\ tenv'.prev = DQUOTE
      /\ a \in 1 .. Len(Body) /\ Body[a] = DQUOTE /\ Scanning("token")
  BY LiteralOpenKeeps
<1>2. Len(Body) \in Nat /\ a \in Nat /\ a + 1 \in Nat /\ a + 1 - 1 = a /\ a + 1 <= Len(Body) + 1 /\ a < a + 1
  BY <1>1, ScanFrom
<1>3. Quoting(<<>>, DQUOTE)
  BY DEF Quoting
<1>4. ~Escape(Body, a)
  BY <1>1, ByteFacts DEF Escape
<1>5. LiteralText(Body, a, a + 1) = <<>>
  BY <1>2, LiteralTextEmpty
<1>6. Unended(Body, a, a + 1)
  BY <1>2 DEF Unended
<1>7. Inside(Body, <<>>, a + 1, DQUOTE, a)
  <2> DEFINE p == a + 1
  <2>1. p \in Nat /\ a = p - 1 /\ p <= Len(Body) + 1 /\ Len(<<>>) <= a - a /\ Len(<<>>) \in Nat
    BY <1>2
  <2>2. Unended(Body, a, p) /\ <<>> = LiteralText(Body, a, p)
    BY <1>5, <1>6
  <2>3. Body[a] = BKSLASH <=> DQUOTE = BKSLASH
    BY <1>1, ByteFacts
  <2> HIDE DEF p
  <2>4. Inside(Body, <<>>, p, DQUOTE, a)
    BY <1>2, <1>4, <2>1, <2>2, <2>3, InsideIs
  <2> QED BY <2>4 DEF p
<1>8. LiteralOf(Body, Final', <<>>, a + 1, DQUOTE, a)
  BY <1>1, <1>2, <1>3, <1>7 DEF LiteralOf
<1> QED BY <1>1, <1>8 DEF Literal, Collected

(* The text with a byte more. *)
LEMMA Longer ==
  ASSUME NEW x \in Seq(Byte), NEW c \in Byte
  PROVE  /\ Len(x \o <<c>>) = Len(x) + 1 /\ (x \o <<c>>)[Len(x) + 1] = c /\ Len(x) \in Nat
         /\ \A j \in 1 .. Len(x) : (x \o <<c>>)[j] = x[j]
OBVIOUS

LEMMA LiteralGrows ==
  ASSUME BaseInv, NEW a, Literal(a), LiteralByte
  PROVE  Literal(a)'
<1> DEFINE L == Len(Body)
           p == tenv.pos
           T == Collected
           x == This
           c == IF Escaped THEN NL ELSE x
           U == T \o <<c>>
           n == Len(T)
           In == Inside(Body, T, p, tenv.prev, a)
           Out == Beyond(Body, Final, T, p, tenv.prev, a)
           np == IF Escaped THEN p + 2 ELSE p + 1
<1>1. /\ Body' = Body /\ Chunk' = Chunk /\ Final' = Final /\ Scanning("literal") /\ x \in Byte \ {NL} /\ ~Closing
      /\ Collected' = U /\ tenv'.pos = np /\ tenv'.prev = c
  BY LiteralByteKeeps DEF Collected, Final
<1>2. /\ Scanned /\ T \in Seq(Byte) /\ n \in Nat /\ Body \in Seq(Byte) /\ L \in Nat /\ p \in Nat \ {0}
      /\ x = ReadAt(p) /\ Following = ReadAt(p + 1)
  BY <1>1, LiteralFrom DEF Collected
<1>3. /\ a \in 1 .. L /\ Body[a] = DQUOTE /\ a < p /\ Quoting(T, tenv.prev) /\ (In \/ Out)
  BY DEF Literal, LiteralOf
<1>4. c \in Byte
  BY <1>1, ByteFacts
<1>5. Len(U) = n + 1 /\ U[n + 1] = c /\ \A j \in 1 .. n : U[j] = T[j]
  BY <1>2, <1>4, Longer
<1>6. \A q \in Nat \ {0} : ReadAt(q) = IF q <= L THEN Body[q] ELSE IF q - L <= n THEN T[q - L] ELSE 0
  BY DEF ReadAt, Collected
<1>7. \A i \in 1 .. L : Body[i] # 0 /\ Final = Body[L]
  <2>1. L = Len(Chunk) - Skipped /\ Skipped \in Nat /\ Len(Chunk) \in Nat /\ \A i \in 1 .. L : Body[i] = Chunk[Skipped + i] /\ Body[i] \in Byte
    BY <1>2, ScanFacts
  <2>2. Skipped + L = Len(Chunk)
    BY <2>1
  <2> HIDE DEF L
  <2> QED BY <1>2, <2>1, <2>2, ByteFacts DEF Final
<1>8. /\ \A j \in 1 .. n : T[j] = DQUOTE => j > 1 /\ T[j - 1] = BKSLASH
      /\ tenv.prev = IF n = 0 THEN DQUOTE ELSE T[n]
  BY <1>3 DEF Quoting
<1>9. Escaped => x = BKSLASH /\ Following = 110
  BY DEF Escaped
<1>10. x = DQUOTE => tenv.prev = BKSLASH
  BY <1>1 DEF Closing
<1>11. /\ NL # 0 /\ NL # DQUOTE /\ NL # BKSLASH /\ BKSLASH # 110 /\ DQUOTE # BKSLASH /\ DQUOTE # 110 /\ NL # 110 /\ 110 # 0
  BY ByteFacts DEF NL, DQUOTE, BKSLASH
<1>q. Quoting(U, c)
  <2>1. ASSUME NEW j \in 1 .. n + 1, U[j] = DQUOTE
        PROVE  j > 1 /\ U[j - 1] = BKSLASH
    <3>1. CASE j \in 1 .. n
      <4>1. T[j] = DQUOTE
        BY <1>5, <2>1, <3>1
      <4>2. j > 1 /\ T[j - 1] = BKSLASH
        BY <1>8, <3>1, <4>1
      <4>3. j - 1 \in 1 .. n
        BY <1>2, <3>1, <4>2
      <4> QED BY <1>5, <4>2, <4>3
    <3>2. CASE j = n + 1
      <4>1. c = DQUOTE
        BY <1>5, <2>1, <3>2
      <4>2. tenv.prev = BKSLASH
        BY <1>10, <1>11, <4>1
      <4>3. n # 0 /\ T[n] = BKSLASH
        BY <1>8, <1>11, <4>2
      <4>4. n \in 1 .. n /\ j - 1 = n /\ j > 1
        BY <1>2, <3>2, <4>3
      <4> QED BY <1>5, <4>3, <4>4
    <3> QED BY <1>2, <3>1, <3>2
  <2>2. Len(U) # 0 /\ U[Len(U)] = c
    BY <1>2, <1>5
  <2> HIDE DEF U, c, n
  <2> QED BY <1>5, <2>1, <2>2 DEF Quoting
<1>s. SUFFICES LiteralOf(Body, Final, U, np, c, a)
  BY <1>1 DEF Literal
<1> HIDE DEF L, T, x, c, U, n, p, In, Out, np
<1>12. CASE In /\ p <= L
  <2>1. /\ Unended(Body, a, p) /\ T = LiteralText(Body, a, p) /\ n <= p - a - 1 /\ ~Escape(Body, p - 1)
        /\ Body[p - 1] = BKSLASH <=> tenv.prev = BKSLASH
    BY <1>12 DEF In, Inside, p, T, n
  <2>2. p \in 1 .. L /\ p \in a + 1 .. L /\ x = Body[p] /\ a \in Nat
    BY <1>2, <1>3, <1>6, <1>12
  <2>3. Body[p] # NL /\ ~(Body[p] = DQUOTE /\ Body[p - 1] # BKSLASH)
    BY <1>1, <1>10, <2>1, <2>2 DEF x
  <2>4. \A i \in a + 1 .. p : Body[i] # NL /\ ~(Body[i] = DQUOTE /\ Body[i - 1] # BKSLASH)
    <3> SUFFICES ASSUME NEW i \in a + 1 .. p PROVE Body[i] # NL /\ ~(Body[i] = DQUOTE /\ Body[i - 1] # BKSLASH)
      OBVIOUS
    <3>1. i = p \/ i \in a + 1 .. p - 1
      BY <1>2, <2>2
    <3> QED BY <2>1, <2>3, <3>1 DEF Unended
  <2>5. Len(Body) \in Nat /\ p \in a + 1 .. Len(Body)
    BY <1>2, <2>2 DEF L
  <2>6. /\ ~Escape(Body, p) => LiteralText(Body, a, p + 1) = T \o <<Body[p]>>
        /\ Escape(Body, p) => LiteralText(Body, a, p + 2) = T \o <<NL>>
    BY <2>1, <2>2, <2>5, LiteralTextStep
  <2>7. CASE Escaped /\ p + 1 <= L
    <3>1. Body[p + 1] = 110 /\ Escape(Body, p) /\ c = NL
      BY <1>2, <1>6, <1>9, <2>2, <2>7 DEF Escape, Ch, L, c
    <3>2. np = p + 2 /\ p + 2 - 1 = p + 1 /\ p + 2 <= L + 1 /\ c = NL
      BY <1>2, <2>7, <3>1 DEF np
    <3>3. Unended(Body, a, np)
      <4>1. ASSUME NEW i \in a + 1 .. p + 1
            PROVE  Body[i] # NL /\ ~(Body[i] = DQUOTE /\ Body[i - 1] # BKSLASH)
        <5>1. i = p + 1 \/ i \in a + 1 .. p
          BY <1>2, <2>2
        <5> QED BY <1>11, <2>4, <3>1, <5>1
      <4>2. np - 1 = p + 1
        BY <1>2, <3>2
      <4>3. Unended(Body, a, np)
        BY <4>1, <4>2, UnendedIs
      <4> QED BY <3>2, <4>3
    <3>4. U = LiteralText(Body, a, np) /\ Len(U) <= p + 1 - a /\ Len(U) \in Nat
      <4>1. Len(U) <= p + 1 - a /\ Len(U) \in Nat
        BY <1>2, <1>5, <2>1, <2>2
      <4> QED BY <2>6, <3>1, <3>2, <4>1 DEF U
    <3>5. ~Escape(Body, p + 1) /\ Body[p + 1] # BKSLASH
      BY <1>11, <3>1 DEF Escape
    <3>7. Inside(Body, U, np, c, a)
      <4>1. p + 1 = np - 1 /\ np <= Len(Body) + 1 /\ np \in Nat /\ (Body[p + 1] = BKSLASH <=> c = BKSLASH)
        BY <1>2, <1>11, <3>2, <3>5 DEF L
      <4> QED BY <2>2, <3>3, <3>4, <3>5, <4>1, InsideIs
    <3>8. a < p + 2
      BY <1>2, <1>3, <2>2
    <3> QED BY <1>3, <1>q, <3>2, <3>7, <3>8 DEF LiteralOf, L
  <2>8. CASE Escaped /\ p = L
    <3>1. n >= 1 /\ T[1] = 110
      <4>1. p + 1 \in Nat \ {0} /\ ~(p + 1 <= L) /\ p + 1 - L = 1
        BY <1>2, <2>8
      <4> QED BY <1>2, <1>6, <1>9, <1>11, <2>8, <4>1
    <3>2. np = L + 2
      BY <2>8 DEF np
    <3>3. Final # NL
      BY <1>7, <2>2, <2>3, <2>8
    <3>4. U[1] = 110 /\ 1 <= Len(U)
      BY <1>2, <1>5, <3>1
    <3>5. Unended(Body, a, L + 1)
      <4> DEFINE q == L + 1
      <4>1. p = q - 1
        BY <1>2, <2>8
      <4> HIDE DEF q
      <4>2. Unended(Body, a, q)
        BY <2>4, <4>1, UnendedIs
      <4> QED BY <4>2 DEF q
    <3>6. Beyond(Body, Final, U, np, c, a)
      <4>1. L + 2 > L + 1 /\ L + 2 - L - 1 = 1
        BY <1>2
      <4> QED BY <1>2, <1>11, <3>2, <3>3, <3>4, <3>5, <4>1 DEF Beyond, L
    <3>7. a < L + 2
      BY <1>2, <1>3
    <3> QED BY <1>3, <1>q, <3>2, <3>6, <3>7 DEF LiteralOf, L
  <2>9. CASE ~Escaped
    <3>1. ~Escape(Body, p) /\ c = Body[p]
      <4>1. c = Body[p]
        BY <2>2, <2>9 DEF c
      <4>2. CASE p + 1 <= L
        <5>1. Following = Body[p + 1]
          BY <1>2, <1>6, <4>2
        <5> QED BY <2>2, <2>9, <4>1, <4>2, <5>1 DEF Escape, Ch, L, Escaped, x
      <4>3. CASE ~(p + 1 <= L)
        BY <1>11, <4>1, <4>3 DEF Escape, Ch, L
      <4> QED BY <4>1, <4>2, <4>3
    <3>2. np = p + 1 /\ p + 1 - 1 = p /\ p + 1 <= L + 1 /\ c = Body[p]
      BY <1>2, <2>2, <2>9, <3>1 DEF np
    <3>3. Unended(Body, a, np)
      <4>1. p = np - 1
        BY <1>2, <3>2
      <4> QED BY <2>4, <4>1, UnendedIs
    <3>4. U = LiteralText(Body, a, np) /\ Len(U) <= p - a /\ Len(U) \in Nat
      <4>1. Len(U) <= p - a /\ Len(U) \in Nat
        BY <1>2, <1>5, <2>1, <2>2
      <4> QED BY <2>6, <3>1, <3>2, <4>1 DEF U
    <3>7. Inside(Body, U, np, c, a)
      <4>1. p = np - 1 /\ np <= Len(Body) + 1 /\ np \in Nat /\ (Body[p] = BKSLASH <=> c = BKSLASH)
        BY <1>2, <3>2 DEF L
      <4> QED BY <2>2, <3>1, <3>3, <3>4, <4>1, InsideIs
    <3>8. a < p + 1
      BY <1>2, <1>3, <2>2
    <3> QED BY <1>3, <1>q, <3>2, <3>7, <3>8 DEF LiteralOf, L
  <2> QED BY <1>2, <2>2, <2>7, <2>8, <2>9
<1>13. CASE p >= L + 1
  <2>1. Final # NL /\ Unended(Body, a, L + 1)
    <3>1. CASE Out
      BY <3>1 DEF Out, Beyond, L
    <3>2. CASE In
      <4>1. p = L + 1 /\ Unended(Body, a, p)
        BY <1>2, <1>13, <3>2 DEF In, Inside, p, L
      <4>2. L \in 1 .. L /\ (L = a \/ L \in a + 1 .. L + 1 - 1)
        BY <1>2, <1>3
      <4>3. Body[L] # NL
        BY <1>3, <1>11, <4>1, <4>2 DEF Unended
      <4> QED BY <1>7, <4>1, <4>2, <4>3
    <3> QED BY <1>3, <3>1, <3>2
  <2> DEFINE k == p - L
  <2>2. k \in Nat \ {0} /\ k <= n /\ x = T[k] /\ k \in 1 .. n
    <3>1. ~(p <= L) /\ x # 0
      BY <1>1, <1>2, <1>13, ByteFacts DEF x
    <3>2. k \in Nat \ {0}
      BY <1>2, <1>13
    <3>3. p - L <= n /\ x = T[p - L]
      BY <1>2, <1>6, <3>1
    <3> QED BY <1>2, <3>2, <3>3
  <2>3. CASE Escaped
    <3>1. k + 1 <= n /\ T[k + 1] = 110
      <4>1. p + 1 \in Nat \ {0} /\ ~(p + 1 <= L) /\ p + 1 - L = k + 1
        BY <1>2, <1>13
      <4> HIDE DEF k
      <4> QED BY <1>2, <1>6, <1>9, <1>11, <2>3, <4>1
    <3>2. k + 1 = np - L - 1 /\ np > L + 1 /\ a < np
      BY <1>2, <1>3, <1>13, <2>3 DEF np
    <3>3. U[k + 1] # BKSLASH /\ k + 1 <= Len(U)
      <4>1. k + 1 \in 1 .. n
        BY <2>2, <3>1
      <4> HIDE DEF k
      <4> QED BY <1>2, <1>5, <1>11, <2>2, <3>1, <4>1
    <3> HIDE DEF k
    <3>5. Beyond(Body, Final, U, np, c, a)
      <4>1. k + 1 = np - Len(Body) - 1 /\ np > Len(Body) + 1
        BY <3>2 DEF L
      <4>2. U[k + 1] = BKSLASH => c = BKSLASH
        BY <3>3
      <4> QED BY <2>1, <3>3, <4>1, <4>2, BeyondIs DEF L
    <3> QED BY <1>3, <1>q, <3>2, <3>5 DEF LiteralOf, L
  <2>4. CASE ~Escaped
    <3>2. k = np - L - 1 /\ np > L + 1 /\ a < np /\ c = x
      BY <1>2, <1>3, <1>13, <2>4 DEF c, np
    <3>3. U[k] = x /\ k <= Len(U)
      BY <1>2, <1>5, <2>2
    <3> HIDE DEF k
    <3>5. Beyond(Body, Final, U, np, c, a)
      <4>1. k = np - Len(Body) - 1 /\ np > Len(Body) + 1
        BY <3>2 DEF L
      <4>2. U[k] = BKSLASH => c = BKSLASH
        BY <3>2, <3>3
      <4> QED BY <2>1, <3>3, <4>1, <4>2, BeyondIs DEF L
    <3> QED BY <1>3, <1>q, <3>2, <3>5 DEF LiteralOf, L
  <2> QED BY <2>3, <2>4
<1>14. Out => p >= L + 1
  BY <1>2 DEF Out, Beyond, p, L
<1> QED BY <1>2, <1>3, <1>12, <1>13, <1>14

-----------------------------------------------------------------------------
(* Where a literal ends, by its text alone. *)
LEMMA LiteralEnds ==
  ASSUME NEW B \in Seq(Byte), NEW a \in 1 .. Len(B), NEW q \in a + 1 .. Len(B) + 1, Unended(B, a, q),
         Ch(B, q) \in {NL, 0} \/ (Ch(B, q) = DQUOTE /\ B[q - 1] # BKSLASH)
  PROVE  EndOfLiteral(B, a) = q
<1> DEFINE L == Len(B)
           S == {i \in a + 1 .. L + 1 : \/ Ch(B, i) \in {NL, 0}
                                        \/ Ch(B, i) = DQUOTE /\ B[i - 1] # BKSLASH}
<1>1. L \in Nat /\ a \in 1 .. L /\ q \in a + 1 .. L + 1 /\ \A i \in 1 .. L : B[i] \in Byte
  BY SeqElement
<1>2. q \in S /\ S \in SUBSET Nat
  BY <1>1
<1>3. ASSUME NEW i \in S PROVE q <= i
  <2>1. i \in a + 1 .. L + 1 /\ (i < q => i \in a + 1 .. q - 1 /\ i \in 1 .. L)
    BY <1>1
  <2>2. CASE i < q
    <3>1. B[i] # NL /\ ~(B[i] = DQUOTE /\ B[i - 1] # BKSLASH) /\ Ch(B, i) = B[i] /\ B[i] # 0
      BY <1>1, <2>1, <2>2, ByteFacts DEF Unended, Ch
    <3> QED BY <1>3, <3>1
  <2> QED BY <1>1, <2>1, <2>2
<1>4. EndOfLiteral(B, a) = Least(S)
  BY DEF EndOfLiteral
<1> HIDE DEF S
<1> QED BY <1>2, <1>3, <1>4, LeastEquals

(* A literal is closed by a quote of the chunk. *)
LEMMA LiteralCloses ==
  ASSUME BaseInv, NEW a, Literal(a), LiteralClose
  PROVE  Closed(a)' /\ tenv.pos <= Len(Body)
<1> DEFINE L == Len(Body)
           p == tenv.pos
           T == Collected
           n == Len(T)
           np == p + 1
<1>1. /\ Body' = Body /\ Scanning("literal") /\ Closing /\ Collected' = T /\ tenv'.pos = np
  BY LiteralCloseKeeps DEF Collected
<1>2. /\ n \in Nat /\ L \in Nat /\ p \in Nat \ {0} /\ This = ReadAt(p)
  BY <1>1, LiteralFrom DEF Collected
<1>3. /\ a \in 1 .. L /\ Body[a] = DQUOTE /\ a < p /\ Quoting(T, tenv.prev)
      /\ Inside(Body, T, p, tenv.prev, a) \/ Beyond(Body, Final, T, p, tenv.prev, a)
  BY DEF Literal, LiteralOf
<1>4. ReadAt(p) = IF p <= L THEN Body[p] ELSE IF p - L <= n THEN T[p - L] ELSE 0
  BY <1>2 DEF ReadAt, Collected
<1>5. ReadAt(p) = DQUOTE /\ tenv.prev # BKSLASH /\ DQUOTE # 0
  BY <1>1, <1>2, ByteFacts DEF Closing
<1>6. \A j \in 1 .. n : T[j] = DQUOTE => j > 1 /\ T[j - 1] = BKSLASH
  BY <1>3 DEF Quoting
<1> HIDE DEF L, p, T, n, np
<1>7. p <= L
  <2> SUFFICES ASSUME ~(p <= L) PROVE FALSE
    OBVIOUS
  <2> DEFINE k == p - L
  <2>1. k <= n /\ T[k] = DQUOTE
    BY <1>4, <1>5
  <2>2. k \in 1 .. n
    BY <1>2, <2>1
  <2>3. k > 1 /\ T[k - 1] = BKSLASH
    BY <1>6, <2>1, <2>2
  <2>4. p > L + 1 /\ k - 1 = p - L - 1
    BY <1>2, <2>3
  <2>5. ~Inside(Body, T, p, tenv.prev, a)
    BY <1>2, <2>4 DEF Inside, L
  <2>6. T[p - L - 1] = BKSLASH => tenv.prev = BKSLASH
    BY <1>3, <2>5 DEF Beyond, L
  <2> QED BY <1>5, <2>3, <2>4, <2>6
<1>8. ~Beyond(Body, Final, T, p, tenv.prev, a)
  BY <1>2, <1>7 DEF Beyond, L
<1>9. /\ Unended(Body, a, p) /\ T = LiteralText(Body, a, p) /\ Body[p - 1] # BKSLASH
  BY <1>3, <1>5, <1>8 DEF Inside
<1>10. Body[p] = DQUOTE
  BY <1>4, <1>5, <1>7
<1>11. np - 1 = p /\ np - 2 = p - 1
  BY <1>2 DEF np
<1>12. ClosedOf(Body, T, np, a)
  BY <1>3, <1>7, <1>9, <1>10, <1>11 DEF ClosedOf, L
<1> QED BY <1>1, <1>7, <1>12 DEF Closed, L, p

(* What was collected is the literal's text. *)
LEMMA ClosedText ==
  ASSUME Body \in Seq(Byte), tenv.pos \in Nat, NEW a, Closed(a)
  PROVE  /\ LexemeAt(Body, a) = [tt |-> "TEXT", end |-> tenv.pos, text |-> Collected]
         /\ a \in 1 .. Len(Body) /\ Body[a] = DQUOTE /\ tenv.pos \in a + 1 .. Len(Body) + 1
         /\ \A i \in a .. tenv.pos - 1 : Body[i] # NL
<1> DEFINE L == Len(Body)
           p == tenv.pos
           q == p - 1
<1>1. /\ a \in 1 .. L /\ Body[a] = DQUOTE /\ a < q /\ q <= L /\ Body[q] = DQUOTE /\ Body[p - 2] # BKSLASH
      /\ Unended(Body, a, q) /\ Collected = LiteralText(Body, a, q)
  BY DEF Closed, ClosedOf
<1>2. L \in Nat /\ p \in Nat /\ q \in a + 1 .. L + 1 /\ p - 2 = q - 1 /\ q \in 1 .. L /\ q + 1 = p
  <2>1. L \in Nat /\ p \in Nat
    OBVIOUS
  <2> HIDE DEF L, p
  <2> QED BY <1>1, <2>1
<1>3. Ch(Body, q) = DQUOTE
  BY <1>1, <1>2 DEF Ch
<1> HIDE DEF L, q, p
<1>4. EndOfLiteral(Body, a) = q
  BY <1>1, <1>2, <1>3, LiteralEnds DEF L
<1>5. LiteralAt(Body, a) = [tt |-> "TEXT", end |-> p, text |-> Collected]
  BY <1>1, <1>2, <1>3, <1>4 DEF LiteralAt
<1>6. LexemeAt(Body, a) = LiteralAt(Body, a)
  BY <1>1, ByteFacts DEF LexemeAt
<1>7. ASSUME NEW i \in a .. p - 1 PROVE Body[i] # NL
  <2>1. i = a \/ i = q \/ i \in a + 1 .. q - 1
    BY <1>1, <1>2
  <2> QED BY <1>1, <2>1, ByteFacts DEF Unended
<1>8. p \in a + 1 .. L + 1
  BY <1>1, <1>2
<1> QED BY <1>1, <1>5, <1>6, <1>7, <1>8 DEF L, p

(* A literal fails at the end of its line, or of the chunk. *)
LEMMA LiteralFails ==
  ASSUME BaseInv, NEW a, Literal(a), LiteralUnclosed
  PROVE  /\ a \in 1 .. Len(Body) /\ Body[a] = DQUOTE /\ tenv.pos > a
         /\ \E q \in a + 1 .. Len(Body) + 1 :
              /\ LexemeAt(Body, a) = [tt |-> "ERR", end |-> q, text |-> <<>>]
              /\ \A i \in a .. q - 1 : Body[i] # NL
              /\ q = tenv.pos \/ (q = Len(Body) + 1 /\ tenv.pos > q /\ Final # NL)
<1> DEFINE L == Len(Body)
           p == tenv.pos
           T == Collected
           q == IF p <= L + 1 THEN p ELSE L + 1
<1>1. /\ Scanning("literal") /\ This \in {0, NL}
  BY LiteralUnclosedKeeps
<1>2. /\ L \in Nat /\ p \in Nat \ {0} /\ This = ReadAt(p) /\ Body \in Seq(Byte)
  BY <1>1, LiteralFrom
<1>3. /\ a \in 1 .. L /\ Body[a] = DQUOTE /\ a < p
      /\ Inside(Body, T, p, tenv.prev, a) \/ Beyond(Body, Final, T, p, tenv.prev, a)
  BY DEF Literal, LiteralOf
<1>4. p <= L => ReadAt(p) = Body[p]
  BY DEF ReadAt
<1>5. q \in a + 1 .. L + 1 /\ q - 1 \in Nat
  BY <1>2, <1>3
<1>6. q = p \/ (q = L + 1 /\ p > q)
  BY <1>2
<1>7. q # p => Beyond(Body, Final, T, p, tenv.prev, a)
  <2>1. q # p => ~(p <= L + 1)
    OBVIOUS
  <2> HIDE DEF q
  <2> QED BY <1>3, <2>1 DEF Inside
<1>8. Unended(Body, a, q)
  <2>1. CASE p <= L
    <3>1. q = p /\ ~(p > L + 1)
      BY <1>2, <2>1
    <3> HIDE DEF q, p
    <3> QED BY <1>3, <3>1 DEF Inside, Beyond
  <2>2. CASE p = L + 1
    <3>1. q = p /\ ~(p > L + 1)
      BY <1>2, <2>2
    <3> HIDE DEF q, p
    <3> QED BY <1>3, <3>1 DEF Inside, Beyond
  <2>3. CASE p > L + 1
    <3>1. q = L + 1 /\ ~(p <= L + 1)
      BY <1>2, <2>3
    <3> HIDE DEF q, p
    <3> QED BY <1>3, <3>1 DEF Inside, Beyond
  <2> QED BY <1>2, <2>1, <2>2, <2>3
<1>9. Ch(Body, q) \in {NL, 0}
  <2>1. CASE p <= L
    <3>1. Ch(Body, q) = Body[p]
      BY <1>2, <2>1 DEF Ch
    <3> QED BY <1>1, <1>2, <1>4, <2>1, <3>1
  <2>2. CASE ~(p <= L)
    <3>1. q = L + 1 /\ ~(q <= L)
      BY <1>2, <2>2
    <3> HIDE DEF q
    <3> QED BY <3>1 DEF Ch
  <2> QED BY <2>1, <2>2
<1> HIDE DEF L, q, p, T
<1>10. EndOfLiteral(Body, a) = q
  BY <1>2, <1>3, <1>5, <1>8, <1>9, LiteralEnds DEF L
<1>11. Ch(Body, q) # DQUOTE
  BY <1>9, ByteFacts
<1>12. LexemeAt(Body, a) = [tt |-> "ERR", end |-> q, text |-> <<>>]
  BY <1>3, <1>10, <1>11, ByteFacts DEF LexemeAt, LiteralAt
<1>13. ASSUME NEW i \in a .. q - 1 PROVE Body[i] # NL
  <2>1. i = a \/ i \in a + 1 .. q - 1
    BY <1>3, <1>5
  <2> QED BY <1>3, <1>8, <2>1, ByteFacts DEF Unended
<1>14. q # p => Final # NL
  BY <1>7 DEF Beyond
<1> QED BY <1>3, <1>5, <1>6, <1>12, <1>13, <1>14 DEF L, p

-----------------------------------------------------------------------------
(* The lexeme that is being read begins at a. *)
Begun(a) ==
  /\ phase = "token" => a = tenv.pos
  /\ phase = "literal" => Literal(a)
  /\ phase = "close" => Closed(a)

Kept ==
  /\ Chunk' = Chunk /\ Body' = Body /\ Skipped' = Skipped /\ uline' = uline
  /\ tenv'.room = tenv.room /\ wb'[Own].pos = wb[Own].pos

(* It is read on, or it ends. *)
Stays(a) ==
  /\ Kept /\ Begun(a)' /\ phase' \in {"token", "literal", "close"}
  /\ tokens' = tokens /\ tenv'.level = tenv.level /\ tenv'.start = tenv.start /\ tenv'.uline = tenv.uline

Passes(a) ==
  LET l == LexemeAt(Body, a)
  IN /\ Kept /\ phase' = "token" /\ tenv'.level = tenv.level /\ tenv'.start = tenv.start
     /\ a \in 1 .. Len(Body) /\ Body[a] # LBR /\ ~(tenv.level > 0 /\ Body[a] = RBR)
     /\ l.tt \in Kind /\ l.end \in a + 1 .. Len(Body) + 1 /\ Token(l.tt, l.text)
     /\ tenv'.pos = l.end \/ (l.end = Len(Body) + 1 /\ tenv'.pos > l.end /\ l.tt = "ERR" /\ Final # NL)
     /\ tenv'.uline \in Nat
     /\ tenv'.uline = tenv.uline + Lines(Body, a, l.end) \/ (l.tt = "ERR" /\ l.end = Len(Body) + 1)

LEMMA LexemePasses ==
  ASSUME BaseInv, Lexeme, NEW a, Begun(a)
  PROVE  Passes(a)
<1> DEFINE h == fmat(Body, tenv.pos)
<1>1. /\ Chunk' = Chunk /\ Body' = Body /\ Skipped' = Skipped
      /\ Scanning("token") /\ phase' = "token"
      /\ tenv.pos \in 1 .. Len(Body) /\ Body[tenv.pos] \notin {DQUOTE, LBR} /\ ~(tenv.level > 0 /\ Body[tenv.pos] = RBR)
      /\ tenv' = [tenv EXCEPT !.pos = h.end, !.uline = @ + h.lines]
      /\ Token(h.tt, TextOf(h.tt, Body, tenv.pos, h.end))
      /\ WellHandled(Body, tenv.pos, h)
  BY LexemeKeeps
<1>2. a = tenv.pos /\ tenv \in Tenv /\ tenv.uline \in Nat
  BY <1>1, ScanFrom DEF Begun
<1> HIDE DEF h
<1>3. /\ tenv'.pos = h.end /\ tenv'.uline = tenv.uline + h.lines /\ tenv'.level = tenv.level /\ tenv'.start = tenv.start
      /\ tenv'.room = tenv.room
  BY <1>1, <1>2 DEF Tenv
<1>4. uline' = uline /\ wb'[Own].pos = wb[Own].pos
  BY DEF Lexeme, stream, vars
<1>5. LexemeAt(Body, a) = [tt |-> h.tt, end |-> h.end, text |-> TextOf(h.tt, Body, a, h.end)]
  BY <1>1, <1>2 DEF LexemeAt, h
<1> DEFINE l == LexemeAt(Body, a)
<1>6. l.tt = h.tt /\ l.end = h.end /\ l.text = TextOf(h.tt, Body, a, h.end)
  BY <1>5
<1> HIDE DEF l
<1>7. /\ h.tt \in Kind /\ h.end \in a + 1 .. Len(Body) + 1 /\ h.lines \in Nat
      /\ h.lines = Lines(Body, a, h.end) \/ (h.tt = "ERR" /\ h.end = Len(Body) + 1)
  BY <1>1, <1>2 DEF WellHandled
<1>8. tenv'.uline \in Nat
  BY <1>2, <1>3, <1>7
<1>9. Token(l.tt, l.text)
  BY <1>1, <1>2, <1>6
<1> QED BY <1>1, <1>2, <1>3, <1>4, <1>6, <1>7, <1>8, <1>9 DEF Passes, Kept, l

LEMMA LiteralEndPasses ==
  ASSUME BaseInv, LiteralEnd, Tokenising, NEW a, Begun(a)
  PROVE  Passes(a)
<1>1. /\ Chunk' = Chunk /\ Body' = Body /\ Skipped' = Skipped
      /\ phase = "close" /\ phase' = "token" /\ tenv' = tenv /\ uline' = uline
      /\ wb'[Own].pos = wb[Own].pos /\ Token("TEXT", Collected)
  BY LiteralEndKeeps DEF Collected
<1>2. Body \in Seq(Byte) /\ tenv.pos \in Nat /\ Closed(a) /\ tenv.uline \in Nat
  BY <1>1, TokenisingFacts, ScanFacts, TenvFields DEF Begun, BaseInv, TenvTyped
<1>3. /\ LexemeAt(Body, a) = [tt |-> "TEXT", end |-> tenv.pos, text |-> Collected]
      /\ a \in 1 .. Len(Body) /\ Body[a] = DQUOTE /\ tenv.pos \in a + 1 .. Len(Body) + 1
      /\ \A i \in a .. tenv.pos - 1 : Body[i] # NL
  BY <1>2, ClosedText
<1>4. Lines(Body, a, tenv.pos) = 0
  BY <1>2, <1>3, LinesNone
<1>5. tenv.uline = tenv.uline + Lines(Body, a, tenv.pos)
  BY <1>2, <1>4
<1> DEFINE l == LexemeAt(Body, a)
<1>6. l.tt = "TEXT" /\ l.end = tenv.pos /\ l.text = Collected /\ "TEXT" \in Kind
  BY <1>3 DEF Kind
<1> HIDE DEF l
<1> QED BY <1>1, <1>2, <1>3, <1>5, <1>6, ByteFacts DEF Passes, Kept, l

LEMMA LiteralUnclosedPasses ==
  ASSUME BaseInv, LiteralUnclosed, NEW a, Begun(a)
  PROVE  Passes(a)
<1>1. /\ Chunk' = Chunk /\ Body' = Body /\ Skipped' = Skipped
      /\ phase = "literal" /\ phase' = "token" /\ tenv' = tenv /\ uline' = uline
      /\ wb'[Own].pos = wb[Own].pos /\ Token("ERR", <<>>) /\ Tokenising
  BY LiteralUnclosedKeeps DEF Scanning, Tokenising
<1>2. Body \in Seq(Byte) /\ tenv.pos \in Nat /\ Literal(a) /\ tenv.uline \in Nat
  BY <1>1, TokenisingFacts, ScanFacts, TenvFields DEF Begun, BaseInv, TenvTyped
<1>3. /\ a \in 1 .. Len(Body) /\ Body[a] = DQUOTE /\ tenv.pos > a
      /\ \E q \in a + 1 .. Len(Body) + 1 :
           /\ LexemeAt(Body, a) = [tt |-> "ERR", end |-> q, text |-> <<>>]
           /\ \A i \in a .. q - 1 : Body[i] # NL
           /\ q = tenv.pos \/ (q = Len(Body) + 1 /\ tenv.pos > q /\ Final # NL)
  BY <1>2, LiteralFails
<1>4. PICK q \in a + 1 .. Len(Body) + 1 :
           /\ LexemeAt(Body, a) = [tt |-> "ERR", end |-> q, text |-> <<>>]
           /\ \A i \in a .. q - 1 : Body[i] # NL
           /\ q = tenv.pos \/ (q = Len(Body) + 1 /\ tenv.pos > q /\ Final # NL)
  BY <1>3
<1>5. q \in Int /\ a \in Int
  BY <1>3, <1>4
<1>6. Lines(Body, a, q) = 0
  BY <1>4, <1>5, LinesNone
<1>7. tenv.uline = tenv.uline + Lines(Body, a, q)
  BY <1>2, <1>6
<1> DEFINE l == LexemeAt(Body, a)
<1>8. l.tt = "ERR" /\ l.end = q /\ l.text = <<>> /\ "ERR" \in Kind
  BY <1>4 DEF Kind
<1> HIDE DEF l
<1> QED BY <1>1, <1>2, <1>3, <1>4, <1>7, <1>8, ByteFacts DEF Passes, Kept, l

LEMMA LiteralStays ==
  ASSUME BaseInv, NEW a, Begun(a), LiteralOpen \/ LiteralByte \/ LiteralClose
  PROVE  Stays(a)
<1>1. CASE LiteralOpen
  <2>1. phase = "token" /\ phase' = "literal"
    BY <1>1, LiteralOpenKeeps DEF Scanning
  <2>2. Literal(a)'
    BY <1>1, <2>1, LiteralOpens DEF Begun
  <2> QED BY <1>1, <2>1, <2>2, LiteralOpenKeeps DEF Stays, Kept, Begun
<1>2. CASE LiteralByte
  <2>1. phase = "literal" /\ phase' = "literal"
    BY <1>2, LiteralByteKeeps DEF Scanning
  <2>2. Literal(a)'
    BY <1>2, <2>1, LiteralGrows DEF Begun
  <2> QED BY <1>2, <2>1, <2>2, LiteralByteKeeps DEF Stays, Kept, Begun
<1>3. CASE LiteralClose
  <2>1. phase = "literal" /\ phase' = "close"
    BY <1>3, LiteralCloseKeeps DEF Scanning
  <2>2. Closed(a)'
    BY <1>3, <2>1, LiteralCloses DEF Begun
  <2> QED BY <1>3, <2>1, <2>2, LiteralCloseKeeps DEF Stays, Kept, Begun
<1> QED BY <1>1, <1>2, <1>3

LEMMA StillStays ==
  ASSUME BaseInv, Tokenising, NEW a, Begun(a), UNCHANGED readerVars
  PROVE  Stays(a)
<1>1. /\ UNCHANGED <<phase, wb, uline, tenv, tokens>> /\ Chunk' = Chunk /\ Body' = Body /\ Skipped' = Skipped
  BY StandsStill DEF readerVars, stream, vars
<1>2. Literal(a)' = Literal(a) /\ Closed(a)' = Closed(a)
  BY <1>1 DEF Literal, Closed, Collected, Final
<1>3. Begun(a)'
  BY <1>1, <1>2 DEF Begun
<1> QED BY <1>1, <1>3 DEF Stays, Kept, Tokenising

(* What the tokenizer does next. *)
LEMMA TokenStep ==
  ASSUME BaseInv, Tokenising, NEW a, Begun(a), [ReaderNext]_readerVars
  PROVE  Stays(a) \/ Passes(a) \/ BlockOpen \/ BlockClose \/ BlockUnclosed \/ ChunkTokenised
<1>1. phase \in {"token", "literal", "close"} /\ ~tenv.moved
  BY DEF Tokenising
<1>2. ~(\E ch \in Byte : readchunk(ch) \/ readquote(ch) \/ readcomment(ch))
  BY <1>1, ReadsFetch DEF Fetch
<1>3. ~(\E goon \in BOOLEAN : phase \in {"run", "empty", "refused"} /\ ChunkFree(goon))
  BY <1>1
<1>4. ~NextChunk /\ ~FetchCR /\ ~FetchEOF /\ ~ChunkRead /\ ~ReadFreed /\ ~EvalStart /\ ~Statement
  BY <1>1 DEF NextChunk, FetchCR, FetchEOF, ChunkRead, ReadFreed, EvalStart, Statement
<1> QED
  BY <1>2, <1>3, <1>4, StepIs, StillStays, LiteralStays, LexemePasses, LiteralEndPasses, LiteralUnclosedPasses

-----------------------------------------------------------------------------
(* Lines are counted in a chunk as in its text. *)
LEMMA LinesShift ==
  ASSUME NEW s, NEW t, NEW k \in Int, NEW p \in Int, NEW q \in Int,
         \A i \in p .. q - 1 : s[i] = t[k + i]
  PROVE  Lines(s, p, q) = Lines(t, k + p, k + q)
<1> DEFINE S == {i \in p .. q - 1 : s[i] = NL}
           T == {i \in k + p .. k + q - 1 : t[i] = NL}
           f == [i \in S |-> k + i]
<1>1. ASSUME NEW i \in S PROVE k + i \in T
  <2>1. i \in p .. q - 1 /\ s[i] = NL
    OBVIOUS
  <2>2. k + i \in k + p .. k + q - 1
    BY <2>1
  <2>3. t[k + i] = NL
    BY <2>1
  <2> QED BY <2>2, <2>3
<1>2. ASSUME NEW j \in T PROVE \E i \in S : k + i = j
  <2>1. j \in k + p .. k + q - 1 /\ t[j] = NL
    OBVIOUS
  <2>2. j - k \in p .. q - 1 /\ k + (j - k) = j
    BY <2>1
  <2> QED BY <2>1, <2>2
<1>3. \A i, j \in S : k + i = k + j => i = j
  OBVIOUS
<1>4. IsFiniteSet(S)
  BY LinesFinite
<1> HIDE DEF S, T
<1>5. f \in [S -> T] /\ \A i \in S : f[i] = k + i
  BY <1>1
<1> HIDE DEF f
<1>6. f \in Bijection(S, T)
  <2>1. \A i, j \in S : f[i] = f[j] => i = j
    BY <1>3, <1>5
  <2>2. \A j \in T : \E i \in S : f[i] = j
    BY <1>2, <1>5
  <2> QED BY <1>5, <2>1, <2>2, Fun_IsBij
<1>7. Cardinality(T) = Cardinality(S)
  BY <1>4, <1>6, FS_Bijection DEF ExistsBijection
<1> QED BY <1>7 DEF Lines, S, T

(* The reader and the tokenizer count the same lines: what the tokenizer    *)
(* counted, and what is left of the chunk, unless a block is left open at   *)
(* its end, which makes an error.                                          *)
NoErr == \A i \in 1 .. Len(tokens) : tokens[i].tt # "ERR"

Counted(a) ==
  \/ /\ a <= Len(Body) + 1
     /\ tenv.uline + Lines(Chunk, Skipped + a, Len(Chunk) + 1) + Lines(Chunk, 1, Skipped + 1) = uline
  \/ tenv.level > 0 /\ a >= Len(Body) + 1

LinesRead == phase \in {"read", "chunk"} => uline = tenv.uline + Lines(Chunk, 1, Len(Chunk) + 1)
LinesTold == Tokenising => \E a \in Nat : Begun(a) /\ (NoErr => Counted(a))
LinesInv == LinesRead /\ LinesTold /\ LinesAgree

(* What a step counts. *)
LEMMA CountedOn ==
  ASSUME BaseInv, Tokenising, Kept, NEW a \in 1 .. Len(Body), NEW e \in a + 1 .. Len(Body) + 1, Counted(a),
         tenv'.uline = tenv.uline + Lines(Body, a, e)
  PROVE  Counted(e)'
<1> DEFINE L == Len(Body)
           C == Len(Chunk)
<1>1. /\ L = C - Skipped /\ Skipped \in Nat /\ C \in Nat /\ L \in Nat /\ \A i \in 1 .. L : Body[i] = Chunk[Skipped + i]
      /\ tenv.uline \in Nat
  BY ScanFacts, TenvFields DEF Tokenising, Scanned, BaseInv, TenvTyped
<1> HIDE DEF L, C
<1>2. a \in 1 .. L /\ e \in a + 1 .. L + 1 /\ a \in Int /\ e \in Int
  BY <1>1 DEF L
<1>3. tenv.uline + Lines(Chunk, Skipped + a, C + 1) + Lines(Chunk, 1, Skipped + 1) = uline
  BY <1>1, <1>2 DEF Counted, L, C
<1>4. Lines(Body, a, e) = Lines(Chunk, Skipped + a, Skipped + e)
  <2>1. \A i \in a .. e - 1 : Body[i] = Chunk[Skipped + i]
    BY <1>1, <1>2
  <2> QED BY <1>1, <1>2, <2>1, LinesShift
<1> DEFINE x == Skipped + a
           y == Skipped + e
           z == C + 1
<1>5. x \in Int /\ y \in Int /\ z \in Int /\ x <= y /\ y <= z /\ Skipped + 1 \in Int
  BY <1>1, <1>2
<1>6. x = Skipped + a /\ y = Skipped + e /\ z = C + 1
  OBVIOUS
<1> HIDE DEF x, y, z
<1>7. Lines(Chunk, x, z) = Lines(Chunk, x, y) + Lines(Chunk, y, z)
  BY <1>5, LinesSplit
<1>8. Lines(Chunk, x, y) \in Nat /\ Lines(Chunk, y, z) \in Nat /\ Lines(Chunk, 1, Skipped + 1) \in Nat
  BY <1>5, LinesNat
<1>9. tenv'.uline + Lines(Chunk, y, z) + Lines(Chunk, 1, Skipped + 1) = uline
  <2>1. tenv.uline + Lines(Chunk, x, z) + Lines(Chunk, 1, Skipped + 1) = uline
    BY <1>3, <1>6
  <2>2. tenv'.uline = tenv.uline + Lines(Chunk, x, y)
    BY <1>4, <1>6
  <2> QED BY <1>1, <1>7, <1>8, <2>1, <2>2
<1>10. tenv'.uline + Lines(Chunk, Skipped + e, Len(Chunk) + 1) + Lines(Chunk, 1, Skipped + 1) = uline
  BY <1>6, <1>9 DEF C
<1>11. e <= Len(Body) + 1
  BY <1>2 DEF L
<1>12. Chunk' = Chunk /\ Body' = Body /\ Skipped' = Skipped /\ uline' = uline
  BY DEF Kept
<1>13. e <= Len(Body') + 1 /\ tenv'.uline + Lines(Chunk', Skipped' + e, Len(Chunk') + 1) + Lines(Chunk', 1, Skipped' + 1) = uline'
  BY <1>10, <1>11, <1>12
<1> QED BY <1>13 DEF Counted, Lines

(* An error stays an error. *)
LEMMA ErrStays ==
  ASSUME tokens \in Seq([tt : Kind, text : Seq(Byte)]), NEW t, tokens' = Append(tokens, t) \/ tokens' = tokens
  PROVE  /\ NoErr' => NoErr
         /\ tokens' = Append(tokens, t) /\ t.tt = "ERR" => ~NoErr'
<1>1. CASE tokens' = Append(tokens, t)
  <2>1. Len(tokens') = Len(tokens) + 1 /\ Len(tokens) \in Nat /\ tokens'[Len(tokens) + 1] = t
        /\ \A i \in 1 .. Len(tokens) : tokens'[i] = tokens[i]
    BY <1>1
  <2> QED BY <2>1 DEF NoErr
<1>2. CASE tokens' = tokens /\ tokens' # Append(tokens, t)
  BY <1>2 DEF NoErr
<1> QED BY <1>1, <1>2

-----------------------------------------------------------------------------
LEMMA TokenErr ==
  ASSUME tokens \in Seq([tt : Kind, text : Seq(Byte)]), NEW k, NEW x, Token(k, x)
  PROVE  (NoErr' => NoErr) /\ (k = "ERR" /\ tenv.level = 0 => ~NoErr')
<1> DEFINE t == [tt |-> k, text |-> x]
<1>1. tokens' = Append(tokens, t) \/ tokens' = tokens
  BY DEF Token
<1>2. k = "ERR" /\ ~(tenv.level > 0) => tokens' = Append(tokens, t)
  BY DEF Token
<1>3. t.tt = k
  OBVIOUS
<1>4. tenv.level = 0 => ~(tenv.level > 0)
  OBVIOUS
<1> HIDE DEF t
<1> QED BY <1>1, <1>2, <1>3, <1>4, ErrStays

LEMMA LinesPass ==
  ASSUME BaseInv, BaseInv', Tokenising, NEW a, Passes(a), NoErr => Counted(a)
  PROVE  \E e \in Nat : Begun(e)' /\ (NoErr' => Counted(e)')
<1> DEFINE l == LexemeAt(Body, a)
           L == Len(Body)
<1>3. PICK e \in Nat : e = tenv'.pos
  BY TenvFields DEF BaseInv, TenvTyped
<1>1. /\ Kept /\ phase' = "token" /\ tenv'.level = tenv.level
      /\ a \in 1 .. L /\ l.end \in a + 1 .. L + 1 /\ Token(l.tt, l.text)
      /\ e = l.end \/ (l.end = L + 1 /\ e > l.end /\ l.tt = "ERR")
      /\ tenv'.uline = tenv.uline + Lines(Body, a, l.end) \/ (l.tt = "ERR" /\ l.end = L + 1)
  BY <1>3 DEF Passes
<1>2. tenv.level \in Nat /\ L \in Nat /\ tokens \in Seq([tt : Kind, text : Seq(Byte)])
  BY TokenisingFacts, ScanFacts DEF BaseInv, TenvTyped
<1> HIDE DEF l, L
<1>4. Begun(e)'
  BY <1>1, <1>3 DEF Begun
<1>5. (NoErr' => NoErr) /\ (l.tt = "ERR" /\ tenv.level = 0 => ~NoErr')
  BY <1>1, <1>2, TokenErr
<1>6. Body' = Body /\ L = Len(Body')
  BY <1>1 DEF Kept, L
<1>7. tenv.level > 0 /\ e >= L + 1 => Counted(e)'
  BY <1>1, <1>6 DEF Counted
<1>8. CASE l.tt = "ERR" /\ l.end = L + 1
  <2>1. e >= L + 1 /\ l.end \in Nat
    BY <1>1, <1>2, <1>3, <1>8
  <2>2. tenv.level = 0 \/ tenv.level > 0
    BY <1>2
  <2> QED BY <1>3, <1>4, <1>5, <1>7, <1>8, <2>1, <2>2
<1>9. CASE ~(l.tt = "ERR" /\ l.end = L + 1)
  <2>1. e = l.end /\ tenv'.uline = tenv.uline + Lines(Body, a, e) /\ e \in a + 1 .. L + 1
    BY <1>1, <1>9
  <2>2. Counted(a) => Counted(e)'
    BY <1>1, <2>1, CountedOn DEF L
  <2> QED BY <1>3, <1>4, <1>5, <2>2
<1> QED BY <1>8, <1>9

LEMMA LinesBrace ==
  ASSUME BaseInv, BaseInv', Tokenising, NEW a, Begun(a), NoErr => Counted(a), BlockOpen \/ BlockClose
  PROVE  \E e \in Nat : Begun(e)' /\ (NoErr' => Counted(e)')
<1> DEFINE e == a + 1
           L == Len(Body)
<1>1. /\ Chunk' = Chunk /\ Body' = Body /\ Skipped' = Skipped
      /\ phase = "token" /\ phase' = "token" /\ tenv.pos \in 1 .. L /\ Body[tenv.pos] \in {LBR, RBR}
      /\ tenv'.pos = tenv.pos + 1 /\ tenv'.uline = tenv.uline
  BY BlockOpenKeeps, BlockCloseKeeps DEF Scanning
<1>2. a = tenv.pos /\ L \in Nat /\ tenv.uline \in Nat /\ tokens \in Seq([tt : Kind, text : Seq(Byte)])
  BY <1>1, ScanFacts, TenvFields DEF Begun, Tokenising, Scanned, BaseInv, TenvTyped
<1>3. a \in 1 .. L /\ Body[a] \in {LBR, RBR} /\ e = tenv'.pos /\ e \in a + 1 .. L + 1 /\ a \in Int /\ e \in Nat
  BY <1>1, <1>2
<1>4. Lines(Body, a, e) = 0
  BY <1>3, ByteFacts, LinesOne
<1> HIDE DEF e, L
<1>5. Kept
  <2>1. CASE BlockOpen
    <3>1. tenv' = [tenv EXCEPT !.pos = @ + 1, !.level = @ + 1, !.start = IF tenv.level = 0 THEN tenv.pos ELSE @]
          /\ UNCHANGED <<vars, stream>>
      BY <2>1 DEF BlockOpen
    <3> QED BY <1>1, <3>1 DEF Kept, vars, stream, BaseInv, TenvTyped, Tenv
  <2>2. CASE BlockClose
    <3>1. tenv' = [tenv EXCEPT !.pos = @ + 1, !.level = @ - 1] /\ UNCHANGED <<vars, stream>>
      BY <2>2 DEF BlockClose
    <3> QED BY <1>1, <3>1 DEF Kept, vars, stream, BaseInv, TenvTyped, Tenv
  <2> QED BY <2>1, <2>2
<1>6. Begun(e)'
  BY <1>1, <1>3 DEF Begun
<1>7. NoErr' => NoErr
  <2> DEFINE t == [tt |-> "CODE", text |-> SubSeq(Body, tenv.start + 1, tenv.pos - 1)]
  <2>1. tokens' = tokens \/ tokens' = Append(tokens, t)
    BY BlockOpenKeeps, BlockCloseKeeps
  <2> HIDE DEF t
  <2> QED BY <1>2, <2>1, ErrStays
<1>8. tenv'.uline = tenv.uline + Lines(Body, a, e)
  BY <1>1, <1>2, <1>4
<1>9. Counted(a) => Counted(e)'
  BY <1>3, <1>5, <1>8, CountedOn DEF L
<1> QED BY <1>3, <1>6, <1>7, <1>9

LEMMA LinesTold_Step ==
  ASSUME BaseInv, BaseInv', LinesInv, Tokenising, [ReaderNext]_readerVars
  PROVE  LinesInv'
<1>1. PICK a \in Nat : Begun(a) /\ (NoErr => Counted(a))
  BY DEF LinesInv, LinesTold
<1>2. CASE Stays(a)
  <2>1. /\ Kept /\ Begun(a)' /\ phase' \in {"token", "literal", "close"}
        /\ tokens' = tokens /\ tenv'.level = tenv.level /\ tenv'.uline = tenv.uline
    BY <1>2 DEF Stays
  <2>2. NoErr' => NoErr
    BY <2>1 DEF NoErr
  <2>3. Counted(a) => Counted(a)'
    BY <2>1 DEF Counted, Kept, Lines
  <2> QED BY <1>1, <2>1, <2>2, <2>3 DEF LinesInv, LinesRead, LinesTold, LinesAgree
<1>3. CASE Passes(a)
  <2>1. \E e \in Nat : Begun(e)' /\ (NoErr' => Counted(e)')
    BY <1>1, <1>3, LinesPass
  <2>2. phase' = "token"
    BY <1>3 DEF Passes
  <2> QED BY <2>1, <2>2 DEF LinesInv, LinesRead, LinesTold, LinesAgree
<1>4. CASE BlockOpen \/ BlockClose
  <2>1. \E e \in Nat : Begun(e)' /\ (NoErr' => Counted(e)')
    BY <1>1, <1>4, LinesBrace
  <2>2. phase' = "token"
    BY <1>4, BlockOpenKeeps, BlockCloseKeeps
  <2> QED BY <2>1, <2>2 DEF LinesInv, LinesRead, LinesTold, LinesAgree
<1>5. CASE BlockUnclosed
  <2> DEFINE t == [tt |-> "ERR", text |-> <<>>]
  <2>1. phase' \in {"token", "abort"} /\ tokens' = Append(tokens, t) /\ t.tt = "ERR"
    BY <1>5, BlockUnclosedKeeps
  <2> HIDE DEF t
  <2>2. ~NoErr'
    BY <2>1, ErrStays DEF BaseInv, TenvTyped
  <2>3. PICK e \in Nat : e = tenv'.pos
    BY TenvFields DEF BaseInv, TenvTyped
  <2>4. phase' = "token" => Begun(e)'
    BY <2>3 DEF Begun
  <2> QED BY <2>1, <2>2, <2>3, <2>4 DEF LinesInv, LinesRead, LinesTold, LinesAgree, Tokenising
<1>6. CASE ChunkTokenised
  <2> DEFINE L == Len(Body)
             C == Len(Chunk)
             x == Skipped + L + 1
  <2>1. /\ Chunk' = Chunk /\ Skipped' = Skipped /\ Scanning("token") /\ phase' = "tokenised" /\ tenv' = tenv /\ tokens' = tokens
        /\ tenv.pos >= L + 1 /\ tenv.level = 0
    BY <1>6, TokenisedKeeps
  <2>2. uline' = uline
    BY <1>6 DEF ChunkTokenised, stream
  <2>3. a = tenv.pos
    BY <1>1, <2>1 DEF Begun, Scanning
  <2>4. L \in Nat /\ L = C - Skipped /\ Skipped \in Nat /\ C \in Nat /\ uline \in Nat /\ tenv.uline \in Nat
    BY ScanFacts, TenvFields DEF Tokenising, Scanned, BaseInv, TenvTyped
  <2> HIDE DEF L, C
  <2>5. ASSUME NoErr PROVE tenv.uline + Lines(Chunk, 1, Skipped + 1) = uline
    <3>1. a <= L + 1 /\ tenv.uline + Lines(Chunk, Skipped + a, C + 1) + Lines(Chunk, 1, Skipped + 1) = uline
      BY <1>1, <2>1, <2>5 DEF Counted, L, C
    <3>2. Skipped + a = C + 1
      BY <1>1, <2>1, <2>3, <2>4, <3>1
    <3>3. C + 1 \in Int /\ \A i \in C + 1 .. C + 1 - 1 : Chunk[i] # NL
      BY <2>4
    <3>4. Lines(Chunk, C + 1, C + 1) = 0
      BY <3>3, LinesNone
    <3>5. Lines(Chunk, 1, Skipped + 1) \in Nat
      BY <2>4, LinesNat
    <3> QED BY <2>4, <3>1, <3>2, <3>4, <3>5
  <2>6. LinesAgree'
    <3>1. NoErr => tenv'.uline + Lines(Chunk', 1, Skipped' + 1) = uline'
      BY <2>1, <2>2, <2>5
    <3>2. NoErr = \A i \in 1 .. Len(tokens') : tokens'[i].tt # "ERR"
      BY <2>1 DEF NoErr
    <3> QED BY <3>1, <3>2 DEF LinesAgree, Lines
  <2> QED BY <2>1, <2>6 DEF LinesInv, LinesRead, LinesTold, Tokenising
<1> QED BY <1>1, <1>2, <1>3, <1>4, <1>5, <1>6, TokenStep

-----------------------------------------------------------------------------
(* A byte more in a chunk. *)
LEMMA LinesAppend ==
  ASSUME NEW s \in Seq(Byte), NEW c \in Byte
  PROVE  Lines(s \o <<c>>, 1, Len(s \o <<c>>) + 1) = Lines(s, 1, Len(s) + 1) + (IF c = NL THEN 1 ELSE 0)
<1> DEFINE t == s \o <<c>>
           n == Len(s)
<1>1. Len(t) = n + 1 /\ t[n + 1] = c /\ n \in Nat /\ \A j \in 1 .. n : t[j] = s[j]
  BY Longer
<1> HIDE DEF t, n
<1>2. Lines(s, 1, n + 1) = Lines(t, 0 + 1, 0 + (n + 1))
  <2> DEFINE k == 0
             p == 1
             q == n + 1
  <2>1. k \in Int /\ p \in Int /\ q \in Int /\ \A i \in p .. q - 1 : s[i] = t[k + i]
    BY <1>1
  <2> HIDE DEF k, p, q
  <2>2. Lines(s, p, q) = Lines(t, k + p, k + q)
    BY <2>1, LinesShift
  <2> QED BY <2>2 DEF k, p, q
<1>3. 0 + 1 = 1 /\ 0 + (n + 1) = n + 1 /\ 1 \in Int /\ n + 1 \in Int /\ n + 2 \in Int /\ 1 <= n + 1 /\ n + 1 <= n + 2
      /\ n + 1 + 1 = n + 2
  BY <1>1
<1>4. Lines(t, 1, n + 2) = Lines(t, 1, n + 1) + Lines(t, n + 1, n + 2)
  BY <1>3, LinesSplit
<1>5. Lines(t, n + 1, n + 2) = IF c = NL THEN 1 ELSE 0
  BY <1>1, <1>3, LinesOne
<1>6. Len(t) + 1 = n + 2
  BY <1>1
<1>7. Lines(t, 1, n + 1) = Lines(s, 1, n + 1)
  BY <1>2, <1>3
<1> QED BY <1>4, <1>5, <1>6, <1>7 DEF t, n

LEMMA LinesOutside ==
  ASSUME MaxPrint < InitMax, BaseInv, BaseInv', LinesInv, ~Tokenising, [ReaderNext]_readerVars
  PROVE  LinesInv'
<1>1. CASE \E ch \in Byte : readchunk(ch) \/ readquote(ch) \/ readcomment(ch)
  <2>1. PICK ch \in Byte : readchunk(ch) \/ readquote(ch) \/ readcomment(ch)
    BY <1>1
  <2>2. Fetch(ch) /\ phase' \in {"read", "chunk"} /\ (phase' = "chunk" => ch = NL)
    BY <2>1, ReadsFetch
  <2>3. Chunk' = Chunk \o <<ch>> /\ Len(wb) = 2
    BY <2>2, FetchKeeps
  <2>4. phase = "read" /\ uline' = (IF ch = NL THEN uline + 1 ELSE uline) /\ tenv' = tenv
    BY <2>2 DEF Fetch
  <2>5. Chunk \in Seq(Byte)
    <3>1. Own \in 1 .. Len(wb)
      BY <2>3 DEF Own
    <3> QED BY <3>1, BufferFacts DEF BaseInv, Chunk
  <2>6. uline = tenv.uline + Lines(Chunk, 1, Len(Chunk) + 1) /\ uline \in Nat /\ tenv.uline \in Nat
    BY <2>4, TenvFields DEF LinesInv, LinesRead, BaseInv, TenvTyped
  <2> DEFINE C == Chunk \o <<ch>>
  <2>7. Lines(C, 1, Len(C) + 1) = Lines(Chunk, 1, Len(Chunk) + 1) + (IF ch = NL THEN 1 ELSE 0)
    BY <2>5, LinesAppend
  <2> DEFINE x == Lines(Chunk, 1, Len(Chunk) + 1)
  <2>8. x \in Nat
    <3>1. Len(Chunk) + 1 \in Int /\ 1 \in Int
      BY <2>5
    <3> QED BY <3>1, LinesNat
  <2>9. uline' = tenv'.uline + Lines(C, 1, Len(C) + 1)
    <3> HIDE DEF x, C
    <3>1. Lines(C, 1, Len(C) + 1) = x + (IF ch = NL THEN 1 ELSE 0) /\ uline = tenv.uline + x
      BY <2>6, <2>7 DEF x
    <3> QED BY <2>4, <2>6, <2>8, <3>1
  <2>10. LinesRead'
    BY <2>3, <2>9 DEF LinesRead, Lines
  <2> QED BY <2>2, <2>10 DEF LinesInv, LinesTold, LinesAgree, Tokenising
<1>2. CASE NextChunk
  <2>1. /\ phase' = "read" /\ tenv' = [NoTokens EXCEPT !.uline = uline] /\ uline' = uline /\ Open /\ phase = "start"
    BY <1>2 DEF NextChunk
  <2>2. Len(wb) = 1 /\ wb \in Seq(Buffer)
    BY <2>1 DEF BaseInv, Height, IInv, TypeOK
  <2>3. Chunk' = <<>>
    <3> DEFINE b == [pos |-> bytesize, text |-> <<>>]
    <3>1. wb' = Append(wb, b) /\ b.text = <<>>
      BY <2>1 DEF Open
    <3> HIDE DEF b
    <3>2. Append(wb, b)[2] = b
      <4>1. bytesize \in Nat /\ <<>> \in Seq(Byte)
        BY DEF BaseInv, IInv, TypeOK
      <4>2. b \in Buffer
        BY <4>1 DEF b, Buffer
      <4> HIDE DEF b
      <4>3. Append(wb, b)[Len(wb) + 1] = b
        BY <2>2, <4>2, SeqAppend
      <4>4. Len(wb) + 1 = 2
        BY <2>2
      <4> QED BY <4>3, <4>4, Zenon
    <3> QED BY <3>1, <3>2 DEF Chunk, Own
  <2>4. tenv'.uline = uline /\ uline \in Nat
    BY <2>1, NoTokensTyped DEF BaseInv, TenvTyped, NoTokens
  <2>5. Lines(<<>>, 1, Len(<<>>) + 1) = 0
    <3>1. \A i \in 1 .. Len(<<>>) + 1 - 1 : (<<>>)[i] # NL
      OBVIOUS
    <3>2. 1 \in Int /\ Len(<<>>) + 1 \in Int
      OBVIOUS
    <3> QED BY <3>1, <3>2, LinesNone
  <2>6. LinesRead'
    <3>1. uline' = tenv'.uline + Lines(<<>>, 1, Len(<<>>) + 1)
      BY <2>1, <2>4, <2>5
    <3> QED BY <2>3, <3>1 DEF LinesRead, Lines
  <2> QED BY <2>1, <2>6 DEF LinesInv, LinesTold, LinesAgree, Tokenising
<1>3. CASE FetchCR \/ FetchEOF
  <2>1. phase = "read" /\ phase' \in {"read", "chunk"} /\ UNCHANGED <<vars, uline, tenv>>
    BY <1>3 DEF FetchCR, FetchEOF
  <2>2. Chunk' = Chunk
    BY <2>1 DEF vars, Chunk, Own
  <2>3. LinesRead'
    BY <2>1, <2>2 DEF LinesInv, LinesRead, Lines
  <2> QED BY <2>1, <2>3 DEF LinesInv, LinesTold, LinesAgree, Tokenising
<1>4. CASE ChunkRead
  <2>1. /\ Chunk' = Chunk /\ phase = "chunk" /\ UNCHANGED stream
        /\ tenv'.pos = 1 /\ tenv'.uline = tenv.uline
        /\ phase' \in {"token", "empty", "refused"}
    BY <1>4, ChunkReadKeeps
  <2>2. phase' = "token" => \E a \in Nat : Begun(a)' /\ (NoErr' => Counted(a)')
    <3> SUFFICES ASSUME phase' = "token" PROVE Begun(1)' /\ Counted(1)'
      OBVIOUS
    <3>1. Begun(1)'
      BY <2>1 DEF Begun
    <3>2. Chunk \in Seq(Byte) /\ ~NotKonoha
      <4>1. Scanned'
        BY DEF Scanned
      <4>2. Chunk \in Seq(Byte) /\ ~NotKonoha'
        <5>1. Own \in 1 .. Len(wb)
          <6>1. Len(wb) = 2
            BY <2>1, Zenon DEF BaseInv, Height
          <6> QED BY <6>1 DEF Own
        <5>2. ~NotKonoha'
          BY <4>1 DEF BaseInv, ChunkEnds
        <5> QED BY <5>1, <5>2, BufferFacts DEF BaseInv, Chunk
      <4>3. NotKonoha' = NotKonoha
        BY <2>1, ChunkAlone
      <4> QED BY <2>1, <4>2, <4>3
    <3>3. Skipped' = Skipped /\ Body' = Body
      BY <2>1, ChunkAlone
    <3>4. Skipped \in 0 .. Len(Chunk) /\ Len(Chunk) \in Nat /\ Len(Body) \in Nat
      BY <3>2, BodyFacts
    <3> DEFINE C == Len(Chunk)
               k == Skipped
    <3>5. k \in Nat /\ C \in Nat /\ k <= C
      BY <3>4
    <3>6. uline = tenv.uline + Lines(Chunk, 1, C + 1) /\ uline \in Nat /\ tenv.uline \in Nat
      BY <2>1, TenvFields DEF LinesInv, LinesRead, BaseInv, TenvTyped
    <3> HIDE DEF C, k
    <3>7. 1 \in Int /\ k + 1 \in Int /\ C + 1 \in Int /\ 1 <= k + 1 /\ k + 1 <= C + 1
      BY <3>5
    <3>8. Lines(Chunk, 1, C + 1) = Lines(Chunk, 1, k + 1) + Lines(Chunk, k + 1, C + 1)
      BY <3>7, LinesSplit
    <3>9. Lines(Chunk, 1, k + 1) \in Nat /\ Lines(Chunk, k + 1, C + 1) \in Nat
      BY <3>7, LinesNat
    <3>10. tenv.uline + Lines(Chunk, k + 1, C + 1) + Lines(Chunk, 1, k + 1) = uline
      BY <3>6, <3>8, <3>9
    <3>11. tenv'.uline + Lines(Chunk', Skipped' + 1, Len(Chunk') + 1) + Lines(Chunk', 1, Skipped' + 1) = uline'
      BY <2>1, <3>3, <3>10 DEF C, k, stream
    <3>12. 1 <= Len(Body') + 1
      BY <3>3, <3>4
    <3>13. Counted(1)'
      BY <3>11, <3>12 DEF Counted, Lines
    <3> QED BY <3>1, <3>13
  <2> QED BY <2>1, <2>2 DEF LinesInv, LinesTold, LinesAgree, LinesRead, Tokenising
<1>5. CASE UNCHANGED readerVars
  <2>1. UNCHANGED <<phase, uline, tenv, tokens>> /\ Chunk' = Chunk /\ Skipped' = Skipped
    BY <1>5, StandsStill DEF readerVars, stream
  <2>2. LinesRead' /\ LinesAgree'
    BY <2>1 DEF LinesInv, LinesRead, LinesAgree, Lines
  <2>3. ~Tokenising'
    BY <2>1 DEF Tokenising
  <2> QED BY <2>2, <2>3 DEF LinesInv, LinesTold
<1>6. CASE ~(phase' \in {"read", "chunk", "tokenised"}) /\ ~Tokenising'
  BY <1>6 DEF LinesInv, LinesRead, LinesTold, LinesAgree
<1>7. CASE LiteralEnd
  <2>1. phase = "close" /\ phase' = "token" /\ tenv' = tenv
    BY <1>7, LiteralEndKeeps
  <2>2. ~Tokenising'
    BY <2>1 DEF Tokenising
  <2> QED BY <1>6, <2>1, <2>2
<1>8. CASE Lexeme \/ BlockOpen \/ BlockClose \/ BlockUnclosed \/ LiteralOpen \/ LiteralByte \/ LiteralClose
           \/ LiteralUnclosed \/ ChunkTokenised
  <2>1. Scanning("token") \/ Scanning("literal")
    BY <1>8 DEF Lexeme, BlockOpen, BlockClose, BlockUnclosed, LiteralOpen, LiteralByte, LiteralClose,
                LiteralUnclosed, ChunkTokenised
  <2> QED BY <2>1 DEF Scanning, Tokenising
<1>9. CASE ReadFreed \/ EvalStart \/ Statement
           \/ (\E goon \in BOOLEAN : phase \in {"run", "empty", "refused"} /\ ChunkFree(goon))
  <2>1. phase' \in {"astray", "run", "start", "end"}
    BY <1>9, AstrayKeeps, EvalStartKeeps, StatementKeeps, ChunkFreeKeeps
  <2> QED BY <1>6, <2>1 DEF Tokenising
<1> QED BY <1>1, <1>2, <1>3, <1>4, <1>5, <1>7, <1>8, <1>9, StepIs

LEMMA LinesHold == MaxPrint < InitMax => (ReaderSpec => []LinesInv)
<1> SUFFICES ASSUME MaxPrint < InitMax PROVE ReaderSpec => []LinesInv
  OBVIOUS
<1>1. ReaderInit => LinesInv
  BY DEF ReaderInit, LinesInv, LinesRead, LinesTold, LinesAgree, Tokenising
<1>2. BaseInv /\ LinesInv /\ [ReaderNext]_readerVars => LinesInv'
  BY BaseStep, LinesTold_Step, LinesOutside
<1> QED BY <1>1, <1>2, BaseHolds, PTL DEF ReaderSpec

(* The lines that readchunk counts while it fills the buffer and those that *)
(* tokenize counts in it are the same, in every chunk without an error, so  *)
(* that the next chunk begins where the last one ended.                    *)
THEOREM LinesCounted == MaxPrint < InitMax => (ReaderSpec => []LinesAgree)
<1>1. LinesInv => LinesAgree
  BY DEF LinesInv
<1> QED BY <1>1, LinesHold, PTL

-----------------------------------------------------------------------------
(* What is free behind the chunk is what was free when it was read, and a  *)
(* literal that outgrows it lies in one line of the chunk.                 *)
LongLine ==
  \/ Final # NL
  \/ \E p, q \in 1 .. Len(Chunk) : q - p >= tenv.room /\ Lines(Chunk, p, q + 1) = 0

RoomInv ==
  /\ Tokenising => tenv.room = bytemax - (wb[Own].pos + Len(Chunk))
  /\ phase \in {"token", "literal", "close"} /\ tenv.moved => LongLine
  /\ MovedByLongLine

LEMMA LongLineStays ==
  ASSUME Chunk' = Chunk, tenv'.room = tenv.room PROVE LongLine' = LongLine
BY DEF LongLine, Final, Lines

LEMMA LiteralOutgrows ==
  ASSUME BaseInv, Scanning("literal"), NEW a, Literal(a), This \in Byte \ {NL}, bytesize + 1 >= bytemax,
         tenv.room = bytemax - (wb[Own].pos + Len(Chunk))
  PROVE  LongLine
<1> SUFFICES ASSUME Final = NL PROVE LongLine
  BY DEF LongLine
<1> DEFINE L == Len(Body)
           C == Len(Chunk)
           p == tenv.pos
           T == Collected
           n == Len(T)
           k == Skipped
<1>1. /\ Scanned /\ n \in Nat /\ L \in Nat /\ p \in Nat \ {0} /\ This = ReadAt(p)
      /\ bytesize = End(Own) + n
  BY LiteralFrom DEF Collected
<1>2. /\ wb[Own].pos \in Nat /\ k \in 0 .. C /\ C \in Nat \ {0} /\ L = C - k
      /\ \A i \in 1 .. L : Body[i] = Chunk[k + i]
      /\ End(Own) = wb[Own].pos + C
  BY <1>1, ScanFacts
<1>3. /\ a \in 1 .. L /\ Body[a] = DQUOTE /\ a < p
      /\ Inside(Body, T, p, tenv.prev, a)
  BY DEF Literal, LiteralOf, Beyond
<1>4. p <= L + 1 /\ Unended(Body, a, p) /\ n <= p - a - 1
  BY <1>3 DEF Inside
<1>5. p <= L => ReadAt(p) = Body[p]
  BY DEF ReadAt
<1>6. bytemax \in Nat /\ tenv.room \in Int
  BY TenvFields DEF BaseInv, IInv, TypeOK, TenvTyped
<1> HIDE DEF L, C, p, T, n, k
<1>7. \A i \in a .. p - 1 : Body[i] # NL
  <2> SUFFICES ASSUME NEW i \in a .. p - 1 PROVE Body[i] # NL
    OBVIOUS
  <2>1. i = a \/ i \in a + 1 .. p - 1
    BY <1>3
  <2> QED BY <1>3, <1>4, <2>1, ByteFacts DEF Unended
<1>8. Chunk[C] = NL
  BY DEF Final, C
<1>9. p <= L
  <2> SUFFICES ASSUME p = L + 1 PROVE FALSE
    BY <1>1, <1>4
  <2>1. L \in a .. p - 1 /\ L \in 1 .. L /\ k + L = C
    BY <1>1, <1>2, <1>3
  <2> QED BY <1>2, <1>7, <1>8, <2>1
<1>10. \A i \in a .. p : Body[i] # NL
  <2> SUFFICES ASSUME NEW i \in a .. p PROVE Body[i] # NL
    OBVIOUS
  <2>1. i = p \/ i \in a .. p - 1
    BY <1>1, <1>3
  <2> QED BY <1>1, <1>5, <1>7, <1>9, <2>1
<1> DEFINE x == k + a
           y == k + p
<1>11. x \in 1 .. C /\ y \in 1 .. C /\ y - x = p - a
  BY <1>1, <1>2, <1>3, <1>9
<1>12. y - x >= tenv.room
  <2>1. bytesize = wb[Own].pos + C + n /\ bytesize + 1 >= bytemax /\ tenv.room = bytemax - (wb[Own].pos + C)
    BY <1>1, <1>2 DEF C
  <2>2. n + 1 >= tenv.room
    <3> DEFINE e == wb[Own].pos + C
               r == tenv.room
    <3>1. e \in Nat /\ e = wb[Own].pos + C
      BY <1>2
    <3> HIDE DEF e, x, y
    <3>2. bytesize = e + n /\ bytesize + 1 >= bytemax /\ r = bytemax - e /\ r \in Int
      BY <1>1, <1>2, <1>6, <2>1, <3>1, Zenon
    <3>3. n \in Nat /\ bytemax \in Nat
      BY <1>1, <1>6
    <3> HIDE DEF r
    <3>4. n + 1 >= r
      BY ONLY <3>1, <3>2, <3>3
    <3> QED BY <3>4 DEF r
  <2> QED BY <1>1, <1>3, <1>4, <1>6, <1>11, <2>2
<1>13. \A i \in x .. y : Chunk[i] # NL
  <2> SUFFICES ASSUME NEW i \in x .. y PROVE Chunk[i] # NL
    OBVIOUS
  <2>1. k \in Nat /\ a \in Nat \ {0} /\ p \in Nat /\ L \in Nat /\ i \in k + a .. k + p /\ p <= L
    BY <1>1, <1>2, <1>3, <1>9
  <2>2. i - k \in a .. p /\ i - k \in 1 .. L /\ k + (i - k) = i
    BY ONLY <2>1
  <2> QED BY <1>2, <1>10, <2>2
<1>14. Lines(Chunk, x, y + 1) = 0
  <2> HIDE DEF x, y
  <2> DEFINE z == y + 1
  <2>1. x \in Int /\ z \in Int /\ z - 1 = y
    BY <1>2, <1>11
  <2>2. \A i \in x .. z - 1 : Chunk[i] # NL
    BY <1>13, <2>1
  <2> HIDE DEF z
  <2>3. Lines(Chunk, x, z) = 0
    BY <2>1, <2>2, LinesNone
  <2> QED BY <2>3 DEF z
<1> HIDE DEF x, y
<1> QED BY <1>11, <1>12, <1>14 DEF LongLine, C

LEMMA RoomStep ==
  ASSUME MaxPrint < InitMax, BaseInv, LinesInv, RoomInv, [ReaderNext]_readerVars
  PROVE  RoomInv'
<1>a. RoomInv /\ Chunk' = Chunk /\ tenv'.room = tenv.room => LongLine' = LongLine
  BY LongLineStays
<1>b. ASSUME ~(phase' \in {"token", "literal", "close", "astray"}) PROVE RoomInv'
  BY <1>b DEF RoomInv, Tokenising, MovedByLongLine
<1>c. ASSUME Chunk' = Chunk, wb'[Own].pos = wb[Own].pos, tenv'.room = tenv.room, bytemax' = bytemax,
             Tokenising, ~tenv'.moved, phase' # "astray"
      PROVE  RoomInv'
  <2>1. tenv'.room = bytemax' - (wb'[Own].pos + Len(Chunk'))
    BY <1>c DEF RoomInv
  <2> QED BY <1>c, <2>1 DEF RoomInv, Own, MovedByLongLine
<1>1. CASE \E ch \in Byte : readchunk(ch) \/ readquote(ch) \/ readcomment(ch)
  BY <1>1, <1>b, ReadsFetch
<1>2. CASE \E goon \in BOOLEAN : phase \in {"run", "empty", "refused"} /\ ChunkFree(goon)
  BY <1>2, <1>b, ChunkFreeKeeps
<1>3. CASE NextChunk \/ FetchCR \/ FetchEOF
  BY <1>3, <1>b DEF NextChunk, FetchCR, FetchEOF
<1>4. CASE ChunkRead
  <2>1. /\ Chunk' = Chunk /\ wb' = wb /\ bytesize' = bytesize /\ ~tenv'.moved
        /\ phase' = "token" \/ phase' \in {"empty", "refused"}
        /\ phase' = "token" => tenv'.room = bytemax' - bytesize /\ bytesize = wb[Own].pos + Len(Chunk)
    BY <1>4, ChunkReadKeeps
  <2>2. (wb[Own].pos)' = wb[Own].pos
    BY <2>1 DEF Own
  <2>3. phase' = "token" => tenv'.room = bytemax' - (wb'[Own].pos + Len(Chunk'))
    BY <2>1
  <2> QED BY <1>b, <2>1, <2>2, <2>3 DEF RoomInv, MovedByLongLine, Own
<1>5. CASE UNCHANGED readerVars
  <2>1. UNCHANGED <<phase, bytemax, wb, tenv>> /\ Chunk' = Chunk
    BY <1>5, StandsStill DEF readerVars, vars
  <2>2. LongLine' = LongLine
    BY <2>1, LongLineStays
  <2>3. MovedByLongLine <=> (phase = "astray" => LongLine)
    BY DEF MovedByLongLine, LongLine, Final
  <2>4. MovedByLongLine' <=> (phase' = "astray" => LongLine')
    BY DEF MovedByLongLine, LongLine, Final
  <2> QED BY <2>1, <2>2, <2>3, <2>4 DEF RoomInv, Tokenising, Own
<1>6. CASE ReadFreed
  <2>1. phase' = "astray" /\ Chunk' = Chunk /\ tenv' = tenv /\ phase \in {"token", "literal"} /\ tenv.moved
    BY <1>6, AstrayKeeps
  <2>2. LongLine'
    BY <2>1, LongLineStays DEF RoomInv
  <2>3. MovedByLongLine'
    BY <2>2 DEF MovedByLongLine, LongLine, Final
  <2> QED BY <2>1, <2>3 DEF RoomInv, Tokenising
<1>7. CASE EvalStart \/ Statement
  BY <1>7, <1>b, EvalStartKeeps, StatementKeeps
<1>8. CASE ChunkTokenised
  BY <1>8, <1>b, TokenisedKeeps
<1>9. CASE Lexeme \/ BlockOpen \/ BlockClose \/ BlockUnclosed
  <2>1. /\ Chunk' = Chunk /\ Scanning("token") /\ ~tenv'.moved /\ phase' \in {"token", "abort"}
    BY <1>9, LexemeKeeps, BlockOpenKeeps, BlockCloseKeeps, BlockUnclosedKeeps
  <2>2. UNCHANGED vars
    BY <1>9 DEF Lexeme, BlockOpen, BlockClose, BlockUnclosed
  <2>3. tenv'.room = tenv.room
    <3>1. tenv \in Tenv
      BY DEF BaseInv, TenvTyped
    <3> QED BY <1>9, <3>1 DEF Lexeme, BlockOpen, BlockClose, BlockUnclosed, Tenv
  <2>4. Tokenising
    BY <2>1 DEF Scanning, Tokenising
  <2> QED BY <1>c, <2>1, <2>2, <2>3, <2>4 DEF vars
<1>10. CASE LiteralOpen \/ LiteralUnclosed
  <2>1. Scanning("token") \/ Scanning("literal")
    BY <1>10 DEF LiteralOpen, LiteralUnclosed
  <2>2. Tokenising
    BY <2>1 DEF Scanning, Tokenising
  <2>3. CASE LiteralOpen
    BY <1>c, <2>2, <2>3, LiteralOpenKeeps
  <2>4. CASE LiteralUnclosed
    BY <1>c, <2>2, <2>4, LiteralUnclosedKeeps DEF Tokenising
  <2> QED BY <1>10, <2>3, <2>4
<1>11. CASE LiteralByte \/ LiteralClose
  <2>1. /\ Chunk' = Chunk /\ Scanning("literal") /\ phase' \in {"literal", "close"}
        /\ tenv'.moved <=> bytemax' # bytemax
        /\ bytemax' # bytemax => bytesize + 1 >= bytemax
        /\ wb'[Own].pos = wb[Own].pos /\ tenv'.room = tenv.room
        /\ This \in Byte \ {NL}
    BY <1>11, LiteralByteKeeps, LiteralCloseKeeps, ByteFacts DEF Closing
  <2>2. Tokenising /\ phase = "literal"
    BY <2>1 DEF Scanning, Tokenising
  <2>3. CASE ~tenv'.moved
    BY <1>c, <2>1, <2>2, <2>3
  <2>4. CASE tenv'.moved
    <3>1. PICK a \in Nat : Begun(a)
      BY <2>2 DEF LinesInv, LinesTold
    <3>2. Literal(a)
      BY <2>2, <3>1 DEF Begun
    <3>3. LongLine
      BY <2>1, <2>2, <2>4, <3>2, LiteralOutgrows DEF RoomInv
    <3>4. LongLine'
      BY <2>1, <3>3, LongLineStays
    <3> QED BY <2>1, <2>4, <3>4 DEF RoomInv, Tokenising, MovedByLongLine
  <2> QED BY <2>3, <2>4
<1>12. CASE LiteralEnd
  <2>1. /\ Chunk' = Chunk /\ phase = "close" /\ phase' = "token" /\ tenv' = tenv /\ bytemax' = bytemax
        /\ wb'[Own].pos = wb[Own].pos
    BY <1>12, LiteralEndKeeps
  <2>2. CASE tenv.moved
    <3>1. LongLine'
      BY <2>1, <2>2, LongLineStays DEF RoomInv
    <3> QED BY <2>1, <2>2, <3>1 DEF RoomInv, Tokenising, MovedByLongLine
  <2>3. CASE ~tenv.moved
    BY <1>c, <2>1, <2>3 DEF Tokenising
  <2> QED BY <2>2, <2>3
<1> QED BY <1>1, <1>2, <1>3, <1>4, <1>5, <1>6, <1>7, <1>8, <1>9, <1>10, <1>11, <1>12, StepIs

(* The array is moved under the tokenizer only by a literal that is longer  *)
(* than what was free behind the chunk when it was read, in one line, or    *)
(* when the file ends without a newline (parseDQUOTE, karray_expand).      *)
THEOREM MovedOnlyByLongLine == MaxPrint < InitMax => (ReaderSpec => []MovedByLongLine)
<1> SUFFICES ASSUME MaxPrint < InitMax PROVE ReaderSpec => []MovedByLongLine
  OBVIOUS
<1>1. ReaderInit => RoomInv
  BY DEF ReaderInit, RoomInv, Tokenising, MovedByLongLine
<1>2. BaseInv /\ LinesInv /\ RoomInv /\ [ReaderNext]_readerVars => RoomInv'
  BY RoomStep
<1>3. RoomInv => MovedByLongLine
  BY DEF RoomInv
<1> QED BY <1>1, <1>2, <1>3, BaseHolds, LinesHold, PTL DEF ReaderSpec

-----------------------------------------------------------------------------
(* The lexemes of a text.  Every lexeme passes one byte at least. *)
LEMMA LexemeFacts ==
  ASSUME NEW t \in Seq(Byte), NEW p \in 1 .. Len(t)
  PROVE  /\ LexemeAt(t, p).end \in p + 1 .. Len(t) + 1
         /\ t[p] \in {LBR, RBR} => LexemeAt(t, p).end = p + 1
<1> DEFINE L == Len(t)
<1>1. L \in Nat /\ p \in Nat \ {0} /\ p + 1 \in p + 1 .. L + 1
  OBVIOUS
<1>2. CASE t[p] = LBR
  <2> DEFINE r == [tt |-> "", end |-> p + 1, text |-> <<>>]
  <2>1. LexemeAt(t, p) = r
    BY <1>2 DEF LexemeAt
  <2>3. r.end = p + 1
    OBVIOUS
  <2> HIDE DEF r
  <2>2. LexemeAt(t, p).end = p + 1
    BY <2>1, <2>3
  <2> QED BY <1>1, <2>2
<1>3. CASE t[p] = DQUOTE
  <2> DEFINE S == {q \in p + 1 .. L + 1 : \/ Ch(t, q) \in {NL, 0}
                                          \/ Ch(t, q) = DQUOTE /\ t[q - 1] # BKSLASH}
             q == EndOfLiteral(t, p)
  <2>1. LexemeAt(t, p) = LiteralAt(t, p)
    BY <1>3, ByteFacts DEF LexemeAt
  <2>2. L + 1 \in S /\ S \in SUBSET Nat
    <3>1. Ch(t, L + 1) = 0 /\ L + 1 \in p + 1 .. L + 1
      BY <1>1 DEF Ch
    <3> QED BY <1>1, <3>1
  <2>3. q = Least(S)
    BY DEF EndOfLiteral
  <2> HIDE DEF S, q
  <2>4. q \in S
    BY <2>2, <2>3, LeastIs
  <2>5. q \in p + 1 .. L + 1
    BY <2>4 DEF S
  <2>6. Ch(t, q) = DQUOTE => q <= L
    BY ByteFacts DEF Ch
  <2>7. LexemeAt(t, p).end = IF Ch(t, q) = DQUOTE THEN q + 1 ELSE q
    BY <2>1 DEF LiteralAt, q
  <2>8. LexemeAt(t, p).end \in p + 1 .. L + 1
    BY <1>1, <2>5, <2>6, <2>7
  <2> QED BY <1>3, <2>8, ByteFacts
<1>4. CASE t[p] \notin {DQUOTE, LBR}
  <2> DEFINE h == fmat(t, p)
  <2>1. h.end \in p + 1 .. L + 1
    BY <1>4, HandledFacts DEF WellHandled
  <2>2. t[p] = RBR => h.end = p + 1
    BY BlockHandled DEF Handled
  <2>3. LexemeAt(t, p) = [tt |-> h.tt, end |-> h.end, text |-> TextOf(h.tt, t, p, h.end)]
    BY <1>4 DEF LexemeAt
  <2> HIDE DEF h
  <2>4. LexemeAt(t, p).end = h.end
    BY <2>3
  <2> QED BY <1>4, <2>1, <2>2, <2>4
<1> QED BY <1>2, <1>3, <1>4

(* The recursive function of Begin, cut after N lexemes: it exists. *)
AreNth(f, t, N) ==
  f = [n \in 0 .. N |->
        IF n = 0 THEN 1
        ELSE LET p == f[n - 1] IN IF p > Len(t) THEN p ELSE LexemeAt(t, p).end]

LEMMA NthExtends ==
  ASSUME NEW t, NEW N \in Nat, NEW f, AreNth(f, t, N)
  PROVE  \E g : AreNth(g, t, N + 1)
<1> DEFINE next(p) == IF p > Len(t) THEN p ELSE LexemeAt(t, p).end
           g == [n \in 0 .. N + 1 |-> IF n = N + 1 THEN next(f[N]) ELSE f[n]]
           h == [n \in 0 .. N + 1 |-> IF n = 0 THEN 1 ELSE next(g[n - 1])]
<1>1. \A n \in 0 .. N : f[n] = IF n = 0 THEN 1 ELSE next(f[n - 1])
  BY DEF AreNth
<1> HIDE DEF next
<1>2. \A n \in 0 .. N + 1 : n # N + 1 => n \in 0 .. N /\ g[n] = f[n]
  OBVIOUS
<1>3. g[N + 1] = next(f[N]) /\ N + 1 # 0 /\ N + 1 - 1 = N /\ N + 1 \in 0 .. N + 1 /\ N \in 0 .. N + 1 /\ g[N] = f[N]
  OBVIOUS
<1>4. ASSUME NEW n \in 0 .. N + 1 PROVE g[n] = h[n]
  <2>1. CASE n = N + 1
    <3>1. h[n] = next(g[N])
      BY <2>1, <1>3
    <3> QED BY <1>3, <2>1, <3>1
  <2>2. CASE n # N + 1 /\ n # 0
    <3>1. n - 1 \in 0 .. N + 1 /\ n - 1 # N + 1 /\ n \in 0 .. N
      BY <2>2
    <3>2. g[n] = f[n] /\ g[n - 1] = f[n - 1]
      BY <1>2, <2>2, <3>1
    <3>3. h[n] = next(g[n - 1])
      BY <2>2
    <3> HIDE DEF g, h
    <3> QED BY <1>1, <2>2, <3>1, <3>2, <3>3
  <2>3. CASE n = 0
    BY <1>1, <1>2, <2>3
  <2> QED BY <2>1, <2>2, <2>3
<1>5. g = h
  <2>1. g = [n \in 0 .. N + 1 |-> g[n]] /\ h = [n \in 0 .. N + 1 |-> h[n]]
    OBVIOUS
  <2> HIDE DEF g, h
  <2> QED BY <1>4, <2>1
<1>6. AreNth(g, t, N + 1)
  BY <1>5 DEF AreNth, next
<1> QED BY <1>6

LEMMA NthExists ==
  ASSUME NEW t, NEW N \in Nat
  PROVE  \E f : AreNth(f, t, N)
<1> DEFINE S == {n \in Nat : ~ \E f : AreNth(f, t, n)}
<1>1. SUFFICES ASSUME S # {} PROVE FALSE
  OBVIOUS
<1>2. PICK n \in S : \A k \in S : n <= k
  <2>1. S \in SUBSET Nat
    OBVIOUS
  <2> HIDE DEF S
  <2> QED BY <1>1, <2>1, LeastOf
<1>3. CASE n = 0
  <2> DEFINE next(p) == IF p > Len(t) THEN p ELSE LexemeAt(t, p).end
             f == [m \in 0 .. 0 |-> 1]
             g == [m \in 0 .. 0 |-> IF m = 0 THEN 1 ELSE next(f[m - 1])]
  <2> HIDE DEF next
  <2>1. f = g
    OBVIOUS
  <2>2. AreNth(f, t, 0)
    BY <2>1 DEF AreNth, next
  <2> QED BY <1>3, <2>2
<1>4. CASE n # 0
  <2>1. n - 1 \in Nat /\ n - 1 \notin S /\ n - 1 + 1 = n
    BY <1>2, <1>4
  <2>2. PICK f : AreNth(f, t, n - 1)
    BY <2>1
  <2>3. \E g : AreNth(g, t, n - 1 + 1)
    BY <2>1, <2>2, NthExtends
  <2> QED BY <2>1, <2>3
<1> QED BY <1>3, <1>4

(* The equation that defines Begin. *)
LEMMA BeginDef ==
  ASSUME NEW t, Len(t) \in Nat
  PROVE  /\ Begin(t)[0] = 1
         /\ \A n \in 1 .. Len(t) :
              Begin(t)[n] = IF Begin(t)[n - 1] > Len(t) THEN Begin(t)[n - 1] ELSE LexemeAt(t, Begin(t)[n - 1]).end
<1> DEFINE N == Len(t)
           W == CHOOSE f : AreNth(f, t, N)
<1>1. AreNth(W, t, N)
  BY NthExists
<1>2. Begin(t) = W
  BY DEF Begin, AreNth
<1> HIDE DEF W
<1>3. \A n \in 0 .. N : W[n] = IF n = 0 THEN 1 ELSE IF W[n - 1] > Len(t) THEN W[n - 1] ELSE LexemeAt(t, W[n - 1]).end
  BY <1>1 DEF AreNth
<1>4. 0 \in 0 .. N /\ \A n \in 1 .. N : n \in 0 .. N /\ n # 0
  OBVIOUS
<1> HIDE DEF N
<1> QED BY <1>2, <1>3, <1>4 DEF N

-----------------------------------------------------------------------------
(* The n-th lexeme lies in the text, n bytes or more from its beginning. *)
LEMMA NthWithin ==
  ASSUME NEW t \in Seq(Byte), NEW n \in 0 .. Len(t)
  PROVE  Begin(t)[n] \in n + 1 .. Len(t) + 1
<1> DEFINE L == Len(t)
           W == Begin(t)
           S == {m \in 0 .. L : W[m] \notin m + 1 .. L + 1}
<1>1. L \in Nat
  OBVIOUS
<1>2. W[0] = 1 /\ \A m \in 1 .. L : W[m] = IF W[m - 1] > L THEN W[m - 1] ELSE LexemeAt(t, W[m - 1]).end
  BY <1>1, BeginDef
<1> HIDE DEF W
<1>3. SUFFICES ASSUME S # {} PROVE FALSE
  BY DEF W
<1>4. PICK m \in S : \A k \in S : m <= k
  <2>1. S \in SUBSET Nat
    BY <1>1
  <2> HIDE DEF S
  <2> QED BY <1>3, <2>1, LeastOf
<1>5. CASE m = 0
  BY <1>1, <1>2, <1>4, <1>5
<1>6. CASE m # 0
  <2>1. m \in 1 .. L /\ m - 1 \in 0 .. L /\ m - 1 \notin S
    BY <1>1, <1>4, <1>6
  <2> DEFINE p == W[m - 1]
  <2>2. p \in m .. L + 1
    BY <2>1
  <2>3. W[m] = IF p > L THEN p ELSE LexemeAt(t, p).end
    BY <1>2, <2>1
  <2> HIDE DEF p
  <2>4. p > L => p \in m + 1 .. L + 1
    BY <1>1, <2>1, <2>2
  <2>5. ASSUME ~(p > L) PROVE LexemeAt(t, p).end \in m + 1 .. L + 1
    <3>1. p \in 1 .. L /\ p >= m
      BY <1>1, <2>1, <2>2, <2>5
    <3>2. LexemeAt(t, p).end \in p + 1 .. L + 1
      BY <3>1, LexemeFacts
    <3> QED BY <1>1, <2>1, <3>1, <3>2
  <2>6. W[m] \in m + 1 .. L + 1
    BY <2>3, <2>4, <2>5
  <2> QED BY <1>4, <2>6
<1> QED BY <1>5, <1>6

(* A later lexeme begins later. *)
LEMMA NthGrows ==
  ASSUME NEW t \in Seq(Byte), NEW m \in 0 .. Len(t), NEW n \in m .. Len(t)
  PROVE  Begin(t)[m] <= Begin(t)[n]
<1> DEFINE L == Len(t)
           W == Begin(t)
           S == {k \in m .. L : ~(W[m] <= W[k])}
<1>1. L \in Nat /\ m \in Nat
  OBVIOUS
<1>2. \A k \in 1 .. L : W[k] = IF W[k - 1] > L THEN W[k - 1] ELSE LexemeAt(t, W[k - 1]).end
  BY <1>1, BeginDef
<1>3. \A k \in 0 .. L : W[k] \in k + 1 .. L + 1
  BY NthWithin
<1> HIDE DEF W
<1>4. SUFFICES ASSUME S # {} PROVE FALSE
  BY DEF W
<1>5. PICK k \in S : \A j \in S : k <= j
  <2>1. S \in SUBSET Nat
    BY <1>1
  <2> HIDE DEF S
  <2> QED BY <1>4, <2>1, LeastOf
<1>6. k # m
  <2>1. W[m] <= W[m]
    BY <1>1, <1>3
  <2> QED BY <1>5, <2>1
<1>7. k \in 1 .. L /\ k - 1 \in m .. L /\ k - 1 \notin S /\ k - 1 \in 0 .. L
  BY <1>1, <1>5, <1>6
<1> DEFINE p == W[k - 1]
<1>8. W[m] <= p /\ p \in k .. L + 1 /\ W[m] \in Nat
  BY <1>1, <1>3, <1>7
<1>9. W[k] = IF p > L THEN p ELSE LexemeAt(t, p).end
  BY <1>2, <1>7
<1> HIDE DEF p
<1>10. ~(p > L) => LexemeAt(t, p).end > p /\ LexemeAt(t, p).end \in Nat
  <2> SUFFICES ASSUME ~(p > L) PROVE LexemeAt(t, p).end > p /\ LexemeAt(t, p).end \in Nat
    OBVIOUS
  <2>1. p \in 1 .. L
    BY <1>1, <1>7, <1>8
  <2>2. LexemeAt(t, p).end \in p + 1 .. L + 1
    BY <2>1, LexemeFacts
  <2> QED BY <1>1, <2>1, <2>2
<1>11. W[m] <= W[k]
  BY <1>8, <1>9, <1>10
<1> QED BY <1>5, <1>11

(* From where one lexeme begins, the next begins where it ends. *)
LEMMA BeginsFacts ==
  ASSUME NEW t \in Seq(Byte)
  PROVE  /\ Begins(t) \subseteq 1 .. Len(t) + 1 /\ 1 \in Begins(t) /\ Len(t) + 1 \in Begins(t)
         /\ \A p \in Begins(t) : p <= Len(t) =>
              LexemeAt(t, p).end \in Begins(t) /\ \A b \in Begins(t) : b <= p \/ b >= LexemeAt(t, p).end
<1> DEFINE L == Len(t)
           W == Begin(t)
           B == Begins(t)
<1>1. L \in Nat /\ 0 \in 0 .. L /\ L \in 0 .. L
  OBVIOUS
<1>2. W[0] = 1 /\ \A k \in 1 .. L : W[k] = IF W[k - 1] > L THEN W[k - 1] ELSE LexemeAt(t, W[k - 1]).end
  BY <1>1, BeginDef
<1>3. \A k \in 0 .. L : W[k] \in k + 1 .. L + 1
  BY NthWithin
<1>4. \A m \in 0 .. L : \A k \in m .. L : W[m] <= W[k]
  BY NthGrows
<1>5. \A k \in 0 .. L : W[k] \in B
  BY DEF Begins
<1>6. \A b \in B : \E k \in 0 .. L : b = W[k]
  BY DEF Begins
<1> HIDE DEF W, B
<1>7. B \subseteq 1 .. L + 1
  BY <1>1, <1>3, <1>6
<1>8. W[L] = L + 1
  <2>1. W[L] \in L + 1 .. L + 1
    BY <1>1, <1>3
  <2> QED BY <1>1, <2>1
<1>9. 1 \in B /\ L + 1 \in B
  BY <1>1, <1>2, <1>5, <1>8
<1>10. ASSUME NEW p \in B, p <= L
       PROVE  LexemeAt(t, p).end \in B /\ \A b \in B : b <= p \/ b >= LexemeAt(t, p).end
  <2>1. PICK n \in 0 .. L : p = W[n]
    BY <1>6
  <2>2. n # L
    <3>1. L + 1 > L
      BY <1>1
    <3> QED BY <1>1, <1>8, <1>10, <2>1
  <2>3. n + 1 \in 1 .. L /\ n + 1 - 1 = n /\ n + 1 \in 0 .. L
    BY <1>1, <2>1, <2>2
  <2>4. W[n + 1] = IF W[n + 1 - 1] > L THEN W[n + 1 - 1] ELSE LexemeAt(t, W[n + 1 - 1]).end
    BY <1>2, <2>3
  <2>5. p \in Nat /\ ~(p > L)
    BY <1>1, <1>7, <1>10
  <2>6. W[n + 1] = LexemeAt(t, p).end
    BY <2>1, <2>3, <2>4, <2>5
  <2>7. ASSUME NEW b \in B PROVE b <= p \/ b >= W[n + 1]
    <3>1. PICK m \in 0 .. L : b = W[m]
      BY <1>6
    <3>2. CASE m <= n
      <4>1. n \in m .. L
        BY <1>1, <3>1, <3>2, <2>1
      <4> QED BY <1>4, <2>1, <3>1, <4>1
    <3>3. CASE ~(m <= n)
      <4>1. m \in n + 1 .. L
        BY <1>1, <3>1, <3>3, <2>1
      <4>2. W[n + 1] <= W[m] /\ W[n + 1] \in Nat /\ W[m] \in Nat
        <5>1. W[n + 1] <= W[m]
          BY <1>4, <2>3, <4>1
        <5> QED BY <1>1, <1>3, <2>3, <3>1, <5>1
      <4> QED BY <3>1, <4>2
    <3> QED BY <3>2, <3>3
  <2>8. W[n + 1] \in B
    BY <1>5, <2>3
  <2> QED BY <2>6, <2>7, <2>8
<1> QED BY <1>7, <1>9, <1>10 DEF B

(* The nesting is a number, and changes behind a brace only. *)
Braces(t, ch, q) == Cardinality({i \in Begins(t) : i < q /\ t[i] = ch})

LEMMA NestingIs ==
  ASSUME NEW t \in Seq(Byte), NEW q \in 1 .. Len(t) + 1
  PROVE  Nesting(t)[q] = Braces(t, LBR, q) - Braces(t, RBR, q)
<1> DEFINE before == [r \in 1 .. Len(t) + 1 |-> {i \in Begins(t) : i < r}]
<1>1. Nesting(t)[q] = Cardinality({i \in before[q] : t[i] = LBR}) - Cardinality({i \in before[q] : t[i] = RBR})
  BY DEF Nesting
<1>2. before[q] = {i \in Begins(t) : i < q}
  OBVIOUS
<1> HIDE DEF before
<1>3. \A ch : {i \in before[q] : t[i] = ch} = {i \in Begins(t) : i < q /\ t[i] = ch}
  BY <1>2
<1> QED BY <1>1, <1>3 DEF Braces

LEMMA BracesStep ==
  ASSUME NEW t \in Seq(Byte), NEW p \in Begins(t), p <= Len(t), NEW q \in p + 1 .. LexemeAt(t, p).end, NEW ch
  PROVE  /\ Braces(t, ch, p) \in Nat
         /\ Braces(t, ch, q) = Braces(t, ch, p) + (IF t[p] = ch THEN 1 ELSE 0)
<1> DEFINE L == Len(t)
           S(r) == {i \in Begins(t) : i < r /\ t[i] = ch}
<1>1. Begins(t) \subseteq 1 .. L + 1 /\ L \in Nat /\ \A b \in Begins(t) : b <= p \/ b >= LexemeAt(t, p).end
  BY BeginsFacts
<1>2. p \in 1 .. L /\ q \in Int /\ p < q /\ q <= LexemeAt(t, p).end /\ LexemeAt(t, p).end \in Int
  <2>1. p \in 1 .. L
    BY <1>1
  <2>2. LexemeAt(t, p).end \in p + 1 .. L + 1
    BY <2>1, LexemeFacts
  <2> QED BY <1>1, <2>1, <2>2
<1>3. IsFiniteSet(S(p)) /\ Cardinality(S(p)) \in Nat
  <2>1. IsFiniteSet(1 .. L + 1)
    BY FS_Interval
  <2>2. S(p) \subseteq 1 .. L + 1
    BY <1>1
  <2> HIDE DEF S
  <2>3. IsFiniteSet(S(p))
    BY <2>1, <2>2, FS_Subset
  <2> QED BY <2>3, FS_CardinalityType
<1>4. \A b \in Begins(t) : b \in Int /\ (b < q <=> b <= p)
  BY <1>1, <1>2
<1>5. t[p] = ch => S(q) = S(p) \cup {p} /\ p \notin S(p)
  BY <1>1, <1>2, <1>4
<1>6. t[p] # ch => S(q) = S(p)
  BY <1>1, <1>2, <1>4
<1>7. Braces(t, ch, p) = Cardinality(S(p)) /\ Braces(t, ch, q) = Cardinality(S(q))
  BY DEF Braces
<1> HIDE DEF S
<1>8. t[p] = ch => Cardinality(S(q)) = Cardinality(S(p)) + 1
  BY <1>3, <1>5, FS_AddElement
<1> QED BY <1>3, <1>6, <1>7, <1>8

LEMMA NestingStep ==
  ASSUME NEW t \in Seq(Byte), NEW p \in Begins(t), p <= Len(t), NEW q \in p + 1 .. LexemeAt(t, p).end
  PROVE  /\ Nesting(t)[p] \in Int
         /\ Nesting(t)[q] = Nesting(t)[p] + (IF t[p] = LBR THEN 1 ELSE IF t[p] = RBR THEN 0 - 1 ELSE 0)
<1> DEFINE L == Len(t)
           a(r) == Braces(t, LBR, r)
           b(r) == Braces(t, RBR, r)
<1>1. p \in 1 .. L /\ L \in Nat
  <2>1. L \in Nat
    OBVIOUS
  <2> QED BY <2>1, BeginsFacts
<1>2. LexemeAt(t, p).end \in p + 1 .. L + 1
  BY <1>1, LexemeFacts
<1>3. p \in 1 .. L + 1 /\ q \in 1 .. L + 1
  BY <1>1, <1>2
<1>4. Nesting(t)[p] = a(p) - b(p) /\ Nesting(t)[q] = a(q) - b(q)
  BY <1>3, NestingIs
<1>5. a(p) \in Nat /\ b(p) \in Nat /\ a(q) = a(p) + (IF t[p] = LBR THEN 1 ELSE 0) /\ b(q) = b(p) + (IF t[p] = RBR THEN 1 ELSE 0)
  BY BracesStep
<1> HIDE DEF a, b
<1> QED BY <1>4, <1>5, ByteFacts

-----------------------------------------------------------------------------
(* What a text means up to a: the tokens of the lexemes and of the outermost *)
(* blocks that begin before a, behind the newline every chunk begins with.  *)
TokenMap(t) == [p \in Outermost(t, Nesting(t)) |-> TokenAt(t, Nesting(t), p)]
Shown(t, a) == {p \in Outermost(t, Nesting(t)) : p < a /\ TokenAt(t, Nesting(t), p).tt # ""}
Before(t, a) == <<Newline>> \o Listed(TokenMap(t), Shown(t, a))

(* A lexeme begins at a, in no block, or in the outermost block at s. *)
Outside(t, a) == a \in Begins(t) /\ \A b \in Begins(t) : b < a => ~InBlock(t, Nesting(t), b, a)
Within(t, s, a, level) ==
  /\ a \in Begins(t) /\ s \in Outermost(t, Nesting(t)) /\ s < a /\ InBlock(t, Nesting(t), s, a)
  /\ level = Nesting(t)[a] - Nesting(t)[s]

LEMMA LexemeBehind ==
  ASSUME NEW t \in Seq(Byte), NEW a \in Begins(t), a <= Len(t)
  PROVE  /\ Len(t) \in Nat /\ a \in 1 .. Len(t) /\ LexemeAt(t, a).end \in a + 1 .. Len(t) + 1
         /\ LexemeAt(t, a).end \in Begins(t)
         /\ \A b \in Begins(t) : b \in 1 .. Len(t) + 1 /\ (b <= a \/ b >= LexemeAt(t, a).end)
         /\ Nesting(t)[a] \in Int
         /\ \A q \in a + 1 .. LexemeAt(t, a).end :
              Nesting(t)[q] = Nesting(t)[a] + (IF t[a] = LBR THEN 1 ELSE IF t[a] = RBR THEN 0 - 1 ELSE 0)
<1>1. Len(t) \in Nat
  OBVIOUS
<1>2. a \in 1 .. Len(t)
  BY <1>1, BeginsFacts
<1>3. LexemeAt(t, a).end \in a + 1 .. Len(t) + 1
  BY <1>2, LexemeFacts
<1>4. a + 1 \in a + 1 .. LexemeAt(t, a).end
  BY <1>1, <1>2, <1>3
<1>5. Nesting(t)[a] \in Int
  BY <1>4, NestingStep
<1> QED BY <1>1, <1>2, <1>3, <1>5, BeginsFacts, NestingStep

(* The block a lexeme lies in goes on behind it, unless it is a brace. *)
LEMMA BlockGoesOn ==
  ASSUME NEW t \in Seq(Byte), NEW a \in Begins(t), a <= Len(t), NEW b \in Begins(t), b < a,
         InBlock(t, Nesting(t), b, a), t[a] # RBR
  PROVE  InBlock(t, Nesting(t), b, LexemeAt(t, a).end)
<1> DEFINE N == Nesting(t)
           e == LexemeAt(t, a).end
           d == IF t[a] = LBR THEN 1 ELSE IF t[a] = RBR THEN 0 - 1 ELSE 0
<1>1. /\ Len(t) \in Nat /\ a \in 1 .. Len(t) /\ e \in a + 1 .. Len(t) + 1 /\ N[a] \in Int
      /\ \A q \in a + 1 .. e : N[q] = N[a] + d
  BY LexemeBehind
<1>2. b \in 1 .. Len(t) + 1 /\ b <= Len(t) /\ N[b] \in Int
  <2>1. b \in 1 .. Len(t) + 1
    BY LexemeBehind
  <2>2. b <= Len(t)
    BY <1>1, <2>1
  <2> QED BY <2>1, <2>2, LexemeBehind
<1>3. t[b] = LBR /\ \A i \in b + 1 .. a : N[i] > N[b]
  BY DEF InBlock
<1>4. d \in {0, 1}
  OBVIOUS
<1> HIDE DEF N, e, d
<1>5. N[a] > N[b]
  BY <1>1, <1>2, <1>3
<1>6. ASSUME NEW i \in b + 1 .. e PROVE N[i] > N[b]
  <2>1. CASE i <= a
    BY <1>1, <1>2, <1>3, <2>1
  <2>2. CASE i > a
    <3>1. i \in a + 1 .. e
      BY <1>1, <1>2, <2>2
    <3>2. N[i] = N[a] + d
      BY <1>1, <3>1
    <3> QED BY <1>1, <1>2, <1>4, <1>5, <3>2
  <2> QED BY <1>1, <1>2, <2>1, <2>2
<1> QED BY <1>3, <1>6 DEF InBlock, N, e

LEMMA BlockShorter ==
  ASSUME NEW t, NEW nest, NEW b \in Int, NEW a \in Int, NEW e \in Int, a <= e, InBlock(t, nest, b, e)
  PROVE  InBlock(t, nest, b, a)
<1>1. \A i \in b + 1 .. a : i \in b + 1 .. e
  OBVIOUS
<1> QED BY <1>1 DEF InBlock

(* A lexeme that lies in no block has its token; so has an outermost block. *)
LEMMA MapAt ==
  ASSUME NEW t, NEW p \in Outermost(t, Nesting(t))
  PROVE  TokenMap(t)[p] = TokenAt(t, Nesting(t), p)
BY DEF TokenMap

LEMMA OutsideOutermost ==
  ASSUME NEW t \in Seq(Byte), NEW a, Outside(t, a), a <= Len(t)
  PROVE  a \in Outermost(t, Nesting(t))
<1>1. a # Len(t) + 1
  <2>1. Len(t) \in Nat
    OBVIOUS
  <2> QED BY <2>1
<1> QED BY <1>1 DEF Outside, Outermost

LEMMA ListedConcat ==
  ASSUME NEW f, NEW S, Cardinality(S) \in Nat, NEW x, NEW y
  PROVE  <<x>> \o (Listed(f, S) \o <<y>>) = Append(<<x>> \o Listed(f, S), y)
<1> DEFINE n == Cardinality(S)
           v(k) == f[Least({i \in S : Cardinality({j \in S : j <= i}) = k})]
           s == Listed(f, S)
           U == {v(k) : k \in 1 .. n} \cup {x, y}
<1>1. s = [k \in 1 .. n |-> v(k)]
  BY DEF Listed
<1>2. \A k \in 1 .. n : v(k) \in U
  OBVIOUS
<1> HIDE DEF n, v, s
<1>3. x \in U /\ y \in U
  OBVIOUS
<1> HIDE DEF U
<1>4. s \in Seq(U)
  BY <1>1, <1>2 DEF n
<1>5. \A q \in Seq(U) : <<x>> \o (q \o <<y>>) = Append(<<x>> \o q, y)
  BY <1>3
<1> QED BY <1>4, <1>5 DEF s

LEMMA ShownFinite ==
  ASSUME NEW t \in Seq(Byte), NEW S \in SUBSET Outermost(t, Nesting(t))
  PROVE  IsFiniteSet(S) /\ Cardinality(S) \in Nat /\ S \subseteq 1 .. Len(t)
<1>1. Len(t) \in Nat
  OBVIOUS
<1>2. Begins(t) \subseteq 1 .. Len(t) + 1
  BY BeginsFacts
<1>3. Outermost(t, Nesting(t)) \subseteq 1 .. Len(t)
  BY <1>1, <1>2 DEF Outermost
<1>4. IsFiniteSet(1 .. Len(t))
  BY <1>1, FS_Interval
<1>5. S \subseteq 1 .. Len(t)
  BY <1>3
<1>6. IsFiniteSet(S)
  BY <1>4, <1>5, FS_Subset
<1> QED BY <1>5, <1>6, FS_CardinalityType

(* The next outermost lexeme's token is put behind those before it. *)
LEMMA BeforeStep ==
  ASSUME NEW t \in Seq(Byte), NEW s \in Outermost(t, Nesting(t)), NEW e,
         \A p \in Outermost(t, Nesting(t)) : p < e <=> p <= s
  PROVE  Before(t, e) = IF TokenAt(t, Nesting(t), s).tt = "" THEN Before(t, s)
                        ELSE Append(Before(t, s), TokenAt(t, Nesting(t), s))
<1> DEFINE O == Outermost(t, Nesting(t))
           f == TokenMap(t)
           S == Shown(t, s)
           T == Shown(t, e)
           shows(p) == TokenAt(t, Nesting(t), p).tt # ""
           v == TokenAt(t, Nesting(t), s)
<1>1. S = {p \in O : p < s /\ shows(p)} /\ T = {p \in O : p < e /\ shows(p)}
  BY DEF Shown
<1>2. S \in SUBSET O /\ s \in O
  BY <1>1
<1>3. IsFiniteSet(S) /\ Cardinality(S) \in Nat /\ S \subseteq 1 .. Len(t) /\ O \subseteq 1 .. Len(t)
  BY <1>2, ShownFinite
<1>4. s \in Int /\ S \in SUBSET Int /\ O \in SUBSET Int
  BY <1>2, <1>3
<1>5. f[s] = v
  BY <1>2, MapAt
<1> HIDE DEF O, f, S, T, shows
<1>6. \A p \in O : p < e <=> p <= s
  BY DEF O
<1>7. \A i \in S : i < s
  BY <1>1
<1>8. T = IF shows(s) THEN S \cup {s} ELSE S
  <2>1. \A p \in O : p < e <=> (p < s \/ p = s)
    BY <1>2, <1>4, <1>6
  <2> QED BY <1>1, <1>2, <2>1
<1>9. Before(t, s) = <<Newline>> \o Listed(f, S) /\ Before(t, e) = <<Newline>> \o Listed(f, T)
  BY DEF Before, f, S, T
<1>10. CASE shows(s)
  <2>1. Listed(f, T) = Listed(f, S) \o <<v>>
    BY <1>3, <1>4, <1>5, <1>7, <1>8, <1>10, ListedAppend
  <2>2. Before(t, e) = Append(Before(t, s), v)
    BY <1>3, <1>9, <2>1, ListedConcat
  <2> QED BY <1>10, <2>2 DEF shows
<1>11. CASE ~shows(s)
  <2>1. T = S
    BY <1>8, <1>11
  <2>2. Before(t, e) = Before(t, s)
    BY <1>9, <2>1
  <2> QED BY <1>11, <2>2 DEF shows
<1> QED BY <1>10, <1>11

-----------------------------------------------------------------------------
(* A lexeme outside of the blocks is passed. *)
LEMMA OutsideFirst ==
  ASSUME NEW t \in Seq(Byte)
  PROVE  Outside(t, 1) /\ Before(t, 1) = <<Newline>>
<1>1. \A b \in Begins(t) : b \in Int /\ ~(b < 1)
  BY BeginsFacts
<1>2. 1 \in Begins(t)
  BY BeginsFacts
<1>3. Outside(t, 1)
  BY <1>1, <1>2 DEF Outside
<1>4. Outermost(t, Nesting(t)) \subseteq Begins(t)
  BY DEF Outermost
<1>5. Shown(t, 1) = {}
  BY <1>1, <1>4 DEF Shown
<1>6. Before(t, 1) = <<Newline>> \o <<>>
  BY <1>5, ListedEmpty DEF Before
<1>7. \A x : <<x>> \o <<>> = <<x>>
  OBVIOUS
<1> QED BY <1>3, <1>6, <1>7

LEMMA OutsidePasses ==
  ASSUME NEW t \in Seq(Byte), NEW a, Outside(t, a), a <= Len(t), t[a] # LBR
  PROVE  /\ Outside(t, LexemeAt(t, a).end)
         /\ Before(t, LexemeAt(t, a).end) =
              IF LexemeAt(t, a).tt = "" THEN Before(t, a)
              ELSE Append(Before(t, a), [tt |-> LexemeAt(t, a).tt, text |-> LexemeAt(t, a).text])
<1> DEFINE N == Nesting(t)
           e == LexemeAt(t, a).end
           O == Outermost(t, N)
           l == LexemeAt(t, a)
           r == [tt |-> l.tt, text |-> l.text]
<1>1. a \in Begins(t) /\ \A b \in Begins(t) : b < a => ~InBlock(t, N, b, a)
  BY DEF Outside
<1>2. /\ Len(t) \in Nat /\ a \in 1 .. Len(t) /\ e \in a + 1 .. Len(t) + 1 /\ e \in Begins(t)
      /\ \A b \in Begins(t) : b \in 1 .. Len(t) + 1 /\ (b <= a \/ b >= e)
  BY <1>1, LexemeBehind
<1>3. a \in O
  BY OutsideOutermost
<1>4. O \subseteq Begins(t)
  BY DEF Outermost
<1>5. TokenAt(t, N, a) = r
  BY DEF TokenAt
<1>6. r.tt = l.tt
  OBVIOUS
<1> HIDE DEF N, e, O, l, r
<1>7. ASSUME NEW b \in Begins(t), b < e PROVE ~InBlock(t, N, b, e)
  <2>1. b <= a /\ b \in Int /\ a \in Int /\ e \in Int /\ a <= e
    BY <1>2, <1>7
  <2>2. CASE b = a
    BY <2>2 DEF InBlock
  <2>3. CASE b # a
    <3>1. b < a
      BY <2>1, <2>3
    <3>2. ~InBlock(t, N, b, a)
      BY <1>1, <3>1
    <3> QED BY <2>1, <3>2, BlockShorter
  <2> QED BY <2>2, <2>3
<1>8. Outside(t, e)
  BY <1>2, <1>7 DEF Outside, N
<1>9. \A p \in O : p < e <=> p <= a
  BY <1>2, <1>4
<1>10. Before(t, e) = IF TokenAt(t, N, a).tt = "" THEN Before(t, a) ELSE Append(Before(t, a), TokenAt(t, N, a))
  BY <1>3, <1>9, BeforeStep DEF N, O
<1>11. Before(t, e) = IF l.tt = "" THEN Before(t, a) ELSE Append(Before(t, a), r)
  BY <1>5, <1>6, <1>10
<1> QED BY <1>8, <1>11 DEF e, l, r

(* A block is entered. *)
LEMMA OutsideOpens ==
  ASSUME NEW t \in Seq(Byte), NEW a, Outside(t, a), a <= Len(t), t[a] = LBR
  PROVE  Within(t, a, a + 1, 1)
<1> DEFINE N == Nesting(t)
           e == LexemeAt(t, a).end
<1>1. a \in Begins(t)
  BY DEF Outside
<1>2. /\ Len(t) \in Nat /\ a \in 1 .. Len(t) /\ e \in a + 1 .. Len(t) + 1 /\ e \in Begins(t) /\ N[a] \in Int
      /\ \A q \in a + 1 .. e : N[q] = N[a] + (IF t[a] = LBR THEN 1 ELSE IF t[a] = RBR THEN 0 - 1 ELSE 0)
  BY <1>1, LexemeBehind
<1>3. e = a + 1
  BY <1>2, LexemeFacts
<1>4. a \in Outermost(t, N)
  BY OutsideOutermost
<1> HIDE DEF N, e
<1>5. N[a + 1] = N[a] + 1 /\ a < a + 1
  BY <1>2, <1>3
<1>6. \A i \in a + 1 .. a + 1 : i = a + 1
  BY <1>2
<1>7. N[a + 1] > N[a] /\ N[a + 1] - N[a] = 1
  BY <1>2, <1>5
<1>8. InBlock(t, N, a, a + 1)
  BY <1>6, <1>7 DEF InBlock
<1> QED BY <1>2, <1>3, <1>4, <1>5, <1>7, <1>8 DEF Within, N

(* A lexeme in a block is passed; an inner block is opened. *)
LEMMA WithinFacts ==
  ASSUME NEW t \in Seq(Byte), NEW s, NEW a, NEW level, Within(t, s, a, level)
  PROVE  /\ Len(t) \in Nat /\ s \in Begins(t) /\ s \in 1 .. Len(t) /\ a \in Begins(t) /\ a \in 1 .. Len(t) + 1 /\ s < a
         /\ s \in Outermost(t, Nesting(t)) /\ InBlock(t, Nesting(t), s, a)
         /\ \A b \in Begins(t) : b < s => ~InBlock(t, Nesting(t), b, s)
         /\ Nesting(t)[s] \in Int /\ level = Nesting(t)[a] - Nesting(t)[s]
<1>1. /\ s \in Begins(t) /\ a \in Begins(t) /\ s < a /\ s \in Outermost(t, Nesting(t)) /\ InBlock(t, Nesting(t), s, a)
      /\ \A b \in Begins(t) : b < s => ~InBlock(t, Nesting(t), b, s)
      /\ level = Nesting(t)[a] - Nesting(t)[s]
  BY DEF Within, Outermost
<1>2. Len(t) \in Nat
  OBVIOUS
<1>3. a \in 1 .. Len(t) + 1 /\ s \in 1 .. Len(t) + 1
  BY <1>1, BeginsFacts
<1>4. s \in 1 .. Len(t)
  BY <1>1, <1>2, <1>3
<1>5. s <= Len(t)
  BY <1>2, <1>4
<1>6. Nesting(t)[s] \in Int
  BY <1>1, <1>5, LexemeBehind
<1> QED BY <1>1, <1>2, <1>3, <1>4, <1>6

LEMMA WithinPasses ==
  ASSUME NEW t \in Seq(Byte), NEW s, NEW a, NEW level, Within(t, s, a, level), a <= Len(t), t[a] # RBR
  PROVE  Within(t, s, LexemeAt(t, a).end, IF t[a] = LBR THEN level + 1 ELSE level)
<1> DEFINE N == Nesting(t)
           e == LexemeAt(t, a).end
           up == IF t[a] = LBR THEN level + 1 ELSE level
<1>1. /\ Len(t) \in Nat /\ s \in Begins(t) /\ s \in 1 .. Len(t) /\ a \in Begins(t) /\ s < a
      /\ s \in Outermost(t, N) /\ InBlock(t, N, s, a) /\ N[s] \in Int /\ level = N[a] - N[s]
  BY WithinFacts
<1>2. /\ a \in 1 .. Len(t) /\ e \in a + 1 .. Len(t) + 1 /\ e \in Begins(t) /\ N[a] \in Int
      /\ \A q \in a + 1 .. e : N[q] = N[a] + (IF t[a] = LBR THEN 1 ELSE IF t[a] = RBR THEN 0 - 1 ELSE 0)
  BY <1>1, LexemeBehind
<1>3. InBlock(t, N, s, e)
  BY <1>1, BlockGoesOn
<1> HIDE DEF N, e
<1>4. e \in a + 1 .. e /\ s < e
  BY <1>1, <1>2
<1>5. N[e] = N[a] + (IF t[a] = LBR THEN 1 ELSE 0)
  BY <1>2, <1>4
<1>6. up = N[e] - N[s]
  BY <1>1, <1>2, <1>5
<1> HIDE DEF up
<1>7. Within(t, s, e, up)
  BY <1>1, <1>2, <1>3, <1>4, <1>6 DEF Within, N
<1> QED BY <1>7 DEF e, up

(* An inner block is closed. *)
LEMMA WithinCloses ==
  ASSUME NEW t \in Seq(Byte), NEW s, NEW a, NEW level, Within(t, s, a, level), a <= Len(t), t[a] = RBR, level > 1
  PROVE  Within(t, s, a + 1, level - 1)
<1> DEFINE N == Nesting(t)
           e == a + 1
           down == level - 1
<1>1. /\ Len(t) \in Nat /\ s \in Begins(t) /\ s \in 1 .. Len(t) /\ a \in Begins(t) /\ s < a
      /\ s \in Outermost(t, N) /\ InBlock(t, N, s, a) /\ N[s] \in Int /\ level = N[a] - N[s]
  BY WithinFacts
<1>2. /\ a \in 1 .. Len(t) /\ LexemeAt(t, a).end \in Begins(t) /\ N[a] \in Int
      /\ \A q \in a + 1 .. LexemeAt(t, a).end : N[q] = N[a] + (IF t[a] = LBR THEN 1 ELSE IF t[a] = RBR THEN 0 - 1 ELSE 0)
  BY <1>1, LexemeBehind
<1>3. LexemeAt(t, a).end = e
  BY <1>2, LexemeFacts
<1> HIDE DEF N
<1>4. e \in Begins(t) /\ e \in a + 1 .. e /\ s < e
  BY <1>1, <1>2, <1>3
<1>5. N[e] = N[a] - 1
  BY <1>2, <1>3, <1>4, ByteFacts
<1>6. down = N[e] - N[s] /\ N[e] > N[s]
  BY <1>1, <1>2, <1>5
<1>7. \A i \in s + 1 .. e : i \in s + 1 .. a \/ i = e
  BY <1>1, <1>2
<1>8. InBlock(t, N, s, e)
  BY <1>1, <1>6, <1>7 DEF InBlock
<1> HIDE DEF e, down
<1>9. Within(t, s, e, down)
  BY <1>1, <1>4, <1>6, <1>8 DEF Within, N
<1> QED BY <1>9 DEF e, down

(* What lies in an outermost block is not outermost. *)
LEMMA OutermostWithin ==
  ASSUME NEW t \in Seq(Byte), NEW s \in Begins(t), NEW a \in Int, InBlock(t, Nesting(t), s, a), s <= a,
         NEW p \in Outermost(t, Nesting(t)), p <= a
  PROVE  p <= s
<1>1. s \in Int /\ p \in Int /\ \A b \in Begins(t) : b < p => ~InBlock(t, Nesting(t), b, p)
  BY BeginsFacts DEF Outermost
<1>2. SUFFICES ASSUME p > s PROVE FALSE
  BY <1>1
<1>3. InBlock(t, Nesting(t), s, p)
  BY <1>1, BlockShorter
<1> QED BY <1>1, <1>2, <1>3

-----------------------------------------------------------------------------
LEMMA NestingInt ==
  ASSUME NEW t \in Seq(Byte), NEW q \in 1 .. Len(t) + 1
  PROVE  Nesting(t)[q] \in Int
<1>1. ASSUME NEW ch PROVE Braces(t, ch, q) \in Nat
  <2> DEFINE S == {i \in Begins(t) : i < q /\ t[i] = ch}
  <2>1. S \subseteq 1 .. Len(t) + 1
    BY BeginsFacts
  <2>2. IsFiniteSet(1 .. Len(t) + 1)
    BY FS_Interval
  <2> HIDE DEF S
  <2>3. Cardinality(S) \in Nat
    BY <2>1, <2>2, FS_Subset, FS_CardinalityType
  <2> QED BY <2>3 DEF Braces, S
<1> DEFINE a == Braces(t, LBR, q)
           b == Braces(t, RBR, q)
<1>2. a \in Nat /\ b \in Nat /\ Nesting(t)[q] = a - b
  BY <1>1, NestingIs
<1> HIDE DEF a, b
<1> QED BY <1>2

(* An outermost block is closed. *)
LEMMA WithinEnds ==
  ASSUME NEW t \in Seq(Byte), NEW s, NEW a, Within(t, s, a, 1), a <= Len(t), t[a] = RBR
  PROVE  /\ Outside(t, a + 1)
         /\ Before(t, a + 1) = Append(Before(t, s), [tt |-> "CODE", text |-> SubSeq(t, s + 1, a - 1)])
<1> DEFINE N == Nesting(t)
           O == Outermost(t, N)
           L == Len(t)
           e == a + 1
           r == [tt |-> "CODE", text |-> SubSeq(t, s + 1, a - 1)]
           S == {q \in s + 1 .. L + 1 : N[q] <= N[s]}
<1>1. /\ L \in Nat /\ s \in Begins(t) /\ s \in 1 .. L /\ a \in Begins(t) /\ s < a
      /\ s \in O /\ InBlock(t, N, s, a) /\ N[s] \in Int /\ 1 = N[a] - N[s]
      /\ \A b \in Begins(t) : b < s => ~InBlock(t, N, b, s)
  BY WithinFacts
<1>2. /\ a \in 1 .. L /\ LexemeAt(t, a).end \in Begins(t) /\ N[a] \in Int
      /\ \A q \in a + 1 .. LexemeAt(t, a).end : N[q] = N[a] + (IF t[a] = LBR THEN 1 ELSE IF t[a] = RBR THEN 0 - 1 ELSE 0)
      /\ \A b \in Begins(t) : b \in 1 .. L + 1 /\ (b <= a \/ b >= LexemeAt(t, a).end)
  BY <1>1, LexemeBehind
<1>3. LexemeAt(t, a).end = e
  BY <1>2, LexemeFacts
<1>4. t[s] = LBR /\ \A i \in s + 1 .. a : N[i] > N[s]
  BY <1>1 DEF InBlock
<1>5. \A q \in 1 .. L + 1 : N[q] \in Int
  BY NestingInt
<1>6. O \subseteq Begins(t)
  BY DEF Outermost
<1>7. r.tt = "CODE"
  OBVIOUS
<1> HIDE DEF N, O, r
<1>8. e \in Begins(t) /\ e \in a + 1 .. e /\ e \in Int /\ e <= L + 1 /\ s < e /\ a <= e
  BY <1>1, <1>2, <1>3
<1>9. N[e] = N[s]
  <2>1. N[e] = N[a] - 1
    BY <1>2, <1>3, <1>8, ByteFacts
  <2> QED BY <1>1, <1>2, <2>1
<1>10. ASSUME NEW b \in Begins(t), b < e PROVE ~InBlock(t, N, b, e)
  <2>1. b <= a /\ b \in 1 .. L + 1 /\ b \in Int
    BY <1>2, <1>8, <1>10
  <2>2. CASE b < s
    <3>1. ~InBlock(t, N, b, s)
      BY <1>1, <2>2
    <3> QED BY <1>1, <1>8, <2>1, <3>1, BlockShorter
  <2>3. CASE b >= s
    <3>1. N[b] >= N[s]
      <4>1. CASE b = s
        BY <1>1, <4>1
      <4>2. CASE b # s
        <5>1. b \in s + 1 .. a
          BY <1>1, <1>2, <2>1, <2>3, <4>2
        <5>2. N[b] > N[s]
          BY <1>4, <5>1
        <5> QED BY <1>1, <1>5, <2>1, <5>2
      <4> QED BY <4>1, <4>2
    <3>2. ~(N[e] > N[b])
      BY <1>1, <1>5, <1>9, <2>1, <3>1
    <3>3. e \in b + 1 .. e
      BY <1>8, <1>10, <2>1
    <3> QED BY <3>2, <3>3 DEF InBlock
  <2> QED BY <1>1, <2>1, <2>2, <2>3
<1>11. Outside(t, e)
  BY <1>8, <1>10 DEF Outside, N
<1>12. Least(S) = e
  <2>1. e \in S
    <3>1. e \in s + 1 .. L + 1
      BY <1>1, <1>8
    <3>2. N[e] <= N[s]
      BY <1>1, <1>9
    <3> QED BY <3>1, <3>2
  <2>2. S \in SUBSET Nat
    BY <1>1
  <2>3. ASSUME NEW j \in S PROVE e <= j
    <3>1. j \in s + 1 .. L + 1 /\ N[j] <= N[s] /\ N[j] \in Int
      BY <1>1, <1>5
    <3>2. ~(N[j] > N[s])
      BY <1>1, <3>1
    <3>3. ~(j \in s + 1 .. a)
      BY <1>4, <3>2
    <3> QED BY <1>1, <1>2, <3>1, <3>3
  <2> HIDE DEF S, e
  <2> QED BY <2>1, <2>2, <2>3, LeastEquals
<1>13. ~InBlock(t, N, s, L + 1)
  <2>1. e \in s + 1 .. L + 1 /\ ~(N[e] > N[s])
    BY <1>1, <1>8, <1>9
  <2> QED BY <2>1 DEF InBlock
<1>14. TokenAt(t, N, s) = r
  <2>1. e - 2 = a - 1
    BY <1>2
  <2>2. TokenAt(t, N, s) = [tt |-> "CODE", text |-> SubSeq(t, s + 1, Least(S) - 2)]
    BY <1>4, <1>13 DEF TokenAt
  <2> HIDE DEF S, e
  <2>3. TokenAt(t, N, s) = [tt |-> "CODE", text |-> SubSeq(t, s + 1, a - 1)]
    BY <1>12, <2>1, <2>2
  <2> QED BY <2>3 DEF r
<1>15. \A p \in O : p < e <=> p <= s
  <2>1. ASSUME NEW p \in O PROVE p < e <=> p <= s
    <3>1. p \in Begins(t) /\ p \in Int
      BY <1>2, <1>6
    <3>2. p <= a => p <= s
      BY <1>1, <1>2, OutermostWithin DEF O, N
    <3> QED BY <1>1, <1>2, <3>1, <3>2
  <2> QED BY <2>1
<1>16. Before(t, e) = IF TokenAt(t, N, s).tt = "" THEN Before(t, s) ELSE Append(Before(t, s), TokenAt(t, N, s))
  BY <1>1, <1>15, BeforeStep DEF N, O
<1>17. "CODE" # ""
  OBVIOUS
<1>18. Before(t, e) = Append(Before(t, s), r)
  <2> HIDE DEF e
  <2> QED BY <1>7, <1>14, <1>16, <1>17
<1> QED BY <1>11, <1>18 DEF e, r

(* An outermost block is not closed. *)
LEMMA WithinUnclosed ==
  ASSUME NEW t \in Seq(Byte), NEW s, NEW level, Within(t, s, Len(t) + 1, level)
  PROVE  Unclosed(t) /\ Before(t, Len(t) + 1) = Append(Before(t, s), [tt |-> "ERR", text |-> <<>>])
<1> DEFINE N == Nesting(t)
           O == Outermost(t, N)
           L == Len(t)
           r == [tt |-> "ERR", text |-> <<>>]
<1>1. L \in Nat /\ s \in Begins(t) /\ s \in 1 .. L /\ s < L + 1 /\ s \in O /\ InBlock(t, N, s, L + 1)
  BY WithinFacts
<1>2. Unclosed(t)
  BY <1>1 DEF Unclosed, N, L
<1>3. TokenAt(t, N, s) = r
  BY <1>1 DEF TokenAt, InBlock
<1>4. r.tt = "ERR" /\ "ERR" # ""
  OBVIOUS
<1>5. \A p \in O : p \in Begins(t) /\ p # L + 1
  BY DEF Outermost
<1>6. \A b \in Begins(t) : b \in 1 .. L + 1
  BY BeginsFacts
<1> DEFINE e == L + 1
<1>7. e \in Int /\ InBlock(t, N, s, e) /\ s <= e
  BY <1>1
<1> HIDE DEF N, O, r, e
<1>8. \A p \in O : p < e <=> p <= s
  <2>1. ASSUME NEW p \in O PROVE p < e <=> p <= s
    <3>1. p <= e => p <= s
      BY <1>1, <1>7, OutermostWithin DEF O, N
    <3>2. p \in Int /\ p <= e /\ p < e
      BY <1>1, <1>5, <1>6 DEF e
    <3> QED BY <3>1, <3>2
  <2> QED BY <2>1
<1>9. Before(t, e) = IF TokenAt(t, N, s).tt = "" THEN Before(t, s) ELSE Append(Before(t, s), TokenAt(t, N, s))
  BY <1>1, <1>8, BeforeStep DEF N, O
<1>10. Before(t, e) = Append(Before(t, s), r)
  BY <1>3, <1>4, <1>9
<1> QED BY <1>2, <1>10 DEF e, r

(* The end of the text is reached. *)
LEMMA TokensOfIs ==
  ASSUME NEW t \in Seq(Byte)
  PROVE  /\ ~Unclosed(t) => <<Newline>> \o TokensOf(t) = Before(t, Len(t) + 1)
         /\ Unclosed(t) => <<Newline>> \o TokensOf(t) = Append(Before(t, Len(t) + 1), Newline)
<1> DEFINE N == Nesting(t)
           O == Outermost(t, N)
           f == TokenMap(t)
           e == Len(t) + 1
           S == {p \in DOMAIN f : f[p].tt # ""}
           s == Listed(f, S)
<1>1. DOMAIN f = O /\ \A p \in O : f[p] = TokenAt(t, N, p)
  BY DEF TokenMap
<1>2. \A p \in O : p < e
  <2>1. \A p \in O : p \in Begins(t) /\ p # Len(t) + 1
    BY DEF Outermost
  <2>2. \A p \in Begins(t) : p \in 1 .. Len(t) + 1
    BY BeginsFacts
  <2>3. Len(t) \in Nat
    OBVIOUS
  <2> QED BY <2>1, <2>2, <2>3
<1>3. TokensOf(t) = s \o (IF Unclosed(t) THEN <<Newline>> ELSE <<>>)
  BY DEF TokensOf, TokenMap
<1>4. Shown(t, e) = {p \in O : p < e /\ TokenAt(t, N, p).tt # ""}
  BY DEF Shown
<1> HIDE DEF N, O, f, e
<1>5. S = Shown(t, e)
  BY <1>1, <1>2, <1>4
<1>6. S \subseteq O
  BY <1>1
<1>7. Cardinality(S) \in Nat
  BY <1>6, ShownFinite DEF O, N
<1> HIDE DEF S
<1>8. Before(t, e) = <<Newline>> \o s
  BY <1>5 DEF Before, f
<1>9. s \o <<>> = s
  <2> DEFINE n == Cardinality(S)
             v(k) == f[Least({i \in S : Cardinality({j \in S : j <= i}) = k})]
             U == {v(k) : k \in 1 .. n}
  <2>1. s = [k \in 1 .. n |-> v(k)]
    BY DEF Listed
  <2>2. \A k \in 1 .. n : v(k) \in U
    OBVIOUS
  <2> HIDE DEF n, v, s, U
  <2>3. s \in Seq(U)
    BY <1>7, <2>1, <2>2 DEF n
  <2>4. \A q \in Seq(U) : q \o <<>> = q
    OBVIOUS
  <2> QED BY <2>3, <2>4
<1>10. <<Newline>> \o (s \o <<Newline>>) = Append(<<Newline>> \o s, Newline)
  BY <1>7, ListedConcat
<1> HIDE DEF s
<1>11. CASE Unclosed(t)
  <2>1. TokensOf(t) = s \o <<Newline>>
    BY <1>3, <1>11
  <2> QED BY <1>8, <1>10, <1>11, <2>1 DEF e
<1>12. CASE ~Unclosed(t)
  <2>1. TokensOf(t) = s
    BY <1>3, <1>9, <1>12
  <2> QED BY <1>8, <1>12, <2>1 DEF e
<1> QED BY <1>11, <1>12

LEMMA OutsideEnds ==
  ASSUME NEW t \in Seq(Byte), Outside(t, Len(t) + 1)
  PROVE  ~Unclosed(t)
<1>1. \A b \in Begins(t) : b < Len(t) + 1 => ~InBlock(t, Nesting(t), b, Len(t) + 1)
  BY DEF Outside
<1>2. \A b \in Begins(t) : b # Len(t) + 1 => b < Len(t) + 1
  <2>1. Len(t) \in Nat
    OBVIOUS
  <2> QED BY <2>1, BeginsFacts
<1> QED BY <1>1, <1>2 DEF Unclosed

-----------------------------------------------------------------------------
(* The tokens of a text t that is read up to a are those it has before a,   *)
(* or before the block that is open.  Behind a block that is not closed     *)
(* the newline at the end is read again.                                   *)
WholeOf(t, last) == last = NL \/ ~Unclosed(t)

OutsideOf(t, level, toks, a) == level = 0 /\ Outside(t, a) /\ toks = Before(t, a)
WithinOf(t, level, start, toks, a) == level > 0 /\ Within(t, start, a, level) /\ toks = Before(t, start)
AgainOf(t, last, level, toks, a) ==
  level = 0 /\ a = Len(t) /\ last = NL /\ Unclosed(t) /\ toks = Before(t, Len(t) + 1)
DoneOf(t, level, toks, a) == level = 0 /\ a >= Len(t) + 1 /\ toks = <<Newline>> \o TokensOf(t)

ToldOf(t, last, level, start, toks, a) ==
  \/ OutsideOf(t, level, toks, a) \/ WithinOf(t, level, start, toks, a)
  \/ AgainOf(t, last, level, toks, a) \/ DoneOf(t, level, toks, a)

(* A lexeme is passed. *)
LEMMA ToldPasses ==
  ASSUME NEW t \in Seq(Byte), NEW last, NEW level \in Nat, NEW start, NEW toks, NEW a \in 1 .. Len(t),
         ToldOf(t, last, level, start, toks, a), WholeOf(t, last), last = t[Len(t)],
         t[a] # LBR, ~(level > 0 /\ t[a] = RBR), NEW l, l = LexemeAt(t, a),
         NEW e \in Nat, e = l.end \/ (l.end = Len(t) + 1 /\ e > l.end /\ last # NL)
  PROVE  ToldOf(t, last, level, start,
                IF level > 0 \/ l.tt = "" THEN toks ELSE Append(toks, [tt |-> l.tt, text |-> l.text]), e)
<1> DEFINE L == Len(t)
           r == [tt |-> l.tt, text |-> l.text]
           more == IF level > 0 \/ l.tt = "" THEN toks ELSE Append(toks, r)
<1>1. L \in Nat /\ a <= L /\ l.end \in a + 1 .. L + 1
  BY LexemeFacts
<1>2. CASE OutsideOf(t, level, toks, a)
  <2>1. level = 0 /\ Outside(t, a) /\ toks = Before(t, a)
    BY <1>2 DEF OutsideOf
  <2>2. Outside(t, l.end) /\ Before(t, l.end) = IF l.tt = "" THEN Before(t, a) ELSE Append(Before(t, a), r)
    BY <1>1, <2>1, OutsidePasses
  <2> DEFINE silent == l.tt = ""
  <2> HIDE DEF r
  <2>3. more = Before(t, l.end)
    <3>1. level > 0 \/ silent <=> silent
      BY <2>1
    <3>2. more = IF level > 0 \/ silent THEN toks ELSE Append(toks, r)
      OBVIOUS
    <3>3. Before(t, l.end) = IF silent THEN toks ELSE Append(toks, r)
      BY <2>1, <2>2
    <3> HIDE DEF silent, more
    <3> QED BY <3>1, <3>2, <3>3
  <2> HIDE DEF more
  <2>4. CASE e = l.end
    BY <2>1, <2>2, <2>3, <2>4 DEF ToldOf, OutsideOf, more, r
  <2>5. CASE e # l.end
    <3>1. l.end = L + 1 /\ e > L + 1
      BY <2>5
    <3>2. Outside(t, Len(t) + 1) /\ more = Before(t, Len(t) + 1)
      BY <2>2, <2>3, <3>1
    <3>3. more = <<Newline>> \o TokensOf(t)
      BY <3>2, OutsideEnds, TokensOfIs
    <3>4. e >= Len(t) + 1
      BY <1>1, <3>1
    <3> HIDE DEF L
    <3>5. DoneOf(t, level, more, e)
      BY <2>1, <3>3, <3>4 DEF DoneOf
    <3> QED BY <3>5 DEF ToldOf, more, r
  <2> QED BY <2>4, <2>5
<1>3. CASE WithinOf(t, level, start, toks, a)
  <2>1. level > 0 /\ Within(t, start, a, level) /\ toks = Before(t, start)
    BY <1>3 DEF WithinOf
  <2>2. Within(t, start, l.end, level)
    BY <1>1, <2>1, WithinPasses
  <2>3. more = toks
    BY <2>1
  <2> HIDE DEF more
  <2>4. CASE e = l.end
    <3>1. WithinOf(t, level, start, more, e)
      BY <2>1, <2>2, <2>3, <2>4 DEF WithinOf
    <3> QED BY <3>1 DEF ToldOf, more
  <2>5. CASE e # l.end
    <3>1. l.end = Len(t) + 1 /\ last # NL
      BY <2>5
    <3>2. Within(t, start, Len(t) + 1, level)
      BY <2>2, <3>1
    <3>3. Unclosed(t)
      BY <3>2, WithinUnclosed
    <3> QED BY <3>1, <3>3 DEF WholeOf
  <2> QED BY <2>4, <2>5
<1>4. CASE AgainOf(t, last, level, toks, a)
  <2>1. level = 0 /\ a = L /\ last = NL /\ Unclosed(t) /\ toks = Before(t, Len(t) + 1)
    BY <1>4 DEF AgainOf
  <2>2. t[a] = NL
    BY <2>1
  <2>3. l = [tt |-> "INDENT", end |-> a + 1, text |-> TextOf("INDENT", t, a, a + 1)]
    BY <2>2, NewlineHandled, ByteFacts DEF LexemeAt, Handled
  <2>4. TextOf("INDENT", t, a, a + 1) = <<>>
    BY DEF TextOf
  <2> DEFINE m == [tt |-> "INDENT", end |-> a + 1, text |-> <<>>]
  <2>5. l = m
    BY <2>3, <2>4
  <2>6. m.tt = "INDENT" /\ m.end = a + 1 /\ m.text = <<>>
    OBVIOUS
  <2> HIDE DEF m
  <2>7. l.tt = "INDENT" /\ l.end = a + 1 /\ l.text = <<>>
    BY <2>5, <2>6
  <2>8. r = Newline
    BY <2>7 DEF Newline
  <2>9. "INDENT" # "" /\ ~(level > 0)
    BY <2>1
  <2> HIDE DEF r
  <2>10. more = Append(toks, Newline)
    BY <2>7, <2>8, <2>9
  <2> HIDE DEF more
  <2>11. more = <<Newline>> \o TokensOf(t)
    BY <2>1, <2>10, TokensOfIs
  <2>12. e >= Len(t) + 1
    BY <1>1, <2>1, <2>7
  <2>13. DoneOf(t, level, more, e)
    BY <2>1, <2>11, <2>12 DEF DoneOf
  <2> QED BY <2>13 DEF ToldOf, more, r
<1>5. ~DoneOf(t, level, toks, a)
  <2>1. ~(a >= Len(t) + 1)
    BY <1>1
  <2> QED BY <2>1 DEF DoneOf
<1> QED BY <1>2, <1>3, <1>4, <1>5 DEF ToldOf

(* A block is opened, or one in it. *)
LEMMA ToldOpens ==
  ASSUME NEW t \in Seq(Byte), NEW last, NEW level \in Nat, NEW start, NEW toks, NEW a \in 1 .. Len(t),
         ToldOf(t, last, level, start, toks, a), last = t[Len(t)], t[a] = LBR
  PROVE  ToldOf(t, last, level + 1, IF level = 0 THEN a ELSE start, toks, a + 1)
<1> DEFINE e == a + 1
           up == level + 1
           st == IF level = 0 THEN a ELSE start
<1>1. Len(t) \in Nat /\ a <= Len(t) /\ LexemeAt(t, a).end = e
  BY LexemeFacts
<1>2. CASE OutsideOf(t, level, toks, a)
  <2>1. level = 0 /\ Outside(t, a) /\ toks = Before(t, a)
    BY <1>2 DEF OutsideOf
  <2>2. Within(t, a, e, 1)
    BY <1>1, <2>1, OutsideOpens
  <2>3. st = a /\ up = 1 /\ up > 0
    BY <2>1
  <2> HIDE DEF e, up, st
  <2>4. WithinOf(t, up, st, toks, e)
    BY <2>1, <2>2, <2>3 DEF WithinOf
  <2> QED BY <2>4 DEF ToldOf, e, up, st
<1>3. CASE WithinOf(t, level, start, toks, a)
  <2>1. level > 0 /\ Within(t, start, a, level) /\ toks = Before(t, start)
    BY <1>3 DEF WithinOf
  <2>2. Within(t, start, e, up)
    <3>1. t[a] # RBR
      BY ByteFacts
    <3>2. Within(t, start, LexemeAt(t, a).end, IF t[a] = LBR THEN level + 1 ELSE level)
      BY <1>1, <2>1, <3>1, WithinPasses
    <3> QED BY <1>1, <3>2
  <2>3. st = start /\ up > 0
    BY <2>1
  <2> HIDE DEF e, up, st
  <2>4. WithinOf(t, up, st, toks, e)
    BY <2>1, <2>2, <2>3 DEF WithinOf
  <2> QED BY <2>4 DEF ToldOf, e, up, st
<1>4. ~AgainOf(t, last, level, toks, a)
  BY ByteFacts DEF AgainOf
<1>5. ~DoneOf(t, level, toks, a)
  <2>1. ~(a >= Len(t) + 1)
    BY <1>1
  <2> QED BY <2>1 DEF DoneOf
<1> QED BY <1>2, <1>3, <1>4, <1>5 DEF ToldOf

(* A block is closed. *)
LEMMA ToldCloses ==
  ASSUME NEW t \in Seq(Byte), NEW last, NEW level \in Nat, NEW start, NEW toks, NEW a \in 1 .. Len(t),
         ToldOf(t, last, level, start, toks, a), t[a] = RBR, level > 0
  PROVE  ToldOf(t, last, level - 1, start,
                IF level = 1 THEN Append(toks, [tt |-> "CODE", text |-> SubSeq(t, start + 1, a - 1)]) ELSE toks, a + 1)
<1> DEFINE e == a + 1
           down == level - 1
           r == [tt |-> "CODE", text |-> SubSeq(t, start + 1, a - 1)]
           more == IF level = 1 THEN Append(toks, r) ELSE toks
<1>1. Len(t) \in Nat /\ a <= Len(t) /\ level # 0
  OBVIOUS
<1>2. Within(t, start, a, level) /\ toks = Before(t, start)
  BY <1>1 DEF ToldOf, OutsideOf, WithinOf, AgainOf, DoneOf
<1>3. CASE level = 1
  <2>1. Outside(t, e) /\ Before(t, e) = Append(Before(t, start), r)
    BY <1>1, <1>2, <1>3, WithinEnds
  <2> HIDE DEF r, e
  <2>2. down = 0 /\ more = Before(t, e)
    BY <1>2, <1>3, <2>1
  <2> HIDE DEF down, more
  <2>3. OutsideOf(t, down, more, e)
    BY <2>1, <2>2 DEF OutsideOf
  <2> QED BY <2>3 DEF ToldOf, e, down, more, r
<1>4. CASE level # 1
  <2>1. level > 1 /\ down > 0 /\ more = toks
    BY <1>1, <1>4
  <2>2. Within(t, start, e, down)
    BY <1>1, <1>2, <2>1, WithinCloses
  <2> HIDE DEF e, down, more
  <2>3. WithinOf(t, down, start, more, e)
    BY <1>2, <2>1, <2>2 DEF WithinOf
  <2> QED BY <2>3 DEF ToldOf, e, down, more
<1> QED BY <1>3, <1>4

(* The text ends in a block. *)
LEMMA ToldUnclosed ==
  ASSUME NEW t \in Seq(Byte), NEW last, NEW level \in Nat, NEW start, NEW toks, NEW a \in Nat, a >= Len(t) + 1,
         ToldOf(t, last, level, start, toks, a), WholeOf(t, last), level > 0
  PROVE  ToldOf(t, last, 0, start, Append(toks, [tt |-> "ERR", text |-> <<>>]), a - 1)
<1> DEFINE r == [tt |-> "ERR", text |-> <<>>]
           down == 0
           e == a - 1
<1>1. Len(t) \in Nat /\ level # 0
  OBVIOUS
<1>2. Within(t, start, a, level) /\ toks = Before(t, start)
  BY <1>1 DEF ToldOf, OutsideOf, WithinOf, AgainOf, DoneOf
<1>3. a \in 1 .. Len(t) + 1
  BY <1>2, WithinFacts
<1>4. a = Len(t) + 1 /\ e = Len(t)
  BY <1>1, <1>3
<1> HIDE DEF r, e
<1>5. Unclosed(t) /\ Before(t, Len(t) + 1) = Append(Before(t, start), r)
  BY <1>2, <1>4, WithinUnclosed DEF r
<1>6. last = NL
  BY <1>5 DEF WholeOf
<1> DEFINE more == Append(toks, r)
<1>7. down = 0 /\ more = Before(t, Len(t) + 1)
  BY <1>2, <1>5
<1> HIDE DEF down, more
<1>8. AgainOf(t, last, down, more, e)
  BY <1>4, <1>5, <1>6, <1>7 DEF AgainOf
<1> QED BY <1>8 DEF ToldOf, r, e, down, more

(* The whole text is read. *)
LEMMA ToldEnds ==
  ASSUME NEW t \in Seq(Byte), NEW last, NEW start, NEW toks, NEW a \in Nat, a >= Len(t) + 1,
         NEW level, level = 0, ToldOf(t, last, level, start, toks, a)
  PROVE  toks = <<Newline>> \o TokensOf(t)
<1>1. Len(t) \in Nat /\ ~(level > 0) /\ a # Len(t)
  OBVIOUS
<1>2. CASE OutsideOf(t, level, toks, a)
  <2>1. Outside(t, a) /\ toks = Before(t, a)
    BY <1>2 DEF OutsideOf
  <2>2. a \in 1 .. Len(t) + 1
    BY <2>1, BeginsFacts DEF Outside
  <2>3. a = Len(t) + 1
    BY <1>1, <2>2
  <2>4. Outside(t, Len(t) + 1) /\ toks = Before(t, Len(t) + 1)
    BY <2>1, <2>3
  <2> QED BY <2>4, OutsideEnds, TokensOfIs
<1>3. CASE DoneOf(t, level, toks, a)
  BY <1>3 DEF DoneOf
<1> QED BY <1>1, <1>2, <1>3 DEF ToldOf, WithinOf, AgainOf

-----------------------------------------------------------------------------
Whole == WholeOf(Body, Final)
Told(a) == ToldOf(Body, Final, tenv.level, tenv.start, tokens, a)

TokensTold == Tokenising => \E a \in Nat : Begun(a) /\ (Whole => Told(a))
TokensInv == TokensTold /\ TokensOfChunk

LEMMA FinalByte ==
  ASSUME BaseInv, Tokenising, NEW a \in 1 .. Len(Body)
  PROVE  Final = Body[Len(Body)]
<1> DEFINE L == Len(Body)
           C == Len(Chunk)
<1>1. /\ L = C - Skipped /\ Skipped \in Nat /\ C \in Nat /\ L \in Nat /\ \A i \in 1 .. L : Body[i] = Chunk[Skipped + i]
  BY ScanFacts DEF Tokenising, Scanned
<1>2. L \in 1 .. L /\ Skipped + L = C
  <2>1. a \in 1 .. L
    OBVIOUS
  <2> HIDE DEF L, C
  <2> QED BY <1>1, <2>1
<1> HIDE DEF L, C
<1>3. Body[L] = Chunk[C]
  BY <1>1, <1>2
<1> QED BY <1>3 DEF L, C, Final

LEMMA WholeStays == ASSUME Kept PROVE Whole' = Whole /\ Final' = Final
BY DEF Kept, Whole, Final

LEMMA ToldStays ==
  ASSUME NEW a \in Nat, Stays(a), Whole => Told(a)
  PROVE  TokensInv'
<1>1. /\ Kept /\ Begun(a)' /\ phase' \in {"token", "literal", "close"}
      /\ tokens' = tokens /\ tenv'.level = tenv.level /\ tenv'.start = tenv.start
  BY DEF Stays
<1>2. Whole' = Whole /\ Final' = Final /\ Body' = Body
  BY <1>1, WholeStays DEF Kept
<1>3. Told(a)' = Told(a)
  BY <1>1, <1>2 DEF Told
<1> QED BY <1>1, <1>2, <1>3 DEF TokensInv, TokensTold, TokensOfChunk

LEMMA ToldOn ==
  ASSUME Kept, phase' = "token", NEW e \in Nat, e = tenv'.pos, NEW level, level = tenv'.level,
         NEW start, start = tenv'.start, Whole => ToldOf(Body, Final, level, start, tokens', e)
  PROVE  TokensInv'
<1>1. Begun(e)'
  BY DEF Begun
<1>2. Whole' = Whole /\ Final' = Final /\ Body' = Body
  BY WholeStays DEF Kept
<1>3. Whole' => Told(e)'
  BY <1>2 DEF Told
<1> QED BY <1>1, <1>3 DEF TokensInv, TokensTold, TokensOfChunk

LEMMA ToldPassesOn ==
  ASSUME BaseInv, BaseInv', Tokenising, NEW a \in Nat, Passes(a), Whole => Told(a)
  PROVE  TokensInv'
<1>1. PICK l : l = LexemeAt(Body, a)
  OBVIOUS
<1>2. PICK e \in Nat : e = tenv'.pos
  BY TenvFields DEF BaseInv, TenvTyped
<1> DEFINE more == IF tenv.level > 0 \/ l.tt = "" THEN tokens ELSE Append(tokens, [tt |-> l.tt, text |-> l.text])
<1>3. /\ Kept /\ phase' = "token" /\ tenv'.level = tenv.level /\ tenv'.start = tenv.start
      /\ a \in 1 .. Len(Body) /\ Body[a] # LBR /\ ~(tenv.level > 0 /\ Body[a] = RBR)
      /\ e = l.end \/ (l.end = Len(Body) + 1 /\ e > l.end /\ Final # NL)
      /\ tokens' = more
  BY <1>1, <1>2 DEF Passes, Token
<1>4. Body \in Seq(Byte) /\ tenv.level \in Nat
  BY TokenisingFacts, ScanFacts
<1>5. Final = Body[Len(Body)]
  BY <1>3, FinalByte
<1>6. ASSUME Whole PROVE ToldOf(Body, Final, tenv.level, tenv.start, more, e)
  <2>1. ToldOf(Body, Final, tenv.level, tenv.start, tokens, a) /\ WholeOf(Body, Final)
    BY <1>6 DEF Told, Whole
  <2> QED BY <1>1, <1>3, <1>4, <1>5, <2>1, ToldPasses
<1> HIDE DEF more
<1> QED BY <1>2, <1>3, <1>6, ToldOn

LEMMA ToldOpensOn ==
  ASSUME BaseInv, Tokenising, NEW a \in Nat, Begun(a), BlockOpen, Whole => Told(a)
  PROVE  TokensInv'
<1>1. /\ Chunk' = Chunk /\ Body' = Body /\ Skipped' = Skipped
      /\ phase = "token" /\ phase' = "token" /\ tenv.pos \in 1 .. Len(Body) /\ Body[tenv.pos] = LBR /\ tokens' = tokens
      /\ tenv'.pos = tenv.pos + 1 /\ tenv'.level = tenv.level + 1
      /\ tenv'.start = IF tenv.level = 0 THEN tenv.pos ELSE tenv.start
  BY BlockOpenKeeps DEF Scanning
<1>2. a = tenv.pos
  BY <1>1 DEF Begun
<1>3. Body \in Seq(Byte) /\ tenv.level \in Nat
  BY TokenisingFacts, ScanFacts
<1>4. Kept
  <2>1. tenv' = [tenv EXCEPT !.pos = @ + 1, !.level = @ + 1, !.start = IF tenv.level = 0 THEN tenv.pos ELSE @]
        /\ UNCHANGED <<vars, stream>>
    BY DEF BlockOpen
  <2> QED BY <1>1, <2>1 DEF Kept, vars, stream, BaseInv, TenvTyped, Tenv
<1>5. Final = Body[Len(Body)]
  BY <1>1, FinalByte
<1> DEFINE up == tenv.level + 1
           st == IF tenv.level = 0 THEN a ELSE tenv.start
           e == a + 1
<1>6. ASSUME Whole PROVE ToldOf(Body, Final, up, st, tokens, e)
  <2>1. ToldOf(Body, Final, tenv.level, tenv.start, tokens, a)
    BY <1>6 DEF Told
  <2> QED BY <1>1, <1>2, <1>3, <1>5, <2>1, ToldOpens
<1>7. e \in Nat /\ e = tenv'.pos /\ up = tenv'.level /\ st = tenv'.start
  BY <1>1, <1>2
<1> HIDE DEF up, st, e
<1> QED BY <1>1, <1>4, <1>6, <1>7, ToldOn

LEMMA ToldClosesOn ==
  ASSUME BaseInv, Tokenising, NEW a \in Nat, Begun(a), BlockClose, Whole => Told(a)
  PROVE  TokensInv'
<1> DEFINE more == IF tenv.level = 1 THEN Append(tokens, [tt |-> "CODE", text |-> SubSeq(Body, tenv.start + 1, a - 1)]) ELSE tokens
<1>1. /\ Chunk' = Chunk /\ Body' = Body /\ Skipped' = Skipped
      /\ phase = "token" /\ phase' = "token" /\ tenv.pos \in 1 .. Len(Body) /\ Body[tenv.pos] = RBR /\ tenv.level > 0
      /\ tenv'.pos = tenv.pos + 1 /\ tenv'.level = tenv.level - 1 /\ tenv'.start = tenv.start
  BY BlockCloseKeeps DEF Scanning
<1>2. a = tenv.pos
  BY <1>1 DEF Begun
<1>3. tokens' = more
  BY <1>2, BlockCloseKeeps
<1>4. Body \in Seq(Byte) /\ tenv.level \in Nat
  BY TokenisingFacts, ScanFacts
<1>5. Kept
  <2>1. tenv' = [tenv EXCEPT !.pos = @ + 1, !.level = @ - 1] /\ UNCHANGED <<vars, stream>>
    BY DEF BlockClose
  <2> QED BY <1>1, <2>1 DEF Kept, vars, stream, BaseInv, TenvTyped, Tenv
<1> DEFINE down == tenv.level - 1
           e == a + 1
<1>6. ASSUME Whole PROVE ToldOf(Body, Final, down, tenv.start, more, e)
  <2>1. ToldOf(Body, Final, tenv.level, tenv.start, tokens, a)
    BY <1>6 DEF Told
  <2> QED BY <1>1, <1>2, <1>4, <2>1, ToldCloses
<1>7. e \in Nat /\ e = tenv'.pos /\ down = tenv'.level /\ tenv.start = tenv'.start
  BY <1>1, <1>2
<1> HIDE DEF down, more, e
<1> QED BY <1>1, <1>3, <1>5, <1>6, <1>7, ToldOn

LEMMA ToldUnclosedOn ==
  ASSUME BaseInv, Tokenising, NEW a \in Nat, Begun(a), BlockUnclosed, Whole => Told(a)
  PROVE  TokensInv'
<1> DEFINE more == Append(tokens, [tt |-> "ERR", text |-> <<>>])
           e == a - 1
<1>1. /\ Chunk' = Chunk /\ Body' = Body /\ Skipped' = Skipped /\ phase = "token" /\ phase' \in {"token", "abort"}
      /\ tenv.pos >= Len(Body) + 1 /\ tenv.level > 0
      /\ tenv'.pos = tenv.pos - 1 /\ tenv'.level = 0 /\ tokens' = more
  BY BlockUnclosedKeeps DEF Scanning
<1>2. a = tenv.pos
  BY <1>1 DEF Begun
<1>3. Body \in Seq(Byte) /\ Len(Body) \in Nat /\ tenv.level \in Nat
  BY TokenisingFacts, ScanFacts
<1>4. Kept /\ tenv'.start = tenv.start
  <2>1. tenv' = [tenv EXCEPT !.pos = @ - 1, !.level = 0] /\ UNCHANGED <<vars, stream>>
    BY DEF BlockUnclosed
  <2> QED BY <1>1, <2>1 DEF Kept, vars, stream, BaseInv, TenvTyped, Tenv
<1>5. e \in Nat /\ e = tenv'.pos
  BY <1>1, <1>2, <1>3
<1> DEFINE none == 0
<1>6. ASSUME Whole PROVE ToldOf(Body, Final, none, tenv.start, more, e)
  <2>1. ToldOf(Body, Final, tenv.level, tenv.start, tokens, a) /\ WholeOf(Body, Final)
    BY <1>6 DEF Told, Whole
  <2> QED BY <1>1, <1>2, <1>3, <2>1, ToldUnclosed
<1>7. none = tenv'.level
  BY <1>1
<1> HIDE DEF more, e, none
<1>8. CASE phase' = "token"
  BY <1>1, <1>4, <1>5, <1>6, <1>7, <1>8, ToldOn
<1>9. CASE phase' = "abort"
  BY <1>9 DEF TokensInv, TokensTold, TokensOfChunk, Tokenising
<1> QED BY <1>1, <1>8, <1>9

LEMMA ToldEndsOn ==
  ASSUME BaseInv, Tokenising, NEW a \in Nat, Begun(a), ChunkTokenised, Whole => Told(a)
  PROVE  TokensInv'
<1>1. /\ Chunk' = Chunk /\ Body' = Body /\ phase = "token" /\ phase' = "tokenised" /\ tokens' = tokens
      /\ tenv.pos >= Len(Body) + 1 /\ tenv.level = 0
  BY TokenisedKeeps DEF Scanning
<1>2. a = tenv.pos
  BY <1>1 DEF Begun
<1>3. Body \in Seq(Byte)
  BY TokenisingFacts, ScanFacts
<1>4. ASSUME Whole PROVE tokens = <<Newline>> \o TokensOf(Body)
  <2>1. ToldOf(Body, Final, tenv.level, tenv.start, tokens, a)
    BY <1>4 DEF Told
  <2> QED BY <1>1, <1>2, <1>3, <2>1, ToldEnds
<1>5. Chunk[Len(Chunk)] = NL \/ ~Unclosed(Body) <=> Whole
  BY DEF Whole, WholeOf, Final
<1>6. TokensOfChunk'
  BY <1>1, <1>4, <1>5 DEF TokensOfChunk
<1> QED BY <1>1, <1>6 DEF TokensInv, TokensTold, Tokenising

LEMMA TokensToldStep ==
  ASSUME BaseInv, BaseInv', TokensInv, Tokenising, [ReaderNext]_readerVars
  PROVE  TokensInv'
<1>1. PICK a \in Nat : Begun(a) /\ (Whole => Told(a))
  BY DEF TokensInv, TokensTold
<1> QED
  BY <1>1, TokenStep, ToldStays, ToldPassesOn, ToldOpensOn, ToldClosesOn, ToldUnclosedOn, ToldEndsOn

-----------------------------------------------------------------------------
LEMMA ToldBegins ==
  ASSUME BaseInv, ChunkRead
  PROVE  TokensInv'
<1>1. BaseInv' /\ tenv'.pos = 1 /\ tenv'.level = 0 /\ phase' \in {"token", "empty", "refused"}
      /\ (phase' = "token" => tokens' = <<Newline>>)
  BY ChunkReadKeeps DEF Newline
<1>2. CASE phase' = "token"
  <2> DEFINE a == 1
             none == 0
  <2>1. Scanned'
    BY <1>2 DEF Scanned
  <2>2. Chunk' \in Seq(Byte) /\ ~NotKonoha'
    <3>1. Len(wb') = 2 /\ IInv'
      <4>1. Len(wb) = 2 /\ wb' = wb
        BY ChunkReadKeeps
      <4> QED BY <1>1, <4>1 DEF BaseInv
    <3>2. Own \in 1 .. Len(wb)
      <4>1. Len(wb) = 2
        BY ChunkReadKeeps
      <4> QED BY <4>1 DEF Own
    <3>3. Chunk \in Seq(Byte) /\ Chunk' = Chunk
      BY <3>2, BufferFacts, ChunkReadKeeps DEF BaseInv, Chunk
    <3> QED BY <1>1, <2>1, <3>3 DEF BaseInv, ChunkEnds
  <2>3. Chunk' = Chunk
    BY ChunkReadKeeps
  <2>4. Body \in Seq(Byte) /\ Body' = Body
    BY <2>2, <2>3, ChunkAlone, BodyFacts
  <2>5. Outside(Body, a) /\ Before(Body, a) = <<Newline>>
    BY <2>4, OutsideFirst
  <2>6. a \in Nat /\ a = tenv'.pos /\ none = tenv'.level /\ none = 0
    BY <1>1
  <2> HIDE DEF a, none
  <2>7. Begun(a)'
    BY <1>2, <2>6 DEF Begun
  <2>8. ToldOf(Body', Final', tenv'.level, tenv'.start, tokens', a)
    <3>1. OutsideOf(Body, none, tokens', a)
      BY <1>1, <1>2, <2>5, <2>6 DEF OutsideOf
    <3> QED BY <2>4, <2>6, <3>1 DEF ToldOf
  <2>9. Told(a)'
    BY <2>8 DEF Told
  <2> QED BY <1>2, <2>6, <2>7, <2>9 DEF TokensInv, TokensTold, TokensOfChunk
<1>3. CASE phase' # "token"
  BY <1>1, <1>3 DEF TokensInv, TokensTold, TokensOfChunk, Tokenising
<1> QED BY <1>2, <1>3

LEMMA TokensOutside ==
  ASSUME MaxPrint < InitMax, BaseInv, TokensInv, ~Tokenising, [ReaderNext]_readerVars
  PROVE  TokensInv'
<1>1. CASE ~(phase' = "tokenised") /\ ~Tokenising'
  BY <1>1 DEF TokensInv, TokensTold, TokensOfChunk
<1>2. CASE \E ch \in Byte : readchunk(ch) \/ readquote(ch) \/ readcomment(ch)
  <2>1. phase' \in {"read", "chunk"}
    BY <1>2, ReadsFetch
  <2> QED BY <1>1, <2>1 DEF Tokenising
<1>3. CASE NextChunk \/ FetchCR \/ FetchEOF
  <2>1. phase' \in {"read", "chunk"}
    BY <1>3 DEF NextChunk, FetchCR, FetchEOF
  <2> QED BY <1>1, <2>1 DEF Tokenising
<1>4. CASE ChunkRead
  BY <1>4, ToldBegins
<1>5. CASE UNCHANGED readerVars
  <2>1. UNCHANGED <<phase, tenv, tokens>> /\ Chunk' = Chunk /\ Body' = Body
    BY <1>5, StandsStill DEF readerVars
  <2>2. TokensOfChunk'
    BY <2>1 DEF TokensInv, TokensOfChunk
  <2>3. ~Tokenising'
    BY <2>1 DEF Tokenising
  <2> QED BY <2>2, <2>3 DEF TokensInv, TokensTold
<1>6. CASE LiteralEnd
  <2>1. phase = "close" /\ phase' = "token" /\ tenv' = tenv
    BY <1>6, LiteralEndKeeps
  <2>2. ~Tokenising' /\ phase' # "tokenised"
    BY <2>1 DEF Tokenising
  <2> QED BY <1>1, <2>2
<1>7. CASE Lexeme \/ BlockOpen \/ BlockClose \/ BlockUnclosed \/ LiteralOpen \/ LiteralByte \/ LiteralClose
           \/ LiteralUnclosed \/ ChunkTokenised
  <2>1. Scanning("token") \/ Scanning("literal")
    BY <1>7 DEF Lexeme, BlockOpen, BlockClose, BlockUnclosed, LiteralOpen, LiteralByte, LiteralClose,
                LiteralUnclosed, ChunkTokenised
  <2> QED BY <2>1 DEF Scanning, Tokenising
<1>8. CASE ReadFreed \/ EvalStart \/ Statement
           \/ (\E goon \in BOOLEAN : phase \in {"run", "empty", "refused"} /\ ChunkFree(goon))
  <2>1. phase' \in {"astray", "run", "start", "end"}
    BY <1>8, AstrayKeeps, EvalStartKeeps, StatementKeeps, ChunkFreeKeeps
  <2> QED BY <1>1, <2>1 DEF Tokenising
<1> QED BY <1>2, <1>3, <1>4, <1>5, <1>6, <1>7, <1>8, StepIs

LEMMA TokensHold == MaxPrint < InitMax => (ReaderSpec => []TokensInv)
<1> SUFFICES ASSUME MaxPrint < InitMax PROVE ReaderSpec => []TokensInv
  OBVIOUS
<1>1. ReaderInit => TokensInv
  BY DEF ReaderInit, TokensInv, TokensTold, TokensOfChunk, Tokenising
<1>2. BaseInv /\ TokensInv /\ [ReaderNext]_readerVars => TokensInv'
  BY BaseStep, TokensToldStep, TokensOutside
<1> QED BY <1>1, <1>2, BaseHolds, PTL DEF ReaderSpec

(* What tokenize makes of a chunk in the array of the write buffers is what *)
(* the chunk's text means by itself: no literal collected behind it, over   *)
(* the zero that ends it, nor a block that is read to its end, changes a    *)
(* token, whatever the text, unless the file ends without a newline in a    *)
(* block.                                                                  *)
THEOREM TokensAreTheTexts == MaxPrint < InitMax => (ReaderSpec => []TokensOfChunk)
<1>1. TokensInv => TokensOfChunk
  BY DEF TokensInv
<1> QED BY <1>1, TokensHold, PTL
=============================================================================
