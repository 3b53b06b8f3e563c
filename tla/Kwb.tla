--------------------------------- MODULE Kwb ---------------------------------
(***************************************************************************)
(* Write buffers, src/src/konoha/klibexec.h: a kwb_t is a position in a    *)
(* growing array (karray_t) that several of them share, opened and freed   *)
(* like a stack (loadstream's chunk, a string literal, a message ...).     *)
(*                                                                         *)
(* A byte is a number; 0 ends a string.  A write through a size that       *)
(* wrapped below zero, or at an address past the array, is `overrun'.      *)
(***************************************************************************)
EXTENDS Integers, Sequences

CONSTANTS
  Byte,      \* the bytes that are written, 0 excepted
  InitMax,   \* bytemax of the new array (KARRAY_INIT)
  MaxWrite,  \* the longest string Kwb_write is given
  MaxPrint,  \* the longest string a format produces
  MaxBytes,  \* bound on bytesize
  MaxOpen    \* bound on the buffers open at a time

ASSUME SizeAssumption ==
  /\ InitMax \in Nat \ {0} /\ MaxWrite \in Nat /\ MaxPrint \in Nat
  /\ MaxBytes \in Nat /\ MaxOpen \in Nat /\ 0 \notin Byte

VARIABLES
  bytesize, bytemax,  \* of the shared karray_t
  bytebuf,            \* its bytes, from index 0
  wb,                 \* the open buffers: pos, and the text written so far
  overrun             \* memory past the array was written

vars == <<bytesize, bytemax, bytebuf, wb, overrun>>

(* A write buffer exists only through its array: the text is what its      *)
(* owner has written, and no part of the program's state.                  *)
Init ==
  /\ bytesize = 0 /\ bytemax = InitMax /\ bytebuf = [i \in 0 .. InitMax - 1 |-> 0]
  /\ wb = <<>> /\ overrun = FALSE

Larger(a, b) == IF a < b THEN b ELSE a

(* karray_expand: at least twice the size, the new part is zero. *)
Expanded(minsize) == Larger(2 * bytemax, minsize)

(* karray_resize, memcpy: the bytes of an array of n bytes after t is      *)
(* written at its position s; what lies past its end is lost.              *)
Written(n, s, t) ==
  [i \in 0 .. n - 1 |-> IF i \in s .. s + Len(t) - 1 THEN t[i - s + 1]
                        ELSE IF i < bytemax THEN bytebuf[i] ELSE 0]

Wrote(t) == wb' = [wb EXCEPT ![Len(wb)].text = @ \o t]

(* Strings of one byte, repeated. *)
Text(n) == {[i \in 1 .. m |-> b] : m \in 0 .. n, b \in Byte}

-----------------------------------------------------------------------------
(* Kwb_init *)
Open ==
  /\ Len(wb) < MaxOpen
  /\ wb' = Append(wb, [pos |-> bytesize, text |-> <<>>])
  /\ UNCHANGED <<bytesize, bytemax, bytebuf, overrun>>

(* Kwb_write, and Kwb_putc which collects its bytes first. *)
Write(t) ==
  /\ wb # <<>> /\ bytesize + Len(t) <= MaxBytes
  /\ bytemax' = IF bytesize + Len(t) < bytemax THEN bytemax ELSE Expanded(bytesize + Len(t))
  /\ bytebuf' = Written(bytemax', bytesize, t)
  /\ bytesize' = bytesize + Len(t) /\ Wrote(t)
  /\ overrun' = (overrun \/ bytesize + Len(t) > bytemax')

(* vsnprintf with n - bytesize bytes left: the text is cut to the room,    *)
(* one byte of which is for a zero.  A room below zero has wrapped around, *)
(* and limits nothing.                                                     *)
Formatted(n, t) ==
  LET room == n - bytesize
      len == IF 0 <= room /\ room <= Len(t) THEN room - 1 ELSE Len(t)
  IN IF room = 0 THEN Written(n, bytesize, <<>>)
     ELSE Written(n, bytesize, SubSeq(t, 1, len) \o <<0>>)

TooLong(t) == bytesize <= bytemax /\ Len(t) >= bytemax - bytesize

(* Fault: the text is not formatted again in the larger array. *)
Printf_once(t) ==
  /\ wb # <<>> /\ bytesize + Len(t) <= MaxBytes
  /\ bytemax' = IF TooLong(t) THEN Expanded(Len(t) + 1) ELSE bytemax
  /\ bytebuf' = [i \in 0 .. bytemax' - 1 |-> IF i < bytemax THEN Formatted(bytemax, t)[i] ELSE 0]
  /\ bytesize' = bytesize + Len(t) /\ Wrote(t)
  /\ overrun' = (overrun \/ bytemax < bytesize)
(* Kwb_vprintf: when the text does not fit, the array is expanded, to n + 1 *)
(* bytes at least, and the text formatted again; its full length is counted. *)
Printf(t) ==
  /\ wb # <<>> /\ bytesize + Len(t) <= MaxBytes
  /\ bytemax' = IF TooLong(t) THEN Expanded(Len(t) + 1) ELSE bytemax
  /\ bytebuf' = Formatted(bytemax', t)
  /\ bytesize' = bytesize + Len(t) /\ Wrote(t)
  /\ overrun' = (overrun \/ bytemax < bytesize)

(* Kwb_top with ensureZero: a zero behind the text. *)
Top ==
  /\ wb # <<>>
  /\ bytemax' = IF bytesize + 1 < bytemax THEN bytemax ELSE Expanded(bytesize + 1)
  /\ bytebuf' = Written(bytemax', bytesize, <<0>>)
  /\ overrun' = (overrun \/ bytesize >= bytemax')
  /\ UNCHANGED <<bytesize, wb>>

(* Fault: the text is zeroed, the size is not reset. *)
Free_size ==
  /\ wb # <<>>
  /\ bytebuf' = [i \in 0 .. bytemax - 1 |-> IF i \in wb[Len(wb)].pos .. bytesize - 1 THEN 0 ELSE bytebuf[i]]
  /\ wb' = SubSeq(wb, 1, Len(wb) - 1)
  /\ UNCHANGED <<bytesize, bytemax, overrun>>
(* Kwb_free: the text is zeroed and the array cut to the position. *)
Free ==
  /\ wb # <<>>
  /\ LET pos == wb[Len(wb)].pos
     IN /\ bytesize' = pos
        /\ bytebuf' = [i \in 0 .. bytemax - 1 |-> IF i \in pos .. bytesize - 1 THEN 0 ELSE bytebuf[i]]
  /\ wb' = SubSeq(wb, 1, Len(wb) - 1)
  /\ UNCHANGED <<bytemax, overrun>>

Next == \/ Open \/ Top \/ Free
        \/ \E t \in Text(MaxWrite) : Write(t)
        \/ \E t \in Text(MaxPrint) : Printf(t)

Spec == Init /\ [][Next]_vars

-----------------------------------------------------------------------------
(* The size of a buffer, and its text as its owner reads it. *)
End(k) == IF k = Len(wb) THEN bytesize ELSE wb[k + 1].pos
At(i) == IF i < bytemax THEN bytebuf[i] ELSE 0

Buffer == [pos : Nat, text : Seq(Byte)]

TypeOK ==
  /\ bytesize \in Nat /\ bytemax \in Nat /\ bytebuf \in [0 .. bytemax - 1 -> Byte \cup {0}]
  /\ wb \in Seq(Buffer) /\ overrun \in BOOLEAN

(* No write leaves the array, and its size never exceeds what is allocated. *)
Fits == bytesize <= bytemax /\ ~overrun

(* What was written to a buffer is what is read from it, however many      *)
(* others were opened, grew the array and were freed since.                *)
TextWhole ==
  \A k \in 1 .. Len(wb) :
    /\ End(k) - wb[k].pos = Len(wb[k].text)
    /\ \A i \in 1 .. Len(wb[k].text) : At(wb[k].pos + i - 1) = wb[k].text[i]

(* Behind the text there are only zeros: a literal that is read to its end *)
(* never runs on into an older one.                                        *)
ZeroBehind == \A i \in bytesize .. bytemax - 1 : bytebuf[i] = 0
=============================================================================
