-------------------------------- MODULE Pow2 --------------------------------
(***************************************************************************)
(* NextPow2_u8 to NextPow2_u64 of src/util.c: the four functions are one,  *)
(* by the width w of their argument.  Arithmetic is modulo 2^w.            *)
(***************************************************************************)
EXTENDS Integers, Bitwise, SequencesExt

(* A |= A >> s. *)
Smear(a, s) == a | (a \div 2^s)

(* The shifts of the function of width w: 1, 2, 4 up to w / 2. *)
Shifts(w) == SelectSeq(<<1, 2, 4, 8, 16, 32>>, LAMBDA s : s < w)

NextPow2_u(w, n) ==
    LET a == (FoldLeft(Smear, (n - 1) % 2^w, Shifts(w)) + 1) % 2^w
    IN  a | (IF a = 0 THEN 1 ELSE 0)

(* The reference: the least power of two that is no less than n; 1 where   *)
(* the width has none.                                                     *)
LeastPow2(w, n) ==
    LET above == {2^k : k \in 0..(w - 1)} \cap {p \in 1..(2^w - 1) : n <= p}
    IN  IF above = {} THEN 1 ELSE CHOOSE p \in above : \A q \in above : p <= q
=============================================================================
