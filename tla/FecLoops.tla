------------------------------ MODULE FecLoops ------------------------------
(***************************************************************************)
(* Loops, arrays, bits and parity, for the models of the error correcting  *)
(* codes.                                                                  *)
(***************************************************************************)
EXTENDS Integers, Sequences, FiniteSets, Bitwise, TLC

(* for(i = first; i <= last; i++) x = Op(x, i);                            *)
(* The range is halved, and the first half worked out before the second,   *)
(* which keeps TLC's stack short.                                          *)
Loop(Op(_, _), x, first, last) ==
  LET RECURSIVE Run(_, _, _)
      Run(y, lo, hi) ==
        LET mid == (lo + hi) \div 2
        IN  IF lo > hi THEN y
            ELSE IF lo = hi THEN Op(y, lo)
            ELSE CHOOSE r \in {Run(z, mid + 1, hi) : z \in {Run(y, lo, mid)}} : TRUE
  IN  Run(x, first, last)

(* What Op makes of the value of x, which is worked out once.              *)
Given(x, Op(_)) == CHOOSE r \in {Op(z) : z \in {x}} : TRUE

(* An array.  TLC works out a function at every application, but that of   *)
(* an @@ only once.                                                        *)
Array(Term(_), first, last) == [i \in first..last |-> Term(i)] @@ <<>>

(* The exclusive or of Term(first), ..., Term(last).                       *)
XorAll(Term(_), first, last) == Loop(LAMBDA x, i : x ^^ Term(i), 0, first, last)

Bit(x, k) == (x \div 2^k) % 2

(* fec.h and fec.c: the parity of a word, by a table for one octet.        *)
Partab == Array(LAMBDA i : Cardinality({k \in 0..7 : Bit(i, k) = 1}) % 2, 0, 255)
parity(x) ==
  LET y == x ^^ (x \div 65536)
  IN  Partab[(y ^^ (y \div 256)) % 256]
=============================================================================
