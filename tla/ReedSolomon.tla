----------------------------- MODULE ReedSolomon -----------------------------
(***************************************************************************)
(* The Reed-Solomon codes of fec-3.0.1: the control block, the encoder and *)
(* the decoder, for any field, generator, number of roots and padding.     *)
(*                                                                         *)
(* The code holds most values as logarithms, with A0 = nn for that of      *)
(* zero.  Here polynomials keep field elements, and the logarithm appears  *)
(* where the code uses it, also where it does so without a test for A0.    *)
(***************************************************************************)
EXTENDS FecLoops

-----------------------------------------------------------------------------
(* init_rs.h.  e is the list of arguments, w the bits of a data_t.         *)

InRange(e, w) ==
  /\ e.symsize \in 0..w
  /\ e.fcr \in 0..2^e.symsize-1
  /\ e.prim \in 1..2^e.symsize-1
  /\ e.nroots \in 0..2^e.symsize-1
  /\ e.pad \in 0..2^e.symsize-2-e.nroots

(* One turn of the shift register that runs through the powers of alpha.   *)
NextPower(e, sr) ==
  LET shifted == 2 * sr
  IN  (IF Bit(shifted, e.symsize) = 1 THEN shifted ^^ e.gfpoly ELSE shifted) % 2^e.symsize

(* The powers, up to the one with exponent nn, which the code compares     *)
(* with 1 to see whether the polynomial is primitive.                      *)
Powers(e) ==
  Loop(LAMBDA seq, i : Append(seq, NextPower(e, seq[i])), <<1>>, 1, 2^e.symsize-1)
Accepted(e) == Powers(e)[2^e.symsize] = 1

(* Log and antilog tables.  A symbol that is no power of alpha has no      *)
(* logarithm: the code leaves there what malloc returned.                  *)
AlphaTo(e) ==
  LET nn == 2^e.symsize-1
      p  == Powers(e)
  IN  Array(LAMBDA i : IF i = nn THEN 0 ELSE p[i + 1], 0, nn)
IndexOf(alpha_to, nn) ==
  [x \in {alpha_to[i] : i \in 0..nn} |->
     CHOOSE i \in 0..nn : alpha_to[i] = x /\ \A k \in i+1..nn-1 : alpha_to[k] # x] @@ <<>>

(* The smallest multiple of prim that is 1 modulo nn, divided by prim.     *)
Iprim(e) ==
  LET nn == 2^e.symsize-1
  IN  (CHOOSE m \in {1 + k * nn : k \in 0..e.prim-1} : m % e.prim = 0) \div e.prim
(* The loop that looks for it ends.                                        *)
IprimExists(e) == \E k \in 0..e.prim-1 : (1 + k * (2^e.symsize-1)) % e.prim = 0

(* Multiplication of the generator polynomial by each x + alpha^root.      *)
Genpoly(e, alpha_to, index_of) ==
  LET nn       == 2^e.symsize-1
      up(x, k) == IF x = 0 THEN 0 ELSE alpha_to[(index_of[x] + k) % nn]
      times(g, i) ==
        LET root == (e.fcr + i) * e.prim
        IN  Array(LAMBDA j : (IF j = 0 THEN 0 ELSE g[j - 1]) ^^ up(g[j], root), 0, e.nroots)
  IN  Loop(times, Array(LAMBDA j : IF j = 0 THEN 1 ELSE 0, 0, e.nroots), 0, e.nroots - 1)

(* The control block, if the parameters and the polynomial are accepted.   *)
ControlBlock(e) ==
  LET nn       == 2^e.symsize-1
      alpha_to == AlphaTo(e)
      index_of == IndexOf(alpha_to, nn)
      g        == Genpoly(e, alpha_to, index_of)
  IN  [nn |-> nn, pad |-> e.pad, alpha_to |-> alpha_to, index_of |-> index_of,
       fcr |-> e.fcr, prim |-> e.prim, nroots |-> e.nroots, iprim |-> Iprim(e),
       genpoly |-> Array(LAMBDA j : index_of[g[j]], 0, e.nroots)]

-----------------------------------------------------------------------------
(* Field arithmetic on a control block.                                    *)

modnn(rs, x)  == x % rs.nn
Alpha(rs, x)  == rs.alpha_to[modnn(rs, x)]
Up(rs, x, k)  == IF x = 0 THEN 0 ELSE Alpha(rs, rs.index_of[x] + k)
Mul(rs, x, y) == IF y = 0 THEN 0 ELSE Up(rs, x, rs.index_of[y])

BlockLength(rs) == rs.nn - rs.pad
DataLength(rs)  == rs.nn - rs.nroots - rs.pad

-----------------------------------------------------------------------------
(* encode_rs.h: the parity of the data, from a shift register.             *)

(* Mutant: the last symbol of the register survives the shift.             *)
ShiftInStale(rs, reg, symbol) ==
  LET feedback == rs.index_of[symbol ^^ reg[1]]
      below(j) == reg[IF j < rs.nroots THEN j + 1 ELSE j]
  IN  Array(LAMBDA j : IF feedback = rs.nn THEN below(j)
                       ELSE below(j) ^^ Alpha(rs, feedback + rs.genpoly[rs.nroots - j]), 1, rs.nroots)

ShiftIn(rs, reg, symbol) ==
  LET feedback == rs.index_of[symbol ^^ reg[1]]
      below(j) == IF j < rs.nroots THEN reg[j + 1] ELSE 0
  IN  Array(LAMBDA j : IF feedback = rs.nn THEN below(j)
                       ELSE below(j) ^^ Alpha(rs, feedback + rs.genpoly[rs.nroots - j]), 1, rs.nroots)

Parity(rs, data) ==
  Loop(LAMBDA reg, i : ShiftIn(rs, reg, data[i]), Array(LAMBDA j : 0, 1, rs.nroots), 1, DataLength(rs))

-----------------------------------------------------------------------------
(* decode_rs.h                                                             *)

(* The received word at the roots of the generator, by Horner's rule.      *)
Syndromes(rs, data) ==
  Array(LAMBDA i : Loop(LAMBDA s, j : data[j] ^^ Up(rs, s, (rs.fcr + i) * rs.prim), data[1], 2, BlockLength(rs)),
        0, rs.nroots - 1)

One(rs) == Array(LAMBDA j : IF j = 0 THEN 1 ELSE 0, 0, rs.nroots)
ShiftUp(rs, poly) == Array(LAMBDA j : IF j = 0 THEN 0 ELSE poly[j - 1], 0, rs.nroots)

(* The product of 1 + x alpha^u over the erased positions.                 *)
ErasureLocator(rs, eras_pos) ==
  LET factor(lambda, i) ==
        LET u == rs.prim * (rs.nn - 1 - eras_pos[i])
        IN  Array(LAMBDA j : lambda[j] ^^ (IF j = 0 THEN 0 ELSE Up(rs, lambda[j - 1], u)), 0, rs.nroots)
  IN  Loop(factor, One(rs), 1, Len(eras_pos))

(* Step r of the Berlekamp-Massey algorithm.                               *)
MasseyStep(rs, s, no_eras, m, r) ==
  LET discr == XorAll(LAMBDA i : Mul(rs, m.lambda[i], s[r - i - 1]), 0, r - 1)
      xb    == ShiftUp(rs, m.b)
      t     == Array(LAMBDA j : m.lambda[j] ^^ Mul(rs, discr, xb[j]), 0, rs.nroots)
  IN  IF discr = 0 THEN [m EXCEPT !.b = xb]
      ELSE IF 2 * m.el <= r + no_eras - 1
        THEN [lambda |-> t, el |-> r + no_eras - m.el,
              b |-> Array(LAMBDA j : Up(rs, m.lambda[j], rs.nn - rs.index_of[discr]), 0, rs.nroots)]
        ELSE [lambda |-> t, el |-> m.el, b |-> xb]

(* The locator polynomial of errors and erasures.                          *)
Locator(rs, s, eras_pos) ==
  LET no_eras == Len(eras_pos)
      gamma   == ErasureLocator(rs, eras_pos)
  IN  Loop(LAMBDA m, r : MasseyStep(rs, s, no_eras, m, r),
           [lambda |-> gamma, b |-> gamma, el |-> no_eras], no_eras + 1, rs.nroots).lambda

Degree(rs, poly) == Loop(LAMBDA d, j : IF poly[j] # 0 THEN j ELSE d, 0, 1, rs.nroots)

(* The Chien search: the exponents of its roots, in the order of the       *)
(* search, and the position in the unshortened word that a root stands for.*)
ChienRoots(rs, lambda, deg) ==
  SelectSeq([i \in 1..rs.nn |-> i],
            LAMBDA i : XorAll(LAMBDA j : Up(rs, lambda[j], i * j), 0, deg) = 0)
Loc(rs, root) == modnn(rs, rs.iprim - 1 + (root - 1) * rs.iprim)

(* The error evaluator, s(x) lambda(x) below the degree of lambda.         *)
Omega(rs, s, lambda, deg) ==
  Array(LAMBDA i : XorAll(LAMBDA j : Mul(rs, s[i - j], lambda[j]), 0, i), 0, deg - 1)

(* Mutant: the factor for the first consecutive root is left out.          *)
ErrorValueNarrow(rs, lambda, omega, deg, root) ==
  LET num1 == XorAll(LAMBDA i : Up(rs, omega[i], i * root), 0, deg - 1)
      den  == XorAll(LAMBDA k : Up(rs, lambda[2*k + 1], 2*k * root), 0, (IF deg < rs.nroots THEN deg ELSE rs.nroots - 1) \div 2)
  IN  Up(rs, num1, rs.nn - rs.index_of[den])

(* The Forney algorithm.  The denominator is the formal derivative of      *)
(* lambda, whose terms are the odd ones.                                   *)
ErrorValue(rs, lambda, omega, deg, root) ==
  LET num1 == XorAll(LAMBDA i : Up(rs, omega[i], i * root), 0, deg - 1)
      num2 == root * (rs.fcr - 1) + rs.nn
      den  == XorAll(LAMBDA k : Up(rs, lambda[2*k + 1], 2*k * root), 0, (IF deg < rs.nroots THEN deg ELSE rs.nroots - 1) \div 2)
  IN  Up(rs, num1, num2 + rs.nn - rs.index_of[den])

(* Mutant: the padding is not counted.                                     *)
PlaceUnshortened(rs, loc) == 1 + loc

(* The symbol of the block that a position is.                             *)
Place(rs, loc) == 1 + loc - rs.pad

(* The errors are applied to the block and listed.  A root in the padding  *)
(* is counted, but there is nothing to apply it to.                        *)
Repaired(rs, data, eras_pos, lambda, omega, deg, roots) ==
  LET loc(j) == Loc(rs, roots[j])
      repair(block, j) ==
        IF loc(j) < rs.pad THEN block
        ELSE [block EXCEPT ![Place(rs, loc(j))] = @ ^^ ErrorValue(rs, lambda, omega, deg, roots[j])]
  IN  [count |-> deg, data |-> Loop(repair, data, 1, deg),
       eras_pos |-> [j \in 1..(IF deg > Len(eras_pos) THEN deg ELSE Len(eras_pos)) |->
                       IF j <= deg THEN loc(j) ELSE eras_pos[j]]]

(* The whole decoder: what it returns, the block and the list of positions *)
(* it leaves.                                                              *)
Decode(rs, data, eras_pos) ==
  LET located(s, lambda, deg, roots) ==
        IF Len(roots) # deg THEN [count |-> -1, data |-> data, eras_pos |-> eras_pos]
        ELSE Given(Omega(rs, s, lambda, deg), LAMBDA omega :
               Repaired(rs, data, eras_pos, lambda, omega, deg, roots))
  IN  Given(Syndromes(rs, data), LAMBDA s :
        IF \A i \in DOMAIN s : s[i] = 0 THEN [count |-> 0, data |-> data, eras_pos |-> eras_pos]
        ELSE Given(Locator(rs, s, eras_pos), LAMBDA lambda :
               Given(Degree(rs, lambda), LAMBDA deg :
                 Given(ChienRoots(rs, lambda, deg), LAMBDA roots : located(s, lambda, deg, roots)))))
=============================================================================
