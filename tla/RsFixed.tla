------------------------------- MODULE RsFixed -------------------------------
(***************************************************************************)
(* The (255,223) code of the CCSDS, for which fec-3.0.1 has tables made at *)
(* build time: encode_rs_8 and decode_rs_8, the Altivec encoder, and the   *)
(* wrappers that convert from and to the dual basis.                       *)
(***************************************************************************)
EXTENDS ReedSolomon

(* gen_ccsds.c prints the tables of this code into the library.            *)
CcsdsArgs == [symsize |-> 8, gfpoly |-> 391, fcr |-> 112, prim |-> 11, nroots |-> 32, pad |-> 0]
CcsdsTables == ControlBlock(CcsdsArgs)

(* The tables with the constants of fixed.h and the caller's padding.      *)
Fixed(pad) ==
  [nn |-> 255, pad |-> pad, nroots |-> 32, fcr |-> 112, prim |-> 11, iprim |-> 116,
   alpha_to |-> CcsdsTables.alpha_to, index_of |-> CcsdsTables.index_of, genpoly |-> CcsdsTables.genpoly]

encode_rs_8_c(data, pad) == Given(Fixed(pad), LAMBDA rs : Parity(rs, data))

-----------------------------------------------------------------------------
(* The Altivec encoder: a register of 32 octets, two vectors of 16.  The   *)
(* table holds half of the products of the feedback with the generator     *)
(* polynomial; the polynomial reads the same in both directions, so that   *)
(* the other half is the first one reversed.                               *)

(* table[f].c[i], for i in 0..15                                           *)
Feedback(f, i) == Up(CcsdsTables, f, CcsdsTables.genpoly[16 - i])

(* Mutant: the octet that moves from one vector to the other is lost.      *)
AvShiftCut(reg, symbol) ==
  LET f == symbol ^^ reg[31]
  IN  Array(LAMBDA i : CASE i = 0      -> f
                         [] i \in 1..15 -> reg[i - 1] ^^ Feedback(f, 16 - i)
                         [] i = 16      -> Feedback(f, 0)
                         [] OTHER       -> reg[i - 1] ^^ Feedback(f, i - 16), 0, 31)

AvShift(reg, symbol) ==
  LET f == symbol ^^ reg[31]
  IN  Array(LAMBDA i : CASE i = 0      -> f
                         [] i \in 1..15 -> reg[i - 1] ^^ Feedback(f, 16 - i)
                         [] OTHER       -> reg[i - 1] ^^ Feedback(f, i - 16), 0, 31)

encode_rs_av(data, pad) ==
  LET reg == Loop(LAMBDA r, i : AvShift(r, data[i]), Array(LAMBDA i : 0, 0, 31), 1, 223 - pad)
  IN  Array(LAMBDA k : reg[32 - k], 1, 32)

(* encode_rs_8 asks the processor once; of the instruction sets it knows,  *)
(* only Altivec has a version of its own.                                  *)
encode_rs_8(data, pad, cpu_mode) ==
  IF cpu_mode = "ALTIVEC" THEN encode_rs_av(data, pad) ELSE encode_rs_8_c(data, pad)

decode_rs_8(data, eras_pos, pad) ==
  IF pad \in 0..222 THEN Given(Fixed(pad), LAMBDA rs : Decode(rs, data, eras_pos))
  ELSE [count |-> -1, data |-> data, eras_pos |-> eras_pos]

-----------------------------------------------------------------------------
(* gen_ccsds_tal.c: conventional to dual basis, and back.                  *)

tal == <<141, 239, 236, 134, 250, 153, 175, 123>>
Taltab == Array(LAMBDA x : XorAll(LAMBDA k : Bit(x, k) * tal[8 - k], 0, 7), 0, 255)
Tal1tab == [y \in {Taltab[x] : x \in 0..255} |-> CHOOSE x \in 0..255 : Taltab[x] = y] @@ <<>>

ToConventional(data) == Array(LAMBDA i : Tal1tab[data[i]], 1, Len(data))
ToDual(data)         == Array(LAMBDA i : Taltab[data[i]], 1, Len(data))

encode_rs_ccsds(data, pad, cpu_mode) ==
  Given(ToConventional(data), LAMBDA cdata : ToDual(encode_rs_8(cdata, pad, cpu_mode)))

(* The block is written only if something was corrected.                   *)
decode_rs_ccsds(data, eras_pos, pad) ==
  LET back(r) == [r EXCEPT !.data = IF r.count > 0 THEN ToDual(@) ELSE data]
  IN  Given(ToConventional(data), LAMBDA cdata : Given(decode_rs_8(cdata, eras_pos, pad), back))
=============================================================================
