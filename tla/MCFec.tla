-------------------------------- MODULE MCFec --------------------------------
(***************************************************************************)
(* The Reed-Solomon codecs and the Viterbi decoders of fec-3.0.1, in one   *)
(* run: what is exercised is chosen at the start.                          *)
(***************************************************************************)
EXTENDS RsCodec, FiniteSetsExt

CONSTANTS UnsignedBits, Setups, OtherPolys(_), Frames(_, _), FrameBlocks(_)

VARIABLES subject, setup, Cpu_mode, tables, asked, lost, memory, decoder, frame, result

Vit == INSTANCE ViterbiCodec WITH heap <- memory, Blocks <- FrameBlocks

vitvars == <<setup, Cpu_mode, tables, asked, lost, memory, decoder, frame, result>>
allvars == <<vars, vitvars, subject>>

MCInit ==
  /\ Init
  /\ \/ /\ subject = "reed-solomon"
        /\ setup = NULL /\ Cpu_mode = NULL /\ tables = NULL /\ asked = NULL /\ lost = NULL
        /\ memory = {} /\ decoder = NULL /\ frame = NULL /\ result = NULL
     \/ subject = "viterbi" /\ Vit!Init

OfRs  == subject = "reed-solomon" /\ UNCHANGED <<subject, vitvars>>
OfVit == subject = "viterbi" /\ UNCHANGED <<subject, vars>>

MCNext ==
  \/ OfRs /\ \E t \in Tests \cup BadArgs, refused \in RsBlocks \cup {"none"} : InitRs(t, refused)
  \/ OfRs /\ \E t \in Tests : UseFixed(t)
  \/ OfRs /\ test # NULL /\ \E data \in DataOf(test) : Encode(data)
  \/ OfRs /\ test # NULL /\ \E errors \in ErrorsOf(test) : Damage(errors)
  \/ OfRs /\ DecodeBlock
  \/ OfRs /\ FreeRs
  \/ OfVit /\ \E polys \in OtherPolys(setup) : Vit!set_viterbi_polynomial(polys)
  \/ OfVit /\ \E refused \in {"vp", "decisions", "none"} : Vit!create_viterbi(refused)
  \/ OfVit /\ \E f \in Frames(setup, asked) : Vit!init_viterbi(f)
  \/ OfVit /\ \E nbits \in FrameBlocks(setup) : Vit!update_viterbi_blk(nbits)
  \/ OfVit /\ Vit!chainback_viterbi
  \/ OfVit /\ Vit!NextFrame
  \/ OfVit /\ Vit!delete_viterbi

MCSpec == MCInit /\ [][MCNext]_allvars

-----------------------------------------------------------------------------
(* A set-up or creation that fails gives everything back, and so does a    *)
(* release.                                                                *)
NothingLeaks == SetUpAllOrNothing /\ Vit!NothingLeaks
(* The decoded data has the least distance that any data can have, with    *)
(* the polynomials in force.                                               *)
DecodesNearest == Vit!DecodesNearest
(* Updates and chainback return that distance between them.                *)
MetricsAddUp == Vit!MetricsAddUp

-----------------------------------------------------------------------------
(* Reed-Solomon: codes in small fields, with roots and positions in every  *)
(* way that the arguments allow, the codes of NGHam, and the fixed code.   *)

Args(symsize, gfpoly, fcr, prim, nroots, pad) ==
  [symsize |-> symsize, gfpoly |-> gfpoly, fcr |-> fcr, prim |-> prim, nroots |-> nroots, pad |-> pad]
Test(version, args, errors) == [version |-> version, args |-> args, errors |-> errors]

MCTests ==
  {Test("char",  Args(3, 11, 1, 1, 2, 0), 2),
   Test("char",  Args(3, 11, 1, 1, 4, 1), 3),
   Test("int",   Args(3, 11, 3, 2, 3, 0), 2),
   Test("char",  Args(4, 19, 1, 1, 4, 0), 2),
   Test("int",   Args(4, 19, 0, 7, 5, 8), 3),
   Test("char",  Args(8, 391, 112, 11, 16, 208), 9),
   Test("8",     Args(8, 391, 112, 11, 32, 221), 2),
   Test("av",    Args(8, 391, 112, 11, 32, 221), 2),
   Test("ccsds", Args(8, 391, 112, 11, 32, 221), 2)}

MCBadArgs ==
  {Test("char", Args(9, 529, 1, 1, 2, 0), 0),    \* symbols too wide
   Test("char", Args(3, 11, 1, 1, 2, 5), 0),     \* nothing left for data
   Test("char", Args(4, 21, 1, 1, 2, 0), 0)}     \* polynomial not primitive

WordLength(t) == 2^t.args.symsize - 1 - t.args.pad

MCDataOf(t) ==
  LET q == 2^t.args.symsize
      k == WordLength(t) - t.args.nroots
  IN  {[i \in 1..k |-> 0], [i \in 1..k |-> (5*i*i + 3) % q]}

(* In a small field, any positions, erased or not, where an erased symbol  *)
(* may be right; in the large one, as many errors as can be corrected and  *)
(* one more, with and without erasures.                                    *)
MCErrorsOf(t) ==
  IF t.args.symsize < 8
    THEN UNION {{[l \in L |-> [errval |-> (v + 3*l) % 8, erase |-> l \in E]] : E \in SUBSET L, v \in {1, 6}} :
                  L \in UNION {kSubset(w, 0..WordLength(t)-1) : w \in 0..t.errors}}
    ELSE {[l \in {(7*j) % WordLength(t) : j \in 0..m} |->
             [errval |-> ((l*9 + 77) % 255) + 1, erase |-> l % 3 = v]] :
          m \in {0, t.errors - 2, t.errors - 1}, v \in {0, 3}}

-----------------------------------------------------------------------------
(* Viterbi: each decoder on each processor, with codes of few states, on   *)
(* which everything is tried, and with those of the library; that of rate  *)
(* 1/6 with nine bits of state instead of fourteen.                        *)

Decoders(K27, polys27, K29, polys29, K39, polys39, K615, polys615) ==
  UNION {{[family |-> "27",  cpu |-> cpu, K |-> K27,  polys |-> polys27],
          [family |-> "29",  cpu |-> cpu, K |-> K29,  polys |-> polys29],
          [family |-> "39",  cpu |-> cpu, K |-> K39,  polys |-> polys39],
          [family |-> "615", cpu |-> cpu, K |-> K615, polys |-> polys615]} :
         cpu \in {"PORT", "MMX", "SSE", "SSE2", "ALTIVEC"}}

MCSmall == Decoders(3, <<7, 5>>, 4, <<13, 15>>, 4, <<11, 13, 15>>, 4, <<9, 11, 13, 15, 13, 11>>)
MCReal  == Decoders(7, <<109, 79>>, 9, <<431, 285>>, 9, <<493, 411, 295>>,
                    10, <<681, 777, 859, 991, 797, 603>>)
MCSetups == MCSmall \cup MCReal

(* The first symbol inverted.                                              *)
MCOtherPolys(s) == IF s \in MCSmall THEN {[s.polys EXCEPT ![1] = -@]} ELSE {}

(* Arbitrary numbers.                                                      *)
Scatter(n) == ((((n * n) % 9973) * 7919 + n * 1047) \div 16)
Bits(n, seed) == [i \in 1..n |-> (Scatter(seed + 3*i) \div 4) % 2]

(* The transmitter: vtest27.c and its likes.                               *)
Encoded(s, polys, bits, start) ==
  LET symbol(p, sr) == (parity(sr & (IF p < 0 THEN -p ELSE p)) + (IF p < 0 THEN 1 ELSE 0)) % 2
      go(a, i) == LET sr == 2 * a.sr + bits[i]
                  IN  [sr |-> sr % 2^(s.K-1), out |-> Append(a.out, [j \in DOMAIN polys |-> symbol(polys[j], sr)])]
  IN  Loop(go, [sr |-> start, out |-> <<>>], 1, Len(bits)).out

(* Half the free distance of a code, rounded down so that it suffices.     *)
FlipsOf(s) ==
  CASE s.K = 3 \/ s.family = "29" -> 2 [] s.K = 7 -> 4 [] s.family = "39" -> 4 [] OTHER -> 10
Flips(s, n, seed) ==
  {<<s.K + 1 + (Scatter(seed * 31 + k) % (n - 1)), 1 + (k % Len(s.polys))>> : k \in 1..FlipsOf(s)}

Sent(s, polys, n, start, endstate, seed) ==
  LET data == Bits(n, seed)
      out  == Encoded(s, polys, data \o [j \in 1..s.K-1 |-> Bit(endstate, s.K - 1 - j)], start)
      flip == Flips(s, n, seed)
  IN  [data |-> data, start |-> start, endstate |-> endstate,
       symbols |-> [i \in 1..Len(out) |-> [j \in DOMAIN polys |->
                      IF (out[i][j] = 1) = (<<i, j>> \notin flip) THEN 255 ELSE 0]]]
Noise(s, polys, n, start, endstate, values) ==
  [data |-> Bits(n, 9), start |-> start, endstate |-> endstate,
   symbols |-> [i \in 1..n+s.K-1 |->
     [j \in DOMAIN polys |-> values[1 + (Scatter(45 + 7*i + j) % Len(values))]]]]

FrameLength(s) == IF s \in MCSmall THEN 12 ELSE 18
(* A long frame of weak symbols makes the metrics wrap, or be adjusted,    *)
(* many times.                                                             *)
MCFrames(s, polys) ==
  LET n == FrameLength(s) - (s.K - 1)
  IN  IF s \in MCSmall
        THEN {Sent(s, polys, n, 2, endstate, 4 + 5 * endstate) : endstate \in {0, 1}}
             \cup {Noise(s, polys, n, 1, endstate, <<90, 200, 30, 140>>) : endstate \in {0, 3}}
             \cup {Noise(s, polys, 168 - (s.K - 1), 1, 3, <<128>>)}
      ELSE IF s.K < 10
        THEN {Sent(s, polys, n, 0, 0, 5), Noise(s, polys, n, 0, 0, <<0, 255, 128>>)}
        ELSE {Sent(s, polys, n, 0, 0, 5)}
MCFrameBlocks(s) == IF s \in MCSmall THEN {4, 12} ELSE {6, 18}
=============================================================================
