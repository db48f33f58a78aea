------------------------------- MODULE Viterbi -------------------------------
(***************************************************************************)
(* The Viterbi decoders of fec-3.0.1.  There are four codes, and of each   *)
(* decoder a portable version and one for MMX, SSE, SSE2 and Altivec.  All *)
(* run the same algorithm.  A version is a record of what it does in its   *)
(* own way: where the metrics start, how a distance is measured, and how   *)
(* metrics are added and compared in the width they have.                  *)
(***************************************************************************)
EXTENDS FecLoops

CONSTANT UnsignedBits   \* width of unsigned int and long in the portable
                        \* versions; small, so that metrics wrap

SHRT_MIN  == -32768
SHRT_MAX  == 32767
USHRT_MAX == 65535

-----------------------------------------------------------------------------
(* Set-up and chainback of a version.  bias is the metric of the states    *)
(* that are not the starting state, low that of the starting state.        *)

Version(bias, low) ==
  [bias |-> bias, low |-> low,
   checked |-> TRUE,      \* an allocation that fails is noticed
   abs |-> TRUE,          \* the sign of a polynomial is taken off
   aligned |-> TRUE,      \* the terminal state is shifted into its place
   reported |-> "none"]   \* the path metric that chainback returns

viterbi27_port  == Version(63, 0)
viterbi27_mmx   == [Version(63, 0) EXCEPT !.aligned = FALSE]
viterbi27_sse   == Version(63, 0)
viterbi27_sse2  == Version(63, 0)
viterbi27_av    == Version(63, 0)

viterbi29_port  == Version(63, 0)
viterbi29_mmx   == Version(63, 0)
viterbi29_sse   == Version(200, 0)
viterbi29_sse2  == Version(63, 0)
viterbi29_av    == Version(63, 0)

viterbi39_port  == Version(63, 0)
viterbi39_mmx   == [Version(1000, 0) EXCEPT !.abs = FALSE, !.reported = "as it is"]
viterbi39_sse   == [Version(1000, SHRT_MIN) EXCEPT !.abs = FALSE, !.reported = "from zero"]
viterbi39_sse2  == [Version(1000, SHRT_MIN) EXCEPT !.abs = FALSE, !.reported = "as it is"]
viterbi39_av    == [Version(1000, 0) EXCEPT !.checked = FALSE, !.reported = "as it is"]

viterbi615_port == Version(1000, 0)
viterbi615_mmx  == Version(5000, 0)
viterbi615_sse  == Version(5000, SHRT_MIN)
viterbi615_sse2 == Version(5000, SHRT_MIN)
viterbi615_av   == [Version(5000, 0) EXCEPT !.checked = FALSE, !.reported = "as it is"]

-----------------------------------------------------------------------------
(* The update of a version.  Metrics either wrap, and are compared by the  *)
(* sign of their difference, or saturate, and then the smallest one is     *)
(* subtracted from all once that of state 0 has reached a limit.           *)

Modular(bits, ties) ==
  [wraps |-> TRUE, bits |-> bits, ties |-> ties, symbol |-> "whole", returns |-> "zero"]
Saturating(high, limit, ties) ==
  [wraps |-> FALSE, high |-> high, limit |-> limit, ties |-> ties, symbol |-> "whole", returns |-> "zero"]
Symbols(update, symbol)  == [update EXCEPT !.symbol = symbol]
Returns(update, returns) == [update EXCEPT !.returns = returns]

update_viterbi27_blk_port  == Modular(UnsignedBits, 0)
update_viterbi27_blk_mmx   == Symbols(Modular(8, 0), "4 bits")
update_viterbi27_blk_sse   == Symbols(Saturating(255, 151, 1), "5 bits")
update_viterbi27_blk_sse2  == Symbols(Saturating(255, 106, 1), "5 bits")
update_viterbi27_blk_av    == Symbols(Saturating(255, 105, 0), "5 bits")

update_viterbi29_blk_port  == Modular(UnsignedBits, 0)
update_viterbi29_blk_mmx   == Symbols(Modular(8, 0), "4 bits")
update_viterbi29_blk_sse   == Symbols(Saturating(255, 51, 1), "5 bits")
update_viterbi29_blk_sse2  == Symbols(Saturating(255, 51, 1), "5 bits")
update_viterbi29_blk_av    == Symbols(Saturating(255, 50, 0), "5 bits")

update_viterbi39_blk_port  == Modular(UnsignedBits, 0)
update_viterbi39_blk_mmx   == Returns(Modular(16, 0), "wraps")
update_viterbi39_blk_sse   == Returns(Saturating(SHRT_MAX, SHRT_MAX - 5000, 1), "adjustments")
update_viterbi39_blk_sse2  == Returns(Saturating(SHRT_MAX, SHRT_MAX - 5000, 1), "adjustments")
update_viterbi39_blk_av    == Returns(Saturating(USHRT_MAX, USHRT_MAX - 5000, 0), "adjustments")

update_viterbi615_blk_port == Modular(UnsignedBits, 1)
update_viterbi615_blk_mmx  == Modular(16, 0)
update_viterbi615_blk_sse  == Saturating(SHRT_MAX, SHRT_MAX - 12750, 1)
update_viterbi615_blk_sse2 == Saturating(SHRT_MAX, SHRT_MAX - 12750, 1)
update_viterbi615_blk_av   == Returns(Saturating(USHRT_MAX, USHRT_MAX - 12750, 0), "adjustments")

-----------------------------------------------------------------------------
(* The version that a function calls for a processor.                      *)

Cpu_modes == {"PORT", "MMX", "SSE", "SSE2", "ALTIVEC"}

viterbi27(mode) ==
  CASE mode = "MMX"     -> [lib |-> viterbi27_mmx,  update |-> update_viterbi27_blk_mmx]
    [] mode = "SSE"     -> [lib |-> viterbi27_sse,  update |-> update_viterbi27_blk_sse]
    [] mode = "SSE2"    -> [lib |-> viterbi27_sse2, update |-> update_viterbi27_blk_sse2]
    [] mode = "ALTIVEC" -> [lib |-> viterbi27_av,   update |-> update_viterbi27_blk_av]
    [] OTHER            -> [lib |-> viterbi27_port, update |-> update_viterbi27_blk_port]
viterbi29(mode) ==
  CASE mode = "MMX"     -> [lib |-> viterbi29_mmx,  update |-> update_viterbi29_blk_mmx]
    [] mode = "SSE"     -> [lib |-> viterbi29_sse,  update |-> update_viterbi29_blk_sse]
    [] mode = "SSE2"    -> [lib |-> viterbi29_sse2, update |-> update_viterbi29_blk_sse2]
    [] mode = "ALTIVEC" -> [lib |-> viterbi29_av,   update |-> update_viterbi29_blk_av]
    [] OTHER            -> [lib |-> viterbi29_port, update |-> update_viterbi29_blk_port]
viterbi39(mode) ==
  CASE mode = "MMX"     -> [lib |-> viterbi39_mmx,  update |-> update_viterbi39_blk_mmx]
    [] mode = "SSE"     -> [lib |-> viterbi39_sse,  update |-> update_viterbi39_blk_sse]
    [] mode = "SSE2"    -> [lib |-> viterbi39_sse2, update |-> update_viterbi39_blk_sse2]
    [] mode = "ALTIVEC" -> [lib |-> viterbi39_av,   update |-> update_viterbi39_blk_av]
    [] OTHER            -> [lib |-> viterbi39_port, update |-> update_viterbi39_blk_port]
viterbi615(mode) ==
  CASE mode = "MMX"     -> [lib |-> viterbi615_mmx,  update |-> update_viterbi615_blk_mmx]
    [] mode = "SSE"     -> [lib |-> viterbi615_sse,  update |-> update_viterbi615_blk_sse]
    [] mode = "SSE2"    -> [lib |-> viterbi615_sse2, update |-> update_viterbi615_blk_sse2]
    [] mode = "ALTIVEC" -> [lib |-> viterbi615_av,   update |-> update_viterbi615_blk_av]
    [] OTHER            -> [lib |-> viterbi615_port, update |-> update_viterbi615_blk_port]

Decoder(family, mode) ==
  CASE family = "27" -> viterbi27(mode) [] family = "29" -> viterbi29(mode)
    [] family = "39" -> viterbi39(mode) [] OTHER         -> viterbi615(mode)

-----------------------------------------------------------------------------
(* The branch table.  For each polynomial, the code symbol that goes with  *)
(* a state whose oldest bit is 0 and an input of 0; a negative polynomial  *)
(* stands for the inverted symbol.                                         *)

Table(v, K, polys) ==
  LET taps(p)       == IF v.lib.abs /\ p < 0 THEN -p ELSE p % 2^K
      inverted(p)   == IF p < 0 THEN 1 ELSE 0
      symbol(p, st) == (inverted(p) + parity((2 * st) & taps(p))) % 2
  IN  Array(LAMBDA j : Array(LAMBDA st : symbol(polys[j], st), 0, 2^(K-2) - 1), 1, Len(polys))

-----------------------------------------------------------------------------
(* One received bit.                                                       *)

Total(f, n) == Loop(LAMBDA sum, j : sum + f[j], 0, 1, n)

(* The distance of the received symbols from those of the table, and the   *)
(* largest there is.                                                       *)
Distance(v, expected, received) ==
  LET n   == Len(received)
      off == [j \in 1..n |-> IF expected[j] = 1 THEN 255 - received[j] ELSE received[j]]
  IN  CASE v.update.symbol = "4 bits" -> ((off[1] \div 16) + (off[2] \div 16) + 1) \div 2
        [] v.update.symbol = "5 bits" -> ((off[1] + off[2] + 1) \div 2) \div 8
        [] OTHER                      -> Total(off, n)
Farthest(v, n) ==
  CASE v.update.symbol = "4 bits" -> 15 [] v.update.symbol = "5 bits" -> 31 [] OTHER -> 255 * n

Add(v, metric, distance) ==
  IF v.update.wraps THEN (metric + distance) % 2^v.update.bits
  ELSE IF metric + distance > v.update.high THEN v.update.high ELSE metric + distance

(* Mutant: metrics that wrap are compared as they stand.                   *)
SecondWinsAbsolute(v, m0, m1) == IF m0 = m1 THEN v.update.ties = 1 ELSE m0 > m1

(* The decision for the second of two paths that meet.                     *)
SecondWins(v, m0, m1) ==
  IF m0 = m1 THEN v.update.ties = 1
  ELSE IF v.update.wraps THEN (m0 - m1) % 2^v.update.bits < 2^(v.update.bits - 1)
  ELSE m0 > m1

Smallest(metrics, n) == Loop(LAMBDA m, s : IF metrics[s] < m THEN metrics[s] ELSE m, metrics[0], 1, n)

(* Mutant: what is subtracted is the metric of state 0.                    *)
AdjustZero(v, metrics, n) ==
  IF v.update.wraps \/ metrics[0] < v.update.limit THEN 0
  ELSE metrics[0] - v.lib.low

Adjust(v, metrics, n) ==
  IF v.update.wraps \/ metrics[0] < v.update.limit THEN 0
  ELSE Smallest(metrics, n - 1) - v.lib.low

(* The butterflies: state i, with 0 or 1 as the oldest bit, goes to 2i and *)
(* to 2i+1.  A decision is the oldest bit of the path that survived.       *)
Update(v, K, table, d, received) ==
  LET half     == 2^(K-2)
      n        == Len(received)
      distance == Array(LAMBDA i : Distance(v, [j \in 1..n |-> table[j][i]], received), 0, half - 1)
      meet(s)  ==
        LET i  == s \div 2
            m  == IF s % 2 = 0 THEN distance[i] ELSE Farthest(v, n) - distance[i]
            m0 == Add(v, d.metrics[i], m)
            m1 == Add(v, d.metrics[i + half], Farthest(v, n) - m)
            k  == SecondWins(v, m0, m1)
        IN  [metric |-> IF k THEN m1 ELSE m0, second |-> k]
      met      == Array(meet, 0, 2 * half - 1)
      metrics  == Array(LAMBDA s : met[s].metric, 0, 2 * half - 1)
      adjust   == Adjust(v, metrics, 2 * half)
  IN  [metrics   |-> Array(LAMBDA s : IF metrics[s] - adjust < v.lib.low THEN v.lib.low ELSE metrics[s] - adjust, 0, 2 * half - 1),
       decisions |-> Append(d.decisions, {s \in 0..2*half-1 : met[s].second}),
       returned  |-> d.returned +
         CASE v.update.returns = "adjustments" -> adjust
           [] v.update.returns = "wraps"       -> IF metrics[0] < d.metrics[0] THEN 65536 ELSE 0
           [] OTHER                            -> 0]

(* A decoder at the start of a frame.                                      *)
Start(v, K, starting_state) ==
  [metrics   |-> Array(LAMBDA s : IF s = starting_state % 2^(K-1) THEN v.lib.low ELSE v.lib.low + v.lib.bias, 0, 2^(K-1) - 1),
   decisions |-> <<>>,
   returned  |-> 0]

-----------------------------------------------------------------------------
(* Chainback: the register holds the state in its high bits, and at least  *)
(* eight bits, the high ones of which are stored as an octet at every bit; *)
(* the last store into an octet is the one that counts.                    *)

Chainback(v, K, d, nbits, endstate) ==
  LET width == IF K - 1 > 8 THEN K - 1 ELSE 8
      room  == 2^(width - (K-1))
      state == endstate % 2^(K-1)
      back(regs, i) ==
        LET reg == regs[Len(regs)]
            k   == IF reg \div room \in d.decisions[nbits - i + K] THEN 1 ELSE 0
        IN  Append(regs, (reg \div 2) + k * 2^(width - 1))
      regs == Loop(back, <<IF v.lib.aligned THEN state * room ELSE state>>, 1, nbits)
  IN  [b \in 0..((nbits - 1) \div 8) |-> regs[nbits - 8 * b + 1] \div 2^(width - 8)]

(* The path metric it returns.                                             *)
PathMetric(v, K, d, endstate) ==
  LET metric == d.metrics[endstate % 2^(K-1)]
  IN  CASE v.lib.reported = "as it is"  -> metric
        [] v.lib.reported = "from zero" -> metric - SHRT_MIN
        [] OTHER                        -> 0
=============================================================================
