---------------------------- MODULE ViterbiCodec ----------------------------
(***************************************************************************)
(* A Viterbi decoder of fec-3.0.1 in use: polynomials are set, a decoder   *)
(* is created, frames are decoded with it block by block, it is deleted.   *)
(***************************************************************************)
EXTENDS Viterbi

CONSTANTS
  NULL,
  Setups,           \* records of family, cpu, K and the default polys: one
                    \* of the four decoders on one kind of processor
  OtherPolys(_),    \* polynomials that are set for a setup
  Frames(_, _),     \* the frames received, for a setup and its polynomials:
                    \* records of data (bits), start, endstate, symbols
  Blocks(_)         \* lengths of the blocks of a frame, in bits

VARIABLES
  setup,        \* the decoder and the processor
  Cpu_mode,     \* what find_cpu_mode has found
  tables,       \* branch tables by mode; NULL while its Init is 0
  asked,        \* the polynomials the caller has set last, or the default
  lost,         \* whether they were set before the first creation and have
                \* not reached the version in use
  heap,         \* blocks of memory that are allocated
  decoder,      \* the instance, or NULL
  frame,        \* the frame that is received, or NULL
  result        \* what chainback has returned and written, or NULL

vars == <<setup, Cpu_mode, tables, asked, lost, heap, decoder, frame, result>>

Init ==
  /\ setup \in Setups
  /\ Cpu_mode = "UNKNOWN"
  /\ tables = [mode \in Cpu_modes |-> NULL]
  /\ asked = setup.polys /\ lost = FALSE
  /\ heap = {}
  /\ decoder = NULL /\ frame = NULL /\ result = NULL

find_cpu_mode == IF Cpu_mode = "UNKNOWN" THEN setup.cpu ELSE Cpu_mode
Version_of(mode) == Decoder(setup.family, mode)
Current == Version_of(Cpu_mode)

(* The table goes to the version that Cpu_mode selects now, and to the     *)
(* portable one while the processor is not yet known.  On another          *)
(* processor the caller's polynomials are lost then, although              *)
(* simd-viterbi.3:201-203 has them change all instances.                   *)
set_viterbi_polynomial(polys) ==
  LET mode == IF Cpu_mode = "UNKNOWN" THEN "PORT" ELSE Cpu_mode
  IN  /\ frame = NULL
      /\ tables' = [tables EXCEPT ![mode] = Table(Version_of(mode), setup.K, polys)]
      /\ asked' = polys
      /\ lost' = (mode # find_cpu_mode)
      /\ UNCHANGED <<setup, Cpu_mode, heap, decoder, frame, result>>

(* What a creation leaves allocated; it gives the structure back when the  *)
(* memory for the decisions is refused.                                    *)
LeftAllocated(refused) == IF refused = "none" THEN {"vp", "decisions"} ELSE {}

(* Versions that do not check their allocations write through the null     *)
(* pointer; there is no next state to give.                                *)
create_viterbi(refused) ==
  LET mode == find_cpu_mode
      v    == Version_of(mode)
  IN  /\ decoder = NULL
      /\ v.lib.checked \/ refused = "none"
      /\ Cpu_mode' = mode
      /\ tables' = IF tables[mode] = NULL
                     THEN [tables EXCEPT ![mode] = Table(v, setup.K, setup.polys)] ELSE tables
      /\ heap' = heap \cup LeftAllocated(refused)
      /\ decoder' = IF refused = "none" THEN Start(v, setup.K, 0) ELSE NULL
      /\ UNCHANGED <<setup, asked, lost, frame, result>>

init_viterbi(f) ==
  /\ decoder # NULL
  /\ frame = NULL
  /\ decoder' = Start(Current, setup.K, f.start)
  /\ frame' = f
  /\ result' = NULL
  /\ UNCHANGED <<setup, Cpu_mode, tables, asked, lost, heap>>

Received == Len(decoder.decisions)

update_viterbi_blk(nbits) ==
  /\ frame # NULL /\ result = NULL
  /\ Received + nbits <= Len(frame.symbols)
  /\ decoder' = Loop(LAMBDA d, i : Update(Current, setup.K, tables[Cpu_mode], d, frame.symbols[i]),
                     decoder, Received + 1, Received + nbits)
  /\ UNCHANGED <<setup, Cpu_mode, tables, asked, lost, heap, frame, result>>

chainback_viterbi ==
  /\ frame # NULL /\ result = NULL
  /\ Received = Len(frame.symbols)
  /\ result' = [octets |-> Chainback(Current, setup.K, decoder, Len(frame.data), frame.endstate),
                metric |-> PathMetric(Current, setup.K, decoder, frame.endstate)]
  /\ UNCHANGED <<setup, Cpu_mode, tables, asked, lost, heap, decoder, frame>>

(* The caller has read the result; the next frame may come.                *)
NextFrame ==
  /\ result # NULL
  /\ frame' = NULL /\ result' = NULL
  /\ decoder' = Start(Current, setup.K, 0)
  /\ UNCHANGED <<setup, Cpu_mode, tables, asked, lost, heap>>

delete_viterbi ==
  /\ decoder # NULL /\ frame = NULL
  /\ decoder' = NULL
  /\ heap' = heap \ {"vp", "decisions"}
  /\ UNCHANGED <<setup, Cpu_mode, tables, asked, lost, frame, result>>

Next ==
  \/ \E polys \in OtherPolys(setup) : set_viterbi_polynomial(polys)
  \/ \E refused \in {"vp", "decisions", "none"} : create_viterbi(refused)
  \/ \E f \in Frames(setup, asked) : init_viterbi(f)
  \/ \E nbits \in Blocks(setup) : update_viterbi_blk(nbits)
  \/ chainback_viterbi
  \/ NextFrame
  \/ delete_viterbi

Spec == Init /\ [][Next]_vars

-----------------------------------------------------------------------------
(* Reference: the encoder, and the distances that all messages have from   *)
(* what was received, without tables and with metrics of any size.         *)

(* The polynomials in force: those the caller has set, but the default     *)
(* ones if these were lost.                                                *)
InForce == IF lost THEN setup.polys ELSE asked

SymbolOf(p, sr) ==
  LET taps == IF p < 0 THEN -p ELSE p
      odd  == Cardinality({k \in 0..setup.K-1 : Bit(taps, k) = 1 /\ Bit(sr, k) = 1}) % 2
  IN  IF p < 0 THEN 1 - odd ELSE odd

(* The first and the last tap of a polynomial are set, so that the branch  *)
(* from sr is as far as its complement is near.                            *)
Branch(polys, sr, received) ==
  LET base     == 2 * ((sr % 2^(setup.K-1)) \div 2)
      distance == Distance(Current, [j \in DOMAIN polys |-> SymbolOf(polys[j], base)], received)
  IN  IF sr \div 2^(setup.K-1) = sr % 2 THEN distance ELSE Farthest(Current, Len(polys)) - distance

(* The distance of a message, which ends with the bits of endstate.        *)
Message(data, endstate) == data \o [j \in 1..setup.K-1 |-> Bit(endstate, setup.K - 1 - j)]
MessageDistance(bits, s) ==
  LET go(at, i) == [sr |-> (2 * at.sr + bits[i]) % 2^(setup.K-1),
                    sum |-> at.sum + Branch(InForce, 2 * at.sr + bits[i], frame.symbols[i])]
  IN  Loop(go, [sr |-> s, sum |-> IF s = frame.start THEN 0 ELSE Current.lib.bias], 1, Len(bits)).sum

(* The least distance of any message, over all the paths to a state.       *)
LeastDistance ==
  LET states == 0..2^(setup.K-1)-1
      step(least, i) ==
        Array(LAMBDA s :
                LET from(k) == (s \div 2) + k * 2^(setup.K-2)
                    sum(k)  == least[from(k)] + Branch(InForce, 2 * from(k) + (s % 2), frame.symbols[i])
                IN  IF sum(0) < sum(1) THEN sum(0) ELSE sum(1), 0, 2^(setup.K-1) - 1)
  IN  Loop(step, [s \in states |-> IF s = frame.start THEN 0 ELSE Current.lib.bias] @@ <<>>,
           1, Len(frame.symbols))[frame.endstate]

Decoded == [j \in 1..Len(frame.data) |-> Bit(result.octets[(j - 1) \div 8], 7 - ((j - 1) % 8))]

(* What four versions do not handle, although simd-viterbi.3 has both: a   *)
(* terminal state other than 0 (lines 115-120) in that of MMX for rate 1/2 *)
(* and K = 7, and the inverted symbols of a negative polynomial (148-199)  *)
(* in those of MMX, SSE and SSE2 for rate 1/3.                             *)
Handled ==
  /\ Current.lib.aligned \/ frame.endstate = 0
  /\ Current.lib.abs \/ \A j \in DOMAIN InForce : InForce[j] > 0

-----------------------------------------------------------------------------
(* A creation that fails gives everything back, and a deletion does.       *)
NothingLeaks == heap = IF decoder = NULL THEN {} ELSE {"vp", "decisions"}

(* The data decoded has the least distance that any data can have, however *)
(* the frame was cut into blocks and whatever wraps or saturates on the    *)
(* way.  The distance is measured with the polynomials that the caller has *)
(* set, before or after the creation, except those set before the first    *)
(* one on another processor than the portable one: they are lost, and the  *)
(* default ones decode.  The frames are those of Handled.                  *)
DecodesNearest ==
  result # NULL /\ Handled =>
    LET bits  == Message(Decoded, frame.endstate)
        least == LeastDistance
    IN  \E s \in 0..2^(setup.K-1)-1 : MessageDistance(bits, s) = least

(* Where simd-viterbi.3:238-239 promises 0, or -1 on error, updates return *)
(* what they took off the metrics and chainback what is left of them.      *)
(* Between them this is the least distance, under the conditions of        *)
(* DecodesNearest: nothing is lost that is taken off on the way.  The SSE2 *)
(* version counts from SHRT_MIN; the MMX one guesses, and returns others.  *)
MetricsAddUp ==
  result # NULL /\ Handled /\ Current.update.returns = "adjustments" =>
    decoder.returned + result.metric =
      LeastDistance + (IF Current.lib.reported = "as it is" THEN Current.lib.low ELSE 0)

=============================================================================
