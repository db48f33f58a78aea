---------------------------- MODULE NghamReceiver ----------------------------
(***************************************************************************)
(* The receiver of ngham.c: ngham_parse, called by an interrupt for each   *)
(* byte, together with the demodulator that feeds it.                      *)
(*                                                                         *)
(* The demodulator is external.  From how the code uses it: it hunts for a *)
(* sync word, then outputs bytes and counts them in one octet until the    *)
(* count equals the packet size it was given ("(255+3) % 256 = 2", says    *)
(* ngham_parse), then hunts again; ngham_platform_reinit makes it hunt at  *)
(* once.  It goes on past the end of a transmission with noise, and may    *)
(* give up in the middle of one (the modem starts to transmit, the carrier *)
(* is lost): no hook tells the parser.                                     *)
(*                                                                         *)
(* A byte is a pair <<t, k>>, the k-th byte of transmission t behind the   *)
(* sync word, or Hiss, a byte damaged beyond use.  A size tag byte with as *)
(* many wrong bits as ngham_tag_check forgives counts as undamaged.        *)
(***************************************************************************)
EXTENDS Naturals, Sequences, FiniteSets

CONSTANTS
  NGH_SIZES,          \* number of code word sizes
  NGH_PL_PAR_SIZE,    \* NGH_PL_PAR_SIZE[s]: bytes in a code word of size s
  Tolerance,          \* Tolerance[s]: bytes its Reed-Solomon code corrects
  W,                  \* the demodulator counts modulo W
  Transmissions,      \* what stations transmit ...
  SizeOf,             \* ... SizeOf[t]: its code word size
  FalseTags,          \* sizes that three wrong tag bytes may be taken for
  MaxErrors,          \* bound: damaged bytes in a reception
  MaxAborts,          \* bound: receptions given up by the demodulator
  MaxInits,           \* bound: calls of ngham_init
  Noise, None

NGH_SIZE_TAG_SIZE == 3
SizeNrs == 0..NGH_SIZES-1

ASSUME GeometryAssumption ==
  /\ NGH_SIZES \in Nat \ {0} /\ W \in Nat
  /\ NGH_PL_PAR_SIZE \in [SizeNrs -> 1..W-1]
  /\ Tolerance \in [SizeNrs -> Nat]
  /\ \A s \in SizeNrs : 2 * Tolerance[s] < NGH_PL_PAR_SIZE[s]
  /\ NGH_SIZE_TAG_SIZE + 1 < W   \* its maximum lies beyond the size tag
ASSUME AirAssumption ==
  /\ SizeOf \in [Transmissions -> SizeNrs]
  /\ FalseTags \subseteq SizeNrs
  /\ Noise \notin Transmissions /\ Noise # None
  /\ None \notin Transmissions /\ None \notin SizeNrs
ASSUME BoundsAssumption == MaxErrors \in Nat /\ MaxAborts \in Nat /\ MaxInits \in Nat

VARIABLES
  decoder_state, size_tag, rs_size_nr,
  code_word,                    \* rx_buf from ngham_flags on; its length is length
  demod, count, packet_size,    \* the demodulator
  air, pos, damaged,            \* what it listens to, bytes passed, which were damaged
  aborts, inits,
  outcome                       \* a transmission reported OK, or Noise for FAIL

parser  == <<decoder_state, size_tag, rs_size_nr, code_word>>
channel == <<air, pos, damaged>>
vars    == <<parser, demod, count, packet_size, channel, aborts, inits, outcome>>

Hiss == <<Noise, 0>>
FrameSize(t) == NGH_SIZE_TAG_SIZE + NGH_PL_PAR_SIZE[SizeOf[t]]

Init ==
  /\ decoder_state = "SIZE_TAG" /\ size_tag = <<>> /\ rs_size_nr = 0 /\ code_word = <<>>
  /\ demod = "hunting" /\ count = 0 /\ packet_size = W - 1
  /\ air = None /\ pos = 0 /\ damaged = {}
  /\ aborts = 0 /\ inits = 0
  /\ outcome = Noise

-----------------------------------------------------------------------------
(* The demodulator                                                         *)

Sync(t) ==
  /\ demod = "hunting"
  /\ demod' = "data" /\ count' = 0
  /\ air' = t /\ pos' = 0 /\ damaged' = {}
  /\ UNCHANGED <<parser, packet_size, aborts, inits, outcome>>

GiveUp ==
  /\ demod = "data"
  /\ aborts < MaxAborts
  /\ aborts' = aborts + 1
  /\ demod' = "hunting"
  /\ UNCHANGED <<parser, count, packet_size, channel, inits, outcome>>

(* The next byte on the air, and what the demodulator may make of it.      *)
InFrame == air \in Transmissions /\ pos < FrameSize(air)
Clean == IF InFrame THEN <<air, pos + 1>> ELSE Hiss
Heard == {Clean} \cup (IF Cardinality(damaged) < MaxErrors THEN {Hiss} ELSE {})

(* The demodulator outputs byte d and is in state next afterwards.         *)
Output(d, next) ==
  /\ demod = "data"
  /\ count' = (count + 1) % W
  /\ demod' = next
  /\ pos' = (IF InFrame THEN pos + 1 ELSE pos)
  /\ damaged' = (IF d = Clean THEN damaged ELSE damaged \cup {pos + 1})
  /\ UNCHANGED <<air, aborts, inits>>

(* It stops by itself at the byte that brings the count to the packet size *)
(* in force when it outputs that byte.                                     *)
Proceed == IF (count + 1) % W = packet_size THEN "hunting" ELSE "data"

-----------------------------------------------------------------------------
(* ngham_parse                                                             *)

(* The sizes ngham_tag_check may find in three bytes; none is a failure.   *)
TagSizes(tag) ==
  LET sent == {t \in Transmissions : \A k \in 1..NGH_SIZE_TAG_SIZE : tag[k] = <<t, k>>}
  IN  IF sent # {} THEN {SizeOf[t] : t \in sent} ELSE FalseTags \cup {None}

(* What ngham_decode reports of a code word once it comes to it: its       *)
(* Reed-Solomon code corrects Tolerance[s] bytes, and the CRC refuses what *)
(* it cannot correct.  A byte out of its place is descrambled with the     *)
(* wrong byte of the sequence.                                             *)
Decode(word, s) ==
  LET wrong(t) == {k \in 1..NGH_PL_PAR_SIZE[s] : word[k] # <<t, k + NGH_SIZE_TAG_SIZE>>}
      near == {t \in Transmissions : SizeOf[t] = s /\ Cardinality(wrong(t)) <= Tolerance[s]}
  IN  IF near # {} THEN CHOOSE t \in near : TRUE ELSE Noise

ParseSizeTag ==
  /\ decoder_state \in {"SIZE_TAG", "SIZE_TAG_2"}
  /\ \E d \in Heard :
       /\ Output(d, Proceed)
       /\ size_tag' = Append(IF decoder_state = "SIZE_TAG" THEN <<>> ELSE size_tag, d)
  /\ decoder_state' = (IF decoder_state = "SIZE_TAG" THEN "SIZE_TAG_2" ELSE "SIZE_TAG_3")
  /\ UNCHANGED <<rs_size_nr, code_word, packet_size, outcome>>

(* Mutant: the size saturates instead of wrapping.                         *)
ParseSizeKnownSaturated ==
  /\ decoder_state = "SIZE_TAG_3"
  /\ \E d \in Heard : \E s \in TagSizes(Append(size_tag, d)) \ {None} :
       /\ Output(d, Proceed)
       /\ rs_size_nr' = s
       /\ packet_size' = (IF NGH_PL_PAR_SIZE[s] + NGH_SIZE_TAG_SIZE < W
                            THEN NGH_PL_PAR_SIZE[s] + NGH_SIZE_TAG_SIZE ELSE W - 1)
  /\ decoder_state' = "SIZE_KNOWN" /\ size_tag' = <<>> /\ code_word' = <<>>
  /\ UNCHANGED outcome

(* The tag is intact: the size is known and the demodulator is told.       *)
ParseSizeKnown ==
  /\ decoder_state = "SIZE_TAG_3"
  /\ \E d \in Heard : \E s \in TagSizes(Append(size_tag, d)) \ {None} :
       /\ Output(d, Proceed)
       /\ rs_size_nr' = s
       /\ packet_size' = (NGH_PL_PAR_SIZE[s] + NGH_SIZE_TAG_SIZE) % W
  /\ decoder_state' = "SIZE_KNOWN" /\ size_tag' = <<>> /\ code_word' = <<>>
  /\ UNCHANGED outcome

(* Mutant: the demodulator is not made to hunt.                            *)
ParseSizeUnknownNoReinit ==
  /\ decoder_state = "SIZE_TAG_3"
  /\ \E d \in Heard : None \in TagSizes(Append(size_tag, d)) /\ Output(d, Proceed)
  /\ decoder_state' = "SIZE_TAG" /\ size_tag' = <<>> /\ rs_size_nr' = NGH_SIZES
  /\ outcome' = Noise
  /\ UNCHANGED <<code_word, packet_size>>

(* Mutant: the parser keeps waiting for the third byte of a tag.           *)
ParseSizeUnknownNoReset ==
  /\ decoder_state = "SIZE_TAG_3"
  /\ \E d \in Heard : None \in TagSizes(Append(size_tag, d)) /\ Output(d, "hunting")
  /\ rs_size_nr' = NGH_SIZES
  /\ outcome' = Noise
  /\ UNCHANGED <<decoder_state, size_tag, code_word, packet_size>>

(* No tag is near enough: the failure is reported and the demodulator is   *)
(* made to hunt.                                                           *)
ParseSizeUnknown ==
  /\ decoder_state = "SIZE_TAG_3"
  /\ \E d \in Heard : None \in TagSizes(Append(size_tag, d)) /\ Output(d, "hunting")
  /\ decoder_state' = "SIZE_TAG" /\ size_tag' = <<>> /\ rs_size_nr' = NGH_SIZES
  /\ outcome' = Noise
  /\ UNCHANGED <<code_word, packet_size>>

ParseByte ==
  /\ decoder_state = "SIZE_KNOWN"
  /\ Len(code_word) + 1 # NGH_PL_PAR_SIZE[rs_size_nr]
  /\ \E d \in Heard : Output(d, Proceed) /\ code_word' = Append(code_word, d)
  /\ UNCHANGED <<decoder_state, size_tag, rs_size_nr, packet_size, outcome>>

(* Mutant: the packet size is not reverted.                                *)
ParseLastByteNoRevert ==
  /\ decoder_state = "SIZE_KNOWN"
  /\ Len(code_word) + 1 = NGH_PL_PAR_SIZE[rs_size_nr]
  /\ \E d \in Heard : Output(d, Proceed) /\ outcome' = Decode(Append(code_word, d), rs_size_nr)
  /\ decoder_state' = "SIZE_TAG" /\ code_word' = <<>>
  /\ UNCHANGED <<size_tag, rs_size_nr, packet_size>>

(* The code word is complete: it is passed on and the packet size goes     *)
(* back to the maximum.                                                    *)
ParseLastByte ==
  /\ decoder_state = "SIZE_KNOWN"
  /\ Len(code_word) + 1 = NGH_PL_PAR_SIZE[rs_size_nr]
  /\ \E d \in Heard : Output(d, Proceed) /\ outcome' = Decode(Append(code_word, d), rs_size_nr)
  /\ packet_size' = W - 1
  /\ decoder_state' = "SIZE_TAG" /\ code_word' = <<>>
  /\ UNCHANGED <<size_tag, rs_size_nr>>

(* ngham_init: the parser starts over.                                     *)
NghamInit ==
  /\ inits < MaxInits
  /\ inits' = inits + 1
  /\ decoder_state' = "SIZE_TAG"
  /\ UNCHANGED <<size_tag, rs_size_nr, code_word, demod, count, packet_size, channel, aborts, outcome>>

-----------------------------------------------------------------------------
NghamParse == ParseSizeTag \/ ParseSizeKnown \/ ParseSizeUnknown \/ ParseByte \/ ParseLastByte

Next == (\E t \in Transmissions \cup {Noise} : Sync(t)) \/ GiveUp \/ NghamParse \/ NghamInit

Spec == Init /\ [][Next]_vars

(* A demodulator that is not hunting outputs the next byte.  Nothing       *)
(* obliges a station to transmit.                                          *)
FairSpec == Spec /\ WF_vars(NghamParse)

-----------------------------------------------------------------------------
(* Properties                                                              *)

(* The parser looks for a size tag exactly when the demodulator hunts, and *)
(* the packet size is then the maximum: the two never lose step, although  *)
(* the packet size of the longest frame wraps to less than the tag.        *)
InStep ==
  demod = "hunting" => decoder_state = "SIZE_TAG" /\ packet_size = W - 1

(* Each sync word leads to one outcome, and only the transmission on the   *)
(* air is reported OK.                                                     *)
Abstract == INSTANCE Reception WITH receiving <- IF demod = "hunting" THEN None ELSE air
OneOutcomePerSync == Abstract!Spec

(* A transmission whose size tag arrives and whose code word has no more   *)
(* wrong bytes than its Reed-Solomon code corrects is reported OK at the   *)
(* end of its reception, whatever came before it.                          *)
Ended == demod = "data" /\ demod' = "hunting"
Correctable(t, d) ==
  /\ d \cap 1..NGH_SIZE_TAG_SIZE = {}
  /\ Cardinality(d) <= Tolerance[SizeOf[t]]
CorrectableDelivered ==
  [][Ended /\ air \in Transmissions /\ Correctable(air, damaged') => outcome' = air]_vars

(* When the demodulator gives up some receptions the parser is left in the *)
(* middle of a code word; as long as sync words keep coming it gets back   *)
(* in step, provided the bytes it then takes for a tag match no size.      *)
SyncWordsKeepComing == []<><<\E t \in Transmissions : Sync(t)>>_vars
BackInStep == SyncWordsKeepComing /\ [](inits = 0) => []<>(demod = "hunting" /\ InStep)

(* ngham_init during a reception resets the parser but not the packet      *)
(* size.  The receiver gets back in step all the same, except that the     *)
(* size of the longest frame, less than a tag, may stay for ever: then     *)
(* each sync word is followed by two bytes only.                           *)
BackInStepOrDeaf ==
  SyncWordsKeepComing =>
    []<>(demod = "hunting" /\ InStep) \/ <>[](packet_size < NGH_SIZE_TAG_SIZE)

(* In step in full: the byte that ends a reception for the demodulator     *)
(* ends it for the parser, too.                                            *)
Synced ==
  IF demod = "hunting" THEN decoder_state = "SIZE_TAG" /\ packet_size = W - 1
  ELSE \/ /\ <<decoder_state, count>> \in {<<"SIZE_TAG", 0>>, <<"SIZE_TAG_2", 1>>, <<"SIZE_TAG_3", 2>>}
          /\ packet_size = W - 1
       \/ /\ decoder_state = "SIZE_KNOWN"
          /\ count = (NGH_SIZE_TAG_SIZE + Len(code_word)) % W
          /\ packet_size = (NGH_SIZE_TAG_SIZE + NGH_PL_PAR_SIZE[rs_size_nr]) % W

(* Bytes the parser takes until it gives up looking for a tag in them.     *)
Left ==
  CASE decoder_state = "SIZE_TAG"   -> 3
    [] decoder_state = "SIZE_TAG_2" -> 2
    [] decoder_state = "SIZE_TAG_3" -> 1
    [] OTHER -> NGH_PL_PAR_SIZE[rs_size_nr] - Len(code_word) + 3

(* Only a reception given up takes the two out of step, and out of step    *)
(* each byte brings the parser nearer to where it gets back, however its   *)
(* packets and the receptions overlap.                                     *)
RecoveryProgresses ==
  [][inits' = 0 /\ aborts' = aborts =>
       \/ Synced'
       \/ /\ ~Synced /\ Left' \in Nat
          /\ IF demod = "data" THEN Left' < Left ELSE Left' = Left]_vars

(* ngham_packets.h has a condition PREFAIL for "Reception failed before    *)
(* receiving the whole packet" and says FAIL is for a reception that       *)
(* "failed after receiving the packet".                                    *)
FailOnlyAfterWholePacket ==
  [][Ended /\ outcome' = Noise => decoder_state = "SIZE_KNOWN"]_vars
=============================================================================
