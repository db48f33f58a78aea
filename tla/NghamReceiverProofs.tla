------------------------- MODULE NghamReceiverProofs -------------------------
(***************************************************************************)
(* Without receptions given up, and with ngham_init between receptions     *)
(* only, parser and demodulator never lose step, for all code word sizes   *)
(* that the demodulator can count, the longest ones included, whose packet *)
(* size wraps; each reception has one outcome; and every transmission that *)
(* can be corrected is delivered.  With receptions given up at any byte    *)
(* the parser is back in step after a bounded number of bytes, and however *)
(* it is disturbed it never writes behind the end of a code word.          *)
(***************************************************************************)
EXTENDS NghamReceiver, Integers, FiniteSetTheorems, SequenceTheorems, TLAPS

Undisturbed == MaxAborts = 0 /\ MaxInits = 0

(* The steps that leave the two in step: all but a reception given up and  *)
(* a reset during one.                                                     *)
QuietNext ==
  \/ \E t \in Transmissions \cup {Noise} : Sync(t)
  \/ NghamParse
  \/ demod = "hunting" /\ NghamInit

-----------------------------------------------------------------------------
(* Counting modulo W                                                       *)

(* A number below 2 W is reduced by at most one W.                         *)
LEMMA ModOnce ==
  ASSUME NEW n \in 0..2*W-1
  PROVE  n % W = IF n < W THEN n ELSE n - W
<1>1. W \in Nat /\ W > 0
  BY GeometryAssumption DEF NGH_SIZE_TAG_SIZE
<1>2. n \in Nat /\ n < 2 * W
  BY <1>1
<1>3. CASE n < W
  BY <1>1, <1>2, <1>3
<1>4. CASE n >= W
  <2>1. n - W \in 0..W-1
    BY <1>1, <1>2, <1>4
  <2>2. n = W * 1 + (n - W)
    BY <1>1, <1>2
  <2>3. n % W = n - W
    BY <1>1, <1>2, <2>1, <2>2
  <2>4. QED  BY <1>1, <1>2, <1>4, <2>3
<1>5. QED  BY <1>1, <1>2, <1>3, <1>4

(* Bytes of a frame counted modulo W.                                      *)
Counted(n) == (NGH_SIZE_TAG_SIZE + n) % W

(* As many bytes as the demodulator can tell apart are told apart, and one *)
(* more byte counts one more.                                              *)
LEMMA CountedApart ==
  ASSUME NEW m \in 0..W-1, NEW n \in 0..W-1, Counted(m) = Counted(n)
  PROVE  m = n
<1>1. W \in Nat /\ 4 < W
  BY GeometryAssumption DEF NGH_SIZE_TAG_SIZE
<1>2. /\ NGH_SIZE_TAG_SIZE + m \in 0..2*W-1
      /\ NGH_SIZE_TAG_SIZE + n \in 0..2*W-1
  BY <1>1 DEF NGH_SIZE_TAG_SIZE
<1>3. /\ Counted(m) = IF 3 + m < W THEN 3 + m ELSE 3 + m - W
      /\ Counted(n) = IF 3 + n < W THEN 3 + n ELSE 3 + n - W
  BY <1>1, <1>2, ModOnce DEF Counted, NGH_SIZE_TAG_SIZE
<1>4. (IF 3 + m < W THEN 3 + m ELSE 3 + m - W) = (IF 3 + n < W THEN 3 + n ELSE 3 + n - W)
  BY <1>3
<1>5. m \in Int /\ n \in Int /\ 0 <= m /\ m < W /\ 0 <= n /\ n < W
  BY <1>1
<1>6. QED  BY <1>1, <1>4, <1>5

LEMMA CountedNext ==
  ASSUME NEW n \in 0..W-2
  PROVE  /\ Counted(n) \in 0..W-1
         /\ (Counted(n) + 1) % W = Counted(n + 1)
<1>1. W \in Nat /\ 4 < W
  BY GeometryAssumption DEF NGH_SIZE_TAG_SIZE
<1>2. /\ NGH_SIZE_TAG_SIZE + n \in 0..2*W-1
      /\ NGH_SIZE_TAG_SIZE + (n + 1) \in 0..2*W-1
  BY <1>1 DEF NGH_SIZE_TAG_SIZE
<1>3. /\ Counted(n) = IF 3 + n < W THEN 3 + n ELSE 3 + n - W
      /\ Counted(n + 1) = IF 4 + n < W THEN 4 + n ELSE 4 + n - W
  BY <1>1, <1>2, ModOnce DEF Counted, NGH_SIZE_TAG_SIZE
<1>4. Counted(n) \in 0..W-1 /\ Counted(n) + 1 \in 0..2*W-1
  BY <1>1, <1>3
<1>5. (Counted(n) + 1) % W = IF Counted(n) + 1 < W THEN Counted(n) + 1 ELSE Counted(n) + 1 - W
  BY <1>1, <1>4, ModOnce
<1>6. QED  BY <1>1, <1>3, <1>4, <1>5
-----------------------------------------------------------------------------
(* The inductive invariant                                                 *)

FromAir == {Hiss} \cup ({air} \X Nat)

(* Where the parser is when the demodulator has output this many bytes.    *)
InTag(state, n) == decoder_state = state /\ count = n /\ packet_size = W - 1
InCodeWord ==
  /\ decoder_state = "SIZE_KNOWN" /\ rs_size_nr \in SizeNrs
  /\ code_word \in Seq(FromAir) /\ Len(code_word) < NGH_PL_PAR_SIZE[rs_size_nr]
  /\ count = Counted(Len(code_word))
  /\ packet_size = Counted(NGH_PL_PAR_SIZE[rs_size_nr])

Listening ==
  /\ air \in Transmissions \cup {Noise}
  /\ InTag("SIZE_TAG", 0) \/ InTag("SIZE_TAG_2", 1) \/ InTag("SIZE_TAG_3", 2) \/ InCodeWord

IInv ==
  /\ demod \in {"hunting", "data"} /\ pos \in Nat
  /\ aborts \in Nat /\ inits \in Nat
  /\ InStep
  /\ demod = "data" => Listening

LEMMA SizeFacts ==
  /\ W \in Nat /\ 4 < W
  /\ \A s \in SizeNrs : NGH_PL_PAR_SIZE[s] \in 1..W-1
  /\ None \notin Transmissions \cup {Noise}
BY GeometryAssumption, AirAssumption DEF NGH_SIZE_TAG_SIZE

(* What the demodulator may output, and what that leaves behind.           *)
LEMMA OutputFacts ==
  ASSUME IInv, NEW heard \in Heard, NEW next, Output(heard, next)
  PROVE  /\ Listening /\ heard \in FromAir
         /\ demod' = next /\ pos' \in Nat /\ count' = (count + 1) % W
         /\ air' = air /\ aborts' \in Nat /\ inits' \in Nat /\ FromAir' = FromAir
<1>1. demod = "data" /\ Listening /\ pos \in Nat
  BY DEF IInv, Output
<1>2. pos' \in Nat
  BY <1>1 DEF Output
<1>3. Clean \in FromAir
  BY <1>1 DEF Clean, FromAir
<1>4. heard \in FromAir
  BY <1>3 DEF Heard, FromAir
<1>5. QED
  BY <1>1, <1>2, <1>4 DEF Output, IInv, FromAir, Hiss

LEMMA TagSizeTypes ==
  ASSUME NEW tag, NEW s \in TagSizes(tag) \ {None}
  PROVE  s \in SizeNrs
BY AirAssumption DEF TagSizes

LEMMA InitInv == Init => IInv
BY DEF Init, IInv, InStep

LEMMA NextInv ==
  ASSUME IInv, [QuietNext]_vars
  PROVE  IInv'
<1>1. ASSUME NEW t \in Transmissions \cup {Noise}, Sync(t)
      PROVE  IInv'
  BY <1>1 DEF IInv, Sync, InStep, Listening, InTag, parser
<1>2. CASE ParseSizeTag
  <2>1. PICK heard \in Heard : Output(heard, Proceed)
    BY <1>2 DEF ParseSizeTag
  <2>2. /\ Listening /\ demod' = Proceed /\ pos' \in Nat /\ count' = (count + 1) % W
        /\ air' = air /\ aborts' \in Nat /\ inits' \in Nat
    BY <2>1, OutputFacts
  <2>3. \/ InTag("SIZE_TAG", 0) /\ decoder_state' = "SIZE_TAG_2"
        \/ InTag("SIZE_TAG_2", 1) /\ decoder_state' = "SIZE_TAG_3"
    BY <1>2, <2>2 DEF ParseSizeTag, Listening, InTag, InCodeWord
  <2>4. /\ count \in 0..1 /\ packet_size = W - 1 /\ packet_size' = W - 1
        /\ (count + 1) % W = count + 1
    BY <1>2, <2>3, SizeFacts, ModOnce DEF ParseSizeTag, InTag
  <2>5. demod' = "data"
    BY <2>2, <2>4, SizeFacts DEF Proceed
  <2>6. InTag("SIZE_TAG_2", 1)' \/ InTag("SIZE_TAG_3", 2)'
    BY <2>2, <2>3, <2>4 DEF InTag
  <2>7. QED
    BY <2>2, <2>5, <2>6 DEF IInv, InStep, Listening
<1>3. CASE ParseSizeKnown
  <2>1. PICK heard \in Heard : \E s \in TagSizes(Append(size_tag, heard)) \ {None} :
               /\ Output(heard, Proceed)
               /\ rs_size_nr' = s
               /\ packet_size' = (NGH_PL_PAR_SIZE[s] + NGH_SIZE_TAG_SIZE) % W
    BY <1>3 DEF ParseSizeKnown
  <2>2. /\ rs_size_nr' \in SizeNrs
        /\ packet_size' = (NGH_PL_PAR_SIZE[rs_size_nr'] + NGH_SIZE_TAG_SIZE) % W
    BY <2>1, TagSizeTypes
  <2>3. /\ Listening /\ demod' = Proceed /\ pos' \in Nat /\ count' = (count + 1) % W
        /\ air' = air /\ aborts' \in Nat /\ inits' \in Nat
    BY <2>1, OutputFacts
  <2>4. count = 2 /\ packet_size = W - 1
    BY <1>3, <2>3 DEF ParseSizeKnown, Listening, InTag, InCodeWord
  <2>5. (count + 1) % W = 3
    BY <2>4, SizeFacts, ModOnce
  <2>6. demod' = "data"
    BY <2>3, <2>4, <2>5, SizeFacts DEF Proceed
  <2>7. packet_size' = Counted(NGH_PL_PAR_SIZE[rs_size_nr'])
    BY <2>2, SizeFacts DEF Counted, NGH_SIZE_TAG_SIZE
  <2>8. count' = Counted(0)
    BY <2>3, <2>5, SizeFacts, ModOnce DEF Counted, NGH_SIZE_TAG_SIZE
  <2>9. code_word' = <<>> /\ decoder_state' = "SIZE_KNOWN"
    BY <1>3 DEF ParseSizeKnown
  <2>10. NGH_PL_PAR_SIZE[rs_size_nr'] > 0
    BY <2>2, SizeFacts
  <2>11. InCodeWord'
    BY <2>2, <2>7, <2>8, <2>9, <2>10 DEF InCodeWord
  <2>12. QED
    BY <2>3, <2>6, <2>11 DEF IInv, InStep, Listening
<1>4. CASE ParseSizeUnknown
  <2>1. PICK heard \in Heard : Output(heard, "hunting")
    BY <1>4 DEF ParseSizeUnknown
  <2>2. Listening /\ demod' = "hunting" /\ pos' \in Nat /\ aborts' \in Nat /\ inits' \in Nat
    BY <2>1, OutputFacts
  <2>3. packet_size = W - 1
    BY <1>4, <2>2 DEF ParseSizeUnknown, Listening, InTag, InCodeWord
  <2>4. QED
    BY <1>4, <2>2, <2>3 DEF ParseSizeUnknown, IInv, InStep
<1>5. CASE ParseByte
  <2> DEFINE N == NGH_PL_PAR_SIZE[rs_size_nr]
             L == Len(code_word)
  <2>1. PICK heard \in Heard : Output(heard, Proceed) /\ code_word' = Append(code_word, heard)
    BY <1>5 DEF ParseByte
  <2>2. /\ Listening /\ demod' = Proceed /\ pos' \in Nat /\ count' = (count + 1) % W
        /\ air' = air /\ aborts' \in Nat /\ inits' \in Nat /\ FromAir' = FromAir
        /\ heard \in FromAir
    BY <2>1, OutputFacts
  <2>3. InCodeWord /\ L + 1 # N
    BY <1>5, <2>2 DEF ParseByte, Listening, InTag
  <2>4. L \in Nat /\ N \in 1..W-1 /\ L + 1 < N /\ L \in 0..W-2 /\ L + 1 \in 0..W-1 /\ N \in 0..W-1
    BY <2>3, SizeFacts DEF InCodeWord
  <2>5. (count + 1) % W = Counted(L + 1) /\ packet_size = Counted(N)
    BY <2>3, <2>4, CountedNext DEF InCodeWord
  <2>6. Counted(L + 1) # Counted(N)
    BY <2>4, CountedApart
  <2>7. demod' = "data"
    BY <2>2, <2>5, <2>6 DEF Proceed
  <2>8. /\ code_word' \in Seq(FromAir) /\ Len(code_word') = L + 1
        /\ rs_size_nr' = rs_size_nr /\ packet_size' = packet_size
        /\ decoder_state' = decoder_state
    BY <1>5, <2>1, <2>2, <2>3 DEF ParseByte, InCodeWord
  <2>9. InCodeWord'
    BY <2>2, <2>3, <2>4, <2>5, <2>8 DEF InCodeWord
  <2>10. QED
    BY <2>2, <2>7, <2>9 DEF IInv, InStep, Listening
<1>6. CASE ParseLastByte
  <2> DEFINE N == NGH_PL_PAR_SIZE[rs_size_nr]
             L == Len(code_word)
  <2>1. PICK heard \in Heard : Output(heard, Proceed)
    BY <1>6 DEF ParseLastByte
  <2>2. /\ Listening /\ demod' = Proceed /\ pos' \in Nat /\ aborts' \in Nat /\ inits' \in Nat
    BY <2>1, OutputFacts
  <2>3. InCodeWord /\ L + 1 = N
    BY <1>6, <2>2 DEF ParseLastByte, Listening, InTag
  <2>4. L \in 0..W-2
    BY <2>3, SizeFacts DEF InCodeWord
  <2>5. (count + 1) % W = packet_size
    BY <2>3, <2>4, CountedNext DEF InCodeWord
  <2>6. demod' = "hunting"
    BY <2>2, <2>5 DEF Proceed
  <2>7. QED
    BY <1>6, <2>2, <2>6 DEF ParseLastByte, IInv, InStep
<1>8. CASE demod = "hunting" /\ NghamInit
  BY <1>8 DEF NghamInit, channel, IInv, InStep
<1>9. CASE UNCHANGED vars
  BY <1>9 DEF vars, parser, channel, IInv, InStep, Listening, InTag, InCodeWord, FromAir
<1>10. QED
  BY <1>1, <1>2, <1>3, <1>4, <1>5, <1>6, <1>8, <1>9 DEF QuietNext, NghamParse

LEMMA UndisturbedNext ==
  ASSUME Undisturbed, IInv, [Next]_vars
  PROVE  [QuietNext]_vars
BY DEF Undisturbed, IInv, Next, QuietNext, GiveUp, NghamInit

(* The parser looks for a size tag whenever the demodulator hunts, and the *)
(* demodulator then has its maximum packet size: ngham_parse and the hooks *)
(* it calls at the end of each reception never lose step.                  *)
THEOREM NeverOutOfStep ==
  ASSUME Undisturbed
  PROVE  Spec => []InStep
<1>1. IInv => InStep
  BY DEF IInv
<1>2. IInv /\ [Next]_vars => IInv'
  BY UndisturbedNext, NextInv
<1>3. QED
  BY <1>1, <1>2, InitInv, PTL DEF Spec

-----------------------------------------------------------------------------
(* Outcomes                                                                *)

(* A code word of bytes of one transmission, and of noise, is not taken    *)
(* for another one: every byte would have to be corrected.                 *)
LEMMA DecodeOutcome ==
  ASSUME InCodeWord, air \in Transmissions \cup {Noise}, NEW heard \in FromAir,
         Len(code_word) + 1 = NGH_PL_PAR_SIZE[rs_size_nr]
  PROVE  Decode(Append(code_word, heard), rs_size_nr) \in {air, Noise}
<1> DEFINE N == NGH_PL_PAR_SIZE[rs_size_nr]
           word == Append(code_word, heard)
           wrong(t) == {k \in 1..N : word[k] # <<t, k + NGH_SIZE_TAG_SIZE>>}
           near == {t \in Transmissions : SizeOf[t] = rs_size_nr
                                           /\ Cardinality(wrong(t)) <= Tolerance[rs_size_nr]}
<1>1. /\ rs_size_nr \in SizeNrs /\ N \in Nat /\ N > 0
      /\ Tolerance[rs_size_nr] \in Nat /\ Tolerance[rs_size_nr] < N
  BY GeometryAssumption DEF InCodeWord
<1>2. code_word \in Seq(FromAir) /\ Len(code_word) + 1 = N
  BY DEF InCodeWord
<1>3. \A k \in 1..N : word[k] \in FromAir
  BY <1>2
<1>4. ASSUME NEW t \in Transmissions, t # air
      PROVE  t \notin near
  <2>1. t # Noise
    BY AirAssumption
  <2>2. \A k \in 1..N : word[k] # <<t, k + NGH_SIZE_TAG_SIZE>>
    BY <1>3, <1>4, <2>1 DEF FromAir, Hiss
  <2>3. wrong(t) = 1..N
    BY <2>2
  <2>4. Cardinality(1..N) = N
    BY <1>1, FS_Interval
  <2>5. ~ Cardinality(wrong(t)) <= Tolerance[rs_size_nr]
    <3>1. Cardinality(wrong(t)) = N
      BY <2>3, <2>4
    <3> HIDE DEF wrong, N
    <3>2. QED
      BY <1>1, <3>1
  <2> HIDE DEF wrong
  <2>6. QED
    BY <2>5
<1>5. Decode(word, rs_size_nr) = IF near # {} THEN CHOOSE t \in near : TRUE ELSE Noise
  BY DEF Decode
<1>6. CASE near # {}
  <2>1. (CHOOSE t \in near : TRUE) \in near
    BY <1>6
  <2>2. QED
    BY <1>4, <1>5, <1>6, <2>1
<1>7. QED
  BY <1>5, <1>6

LEMMA InitReception == Init => Abstract!Init
BY DEF Init, Abstract!Init

(* What a byte is to Reception: nothing, unless it ends the reception.     *)
LEMMA ByteStutters ==
  ASSUME IInv, ParseSizeTag \/ ParseSizeKnown \/ ParseByte
  PROVE  UNCHANGED Abstract!vars
<1>1. PICK heard \in Heard : Output(heard, Proceed) /\ outcome' = outcome
  BY DEF ParseSizeTag, ParseSizeKnown, ParseByte
<1>2. demod = "data" /\ air' = air
  BY <1>1 DEF Output
<1>3. decoder_state' # "SIZE_TAG"
  BY DEF ParseSizeTag, ParseSizeKnown, ParseByte
<1>4. IInv'
  BY NextInv DEF QuietNext, NghamParse
<1>5. demod' = "data"
  BY <1>3, <1>4 DEF IInv, InStep
<1>6. QED
  BY <1>1, <1>2, <1>5 DEF Abstract!vars

LEMMA UnknownSizeFinishes ==
  ASSUME IInv, ParseSizeUnknown
  PROVE  Abstract!Finish /\ outcome' = Noise
<1>1. PICK heard \in Heard : Output(heard, "hunting")
  BY DEF ParseSizeUnknown
<1>2. demod = "data" /\ demod' = "hunting" /\ air # None
  BY <1>1, SizeFacts DEF Output, IInv, Listening
<1>3. outcome' = Noise
  BY DEF ParseSizeUnknown
<1>4. QED
  BY <1>2, <1>3 DEF Abstract!Finish

LEMMA LastByteFinishes ==
  ASSUME IInv, ParseLastByte
  PROVE  Abstract!Finish /\ outcome' \in Transmissions \cup {Noise}
<1>1. PICK heard \in Heard :
        /\ Output(heard, Proceed)
        /\ outcome' = Decode(Append(code_word, heard), rs_size_nr)
  BY DEF ParseLastByte
<1>2. Listening /\ heard \in FromAir /\ demod = "data" /\ demod' = Proceed
  BY <1>1, OutputFacts DEF Output
<1>3. InCodeWord /\ Len(code_word) + 1 = NGH_PL_PAR_SIZE[rs_size_nr]
  BY <1>2 DEF ParseLastByte, Listening, InTag
<1>4. outcome' \in {air, Noise}
  BY <1>1, <1>2, <1>3, DecodeOutcome DEF Listening
<1>5. Len(code_word) \in 0..W-2
  BY <1>3, SizeFacts DEF InCodeWord
<1>6. Proceed = "hunting"
  BY <1>3, <1>5, CountedNext DEF InCodeWord, Proceed
<1>7. air # None /\ air \in Transmissions \cup {Noise}
  BY <1>2, SizeFacts DEF Listening
<1>8. QED
  BY <1>2, <1>4, <1>6, <1>7 DEF Abstract!Finish

LEMMA NextReception ==
  ASSUME IInv, [QuietNext]_vars
  PROVE  [Abstract!Next]_(Abstract!vars)
<1>1. ASSUME NEW t \in Transmissions \cup {Noise}, Sync(t)
      PROVE  Abstract!Sync(t)
  BY <1>1 DEF Sync, Abstract!Sync
<1>2. CASE demod = "hunting" /\ NghamInit
  BY <1>2 DEF NghamInit, channel, Abstract!vars
<1>3. CASE UNCHANGED vars
  BY <1>3 DEF vars, channel, Abstract!vars
<1>4. QED
  BY <1>1, <1>2, <1>3, ByteStutters, UnknownSizeFinishes, LastByteFinishes
  DEF QuietNext, NghamParse, Abstract!Next

(* Every sync word leads to one outcome, and no transmission but the one   *)
(* on the air is reported OK: the receiver implements Reception.           *)
THEOREM ReceptionRefinement ==
  ASSUME Undisturbed
  PROVE  Spec => OneOutcomePerSync
<1>1. IInv /\ [Next]_vars => IInv'
  BY UndisturbedNext, NextInv
<1>2. IInv /\ [Next]_vars => [Abstract!Next]_(Abstract!vars)
  BY UndisturbedNext, NextReception
<1>3. QED
  BY <1>1, <1>2, InitInv, InitReception, PTL DEF Spec, OneOutcomePerSync, Abstract!Spec
-----------------------------------------------------------------------------
(* Delivery                                                                *)

(* What the parser holds of a transmission that is on the air: each byte   *)
(* in its place, unless it was damaged.  Before the size is known the tag  *)
(* is counted; afterwards, if the tag was not damaged, the code word is.   *)
TagBytes ==
  /\ damaged \subseteq 1..pos /\ pos = count
  /\ decoder_state # "SIZE_TAG" => size_tag \in Seq(FromAir) /\ Len(size_tag) = count
  /\ \A k \in 1..count : size_tag[k] = <<air, k>> \/ k \in damaged
WordBytes ==
  /\ damaged \subseteq 1..pos /\ pos = NGH_SIZE_TAG_SIZE + Len(code_word)
  /\ rs_size_nr = SizeOf[air]
  /\ \A k \in 1..Len(code_word) :
       code_word[k] = <<air, k + NGH_SIZE_TAG_SIZE>> \/ k + NGH_SIZE_TAG_SIZE \in damaged

TagSound == damaged \cap 1..NGH_SIZE_TAG_SIZE = {}
Tracked ==
  demod = "data" /\ air \in Transmissions =>
    IF decoder_state = "SIZE_KNOWN" THEN TagSound => WordBytes ELSE TagBytes

(* Within a frame the demodulator outputs its next byte, or damages it.    *)
LEMMA OutputInFrame ==
  ASSUME NEW heard, NEW next, Output(heard, next), InFrame,
         pos \in Nat, damaged \subseteq 1..pos
  PROVE  /\ pos' = pos + 1 /\ damaged \subseteq damaged' /\ damaged' \subseteq 1..pos'
         /\ heard = <<air, pos + 1>> \/ pos + 1 \in damaged'
<1>1. pos' = pos + 1 /\ Clean = <<air, pos + 1>>
  BY DEF Output, Clean
<1>2. 1..pos \subseteq 1..pos+1 /\ pos + 1 \in 1..pos+1
  OBVIOUS
<1>3. damaged' = IF heard = Clean THEN damaged ELSE damaged \cup {pos + 1}
  BY DEF Output
<1>4. QED  BY <1>1, <1>2, <1>3

(* Three undamaged bytes of a size tag tell the size of its transmission.  *)
LEMMA SoundTag ==
  ASSUME air \in Transmissions, NEW tag,
         \A k \in 1..NGH_SIZE_TAG_SIZE : tag[k] = <<air, k>>
  PROVE  TagSizes(tag) = {SizeOf[air]}
<1> DEFINE sent == {t \in Transmissions : \A k \in 1..NGH_SIZE_TAG_SIZE : tag[k] = <<t, k>>}
<1>1. sent = {air}
  <2>1. 1 \in 1..NGH_SIZE_TAG_SIZE
    BY DEF NGH_SIZE_TAG_SIZE
  <2>2. QED  BY <2>1
<1>2. TagSizes(tag) = IF sent # {} THEN {SizeOf[t] : t \in sent} ELSE FalseTags \cup {None}
  BY DEF TagSizes
<1> HIDE DEF sent
<1>3. QED  BY <1>1, <1>2

(* The third byte of the tag of a transmission: with all three undamaged   *)
(* the size found is its own.                                              *)
LEMMA ThirdTagByte ==
  ASSUME IInv, Tracked, air \in Transmissions, decoder_state = "SIZE_TAG_3",
         NEW heard \in Heard, NEW next, Output(heard, next)
  PROVE  /\ pos' = NGH_SIZE_TAG_SIZE /\ damaged' \subseteq 1..pos'
         /\ TagSound' => TagSizes(Append(size_tag, heard)) = {SizeOf[air]}
<1>1. Listening /\ demod = "data" /\ pos \in Nat
  BY DEF IInv, Output
<1>2. count = 2 /\ TagBytes
  BY <1>1 DEF Tracked, Listening, InTag, InCodeWord
<1>3. pos = 2 /\ Len(size_tag) = 2 /\ size_tag \in Seq(FromAir) /\ damaged \subseteq 1..pos
  BY <1>2 DEF TagBytes
<1>4. InFrame
  BY <1>3, SizeFacts, AirAssumption DEF InFrame, FrameSize, NGH_SIZE_TAG_SIZE
<1>5. /\ pos' = pos + 1 /\ damaged \subseteq damaged' /\ damaged' \subseteq 1..pos'
      /\ heard = <<air, pos + 1>> \/ pos + 1 \in damaged'
  BY <1>1, <1>3, <1>4, OutputInFrame
<1>6. ASSUME TagSound'
      PROVE  TagSizes(Append(size_tag, heard)) = {SizeOf[air]}
  <2>1. damaged' \cap 1..3 = {}
    BY <1>6 DEF TagSound, NGH_SIZE_TAG_SIZE
  <2>2. size_tag[1] = <<air, 1>> /\ size_tag[2] = <<air, 2>>
    BY <1>2, <1>3, <1>5, <2>1 DEF TagBytes
  <2>3. heard = <<air, 3>>
    BY <1>3, <1>5, <2>1
  <2>4. heard \in FromAir
    BY OutputFacts
  <2>5. \A k \in 1..NGH_SIZE_TAG_SIZE : Append(size_tag, heard)[k] = <<air, k>>
    BY <1>3, <2>2, <2>3, <2>4, SMTT(60) DEF NGH_SIZE_TAG_SIZE
  <2>6. QED  BY <2>5, SoundTag
<1>7. QED  BY <1>3, <1>5, <1>6 DEF NGH_SIZE_TAG_SIZE

(* One more byte of a code word.                                           *)
LEMMA NextWordByte ==
  ASSUME IInv, Tracked, air \in Transmissions, decoder_state = "SIZE_KNOWN",
         NEW heard \in Heard, NEW next, Output(heard, next), TagSound'
  PROVE  /\ WordBytes /\ pos' = pos + 1 /\ damaged \subseteq damaged' /\ damaged' \subseteq 1..pos'
         /\ \A k \in 1..Len(code_word)+1 :
              \/ Append(code_word, heard)[k] = <<air, k + NGH_SIZE_TAG_SIZE>>
              \/ k + NGH_SIZE_TAG_SIZE \in damaged'
<1>1. Listening /\ demod = "data" /\ pos \in Nat /\ heard \in FromAir
  BY OutputFacts DEF IInv, Output
<1>2. InCodeWord
  BY <1>1 DEF Listening, InTag
<1>3. damaged \subseteq damaged'
  BY DEF Output
<1>4. WordBytes
  BY <1>1, <1>3 DEF Tracked, TagSound
<1>5. Len(code_word) \in Nat /\ Len(code_word) < NGH_PL_PAR_SIZE[SizeOf[air]]
  BY <1>2, <1>4 DEF InCodeWord, WordBytes
<1>6. InFrame
  BY <1>4, <1>5, SizeFacts, AirAssumption DEF InFrame, FrameSize, NGH_SIZE_TAG_SIZE, WordBytes
<1>7. /\ pos' = pos + 1 /\ damaged \subseteq damaged' /\ damaged' \subseteq 1..pos'
      /\ heard = <<air, pos + 1>> \/ pos + 1 \in damaged'
  BY <1>1, <1>4, <1>6, OutputInFrame DEF WordBytes
<1>8. code_word \in Seq(FromAir) /\ pos + 1 = Len(code_word) + 1 + NGH_SIZE_TAG_SIZE
  BY <1>2, <1>4, <1>5 DEF InCodeWord, WordBytes, NGH_SIZE_TAG_SIZE
<1>9. ASSUME NEW k \in 1..Len(code_word)+1
      PROVE  \/ Append(code_word, heard)[k] = <<air, k + NGH_SIZE_TAG_SIZE>>
             \/ k + NGH_SIZE_TAG_SIZE \in damaged'
  <2>1. CASE k = Len(code_word) + 1
    BY <1>1, <1>5, <1>7, <1>8, <2>1
  <2>2. CASE k \in 1..Len(code_word)
    <3>1. Append(code_word, heard)[k] = code_word[k]
      BY <1>1, <1>8, <2>2
    <3>2. QED
      BY <1>4, <1>7, <2>2, <3>1 DEF WordBytes
  <2>3. QED  BY <1>5, <2>1, <2>2
<1>10. QED  BY <1>4, <1>7, <1>9

LEMMA InitTracked == Init => Tracked
BY DEF Init, Tracked

LEMMA NextTracked ==
  ASSUME IInv, Tracked, [QuietNext]_vars
  PROVE  Tracked'
<1> SUFFICES ASSUME demod' = "data", air' \in Transmissions
             PROVE  IF decoder_state' = "SIZE_KNOWN" THEN TagSound' => WordBytes' ELSE TagBytes'
  BY DEF Tracked
<1>1. ASSUME NEW t \in Transmissions \cup {Noise}, Sync(t)
      PROVE  decoder_state' = "SIZE_TAG" /\ TagBytes'
  BY <1>1 DEF Sync, IInv, InStep, parser, TagBytes
<1>2. CASE ParseSizeTag
  <2>1. PICK heard \in Heard :
          /\ Output(heard, Proceed)
          /\ size_tag' = Append(IF decoder_state = "SIZE_TAG" THEN <<>> ELSE size_tag, heard)
    BY <1>2 DEF ParseSizeTag
  <2>2. /\ Listening /\ heard \in FromAir /\ count' = (count + 1) % W
        /\ air' = air /\ FromAir' = FromAir
    BY <2>1, OutputFacts
  <2>3. demod = "data" /\ pos \in Nat
    BY <2>1 DEF IInv, Output
  <2>4. TagBytes
    BY <1>2, <2>2, <2>3 DEF Tracked, ParseSizeTag
  <2>5. \/ decoder_state = "SIZE_TAG" /\ count = 0
        \/ decoder_state = "SIZE_TAG_2" /\ count = 1
    BY <1>2, <2>2 DEF ParseSizeTag, Listening, InTag, InCodeWord
  <2>6. count' = count + 1
    BY <2>2, <2>5, SizeFacts, ModOnce
  <2>7. InFrame
    BY <2>2, <2>4, <2>5, SizeFacts, AirAssumption
    DEF InFrame, FrameSize, NGH_SIZE_TAG_SIZE, TagBytes
  <2>8. /\ pos' = pos + 1 /\ damaged \subseteq damaged' /\ damaged' \subseteq 1..pos'
        /\ heard = <<air, pos + 1>> \/ pos + 1 \in damaged'
    BY <2>1, <2>3, <2>4, <2>7, OutputInFrame DEF TagBytes
  <2>9. size_tag' \in Seq(FromAir) /\ Len(size_tag') = count'
    BY <2>1, <2>2, <2>4, <2>5, <2>6 DEF TagBytes
  <2>10. ASSUME NEW k \in 1..count'
         PROVE  size_tag'[k] = <<air, k>> \/ k \in damaged'
    <3>1. CASE decoder_state = "SIZE_TAG"
      BY <2>1, <2>4, <2>5, <2>6, <2>8, <3>1 DEF TagBytes
    <3>2. CASE decoder_state = "SIZE_TAG_2"
      BY <2>1, <2>2, <2>4, <2>5, <2>6, <2>8, <3>2 DEF TagBytes
    <3>3. QED  BY <2>5, <3>1, <3>2
  <2>11. decoder_state' # "SIZE_KNOWN"
    BY <1>2 DEF ParseSizeTag
  <2>12. QED
    BY <2>2, <2>4, <2>6, <2>8, <2>9, <2>10, <2>11 DEF TagBytes
<1>3. CASE ParseSizeKnown
  <2>1. PICK heard \in Heard : \E s \in TagSizes(Append(size_tag, heard)) \ {None} :
               Output(heard, Proceed) /\ rs_size_nr' = s
    BY <1>3 DEF ParseSizeKnown
  <2>2. air' = air /\ decoder_state' = "SIZE_KNOWN" /\ code_word' = <<>>
    BY <1>3, <2>1 DEF ParseSizeKnown, Output
  <2>3. /\ pos' = NGH_SIZE_TAG_SIZE /\ damaged' \subseteq 1..pos'
        /\ TagSound' => rs_size_nr' = SizeOf[air]
    BY <1>3, <2>1, <2>2, ThirdTagByte DEF ParseSizeKnown
  <2>4. QED
    BY <2>2, <2>3 DEF WordBytes, NGH_SIZE_TAG_SIZE
<1>4. CASE ParseSizeUnknown
  BY <1>4 DEF ParseSizeUnknown, Output
<1>5. CASE ParseByte
  <2>1. PICK heard \in Heard : Output(heard, Proceed) /\ code_word' = Append(code_word, heard)
    BY <1>5 DEF ParseByte
  <2>2. air' = air /\ decoder_state' = "SIZE_KNOWN" /\ rs_size_nr' = rs_size_nr
    BY <1>5, <2>1 DEF ParseByte, Output
  <2>3. ASSUME TagSound'
        PROVE  WordBytes'
    <3>1. /\ WordBytes /\ pos' = pos + 1 /\ damaged' \subseteq 1..pos'
          /\ \A k \in 1..Len(code_word)+1 :
               \/ code_word'[k] = <<air, k + NGH_SIZE_TAG_SIZE>>
               \/ k + NGH_SIZE_TAG_SIZE \in damaged'
      BY <1>5, <2>1, <2>2, <2>3, NextWordByte DEF ParseByte
    <3>2. Listening /\ heard \in FromAir
      BY <2>1, OutputFacts
    <3>3. code_word \in Seq(FromAir)
      BY <1>5, <3>2 DEF Listening, InTag, InCodeWord, ParseByte
    <3>4. Len(code_word') = Len(code_word) + 1 /\ Len(code_word) \in Nat
      BY <2>1, <3>2, <3>3
    <3>5. QED
      BY <2>2, <3>1, <3>4 DEF WordBytes, NGH_SIZE_TAG_SIZE
  <2>4. QED  BY <2>2, <2>3
<1>6. CASE ParseLastByte
  BY <1>6, LastByteFinishes, AirAssumption DEF Abstract!Finish
<1>7. CASE demod = "hunting" /\ NghamInit
  BY <1>7 DEF NghamInit
<1>8. CASE UNCHANGED vars
  BY <1>8 DEF vars, parser, channel, Tracked, TagSound, TagBytes, WordBytes, FromAir
<1>9. QED
  BY <1>1, <1>2, <1>3, <1>4, <1>5, <1>6, <1>7, <1>8 DEF QuietNext, NghamParse

(* A code word with no more wrong bytes than its code corrects decodes:    *)
(* the wrong places of the code word are damaged bytes of the frame.       *)
LEMMA CorrectableDecodes ==
  ASSUME InCodeWord, air \in Transmissions, NEW heard \in FromAir, rs_size_nr = SizeOf[air],
         Len(code_word) + 1 = NGH_PL_PAR_SIZE[rs_size_nr],
         NEW hit, NEW last \in Nat, hit \subseteq 1..last, Correctable(air, hit),
         \A k \in 1..Len(code_word)+1 :
           \/ Append(code_word, heard)[k] = <<air, k + NGH_SIZE_TAG_SIZE>>
           \/ k + NGH_SIZE_TAG_SIZE \in hit
  PROVE  Decode(Append(code_word, heard), rs_size_nr) = air
<1> DEFINE N == NGH_PL_PAR_SIZE[rs_size_nr]
           word == Append(code_word, heard)
           wrong(t) == {k \in 1..N : word[k] # <<t, k + NGH_SIZE_TAG_SIZE>>}
           near == {t \in Transmissions : SizeOf[t] = rs_size_nr
                                           /\ Cardinality(wrong(t)) <= Tolerance[rs_size_nr]}
           place == [k \in wrong(air) |-> k + NGH_SIZE_TAG_SIZE]
<1>1. IsFiniteSet(hit)
  <2>1. IsFiniteSet(1..last)
    BY FS_Interval
  <2>2. QED  BY <2>1, FS_Subset
<1>2. wrong(air) \subseteq Nat
  OBVIOUS
<1>3. place \in Injection(wrong(air), hit)
  <2>1. place \in [wrong(air) -> hit]
    OBVIOUS
  <2>2. \A j, k \in wrong(air) : place[j] = place[k] => j = k
    BY <1>2 DEF NGH_SIZE_TAG_SIZE
  <2> HIDE DEF place, wrong
  <2>3. QED  BY <2>1, <2>2 DEF Injection, IsInjective
<1>4. IsFiniteSet(wrong(air)) /\ Cardinality(wrong(air)) <= Cardinality(hit)
  BY <1>1, <1>3, FS_Injection, ZenonT(60)
<1>5. /\ Cardinality(wrong(air)) \in Nat /\ Cardinality(hit) \in Nat
      /\ Cardinality(hit) <= Tolerance[rs_size_nr] /\ Tolerance[rs_size_nr] \in Nat
  BY <1>1, <1>4, FS_CardinalityType, GeometryAssumption, AirAssumption DEF Correctable
<1> HIDE DEF wrong
<1>6. Cardinality(wrong(air)) <= Tolerance[rs_size_nr]
  BY <1>4, <1>5
<1>7. air \in near
  BY <1>6
<1>8. Decode(word, rs_size_nr) = IF near # {} THEN CHOOSE t \in near : TRUE ELSE Noise
  BY DEF Decode, wrong
<1>9. Decode(word, rs_size_nr) \in Transmissions
  BY <1>7, <1>8
<1>10. Decode(word, rs_size_nr) \in {air, Noise}
  BY DecodeOutcome
<1>11. QED
  BY <1>9, <1>10, AirAssumption

LEMMA DeliveredStep ==
  ASSUME IInv, Tracked, [QuietNext]_vars,
         Ended, air \in Transmissions, Correctable(air, damaged')
  PROVE  outcome' = air
<1>1. demod = "data" /\ demod' = "hunting" /\ TagSound'
  BY DEF Ended, Correctable, TagSound
<1>2. decoder_state' = "SIZE_TAG"
  BY <1>1, NextInv DEF IInv, InStep
<1>3. CASE ParseSizeUnknown
  <2>1. PICK heard \in Heard :
          None \in TagSizes(Append(size_tag, heard)) /\ Output(heard, "hunting")
    BY <1>3 DEF ParseSizeUnknown
  <2>2. TagSizes(Append(size_tag, heard)) = {SizeOf[air]}
    BY <1>1, <1>3, <2>1, ThirdTagByte DEF ParseSizeUnknown
  <2>3. QED
    BY <2>1, <2>2, AirAssumption
<1>4. CASE ParseLastByte
  <2>1. PICK heard \in Heard :
          /\ Output(heard, Proceed)
          /\ outcome' = Decode(Append(code_word, heard), rs_size_nr)
    BY <1>4 DEF ParseLastByte
  <2>2. Listening /\ heard \in FromAir /\ pos' \in Nat
    BY <2>1, OutputFacts
  <2>3. InCodeWord /\ Len(code_word) + 1 = NGH_PL_PAR_SIZE[rs_size_nr]
    BY <1>4, <2>2 DEF ParseLastByte, Listening, InTag
  <2>4. /\ WordBytes /\ damaged' \subseteq 1..pos'
        /\ \A k \in 1..Len(code_word)+1 :
             \/ Append(code_word, heard)[k] = <<air, k + NGH_SIZE_TAG_SIZE>>
             \/ k + NGH_SIZE_TAG_SIZE \in damaged'
    BY <1>1, <1>4, <2>1, NextWordByte DEF ParseLastByte
  <2>5. rs_size_nr = SizeOf[air]
    BY <2>4 DEF WordBytes
  <2>6. QED
    BY <2>1, <2>2, <2>3, <2>4, <2>5, CorrectableDecodes
<1>5. CASE ParseSizeTag \/ ParseSizeKnown \/ ParseByte
  BY <1>2, <1>5 DEF ParseSizeTag, ParseSizeKnown, ParseByte
<1>6. CASE (\E t \in Transmissions \cup {Noise} : Sync(t)) \/ (demod = "hunting" /\ NghamInit)
  BY <1>1, <1>6 DEF Sync
<1>7. CASE UNCHANGED vars
  BY <1>1, <1>7 DEF vars
<1>8. QED
  BY <1>3, <1>4, <1>5, <1>6, <1>7 DEF QuietNext, NghamParse

(* A transmission whose size tag arrives, and whose code word has no more  *)
(* wrong bytes than its code corrects, is reported OK, whatever was        *)
(* received before it and however it was damaged.                          *)
THEOREM Delivery ==
  ASSUME Undisturbed
  PROVE  Spec => CorrectableDelivered
<1> DEFINE Delivered == Ended /\ air \in Transmissions /\ Correctable(air, damaged') => outcome' = air
<1>1. Init => IInv /\ Tracked
  BY InitInv, InitTracked
<1>2. IInv /\ Tracked /\ [Next]_vars => IInv' /\ Tracked'
  BY UndisturbedNext, NextInv, NextTracked
<1>3. IInv /\ Tracked /\ [Next]_vars => [Delivered]_vars
  BY UndisturbedNext, DeliveredStep
<1>4. QED
  BY <1>1, <1>2, <1>3, PTL DEF Spec, CorrectableDelivered

-----------------------------------------------------------------------------
(* Receptions given up, and ngham_init at any time                         *)

AnyByte == {Hiss} \cup (Transmissions \X Nat)

(* What the parser holds, whatever is given up and whenever it is reset.   *)
ParserInv ==
  /\ decoder_state \in {"SIZE_TAG", "SIZE_TAG_2", "SIZE_TAG_3", "SIZE_KNOWN"}
  /\ decoder_state = "SIZE_TAG_2" => size_tag \in Seq(AnyByte) /\ Len(size_tag) = 1
  /\ decoder_state = "SIZE_TAG_3" => size_tag \in Seq(AnyByte) /\ Len(size_tag) = 2
  /\ decoder_state = "SIZE_KNOWN" =>
       /\ rs_size_nr \in SizeNrs
       /\ code_word \in Seq(AnyByte) /\ Len(code_word) < NGH_PL_PAR_SIZE[rs_size_nr]

(* What the demodulator was told: its size is that of the code word the    *)
(* parser is in, unless ngham_init has made the parser forget one.         *)
SizeToldInv ==
  /\ aborts \in Nat /\ inits \in Nat
  /\ inits = 0 => packet_size = IF decoder_state = "SIZE_KNOWN" THEN Counted(NGH_PL_PAR_SIZE[rs_size_nr])
                                ELSE W - 1

DemodInv ==
  /\ demod \in {"hunting", "data"} /\ pos \in Nat /\ count \in 0..W-1
  /\ demod = "data" /\ air \in Transmissions /\ pos <= 2 => count = pos

DisturbedInv == ParserInv /\ SizeToldInv /\ DemodInv

LEMMA InitDisturbed == Init => DisturbedInv /\ Synced
BY SizeFacts DEF Init, DisturbedInv, ParserInv, SizeToldInv, DemodInv, Synced

LEMMA HeardByte ==
  ASSUME DemodInv, NEW heard \in Heard
  PROVE  heard \in AnyByte
BY DEF Heard, Clean, InFrame, AnyByte, DemodInv

LEMMA OutputCounts ==
  ASSUME DemodInv, NEW heard \in Heard, NEW next \in {"hunting", "data"}, Output(heard, next)
  PROVE  DemodInv' /\ demod = "data" /\ demod' = next /\ inits' = inits /\ aborts' = aborts
         /\ count' = (IF count + 1 < W THEN count + 1 ELSE 0)
<1>1. demod = "data" /\ demod' = next /\ air' = air /\ inits' = inits /\ aborts' = aborts
      /\ pos' \in {pos, pos + 1}
  BY DEF Output
<1>2. count' = IF count + 1 < W THEN count + 1 ELSE 0
  BY SizeFacts, ModOnce DEF Output, DemodInv
<1>3. count' \in 0..W-1
  BY <1>2, SizeFacts DEF DemodInv
<1>4. ASSUME air \in Transmissions, pos' <= 2
      PROVE  count' = pos'
  <2>1. SizeOf[air] \in SizeNrs
    BY <1>4, AirAssumption
  <2>2. NGH_PL_PAR_SIZE[SizeOf[air]] \in 1..W-1
    BY <2>1, SizeFacts
  <2>3. pos \in Nat /\ pos <= 2
    BY <1>1, <1>4 DEF DemodInv
  <2>4. pos < FrameSize(air)
    BY <2>2, <2>3, SizeFacts DEF FrameSize, NGH_SIZE_TAG_SIZE
  <2>5. pos' = pos + 1 /\ count = pos
    BY <1>1, <1>4, <2>3, <2>4 DEF Output, InFrame, DemodInv
  <2>6. QED  BY <1>2, <1>4, <2>3, <2>5, SizeFacts
<1>5. pos' \in Nat
  BY <1>1 DEF DemodInv
<1>6. QED
  BY <1>1, <1>2, <1>3, <1>4, <1>5 DEF DemodInv

LEMMA ProceedState == Proceed \in {"hunting", "data"}
BY DEF Proceed

(* One call of ngham_parse.                                                *)
LEMMA NextDisturbed ==
  ASSUME DisturbedInv, [Next]_vars
  PROVE  DisturbedInv'
<1>1. ASSUME NEW t \in Transmissions \cup {Noise}, Sync(t)
      PROVE  DisturbedInv'
  <2>1. ParserInv' /\ SizeToldInv'
    BY <1>1 DEF Sync, parser, DisturbedInv, ParserInv, SizeToldInv
  <2>2. DemodInv'
    BY <1>1, SizeFacts DEF Sync, DisturbedInv, DemodInv
  <2>3. QED  BY <2>1, <2>2 DEF DisturbedInv
<1>2. CASE GiveUp
  BY <1>2 DEF GiveUp, parser, channel, DisturbedInv, ParserInv, SizeToldInv, DemodInv
<1>3. CASE ParseSizeTag
  <2>1. PICK heard \in Heard :
               /\ Output(heard, Proceed)
               /\ size_tag' = Append(IF decoder_state = "SIZE_TAG" THEN <<>> ELSE size_tag, heard)
    BY <1>3 DEF ParseSizeTag
  <2>2. heard \in AnyByte /\ DemodInv' /\ inits' = inits /\ aborts' = aborts
    BY <2>1, HeardByte, OutputCounts, ProceedState DEF DisturbedInv
  <2>3. ParserInv'
    BY <1>3, <2>1, <2>2 DEF ParseSizeTag, DisturbedInv, ParserInv
  <2>4. SizeToldInv'
    BY <1>3, <2>2 DEF ParseSizeTag, DisturbedInv, SizeToldInv
  <2>5. QED  BY <2>2, <2>3, <2>4 DEF DisturbedInv
<1>4. CASE ParseSizeKnown
  <2>1. PICK heard \in Heard : \E s \in TagSizes(Append(size_tag, heard)) \ {None} :
               /\ Output(heard, Proceed)
               /\ rs_size_nr' = s
               /\ packet_size' = (NGH_PL_PAR_SIZE[s] + NGH_SIZE_TAG_SIZE) % W
    BY <1>4 DEF ParseSizeKnown
  <2>2. rs_size_nr' \in SizeNrs /\ packet_size' = (NGH_PL_PAR_SIZE[rs_size_nr'] + NGH_SIZE_TAG_SIZE) % W
    BY <2>1, TagSizeTypes
  <2>3. DemodInv' /\ inits' = inits /\ aborts' = aborts
    BY <2>1, OutputCounts, ProceedState DEF DisturbedInv
  <2>4. NGH_PL_PAR_SIZE[rs_size_nr'] \in 1..W-1 /\ packet_size' = Counted(NGH_PL_PAR_SIZE[rs_size_nr'])
    BY <2>2, SizeFacts DEF Counted, NGH_SIZE_TAG_SIZE
  <2>5. decoder_state' = "SIZE_KNOWN" /\ code_word' = <<>>
    BY <1>4 DEF ParseSizeKnown
  <2>6. ParserInv' /\ SizeToldInv'
    BY <2>2, <2>3, <2>4, <2>5, SizeFacts DEF DisturbedInv, ParserInv, SizeToldInv
  <2>7. QED  BY <2>3, <2>6 DEF DisturbedInv
<1>5. CASE ParseSizeUnknown
  <2>1. PICK heard \in Heard : Output(heard, "hunting")
    BY <1>5 DEF ParseSizeUnknown
  <2>2. DemodInv' /\ inits' = inits /\ aborts' = aborts
    BY <2>1, OutputCounts DEF DisturbedInv
  <2>3. QED
    BY <1>5, <2>2 DEF ParseSizeUnknown, DisturbedInv, ParserInv, SizeToldInv
<1>6. CASE ParseByte
  <2>1. PICK heard \in Heard : Output(heard, Proceed) /\ code_word' = Append(code_word, heard)
    BY <1>6 DEF ParseByte
  <2>2. heard \in AnyByte /\ DemodInv' /\ inits' = inits /\ aborts' = aborts
    BY <2>1, HeardByte, OutputCounts, ProceedState DEF DisturbedInv
  <2>3. /\ rs_size_nr \in SizeNrs /\ code_word \in Seq(AnyByte)
        /\ Len(code_word) < NGH_PL_PAR_SIZE[rs_size_nr] /\ NGH_PL_PAR_SIZE[rs_size_nr] \in Nat
        /\ Len(code_word) + 1 # NGH_PL_PAR_SIZE[rs_size_nr]
    BY <1>6, SizeFacts DEF ParseByte, DisturbedInv, ParserInv
  <2>4. code_word' \in Seq(AnyByte) /\ Len(code_word') < NGH_PL_PAR_SIZE[rs_size_nr]
    BY <2>1, <2>2, <2>3
  <2>5. ParserInv' /\ SizeToldInv'
    BY <1>6, <2>2, <2>3, <2>4 DEF ParseByte, DisturbedInv, ParserInv, SizeToldInv
  <2>6. QED  BY <2>2, <2>5 DEF DisturbedInv
<1>7. CASE ParseLastByte
  <2>1. PICK heard \in Heard : Output(heard, Proceed)
    BY <1>7 DEF ParseLastByte
  <2>2. DemodInv' /\ inits' = inits /\ aborts' = aborts
    BY <2>1, OutputCounts, ProceedState DEF DisturbedInv
  <2>3. QED
    BY <1>7, <2>2 DEF ParseLastByte, DisturbedInv, ParserInv, SizeToldInv
<1>8. CASE NghamInit
  <2>1. inits' # 0 /\ inits' \in Nat
    BY <1>8 DEF NghamInit, DisturbedInv, SizeToldInv
  <2>2. QED
    BY <1>8, <2>1 DEF NghamInit, channel, DisturbedInv, ParserInv, SizeToldInv, DemodInv
<1>9. CASE UNCHANGED vars
  BY <1>9 DEF vars, parser, channel, DisturbedInv, ParserInv, SizeToldInv, DemodInv
<1>10. QED
  BY <1>1, <1>2, <1>3, <1>4, <1>5, <1>6, <1>7, <1>8, <1>9 DEF Next, NghamParse

LEMMA DisturbedHolds == Spec => []DisturbedInv
<1>1. Init => DisturbedInv
  BY InitDisturbed
<1>2. DisturbedInv /\ [Next]_vars => DisturbedInv'
  BY NextDisturbed
<1>3. QED  BY <1>1, <1>2, PTL DEF Spec

(* rx_buf is never written behind the end of the code word it is for,      *)
(* whatever the demodulator gives up and whenever ngham_init is called.    *)
BufferHolds ==
  decoder_state = "SIZE_KNOWN" =>
    rs_size_nr \in SizeNrs /\ Len(code_word) < NGH_PL_PAR_SIZE[rs_size_nr]

THEOREM BufferNeverOverrun == Spec => []BufferHolds
<1>1. DisturbedInv => BufferHolds
  BY DEF DisturbedInv, ParserInv, BufferHolds
<1>2. QED  BY <1>1, DisturbedHolds, PTL

-----------------------------------------------------------------------------
(* Back in step                                                            *)

InStepAt(state, n) == demod = "data" /\ decoder_state = state /\ count = n /\ packet_size = W - 1
InStepInWord ==
  /\ demod = "data" /\ decoder_state = "SIZE_KNOWN"
  /\ count = Counted(Len(code_word)) /\ packet_size = Counted(NGH_PL_PAR_SIZE[rs_size_nr])

LEMMA SyncedCases ==
  ASSUME DemodInv
  PROVE  Synced <=> \/ demod = "hunting" /\ decoder_state = "SIZE_TAG" /\ packet_size = W - 1
                    \/ InStepAt("SIZE_TAG", 0) \/ InStepAt("SIZE_TAG_2", 1) \/ InStepAt("SIZE_TAG_3", 2)
                    \/ InStepInWord
BY DEF DemodInv, Synced, InStepAt, InStepInWord, Counted

(* With both in step a byte leaves them in step.                           *)
LEMMA SyncedStays ==
  ASSUME DisturbedInv, Synced, NghamParse
  PROVE  Synced'
<1>1. DisturbedInv'
  BY NextDisturbed DEF Next
<1>2. demod = "data"
  BY DEF NghamParse, ParseSizeTag, ParseSizeKnown, ParseSizeUnknown, ParseByte, ParseLastByte, Output
<1>3. InStepAt("SIZE_TAG", 0) \/ InStepAt("SIZE_TAG_2", 1) \/ InStepAt("SIZE_TAG_3", 2) \/ InStepInWord
  BY <1>2, SyncedCases DEF DisturbedInv
<1>4. CASE ParseSizeTag
  <2>1. PICK heard \in Heard : Output(heard, Proceed)
    BY <1>4 DEF ParseSizeTag
  <2>2. demod' = Proceed /\ count' = IF count + 1 < W THEN count + 1 ELSE 0
    BY <2>1, OutputCounts, ProceedState DEF DisturbedInv
  <2>3. \/ InStepAt("SIZE_TAG", 0) /\ decoder_state' = "SIZE_TAG_2"
        \/ InStepAt("SIZE_TAG_2", 1) /\ decoder_state' = "SIZE_TAG_3"
    BY <1>3, <1>4 DEF ParseSizeTag, InStepAt, InStepInWord
  <2>4. count \in 0..1 /\ packet_size = W - 1 /\ packet_size' = W - 1 /\ (count + 1) % W = count + 1
    BY <1>4, <2>3, SizeFacts, ModOnce DEF ParseSizeTag, InStepAt
  <2>5. demod' = "data" /\ count' = count + 1
    BY <2>2, <2>4, SizeFacts DEF Proceed
  <2>6. InStepAt("SIZE_TAG_2", 1)' \/ InStepAt("SIZE_TAG_3", 2)'
    BY <2>3, <2>4, <2>5 DEF InStepAt
  <2>7. QED
    BY <2>6 DEF Synced, InStepAt
<1>5. CASE ParseSizeKnown
  <2>1. PICK heard \in Heard : \E s \in TagSizes(Append(size_tag, heard)) \ {None} :
               /\ Output(heard, Proceed)
               /\ rs_size_nr' = s
               /\ packet_size' = (NGH_PL_PAR_SIZE[s] + NGH_SIZE_TAG_SIZE) % W
    BY <1>5 DEF ParseSizeKnown
  <2>2. rs_size_nr' \in SizeNrs /\ packet_size' = (NGH_PL_PAR_SIZE[rs_size_nr'] + NGH_SIZE_TAG_SIZE) % W
    BY <2>1, TagSizeTypes
  <2>3. demod' = Proceed /\ count' = IF count + 1 < W THEN count + 1 ELSE 0
    BY <2>1, OutputCounts, ProceedState DEF DisturbedInv
  <2>4. count = 2 /\ packet_size = W - 1
    BY <1>3, <1>5 DEF ParseSizeKnown, InStepAt, InStepInWord
  <2>5. (count + 1) % W = 3 /\ count' = 3
    BY <2>3, <2>4, SizeFacts, ModOnce
  <2>6. demod' = "data"
    BY <2>3, <2>4, <2>5, SizeFacts DEF Proceed
  <2>7. packet_size' = (NGH_SIZE_TAG_SIZE + NGH_PL_PAR_SIZE[rs_size_nr']) % W
    BY <2>2, SizeFacts DEF NGH_SIZE_TAG_SIZE
  <2>8. decoder_state' = "SIZE_KNOWN" /\ code_word' = <<>>
    BY <1>5 DEF ParseSizeKnown
  <2>9. (NGH_SIZE_TAG_SIZE + Len(code_word')) % W = 3
    BY <2>8, SizeFacts, ModOnce DEF NGH_SIZE_TAG_SIZE
  <2>10. QED
    BY <2>5, <2>6, <2>7, <2>8, <2>9 DEF Synced
<1>6. CASE ParseSizeUnknown
  <2>1. packet_size = W - 1
    BY <1>3, <1>6 DEF ParseSizeUnknown, InStepAt, InStepInWord
  <2>2. QED
    BY <1>6, <2>1 DEF ParseSizeUnknown, Output, Synced
<1>7. CASE ParseByte
  <2> DEFINE N == NGH_PL_PAR_SIZE[rs_size_nr]
             L == Len(code_word)
  <2>1. PICK heard \in Heard : Output(heard, Proceed) /\ code_word' = Append(code_word, heard)
    BY <1>7 DEF ParseByte
  <2>2. demod' = Proceed /\ count' = (count + 1) % W
    BY <2>1 DEF Output
  <2>3. InStepInWord /\ L + 1 # N
    BY <1>3, <1>7 DEF ParseByte, InStepAt
  <2>4. /\ code_word \in Seq(AnyByte) /\ rs_size_nr \in SizeNrs /\ L < N
    BY <2>3 DEF InStepInWord, DisturbedInv, ParserInv
  <2>5. /\ N \in 1..W-1 /\ L \in 0..W-2 /\ L + 1 \in 0..W-1 /\ N \in 0..W-1
    BY <2>3, <2>4, SizeFacts
  <2>6. (count + 1) % W = Counted(L + 1) /\ packet_size = Counted(N)
    BY <2>3, <2>5, CountedNext DEF InStepInWord
  <2>7. Counted(L + 1) # Counted(N)
    BY <2>3, <2>5, CountedApart
  <2>8. demod' = "data"
    BY <2>2, <2>6, <2>7 DEF Proceed
  <2>9. /\ Len(code_word') = L + 1 /\ rs_size_nr' = rs_size_nr
        /\ packet_size' = packet_size /\ decoder_state' = "SIZE_KNOWN"
    BY <1>7, <2>1, <2>4 DEF ParseByte
  <2>10. QED
    BY <2>2, <2>6, <2>8, <2>9 DEF Synced, Counted
<1>8. CASE ParseLastByte
  <2> DEFINE N == NGH_PL_PAR_SIZE[rs_size_nr]
             L == Len(code_word)
  <2>1. PICK heard \in Heard : Output(heard, Proceed)
    BY <1>8 DEF ParseLastByte
  <2>2. demod' = Proceed
    BY <2>1 DEF Output
  <2>3. InStepInWord /\ L + 1 = N
    BY <1>3, <1>8 DEF ParseLastByte, InStepAt
  <2>4. code_word \in Seq(AnyByte) /\ rs_size_nr \in SizeNrs
    BY <2>3 DEF InStepInWord, DisturbedInv, ParserInv
  <2>5. L \in 0..W-2
    BY <2>3, <2>4, SizeFacts
  <2>6. (count + 1) % W = packet_size
    BY <2>3, <2>5, CountedNext DEF InStepInWord
  <2>7. demod' = "hunting"
    BY <2>2, <2>6 DEF Proceed
  <2>8. QED
    BY <1>8, <2>7 DEF ParseLastByte, Synced
<1>9. QED
  BY <1>4, <1>5, <1>6, <1>7, <1>8 DEF NghamParse

(* Without false tags a size is found in the tag of the transmission on    *)
(* the air only, at the place where it stands.                             *)
LEMMA SizeFoundInStep ==
  ASSUME DisturbedInv, FalseTags = {}, inits = 0, ParseSizeKnown
  PROVE  Synced
<1>1. PICK heard \in Heard : /\ TagSizes(Append(size_tag, heard)) \ {None} # {}
                             /\ Output(heard, Proceed)
  BY DEF ParseSizeKnown
<1>2. size_tag \in Seq(AnyByte) /\ Len(size_tag) = 2 /\ heard \in AnyByte
  BY <1>1, HeardByte DEF ParseSizeKnown, DisturbedInv, ParserInv
<1>3. Append(size_tag, heard)[3] = heard
  <2>1. Append(size_tag, heard)[Len(size_tag) + 1] = heard
    BY <1>2, AppendProperties, ZenonT(60)
  <2>2. Len(size_tag) + 1 = 3
    BY <1>2
  <2>3. QED  BY <2>1, <2>2
<1>4. PICK t \in Transmissions : heard = <<t, 3>>
  <2> DEFINE tag == Append(size_tag, heard)
  <2> HIDE DEF tag
  <2>1. TagSizes(tag) # {None}
    BY <1>1 DEF tag
  <2>2. PICK t \in Transmissions : \A k \in 1..3 : tag[k] = <<t, k>>
    BY <2>1 DEF TagSizes, NGH_SIZE_TAG_SIZE
  <2>3. tag[3] = <<t, 3>>
    BY <2>2
  <2>4. heard = <<t, 3>>
    BY <1>3, <2>3 DEF tag
  <2>5. QED  BY <2>4
<1>5. heard # Hiss
  BY <1>4, AirAssumption DEF Hiss
<1>6. InFrame /\ heard = <<air, pos + 1>>
  BY <1>5 DEF Heard, Clean
<1>7. air \in Transmissions /\ pos = 2 /\ demod = "data"
  BY <1>1, <1>4, <1>6 DEF InFrame, Output, DisturbedInv, DemodInv
<1>8. count = 2 /\ packet_size = W - 1 /\ decoder_state = "SIZE_TAG_3"
  BY <1>7 DEF ParseSizeKnown, DisturbedInv, DemodInv, SizeToldInv
<1>9. QED
  BY <1>7, <1>8 DEF Synced

(* Out of step, each byte is one less to take.                             *)
LEMMA LostByteCounts ==
  ASSUME DisturbedInv, FalseTags = {}, inits = 0, ~Synced, NghamParse
  PROVE  Synced' \/ (Left' \in Nat /\ Left' < Left)
<1>1. CASE ParseSizeTag
  BY <1>1 DEF ParseSizeTag, Left
<1>2. CASE ParseSizeKnown
  BY <1>2, SizeFoundInStep
<1>3. CASE ParseSizeUnknown
  BY <1>3 DEF ParseSizeUnknown, Output, Synced, DisturbedInv, SizeToldInv
<1>4. CASE ParseByte
  <2>1. PICK heard \in Heard : code_word' = Append(code_word, heard)
    BY <1>4 DEF ParseByte
  <2>2. /\ code_word \in Seq(AnyByte) /\ heard \in AnyByte
        /\ NGH_PL_PAR_SIZE[rs_size_nr] \in Nat /\ Len(code_word) < NGH_PL_PAR_SIZE[rs_size_nr]
    BY <1>4, HeardByte, SizeFacts DEF ParseByte, DisturbedInv, ParserInv
  <2>3. Len(code_word') = Len(code_word) + 1
    BY <2>1, <2>2
  <2>4. /\ Left = NGH_PL_PAR_SIZE[rs_size_nr] - Len(code_word) + 3
        /\ Left' = NGH_PL_PAR_SIZE[rs_size_nr] - Len(code_word') + 3
    BY <1>4 DEF ParseByte, Left
  <2>5. QED  BY <2>2, <2>3, <2>4
<1>5. CASE ParseLastByte
  <2>1. /\ code_word \in Seq(AnyByte) /\ NGH_PL_PAR_SIZE[rs_size_nr] \in Nat
        /\ Len(code_word) + 1 = NGH_PL_PAR_SIZE[rs_size_nr]
    BY <1>5, SizeFacts DEF ParseLastByte, DisturbedInv, ParserInv
  <2>2. Left = NGH_PL_PAR_SIZE[rs_size_nr] - Len(code_word) + 3 /\ Left' = 3
    BY <1>5 DEF ParseLastByte, Left
  <2>3. QED  BY <2>1, <2>2
<1>6. QED
  BY <1>1, <1>2, <1>3, <1>4, <1>5 DEF NghamParse

LEMMA LeftType ==
  ASSUME DisturbedInv
  PROVE  Left \in Nat
<1>1. CASE decoder_state = "SIZE_KNOWN"
  <2>1. /\ code_word \in Seq(AnyByte) /\ NGH_PL_PAR_SIZE[rs_size_nr] \in Nat
        /\ Len(code_word) < NGH_PL_PAR_SIZE[rs_size_nr]
    BY <1>1, SizeFacts DEF DisturbedInv, ParserInv
  <2>2. Left = NGH_PL_PAR_SIZE[rs_size_nr] - Len(code_word) + 3
    BY <1>1 DEF Left
  <2>3. QED  BY <2>1, <2>2
<1>2. CASE decoder_state # "SIZE_KNOWN"
  BY <1>2 DEF Left, DisturbedInv, ParserInv
<1>3. QED  BY <1>1, <1>2

(* Whatever the demodulator gave up before, at whatever byte: out of step  *)
(* the receiver is for as many bytes as the code word it believes in has   *)
(* left, and three more, spread over any number of receptions.  In step    *)
(* it stays until the next reception is given up.                          *)
THEOREM RecoveryNearer ==
  ASSUME FalseTags = {}
  PROVE  Spec => RecoveryProgresses
<1> DEFINE Nearer == inits' = 0 /\ aborts' = aborts =>
              \/ Synced'
              \/ /\ ~Synced /\ Left' \in Nat
                 /\ IF demod = "data" THEN Left' < Left ELSE Left' = Left
<1>1. ASSUME DisturbedInv, [Next]_vars
      PROVE  [Nearer]_vars
  <2> SUFFICES ASSUME Next, inits' = 0, aborts' = aborts
               PROVE  \/ Synced'
                      \/ /\ ~Synced /\ Left' \in Nat
                         /\ IF demod = "data" THEN Left' < Left ELSE Left' = Left
    BY <1>1
  <2>1. CASE \E t \in Transmissions \cup {Noise} : Sync(t)
    <3>1. demod = "hunting" /\ count' = 0 /\ packet_size' = packet_size /\ parser' = parser /\ demod' = "data"
      BY <2>1 DEF Sync
    <3>2. Left' = Left /\ Left \in Nat
      BY <1>1, <3>1, LeftType DEF parser, Left
    <3>3. Synced => Synced'
      BY <3>1 DEF Synced, parser
    <3>4. QED  BY <3>1, <3>2, <3>3
  <2>2. CASE NghamParse
    <3>1. demod = "data" /\ inits' = inits
      BY <2>2 DEF NghamParse, ParseSizeTag, ParseSizeKnown, ParseSizeUnknown, ParseByte, ParseLastByte, Output
    <3>2. QED  BY <1>1, <2>2, <3>1, SyncedStays, LostByteCounts
  <2>3. CASE GiveUp
    BY <1>1, <2>3 DEF GiveUp, DisturbedInv, SizeToldInv
  <2>4. CASE NghamInit
    BY <1>1, <2>4 DEF NghamInit, DisturbedInv, SizeToldInv
  <2>5. QED  BY <2>1, <2>2, <2>3, <2>4 DEF Next
<1>2. QED
  BY <1>1, DisturbedHolds, PTL DEF Spec, RecoveryProgresses
=============================================================================
