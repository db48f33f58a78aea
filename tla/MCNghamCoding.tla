--------------------------- MODULE MCNghamCoding ---------------------------
(***************************************************************************)
(* The coding of a frame, part by part, in one run: the size tag, the      *)
(* layout of the code word, the checksum, the scrambler, the control       *)
(* blocks of the Reed-Solomon code and the call signs in a payload.  Which *)
(* part is exercised is chosen at the start.                               *)
(***************************************************************************)
EXTENDS NghamSizeTag, NghamCodec, NghamRsBlocks, NghamCallsign

CONSTANTS CrcOctets, Bursts, Offsets, MaxLength, Data, Behind

VARIABLES
  part,
  buf, crc, damaged, its_crc,                               \* CrcStream
  ccsds_poly_pos, count, reg, data, output                  \* CcsdsScrambler

CrcReader == INSTANCE CrcStream WITH Octets <- CrcOctets
Scrambler == INSTANCE CcsdsScrambler

tagvars == <<sent, flipped>>
crcvars == <<buf, crc, damaged, its_crc>>
scramblervars == <<ccsds_poly_pos, count, reg, data, output>>
allvars == <<part, tagvars, codecvars, crcvars, scramblervars, blockvars, callvars>>

(* A part that is not exercised rests in one of its initial states.        *)
MCInit ==
  /\ part \in {"size tag", "codec", "crc", "scrambler", "control blocks", "call signs"}
  /\ Init /\ (part # "size tag" => sent = 0)
  /\ CodecInit /\ CrcReader!Init /\ Scrambler!Init /\ BlocksInit /\ CallInit

OfTag       == part = "size tag" /\
  UNCHANGED <<part, codecvars, crcvars, scramblervars, blockvars, callvars>>
OfCodec     == part = "codec" /\
  UNCHANGED <<part, tagvars, crcvars, scramblervars, blockvars, callvars>>
OfCrc       == part = "crc" /\
  UNCHANGED <<part, tagvars, codecvars, scramblervars, blockvars, callvars>>
OfScrambler == part = "scrambler" /\
  UNCHANGED <<part, tagvars, codecvars, crcvars, blockvars, callvars>>
OfBlocks    == part = "control blocks" /\
  UNCHANGED <<part, tagvars, codecvars, crcvars, scramblervars, callvars>>
OfCalls     == part = "call signs" /\
  UNCHANGED <<part, tagvars, codecvars, crcvars, scramblervars, blockvars>>

MCNext ==
  \/ OfTag /\ \E b \in Bits : Flip(b)
  \/ OfCodec /\ CodecNext
  \/ OfCrc /\ \E octet \in CrcOctets : CrcReader!Append1(octet)
  \/ OfCrc /\ \E octet \in CrcOctets, burst \in Bursts, offset \in Offsets :
                CrcReader!AppendBurst(octet, burst, offset)
  \/ OfScrambler /\ Scrambler!ccsds_scrambler_init
  \/ OfScrambler /\ \E octet \in Data, behind \in Behind : Scrambler!ccsds_scrambler_xor(octet, behind)
  \/ OfBlocks /\ ngham_init_arrays
  \/ OfBlocks /\ ngham_deinit_arrays
  \/ OfCalls /\ \E s \in Callsigns, memory \in Memory : EncodeCallsign(s, memory)
  \/ OfCalls /\ \E enc \in Foreign : ReceiveCallsign(enc)
  \/ OfCalls /\ DecodeCallsign
  \/ OfCalls /\ \E link \in Links, size \in CommandSizes, memory \in Memory :
                  PackCommand(link[1], link[2], size, memory)

MCSpec == MCInit /\ [][MCNext]_allvars

-----------------------------------------------------------------------------
(* Table, loop and streaming give the remainder by the polynomial, which   *)
(* misses no burst.                                                        *)
ChecksumsAgree == part = "crc" => CrcReader!ChecksumsAgree
(* The scrambler follows its shift register for a whole code word.         *)
FollowsSequence == [][Scrambler!SequenceStep]_scramblervars

-----------------------------------------------------------------------------
(* The seven tags of ngham.c, all 24 bits of them.                         *)
MCBits == 0..23
MCTags == [s \in 0..NGH_SIZES-1 |-> {j \in MCBits : NGH_SIZE_TAG[s][24-j] = 1}]

(* Every boundary of the seven payload sizes, the lengths that are refused *)
(* and flags beyond the three bits there are.                              *)
MCLengths == {0, 1, 2, 28, 221} \cup
  UNION {{n - 31, n - 1, n} : n \in {60, 92, 124, 156, 188, 220}}
MCFlags == {0, 5, 9, 255}

(* All bursts of up to eleven bits, and some of sixteen.                   *)
MCBursts == {b \in 1..2047 : b % 2 = 1} \cup {b \in 32768..65535 : b % 64 = 37}

(* Letters, digits, a dash in the middle, station numbers with a leading   *)
(* zero, of one, two and three digits, too large, cut off, and characters  *)
(* that six bits do not hold.                                              *)
Digits(n) == IF n < 10 THEN <<48 + n>> ELSE <<48 + n \div 10, 48 + (n % 10)>>
Calls     == {<<76, 65>>, <<97, 66, 122>>, <<76, 65, 51, 74, 80, 65>>, <<76, 65, 51, 74, 80, 65, 57>>}
Suffixes  == {<<>>, <<45>>, <<45, 65>>, <<45, 53, 65>>, <<45, 48>>, <<45, 48, 48>>, <<45, 48, 55>>,
              <<45, 49, 50, 51>>, <<45, 49, 45>>} \cup {<<45>> \o Digits(n) : n \in {1, 9, 10, 15, 63, 64, 99}}
MCCallsigns == {c \o s : c \in Calls, s \in Suffixes} \cup
  {<<>>, <<45, 53>>, <<76, 96, 65>>, <<76, 32, 65>>, <<195, 133>>, <<76, 65, 51, 74, 80, 65, 57, 57>>,
   <<76, 65, 51, 74, 80, 65, 57, 57, 45, 53>>}
MCLinks == {<<c, <<76, 66, 45, 50>>>> : c \in MCCallsigns} \cup {<<<<76, 66, 45, 50>>, c>> : c \in MCCallsigns}
MCMemory == {<<0, 0, 0, 0, 0, 0, 0>>, <<255, 33, 200, 13, 64, 90, 127>>}
MCForeign == {<<a, b, a, c, b, e>> : a, b, c \in {0, 3, 52, 131, 255}, e \in {0, 9, 10, 63, 75, 255}}
MCCommandSizes == {0, 4, 184, 185, 203, 204}
=============================================================================
