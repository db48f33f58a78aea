----------------------------- MODULE NghamCodec -----------------------------
(***************************************************************************)
(* ngham_encode and ngham_decode: how a packet is laid out in a frame, and *)
(* how it is found again in the code word that arrives.                    *)
(*                                                                         *)
(* A byte whose value the code looks at is <<"hdr", n>>, 0 <= n < 256; the *)
(* others stand for themselves: <<"pl", k>> is the k-th payload byte,      *)
(* <<"crc_hi", s>> the high byte of the CRC of the bytes s, and so on.     *)
(* The CRC is taken to tell byte sequences apart, the Reed-Solomon code to *)
(* correct up to half as many bytes as it has parity bytes and to refuse   *)
(* any other word.                                                         *)
(***************************************************************************)
EXTENDS Integers, Sequences, FiniteSets, NghamTables

CONSTANTS
  Lengths,      \* values of pl_len the application tries: naturals
  Flags,        \* values of ngham_flags it tries: octets
  FOUR_LEVEL    \* NGHAM_FOUR_LEVEL_MODULATION: a Boolean

ASSUME CodecAssumption ==
  Lengths \subseteq Nat /\ Flags \subseteq 0..255 /\ FOUR_LEVEL \in BOOLEAN

NGH_MAX_TOT_SIZE == 274

VARIABLES
  stage,      \* "idle", "air", "received" or "handled"
  packet,     \* the packet passed to ngham_encode
  d,          \* the frame given to the modulator
  code_word,  \* the code word as received, descrambled
  handled     \* the call of ngham_platform_handle_packet

codecvars == <<stage, packet, d, code_word, handled>>

None == [condition |-> "none"]
Fail == [condition |-> "PKT_CONDITION_FAIL"]

CodecInit == stage = "idle" /\ packet = None /\ d = <<>> /\ code_word = <<>> /\ handled = None

-----------------------------------------------------------------------------
(* ngham_encode                                                            *)

(* The smallest code word that holds the payload.                          *)
SizeNr(pl_len) ==
  CHOOSE s \in 0..NGH_SIZES-1 :
    /\ pl_len <= NGH_PL_SIZE[s]
    /\ \A u \in 0..s-1 : pl_len > NGH_PL_SIZE[u]

Preamble == [k \in 1..(IF FOUR_LEVEL THEN 8 ELSE 4) |-> <<"preamble", k>>]
SyncWord == [k \in 1..(IF FOUR_LEVEL THEN 8 ELSE 4) |-> <<"sync", k>>]
Tag(s)   == [k \in 1..NGH_SIZE_TAG_SIZE |-> <<"tag", s, k>>]
CodewordStart == Len(Preamble) + Len(SyncWord) + NGH_SIZE_TAG_SIZE

(* Mutant: the mask of the padding size is a bit short, 0x0f.              *)
HeaderShort(s, q) ==
  <<"hdr", ((NGH_PL_SIZE[s] - q.pl_len) % 16) + ((q.ngham_flags * 32) % 256)>>

(* Padding size in the low five bits, flags in the high three.             *)
Header(s, q) ==
  <<"hdr", ((NGH_PL_SIZE[s] - q.pl_len) % 32) + ((q.ngham_flags * 32) % 256)>>

Crc(bytes) == << <<"crc_hi", bytes>>, <<"crc_lo", bytes>> >>
Payload(q) == [k \in 1..q.pl_len |-> <<"pl", k>>]
Zeros(n)   == [k \in 1..n |-> <<"zero">>]
Parity(s)  == [k \in 1..NGH_PAR_SIZE[s] |-> <<"parity", k>>]

(* XOR with the sequence, byte by byte from the start of the code word;    *)
(* a second XOR at the same place undoes it.                               *)
Scramble(word)   == [k \in DOMAIN word |-> <<"xor", k, word[k]>>]
Descramble(word) == [k \in DOMAIN word |-> IF word[k][2] = k THEN word[k][3] ELSE <<"garbage">>]

(* Mutant: one padding byte too many.                                      *)
CodewordPadded(s, q) ==
  LET checked == <<Header(s, q)>> \o Payload(q)
  IN  checked \o Crc(checked) \o Zeros(NGH_PL_SIZE_FULL[s] - (q.pl_len + 2)) \o Parity(s)

(* The code word before scrambling.                                        *)
Codeword(s, q) ==
  LET checked == <<Header(s, q)>> \o Payload(q)
  IN  checked \o Crc(checked) \o Zeros(NGH_PL_SIZE_FULL[s] - (q.pl_len + 3)) \o Parity(s)

Frame(q) ==
  LET s == SizeNr(q.pl_len)
  IN  Preamble \o SyncWord \o Tag(s) \o Scramble(Codeword(s, q))

(* ngham_encode returns 0 for an empty or an oversize packet.              *)
NghamEncode(q) ==
  /\ stage = "idle"
  /\ q.pl_len # 0 /\ q.pl_len <= NGHAM_PL_MAX
  /\ packet' = q /\ d' = Frame(q)
  /\ stage' = "air"
  /\ UNCHANGED <<code_word, handled>>

-----------------------------------------------------------------------------
(* The channel damages n bytes in a row, and ngham_parse has descrambled   *)
(* the bytes behind the size tag.                                          *)

size_nr == SizeNr(packet.pl_len)
Capability(s) == NGH_PAR_SIZE[s] \div 2

Receive(first, n) ==
  /\ LET sent == SubSeq(d, CodewordStart + 1, Len(d))
         hit  == [k \in DOMAIN sent |-> IF k \in first..first+n-1 THEN <<"xor", k, <<"bad">>>> ELSE sent[k]]
     IN  code_word' = Descramble(hit)
  /\ stage' = "received"
  /\ UNCHANGED <<packet, d, handled>>

-----------------------------------------------------------------------------
(* ngham_decode                                                            *)

(* decode_rs_char: the number of bytes corrected and the corrected word,   *)
(* or -1 and the word as it came.                                          *)
RsDecode(word, s, sent) ==
  LET wrong == {k \in DOMAIN sent : word[k] # sent[k]}
  IN  IF Cardinality(wrong) <= Capability(s) THEN <<Cardinality(wrong), sent>> ELSE <<-1, word>>

Low5(byte)  == byte[2] % 32
High3(byte) == byte[2] \div 32

NghamDecode ==
  /\ stage = "received"
  /\ LET rs     == RsDecode(code_word, size_nr, Codeword(size_nr, packet))
         errors == rs[1]
         buf    == rs[2]
         pl_len == NGH_PL_SIZE[size_nr] - Low5(buf[1])
     IN  handled' =
           IF errors # -1 /\ Crc(SubSeq(buf, 1, pl_len + 1)) = SubSeq(buf, pl_len + 2, pl_len + 3)
             THEN [condition |-> "PKT_CONDITION_OK", pl_len |-> pl_len, errors |-> errors,
                   ngham_flags |-> High3(buf[1]), pl |-> SubSeq(buf, 2, pl_len + 1)]
             ELSE Fail
  /\ stage' = "handled"
  /\ UNCHANGED <<packet, d, code_word>>

Done ==
  /\ stage = "handled"
  /\ stage' = "idle" /\ packet' = None /\ d' = <<>> /\ code_word' = <<>> /\ handled' = None

Packets == [pl_len : Lengths, ngham_flags : Flags]

(* Bursts at the start of the code word, across the end of the payload and *)
(* into the parity bytes.                                                  *)
BurstStarts(s, pl_len) == {1, pl_len, pl_len + 2, NGH_PL_SIZE_FULL[s]}

CodecNext ==
  \/ \E q \in Packets : NghamEncode(q)
  \/ /\ stage = "air"
     /\ \E first \in BurstStarts(size_nr, packet.pl_len), n \in 0..Capability(size_nr)+1 :
          Receive(first, n)
  \/ NghamDecode
  \/ Done

CodecSpec == CodecInit /\ [][CodecNext]_codecvars

-----------------------------------------------------------------------------
(* A frame fits the buffer ngham_encode builds it in, and its code word    *)
(* has exactly the length its size tag announces, so that the receiver     *)
(* stops at its last byte.                                                 *)
FrameFits ==
  stage = "air" =>
    /\ Len(d) <= NGH_MAX_TOT_SIZE
    /\ Len(d) - CodewordStart = NGH_PL_PAR_SIZE[size_nr]
    /\ SubSeq(d, CodewordStart - 2, CodewordStart) = Tag(size_nr)

(* The packet handed over is the one encoded, flags cut to the three bits  *)
(* they have, exactly when the code corrects the damage.                   *)
RoundTrip ==
  stage = "handled" =>
    LET wrong == Cardinality({k \in DOMAIN code_word : code_word[k] # Codeword(size_nr, packet)[k]})
    IN  handled = IF wrong <= Capability(size_nr)
                    THEN [condition |-> "PKT_CONDITION_OK", pl_len |-> packet.pl_len, errors |-> wrong,
                          ngham_flags |-> packet.ngham_flags % 8, pl |-> Payload(packet)]
                    ELSE Fail
=============================================================================
