----------------------------- MODULE NghamSppHost -----------------------------
(***************************************************************************)
(* The host's side of the serial port protocol: ngham_spp_parse of         *)
(* ngham_spp_host.c, which SppHost::parse of spp_host_qt.cpp repeats line  *)
(* by line, and the packets SppHost packs.                                 *)
(***************************************************************************)
EXTENDS SppFraming, SequencesExt

CONSTANTS
  PackMax         \* the most bytes packTransmit takes

SPP_D_SIZE == SPP_PL_MAX + SPP_HDR_SIZE

VARIABLES
  state,          \* ctx->state
  d,              \* ctx->d, the first ctx->d_len bytes
  d_target,
  emitted         \* the call of data_cb the last byte led to

vars == <<state, d, d_target, emitted>>

Nothing == [pl_type |-> "none"]

Init == state = "START" /\ d = <<>> /\ d_target = 0 /\ emitted = Nothing

(* Mutant: the header is not started afresh.                               *)
HostStartNoReset(c) ==
  /\ state = "START"
  /\ \E v \in Readings(c) : state' = (IF v = SPP_START THEN "HEADER" ELSE "START")
  /\ emitted' = Nothing
  /\ UNCHANGED <<d, d_target>>

HostStart(c) ==
  /\ state = "START"
  /\ \E v \in Readings(c) :
       IF v = SPP_START THEN state' = "HEADER" /\ d' = <<Octet(SPP_START)>> ELSE UNCHANGED <<state, d>>
  /\ emitted' = Nothing
  /\ UNCHANGED d_target

(* The last byte of the header is the length.  A length of zero is not     *)
(* told apart: the payload is then never complete.                         *)
HostHeader(c) ==
  /\ state = "HEADER"
  /\ d' = Append(d, c)
  /\ IF Len(d') >= SPP_HDR_SIZE
       THEN state' = "PAYLOAD" /\ \E n \in Readings(d'[SPP_HDR_SIZE]) : d_target' = SPP_HDR_SIZE + n
       ELSE UNCHANGED <<state, d_target>>
  /\ emitted' = Nothing

(* The buffer with c, if it still fits.                                    *)
WithByte(c) == IF Len(d) < SPP_D_SIZE THEN Append(d, c) ELSE d

(* Mutant: a full buffer does not end the packet.                          *)
HostPayloadStuck(c) ==
  /\ state = "PAYLOAD"
  /\ Len(WithByte(c)) # d_target
  /\ d' = WithByte(c)
  /\ emitted' = Nothing
  /\ UNCHANGED <<state, d_target>>

HostPayload(c) ==
  /\ state = "PAYLOAD"
  /\ Len(WithByte(c)) # d_target
  /\ d' = WithByte(c)
  /\ state' = (IF Len(d) < SPP_D_SIZE THEN "PAYLOAD" ELSE "START")
  /\ emitted' = Nothing
  /\ UNCHANGED d_target

(* The CRC in the header is that of everything behind it.                  *)
CrcMatches(buf) == SubSeq(buf, 2, 3) = Crc(SubSeq(buf, 4, Len(buf)))

(* Mutant: the CRC is not looked at.                                       *)
HostPacketUnchecked(c) ==
  /\ state = "PAYLOAD"
  /\ LET buf == WithByte(c)
     IN  /\ Len(buf) = d_target
         /\ d' = buf
         /\ \E t \in Readings(buf[4]) :
              emitted' = [pl_type |-> t, d |-> SubSeq(buf, SPP_HDR_SIZE + 1, Len(buf))]
  /\ state' = "START"
  /\ UNCHANGED d_target

HostPacket(c) ==
  /\ state = "PAYLOAD"
  /\ LET buf == WithByte(c)
     IN  /\ Len(buf) = d_target
         /\ d' = buf
         /\ IF CrcMatches(buf)
              THEN \E t \in Readings(buf[4]) :
                     emitted' = [pl_type |-> t, d |-> SubSeq(buf, SPP_HDR_SIZE + 1, Len(buf))]
              ELSE emitted' = Nothing
  /\ state' = "START"
  /\ UNCHANGED d_target

HostParse(c) == HostStart(c) \/ HostHeader(c) \/ HostPayload(c) \/ HostPacket(c)

-----------------------------------------------------------------------------
(* What SppHost packs                                                      *)

(* The bytes of a character in the local encoding; "wide" ones take two.   *)
Local8Bit(ch) == IF ch = "wide" THEN <<Octet(2), Octet(3)>> ELSE <<Octet(2)>>

ToLocal8Bit(cmd) == FlattenSeq([i \in DOMAIN cmd |-> Local8Bit(cmd[i])])

(* packCommand: the length field counts the characters, not the bytes.     *)
PackCommand(cmd) == PacketBytes(NGHAM_SPP_TYPE_CMD, Len(cmd), ToLocal8Bit(cmd))

(* packTransmit: too much data gives no packet.                            *)
PackTransmit(data, flags) ==
  IF Len(data) > PackMax THEN <<>> ELSE SppFillHeader(NGHAM_SPP_TYPE_TX, <<flags>> \o data)
=============================================================================
