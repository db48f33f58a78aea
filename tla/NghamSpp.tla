------------------------------- MODULE NghamSpp -------------------------------
(***************************************************************************)
(* The modem's side of the serial port protocol, ngham_spp.c: spp_parse,   *)
(* called for each byte from the port, and the replies to commands.        *)
(***************************************************************************)
EXTENDS SppFraming

CONSTANTS
  PKT_PL_SIZE,    \* bytes of payload a packet struct holds
  Replies         \* what cmd may reply, line end included

VARIABLES
  state,          \* ctx->state
  d,              \* ctx->d behind the start byte; ctx->d_len is Len(d)+1
  pkt_target,
  pl,             \* the bytes from ctx->pkt.ngham_flags on, pkt.pl_len of them
  port_rf_mute,   \* in config; commands may change it
  call,           \* the call the last byte led to
  output          \* packets given to port_output and not sent yet

vars == <<state, d, pkt_target, pl, port_rf_mute, call, output>>

NoCall == [fn |-> "none"]

Init ==
  /\ state = "START" /\ d = <<>> /\ pkt_target = 0 /\ pl = <<>>
  /\ port_rf_mute = FALSE /\ call = NoCall /\ output = <<>>

Packet(pl_type, payload) == [pl_type |-> pl_type, d |-> payload, bytes |-> SppFillHeader(pl_type, payload)]

(* Mutant: the offset is not advanced.                                     *)
SppPrintCmdNoOffset(rep) ==
  LET chunks == (Len(rep) + SPP_PL_MAX - 1) \div SPP_PL_MAX
      Least(a, b) == IF a < b THEN a ELSE b
  IN  [i \in 1..chunks |->
         Packet(NGHAM_SPP_TYPE_CMD, SubSeq(rep, 1, Least(Len(rep) - (i - 1) * SPP_PL_MAX, SPP_PL_MAX)))]

(* spp_print_cmd: the reply in packets of at most SPP_PL_MAX bytes.        *)
SppPrintCmd(rep) ==
  LET chunks == (Len(rep) + SPP_PL_MAX - 1) \div SPP_PL_MAX
      Least(a, b) == IF a < b THEN a ELSE b
  IN  [i \in 1..chunks |->
         Packet(NGHAM_SPP_TYPE_CMD, SubSeq(rep, (i - 1) * SPP_PL_MAX + 1, Least(Len(rep), i * SPP_PL_MAX)))]

(* spp_print_rx_pkt: the packet struct from its time stamp on.             *)
SppPrintRxPkt(rxhdr, payload) == Packet(NGHAM_SPP_TYPE_RX, rxhdr \o payload)

(* spp_print_local_pkt: the packet struct from its flags on.               *)
SppPrintLocalPkt(flags, payload) == Packet(NGHAM_SPP_TYPE_ROUTED, <<flags>> \o payload)

-----------------------------------------------------------------------------
(* spp_parse                                                               *)

(* Mutant: the header is not started afresh.                               *)
SppStartNoReset(c) ==
  /\ state = "START"
  /\ \E v \in Readings(c) : state' = (IF v = SPP_START THEN "HEADER" ELSE "START")
  /\ call' = NoCall
  /\ UNCHANGED <<d, pkt_target, pl, port_rf_mute, output>>

SppStart(c) ==
  /\ state = "START"
  /\ \E v \in Readings(c) :
       IF v = SPP_START THEN state' = "HEADER" /\ d' = <<>> ELSE UNCHANGED <<state, d>>
  /\ call' = NoCall
  /\ UNCHANGED <<pkt_target, pl, port_rf_mute, output>>

SppHeader(c) ==
  /\ state = "HEADER"
  /\ Len(d) + 2 < SPP_HDR_SIZE
  /\ d' = Append(d, c)
  /\ call' = NoCall
  /\ UNCHANGED <<state, pkt_target, pl, port_rf_mute, output>>

(* Mutant: a payload of length zero is waited for.                         *)
SppHeaderLastZero(c) ==
  /\ state = "HEADER"
  /\ Len(d) + 2 >= SPP_HDR_SIZE
  /\ d' = Append(d, c)
  /\ pkt_target' \in Readings(c)
  /\ state' = "PAYLOAD" /\ pl' = <<>>
  /\ call' = NoCall
  /\ UNCHANGED <<port_rf_mute, output>>

(* The header is complete; a packet without payload is ignored.            *)
SppHeaderLast(c) ==
  /\ state = "HEADER"
  /\ Len(d) + 2 >= SPP_HDR_SIZE
  /\ d' = Append(d, c)
  /\ pkt_target' \in Readings(c)
  /\ IF pkt_target' # 0 THEN state' = "PAYLOAD" /\ pl' = <<>> ELSE state' = "START" /\ pl' = pl
  /\ call' = NoCall
  /\ UNCHANGED <<port_rf_mute, output>>

(* The payload with c, if it still fits the struct.                        *)
WithByte(c) == IF Len(pl) < PKT_PL_SIZE THEN Append(pl, c) ELSE pl

SppPayload(c) ==
  /\ state = "PAYLOAD"
  /\ Len(WithByte(c)) # pkt_target
  /\ pl' = WithByte(c)
  /\ state' = (IF Len(pl) < PKT_PL_SIZE THEN "PAYLOAD" ELSE "START")
  /\ call' = NoCall
  /\ UNCHANGED <<d, pkt_target, port_rf_mute, output>>

(* Mutant: the CRC is checked over the payload only.                       *)
CrcMatchesPayloadOnly(buf) == \E t, n \in Octets : SubSeq(d, 1, 2) = Crc(<<Octet(t), Octet(n)>> \o buf)

(* The CRC found in the header is that of type, length and payload.        *)
CrcMatches(buf) == SubSeq(d, 1, 2) = Crc(SubSeq(d, 3, 4) \o buf)

IsType(t) == t \in Readings(d[3])

(* Flags are in front of the payload already, but the length is one too    *)
(* long.                                                                   *)
TxPacket(buf) == [fn |-> "packer_call", ngham_flags |-> buf[1], pl |-> Tail(buf)]
ExtPacket(buf) == [fn |-> "port_handle_ngham_ext", ngham_flags |-> buf[1], pl |-> Tail(buf)]
Shortened(buf) == SubSeq(buf, 1, Len(buf) - 1)

SppTransmit(buf) ==
  /\ IsType(NGHAM_SPP_TYPE_TX)
  /\ pl' = Shortened(buf)
  /\ call' = (IF port_rf_mute THEN NoCall ELSE TxPacket(buf))
  /\ UNCHANGED <<port_rf_mute, output>>

SppCommand(buf) ==
  /\ IsType(NGHAM_SPP_TYPE_CMD)
  /\ \E rep \in Replies :
       /\ call' = [fn |-> "cmd", d |-> buf, rep |-> rep]
       /\ output' = output \o SppPrintCmd(rep)
  /\ port_rf_mute' \in BOOLEAN
  /\ pl' = buf

SppRouted(buf) ==
  /\ IsType(NGHAM_SPP_TYPE_ROUTED)
  /\ pl' = Shortened(buf)
  /\ call' = (IF NGHAM_FLAG_TYPE_EXTENSION \in Readings(buf[1]) THEN ExtPacket(buf) ELSE NoCall)
  /\ UNCHANGED <<port_rf_mute, output>>

SppIgnored(buf) ==
  /\ CrcMatches(buf) =>
       ~(IsType(NGHAM_SPP_TYPE_TX) \/ IsType(NGHAM_SPP_TYPE_CMD) \/ IsType(NGHAM_SPP_TYPE_ROUTED))
  /\ pl' = buf
  /\ call' = NoCall
  /\ UNCHANGED <<port_rf_mute, output>>

(* The payload is complete.                                                *)
SppPacket(c) ==
  /\ state = "PAYLOAD"
  /\ LET buf == WithByte(c)
     IN  /\ Len(buf) = pkt_target
         /\ \/ CrcMatches(buf) /\ (SppTransmit(buf) \/ SppCommand(buf) \/ SppRouted(buf))
            \/ SppIgnored(buf)
  /\ state' = "START"
  /\ UNCHANGED <<d, pkt_target>>

SppParse(c) == SppStart(c) \/ SppHeader(c) \/ SppHeaderLast(c) \/ SppPayload(c) \/ SppPacket(c)
=============================================================================
