----------------------------- MODULE SppFraming -----------------------------
(***************************************************************************)
(* Packets of the serial port protocol (SPP) as bytes on the line.         *)
(*                                                                         *)
(* A byte is Octet(n), one of the two bytes of a CRC, or Bad, a byte the   *)
(* line has damaged.  A CRC is the bytes it is computed over: it is taken  *)
(* to tell byte sequences apart.  A parser that has lost its place may     *)
(* read a CRC byte or a damaged byte as a start byte, a type or a length;  *)
(* Readings gives the values it may find.                                  *)
(***************************************************************************)
EXTENDS Naturals, Sequences

CONSTANTS
  SPP_PL_MAX,     \* the largest octet, and with it the longest payload
  SPP_START,      \* the start byte
  CrcReadings     \* values a CRC byte may have

Octets == 0..SPP_PL_MAX

ASSUME OctetAssumption == SPP_PL_MAX \in Nat /\ SPP_PL_MAX >= 4 /\ SPP_START \in Octets
ASSUME CrcAssumption == CrcReadings \subseteq Octets /\ CrcReadings # {}

NGHAM_SPP_TYPE_RX     == 0
NGHAM_SPP_TYPE_TX     == 1
NGHAM_SPP_TYPE_ROUTED == 2
NGHAM_SPP_TYPE_CMD    == 3

NGHAM_FLAG_TYPE_EXTENSION == 1

SPP_HDR_SIZE == 5

Octet(n) == <<"octet", n>>
Bad      == <<"bad">>
Bytes    == {Octet(n) : n \in Octets}
Crc(s)   == << <<"crc_lo", s>>, <<"crc_hi", s>> >>

Readings(c) ==
  CASE c[1] = "octet" -> {c[2]}
    [] c[1] = "bad"   -> Octets
    [] OTHER          -> CrcReadings

(* A packet with the given type, length field and payload, behind its      *)
(* header: start, CRC, type, length.  The CRC does not cover the start and *)
(* itself.                                                                 *)
PacketBytes(pl_type, pl_len, d) ==
  LET checked == <<Octet(pl_type), Octet(pl_len % (SPP_PL_MAX + 1))>> \o d
  IN  <<Octet(SPP_START)>> \o Crc(checked) \o checked

(* spp_fill_header: the length field counts the payload.                   *)
SppFillHeader(pl_type, d) == PacketBytes(pl_type, Len(d), d)
=============================================================================
