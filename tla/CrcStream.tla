------------------------------ MODULE CrcStream ------------------------------
(***************************************************************************)
(* The checksum of crc_ccitt.c over a buffer, and octet by octet as the    *)
(* SPP parser and the packers use it, on a buffer that grows and on a copy *)
(* of it that the channel damages.                                         *)
(***************************************************************************)
EXTENDS CrcCcitt

CONSTANTS
  Octets,     \* octets the buffer is made of
  Bursts,     \* wrong bits of a burst: 1 to 2^16-1, the first bit wrong
  Offsets,    \* the bit of an octet, 0 to 7, that a burst starts at
  MaxLength   \* bound: octets in a buffer

VARIABLES
  buf, crc,           \* the buffer, and the checksum kept while it grows
  damaged, its_crc    \* the copy, and its checksum

vars == <<buf, crc, damaged, its_crc>>

Init == buf = <<>> /\ damaged = <<>> /\ crc = 65535 /\ its_crc = 65535

(* The next octet, the same in both.                                       *)
Append1(octet) ==
  /\ Len(buf) < MaxLength
  /\ buf' = Append(buf, octet) /\ damaged' = Append(damaged, octet)
  /\ crc' = crc_ccitt_byte(octet, crc)
  /\ its_crc' = crc_ccitt_byte(octet, its_crc)

(* Three octets, with a burst of up to 16 wrong bits in the copy.          *)
AppendBurst(octet, burst, offset) ==
  LET wrong(k) == ((burst * 2^offset) \div 256^k) % 256
      hit(k)   == octet ^^ wrong(k)
  IN  /\ Len(buf) + 3 <= MaxLength
      /\ damaged = buf
      /\ buf' = buf \o <<octet, octet, octet>>
      /\ damaged' = damaged \o <<hit(0), hit(1), hit(2)>>
      /\ crc' = crc_ccitt_byte(octet, crc_ccitt_byte(octet, crc_ccitt_byte(octet, crc)))
      /\ its_crc' = crc_ccitt_byte(hit(2), crc_ccitt_byte(hit(1), crc_ccitt_byte(hit(0), its_crc)))

Next ==
  \/ \E octet \in Octets : Append1(octet)
  \/ \E octet \in Octets, burst \in Bursts, offset \in Offsets : AppendBurst(octet, burst, offset)

Spec == Init /\ [][Next]_vars

-----------------------------------------------------------------------------
(* Reference: bit by bit, low bit first, with the polynomial 0x8408 of     *)
(* x^16 + x^12 + x^5 + 1 read backwards, from and to ones.                 *)

Remainder(b) ==
  LET bit(n)   == (b[1 + (n \div 8)] \div 2^(n % 8)) % 2
      turn(reg, n) == IF (reg + bit(n)) % 2 = 1 THEN (reg \div 2) ^^ \H8408 ELSE reg \div 2
      reg[n \in 0..8*Len(b)] == IF n = 0 THEN 65535 ELSE turn(reg[n - 1], n - 1)
  IN  reg[8 * Len(b)] ^^ 65535

(* The table, the loop over a buffer and the steps of a caller that sees   *)
(* the octets one at a time all give the remainder by that polynomial, for *)
(* the buffer and for its copy, so that no burst of up to 16 wrong bits is *)
(* missed, whatever follows it.                                            *)
ChecksumsAgree ==
  /\ crc_ccitt(buf) = Remainder(buf) /\ crc ^^ 65535 = crc_ccitt(buf)
  /\ crc_ccitt(damaged) = Remainder(damaged) /\ its_crc ^^ 65535 = crc_ccitt(damaged)
  /\ damaged # buf => its_crc # crc
=============================================================================
