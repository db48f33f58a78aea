---------------------------- MODULE NghamCallsign ----------------------------
(***************************************************************************)
(* Call signs in extension packets: ngh_ext_encode_callsign and            *)
(* ngh_ext_decode_callsign, and packCommand, which puts two of them and a  *)
(* command into a packet.  Characters are their codes; a string is a       *)
(* sequence of characters without the zero that ends it.                   *)
(***************************************************************************)
EXTENDS Integers, Sequences, FiniteSets

CONSTANTS
  NULL,
  Callsigns,      \* the strings that are encoded
  Memory,         \* what an array that was not initialised may hold:
                  \* sequences of seven octets
  Foreign,        \* six octets received from another station
  Links,          \* pairs of a destination and a source
  CommandSizes    \* lengths of the commands that are packed

Octets == 0..255

ASSUME CallsignAssumption ==
  /\ Callsigns \subseteq Seq(1..255) /\ Links \subseteq Seq(1..255) \X Seq(1..255)
  /\ \A memory \in Memory : memory \in Seq(Octets) /\ Len(memory) = 7
  /\ \A enc \in Foreign : enc \in Seq(Octets) /\ Len(enc) = 6
  /\ CommandSizes \subseteq Nat
  /\ NULL \notin Seq(Octets)

EXT_TYPE_SRC     == 1
EXT_TYPE_DEST    == 6
EXT_TYPE_CMD_REQ == 7

(* sizeof(ngham_src_t) is 7, sizeof(ngham_dest_t) is 6.                    *)
MAX_SIZE == 220 - 4 - 7 - 6

Dash     == 45
Digit(c) == c \in 48..57

VARIABLES
  callsign,       \* the string encoded last, or NULL
  enc_callsign,   \* the six octets, or NULL
  shown,          \* the string decoded from them, or NULL
  packed          \* the command packed last, or NULL

callvars == <<callsign, enc_callsign, shown, packed>>

CallInit == callsign = NULL /\ enc_callsign = NULL /\ shown = NULL /\ packed = NULL

-----------------------------------------------------------------------------
(* ngh_ext_encode_callsign                                                 *)

Char(s, j) == IF j < Len(s) THEN s[j + 1] ELSE 0

(* Where the characters end: at the seventh, at the zero or at a dash.     *)
End(s) == CHOOSE j \in 0..7 :
            /\ j = 7 \/ Char(s, j) \in {0, Dash}
            /\ \A k \in 0..j-1 : Char(s, k) \notin {0, Dash}

(* DEC SIXBIT, capitals for small letters.                                 *)
Sixbit(c) == (IF c \in 97..122 THEN c - 64 ELSE c - 32) % 64

(* Mutant: a short call sign is not terminated.                            *)
CopyUnterminated(s, memory) ==
  [j \in 0..6 |-> IF j < End(s) THEN Sixbit(Char(s, j)) ELSE memory[j + 1] % 64]

(* Behind the terminator stays what was there before.                      *)
Copy(s, memory) ==
  [j \in 0..6 |-> IF j < End(s) THEN Sixbit(Char(s, j))
                  ELSE IF j = End(s) THEN 0 ELSE memory[j + 1] % 64]

(* The station number: one or two digits behind the dash.                  *)
HasSsid(s) == Char(s, End(s)) = Dash
First(s)   == Char(s, End(s) + 1)
Second(s)  == Char(s, End(s) + 2)
Refused(s) == HasSsid(s) /\ (~Digit(First(s)) \/ (~Digit(Second(s)) /\ Second(s) # 0))
Ssid(s) ==
  IF ~HasSsid(s) THEN 0
  ELSE IF Digit(Second(s)) THEN (First(s) - 48) * 10 + (Second(s) - 48)
  ELSE First(s) - 48

(* Four groups of six bits in three octets.                                *)
Packed(a, b, c, d) == <<a * 4 + b \div 16, (b % 16) * 16 + c \div 4, (c % 4) * 64 + d>>

(* The octets; a string that is refused leaves them as they were.          *)
Encode(s, memory, before) ==
  LET g == Copy(s, memory)
  IN  IF Refused(s) THEN before
      ELSE Packed(g[0], g[1], g[2], g[3]) \o Packed(g[4], g[5], g[6], Ssid(s) % 64)

-----------------------------------------------------------------------------
(* ngh_ext_decode_callsign                                                 *)

Unpacked(x, y, z) == <<x \div 4, (x % 4) * 16 + y \div 16, (y % 16) * 4 + z \div 64, z % 64>>

(* Mutant: ten is taken for one digit.                                     *)
SsidTextTen(ssid) ==
  CASE ssid = 0  -> <<>>
    [] ssid > 10 -> <<Dash, ssid \div 10 + 48, (ssid % 10) + 48>>
    [] OTHER     -> <<Dash, ssid + 48>>

SsidText(ssid) ==
  CASE ssid = 0 -> <<>>
    [] ssid > 9 -> <<Dash, ssid \div 10 + 48, (ssid % 10) + 48>>
    [] OTHER    -> <<Dash, ssid + 48>>

Decode(enc) ==
  LET g   == Unpacked(enc[1], enc[2], enc[3]) \o Unpacked(enc[4], enc[5], enc[6])
      end == CHOOSE j \in 0..7 : (j = 7 \/ g[j + 1] = 0) /\ \A k \in 1..j : g[k] # 0
  IN  [j \in 1..end |-> g[j] + 32] \o SsidText(g[8])

-----------------------------------------------------------------------------
(* NghamExtension::packCommand.  The command counts with two of the three  *)
(* headers, so that one of the longest runs over the end of the array; the *)
(* call signs are not checked.                                             *)

(* Mutant: the lengths of source and destination are exchanged.            *)
SubHeaderSwapped(type) ==
  <<type, IF type = EXT_TYPE_SRC THEN 6 ELSE 7>>

SubHeader(type) == <<type, IF type = EXT_TYPE_SRC THEN 7 ELSE 6>>

packCommand(destination, source, command, memory) ==
  LET before == SubSeq(memory, 1, 6)
  IN  IF Len(command) > MAX_SIZE THEN <<>>
      ELSE SubHeader(EXT_TYPE_SRC) \o Encode(source, memory, before) \o <<123>>
             \o SubHeader(EXT_TYPE_DEST) \o Encode(destination, memory, before)
             \o <<EXT_TYPE_CMD_REQ, Len(command)>> \o command

-----------------------------------------------------------------------------
(* The functions keep no state, so that a call shows all there is.         *)
Idle == callsign = NULL /\ enc_callsign = NULL /\ packed = NULL

EncodeCallsign(s, memory) ==
  /\ Idle
  /\ callsign' = s
  /\ enc_callsign' = Encode(s, memory, SubSeq(memory, 1, 6))
  /\ UNCHANGED <<shown, packed>>

(* A call sign from the air.                                               *)
ReceiveCallsign(enc) ==
  /\ Idle
  /\ enc_callsign' = enc
  /\ UNCHANGED <<callsign, shown, packed>>

DecodeCallsign ==
  /\ enc_callsign # NULL /\ shown = NULL
  /\ shown' = Decode(enc_callsign)
  /\ UNCHANGED <<callsign, enc_callsign, packed>>

PackCommand(destination, source, size, memory) ==
  LET command == [j \in 1..size |-> 65 + (j % 26)]
  IN  /\ Idle
      /\ packed' = [destination |-> destination, source |-> source, command |-> command,
                    d |-> packCommand(destination, source, command, memory)]
      /\ UNCHANGED <<callsign, enc_callsign, shown>>

CallNext ==
  \/ \E s \in Callsigns, memory \in Memory : EncodeCallsign(s, memory)
  \/ \E enc \in Foreign : ReceiveCallsign(enc)
  \/ DecodeCallsign
  \/ \E link \in Links, size \in CommandSizes, memory \in Memory :
       PackCommand(link[1], link[2], size, memory)

CallSpec == CallInit /\ [][CallNext]_callvars

-----------------------------------------------------------------------------
(* Reference: a call sign of up to seven letters and digits, with a        *)
(* station number that six bits hold, and how it is written.               *)

Capital(c) == IF c \in 97..122 THEN c - 32 ELSE c
Letter(c)  == c \in 65..90 \cup 97..122 \/ Digit(c)

Proper(s) ==
  \E n \in 1..7 :
    /\ n <= Len(s) /\ \A j \in 1..n : Letter(s[j])
    /\ \/ Len(s) = n
       \/ /\ Len(s) \in n+2..n+3 /\ s[n + 1] = Dash
          /\ \A j \in n+2..Len(s) : Digit(s[j])
          /\ Len(s) = n + 3 => (s[n + 2] - 48) * 10 + s[n + 3] - 48 <= 63

(* Small letters as capitals, no leading zero, and no number at all for 0. *)
Canonical(s) ==
  LET n      == CHOOSE k \in 1..Len(s) : (k = Len(s) \/ s[k + 1] = Dash) /\ \A j \in 1..k : s[j] # Dash
      number == SubSeq(s, n + 2, Len(s))
      short  == IF Len(number) > 0 /\ number[1] = 48 THEN Tail(number) ELSE number
  IN  [j \in 1..n |-> Capital(s[j])] \o (IF short \in {<<>>, <<48>>} THEN <<>> ELSE <<Dash>> \o short)

(* What a reader that goes from header to header finds.                    *)
SubPackets(d) ==
  LET from[i \in 1..Len(d)+1] ==
        IF i + 1 > Len(d) \/ i + 1 + d[i + 1] > Len(d) THEN <<>>
        ELSE <<[type |-> d[i], data |-> SubSeq(d, i + 2, i + 1 + d[i + 1])]>> \o from[i + 2 + d[i + 1]]
  IN  from[1]

-----------------------------------------------------------------------------
(* A call sign is shown at the other end as it was given, in capitals,     *)
(* whatever the memory held that the encoder did not write.                *)
CallsignsRoundTrip ==
  callsign # NULL /\ shown # NULL /\ Proper(callsign) => shown = Canonical(callsign)

(* Whatever six octets arrive, the string fits the eleven characters a     *)
(* caller has for it, and a station that encodes it again sends the same   *)
(* call sign on.  A dash among the seven characters is the exception.      *)
ResentUnchanged ==
  shown # NULL =>
    /\ Len(shown) + 1 <= 11
    /\ Cardinality({j \in DOMAIN shown : shown[j] = Dash}) <= (IF enc_callsign[6] % 64 = 0 THEN 0 ELSE 1) =>
         \A memory \in Memory : Decode(Encode(shown, memory, SubSeq(memory, 1, 6))) = shown

(* A command that fits the array can be read back from the packet, with    *)
(* the call signs of both stations.                                        *)
CommandsReadBack ==
  packed # NULL /\ Len(packed.d) \in 1..MAX_SIZE /\ Proper(packed.source) /\ Proper(packed.destination) =>
    LET found == SubPackets(packed.d)
    IN  /\ Len(found) = 3
        /\ found[1].type = EXT_TYPE_SRC /\ Decode(found[1].data) = Canonical(packed.source)
        /\ found[2].type = EXT_TYPE_DEST /\ Decode(found[2].data) = Canonical(packed.destination)
        /\ found[3].type = EXT_TYPE_CMD_REQ /\ found[3].data = packed.command
=============================================================================
