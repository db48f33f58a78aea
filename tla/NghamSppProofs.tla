---------------------------- MODULE NghamSppProofs ----------------------------
(***************************************************************************)
(* Proofs about the serial link, for any payload length, any traffic and   *)
(* any number of faults: what the parsers hold, that modem and host act    *)
(* only on what was sent, and that they act on all that arrives whole.     *)
(***************************************************************************)
EXTENDS NghamSppLink, NaturalsInduction, SequenceTheorems, WellFoundedInduction, TLAPS

-----------------------------------------------------------------------------
(* Bytes on the line                                                       *)

CrcLo == {<<"crc_lo", s>> : s \in Seq(Bytes)}
CrcHi == {<<"crc_hi", s>> : s \in Seq(Bytes)}
Line  == Bytes \cup {Bad} \cup CrcLo \cup CrcHi

LEMMA OctetFacts ==
  /\ Octets \subseteq Nat /\ 0 \in Octets /\ 1 \in Octets /\ 2 \in Octets /\ 3 \in Octets
  /\ \A n \in Octets : Octet(n) \in Bytes /\ Readings(Octet(n)) = {n}
  /\ \A b \in Bytes : \E n \in Octets : b = Octet(n)
  /\ \A m, n : Octet(m) = Octet(n) => m = n
  /\ SPP_START \in Octets
<1>1. SPP_PL_MAX \in Nat /\ SPP_PL_MAX >= 4 /\ SPP_START \in Octets
  BY OctetAssumption
<1>2. Octets \subseteq Nat /\ 0 \in Octets /\ 1 \in Octets /\ 2 \in Octets /\ 3 \in Octets
  BY <1>1 DEF Octets
<1>3. \A n \in Octets : Octet(n) \in Bytes /\ Readings(Octet(n)) = {n}
  BY DEF Bytes, Octet, Readings
<1>4. \A m, n : Octet(m) = Octet(n) => m = n
  BY DEF Octet
<1>5. QED
  BY <1>1, <1>2, <1>3, <1>4 DEF Bytes

(* Whatever a parser reads in a byte is an octet, and the bytes of a CRC   *)
(* are no others.                                                          *)
LEMMA LineFacts ==
  /\ \A c \in Line : Readings(c) # {} /\ Readings(c) \subseteq Octets
  /\ Bad \in Line /\ Bad \notin Bytes /\ Bad \notin CrcLo /\ Bytes \subseteq Line
  /\ \A c \in CrcLo : c \in Line /\ c \notin Bytes
  /\ \A c \in CrcHi : c \in Line /\ c \notin Bytes /\ c \notin CrcLo
  /\ \A s : <<"crc_lo", s>> \in Line => s \in Seq(Bytes) /\ <<"crc_lo", s>> \in CrcLo
  /\ \A s \in Seq(Bytes) : <<"crc_lo", s>> \in CrcLo /\ <<"crc_hi", s>> \in CrcHi
<1>1. \A c \in Bytes : c[1] = "octet"
  BY DEF Bytes, Octet
<1>2. \A c \in CrcLo : c[1] = "crc_lo"
  BY DEF CrcLo
<1>3. \A c \in CrcHi : c[1] = "crc_hi"
  BY DEF CrcHi
<1>4. Bad[1] = "bad"
  BY DEF Bad
<1>5. ASSUME NEW c \in Line
      PROVE  Readings(c) # {} /\ Readings(c) \subseteq Octets
  <2>1. CASE c \in Bytes
    BY <2>1, OctetFacts
  <2>2. CASE c = Bad
    <3>1. Readings(c) = Octets
      BY <2>2, <1>4 DEF Readings
    <3>2. QED  BY <3>1, OctetFacts
  <2>3. CASE c \in CrcLo \cup CrcHi
    <3>1. c[1] = "crc_lo" \/ c[1] = "crc_hi"
      BY <2>3, <1>2, <1>3
    <3>2. Readings(c) = CrcReadings
      BY <3>1 DEF Readings
    <3>3. QED  BY <3>2, CrcAssumption
  <2>4. QED  BY <2>1, <2>2, <2>3 DEF Line
<1>6. \A s : <<"crc_lo", s>> \in Line => s \in Seq(Bytes) /\ <<"crc_lo", s>> \in CrcLo
  <2> SUFFICES ASSUME NEW s, <<"crc_lo", s>> \in Line
               PROVE  s \in Seq(Bytes) /\ <<"crc_lo", s>> \in CrcLo
    OBVIOUS
  <2> DEFINE c == <<"crc_lo", s>>
  <2>1. c[1] = "crc_lo" /\ c \in Line
    OBVIOUS
  <2> HIDE DEF c
  <2>2. c \in CrcLo
    BY <2>1, <1>1, <1>3, <1>4 DEF Line
  <2>3. PICK t \in Seq(Bytes) : c = <<"crc_lo", t>>
    BY <2>2 DEF CrcLo
  <2>4. t = s
    BY <2>3 DEF c
  <2>5. QED  BY <2>2, <2>4 DEF c
<1>7. \A s \in Seq(Bytes) : <<"crc_lo", s>> \in CrcLo /\ <<"crc_hi", s>> \in CrcHi
  BY DEF CrcLo, CrcHi
<1>8. QED
  BY <1>1, <1>2, <1>3, <1>4, <1>5, <1>6, <1>7 DEF Line

-----------------------------------------------------------------------------
(* Packets                                                                 *)

Joins(S, s, t) ==
  /\ s \o t \in Seq(S) /\ Len(s \o t) = Len(s) + Len(t)
  /\ \A k \in 1..Len(s) : (s \o t)[k] = s[k]
  /\ \A k \in 1..Len(t) : (s \o t)[Len(s) + k] = t[k]

LEMMA Joined ==
  ASSUME NEW S, NEW s \in Seq(S), NEW t \in Seq(S)
  PROVE  Joins(S, s, t)
<1>1. /\ s \o t \in Seq(S) /\ Len(s \o t) = Len(s) + Len(t)
      /\ \A k \in 1..Len(s) + Len(t) : (s \o t)[k] = IF k <= Len(s) THEN s[k] ELSE t[k - Len(s)]
  BY ConcatProperties
<1>2. Len(s) \in Nat /\ Len(t) \in Nat
  OBVIOUS
<1>3. ASSUME NEW k \in 1..Len(t) PROVE (s \o t)[Len(s) + k] = t[k]
  <2>1. Len(s) + k \in 1..Len(s) + Len(t) /\ ~(Len(s) + k <= Len(s)) /\ (Len(s) + k) - Len(s) = k
    BY <1>2
  <2>2. QED  BY <1>1, <2>1
<1>4. QED
  BY <1>1, <1>2, <1>3 DEF Joins

(* What the CRC of a packet covers.                                        *)
Checked(t, n, b) == <<Octet(t), Octet(n % (SPP_PL_MAX + 1))>> \o b

LEMMA CheckedLayout ==
  ASSUME NEW t \in Octets, NEW n \in Nat, NEW b \in Seq(Bytes)
  PROVE  /\ Checked(t, n, b) \in Seq(Bytes) /\ n % (SPP_PL_MAX + 1) \in Octets
         /\ Len(Checked(t, n, b)) = 2 + Len(b)
         /\ Checked(t, n, b)[1] = Octet(t) /\ Checked(t, n, b)[2] = Octet(n % (SPP_PL_MAX + 1))
         /\ \A k \in 1..Len(b) : Checked(t, n, b)[2 + k] = b[k]
<1>1. n % (SPP_PL_MAX + 1) \in Octets
  BY OctetAssumption DEF Octets
<1> DEFINE h == <<Octet(t), Octet(n % (SPP_PL_MAX + 1))>>
<1>2. h \in Seq(Bytes) /\ Len(h) = 2 /\ h[1] = Octet(t) /\ h[2] = Octet(n % (SPP_PL_MAX + 1))
  <2>1. \A x, y \in Bytes : <<x, y>> \in Seq(Bytes) /\ Len(<<x, y>>) = 2 /\ <<x, y>>[1] = x /\ <<x, y>>[2] = y
    OBVIOUS
  <2>2. Octet(t) \in Bytes /\ Octet(n % (SPP_PL_MAX + 1)) \in Bytes
    BY <1>1, OctetFacts
  <2>3. QED  BY <2>1, <2>2
<1>3. Checked(t, n, b) = h \o b
  BY DEF Checked
<1> HIDE DEF h
<1>4. Joins(Bytes, h, b)
  BY <1>2, Joined
<1>5. 1 \in 1..Len(h) /\ 2 \in 1..Len(h)
  BY <1>2
<1>6. QED
  BY <1>1, <1>2, <1>3, <1>4, <1>5 DEF Joins

LEMMA PacketLayout ==
  ASSUME NEW t \in Octets, NEW n \in Nat, NEW b \in Seq(Bytes)
  PROVE  LET B == PacketBytes(t, n, b)
         IN  /\ B \in Seq(Line) /\ Len(B) = SPP_HDR_SIZE + Len(b)
             /\ B[1] = Octet(SPP_START)
             /\ B[2] = <<"crc_lo", Checked(t, n, b)>> /\ B[3] = <<"crc_hi", Checked(t, n, b)>>
             /\ B[4] = Octet(t) /\ B[5] = Octet(n % (SPP_PL_MAX + 1))
             /\ \A k \in 1..Len(b) : B[SPP_HDR_SIZE + k] = b[k]
             /\ \A k \in 4..Len(B) : B[k] \in Bytes
<1> DEFINE s == Checked(t, n, b)
           h == <<Octet(SPP_START)>> \o Crc(s)
           B == PacketBytes(t, n, b)
<1>1. /\ s \in Seq(Bytes) /\ Len(s) = 2 + Len(b) /\ s[1] = Octet(t)
      /\ s[2] = Octet(n % (SPP_PL_MAX + 1)) /\ \A k \in 1..Len(b) : s[2 + k] = b[k]
  BY CheckedLayout
<1>2. B = (<<Octet(SPP_START)>> \o Crc(s)) \o s
  BY DEF PacketBytes, Checked
<1>4. h \in Seq(Line) /\ Len(h) = 3 /\ h[1] = Octet(SPP_START) /\ h[2] = <<"crc_lo", s>> /\ h[3] = <<"crc_hi", s>>
  <2> DEFINE first == <<Octet(SPP_START)>>
             crc == Crc(s)
  <2>1. Octet(SPP_START) \in Line /\ <<"crc_lo", s>> \in Line /\ <<"crc_hi", s>> \in Line
    BY <1>1, OctetFacts, LineFacts
  <2>2. first \in Seq(Line) /\ Len(first) = 1 /\ first[1] = Octet(SPP_START)
    BY <2>1
  <2>3. \A x, y \in Line : <<x, y>> \in Seq(Line) /\ Len(<<x, y>>) = 2 /\ <<x, y>>[1] = x /\ <<x, y>>[2] = y
    OBVIOUS
  <2>4. crc \in Seq(Line) /\ Len(crc) = 2 /\ crc[1] = <<"crc_lo", s>> /\ crc[2] = <<"crc_hi", s>>
    <3> HIDE DEF s
    <3>1. QED  BY <2>1, <2>3 DEF Crc
  <2> HIDE DEF first, crc
  <2>5. Joins(Line, first, crc)
    BY <2>2, <2>4, Joined
  <2>6. h = first \o crc
    BY DEF first, crc
  <2> HIDE DEF h
  <2>7. 1 \in 1..Len(first) /\ 1 \in 1..Len(crc) /\ 2 \in 1..Len(crc)
    BY <2>2, <2>4
  <2>8. h[1] = first[1] /\ h[Len(first) + 1] = crc[1] /\ h[Len(first) + 2] = crc[2]
    BY <2>5, <2>6, <2>7 DEF Joins
  <2>9. QED  BY <2>2, <2>4, <2>5, <2>6, <2>8 DEF Joins
<1>5. s \in Seq(Line)
  BY <1>1, LineFacts
<1>6. B = h \o s
  BY <1>2
<1> HIDE DEF h, s, B
<1>7. /\ B \in Seq(Line) /\ Len(B) = Len(h) + Len(s)
      /\ \A k \in 1..Len(h) : B[k] = h[k]
      /\ \A k \in 1..Len(s) : B[Len(h) + k] = s[k]
  <2>1. Joins(Line, h, s)
    BY <1>4, <1>5, Joined
  <2>2. QED  BY <2>1, <1>6 DEF Joins
<1>8. Len(B) = 5 + Len(b) /\ B[1] = h[1] /\ B[2] = h[2] /\ B[3] = h[3]
  <2>1. 1 \in 1..Len(h) /\ 2 \in 1..Len(h) /\ 3 \in 1..Len(h) /\ Len(b) \in Nat
    BY <1>4
  <2>2. QED  BY <1>1, <1>4, <1>7, <2>1
<1>9. \A k \in 1..Len(s) : B[3 + k] = s[k]
  BY <1>4, <1>7
<1>10. B[4] = s[1] /\ B[5] = s[2]
  <2>1. 1 \in 1..Len(s) /\ 2 \in 1..Len(s)
    BY <1>1
  <2>2. B[3 + 1] = s[1] /\ B[3 + 2] = s[2]
    BY <1>9, <2>1
  <2>3. QED  BY <2>2
<1>11. ASSUME NEW k \in 1..Len(b) PROVE B[5 + k] = b[k]
  <2>1. 2 + k \in 1..Len(s) /\ 3 + (2 + k) = 5 + k
    BY <1>1
  <2>2. B[3 + (2 + k)] = s[2 + k]
    BY <1>9, <2>1
  <2>3. QED  BY <2>1, <2>2, <1>1
<1>12. ASSUME NEW k \in 4..Len(B) PROVE B[k] \in Bytes
  <2>1. k - 3 \in 1..Len(s) /\ 3 + (k - 3) = k
    BY <1>1, <1>8
  <2>2. B[3 + (k - 3)] = s[k - 3]
    BY <1>9, <2>1
  <2>3. QED  BY <2>1, <2>2, <1>1
<1>13. QED
  BY <1>1, <1>4, <1>7, <1>8, <1>10, <1>11, <1>12 DEF SPP_HDR_SIZE, s, B

-----------------------------------------------------------------------------
(* Induction over naturals, for a set                                      *)

LEMMA LeastNat ==
  ASSUME NEW T, T \subseteq Nat, T # {}
  PROVE  \E x \in T : \A y \in T : x <= y
<1> DEFINE R == OpToRel(<, Nat)
<1>1. IsWellFoundedOn(R, Nat)
  BY NatLessThanWellFounded
<1>2. \A x, y \in Nat : y < x => <<y, x>> \in R
  BY DEF OpToRel
<1> HIDE DEF R
<1>3. PICK x \in T : \A y \in T : ~ (<<y, x>> \in R)
  BY <1>1, WFMin
<1>4. \A y \in T : ~ (y < x)
  BY <1>2, <1>3
<1>5. QED
  BY <1>3, <1>4

LEMMA SetInduction ==
  ASSUME NEW S, 0 \in S, \A n \in Nat : n \in S => n + 1 \in S
  PROVE  Nat \subseteq S
<1> SUFFICES ASSUME Nat \ S # {} PROVE FALSE
  OBVIOUS
<1>1. PICK x \in Nat \ S : \A y \in Nat \ S : x <= y
  BY LeastNat
<1>2. x # 0 /\ x - 1 \in Nat /\ ~(x <= x - 1)
  BY <1>1
<1>3. x - 1 \in S /\ (x - 1) + 1 = x
  BY <1>1, <1>2
<1>4. QED
  BY <1>1, <1>2, <1>3

-----------------------------------------------------------------------------
(* Commands in the local encoding                                          *)

Parts(cmd) == [i \in DOMAIN cmd |-> Host!Local8Bit(cmd[i])]

LEMMA PartsFacts ==
  ASSUME NEW cmd \in Seq(STRING)
  PROVE  /\ Parts(cmd) \in Seq(Seq(Bytes)) /\ Len(Parts(cmd)) = Len(cmd)
         /\ \A i \in 1..Len(cmd) : /\ Parts(cmd)[i] \in Seq(Bytes)
                                   /\ Len(Parts(cmd)[i]) \in 1..2
                                   /\ Len(Parts(cmd)[i]) = 1 <=> cmd[i] # "wide"
<1>1. Octet(2) \in Bytes /\ Octet(3) \in Bytes
  BY OctetFacts
<1>2. \A ch : Host!Local8Bit(ch) = IF ch = "wide" THEN <<Octet(2), Octet(3)>> ELSE <<Octet(2)>>
  BY DEF Host!Local8Bit, Host!Octet, Octet
<1>3. ASSUME NEW ch
      PROVE  /\ Host!Local8Bit(ch) \in Seq(Bytes) /\ Len(Host!Local8Bit(ch)) \in 1..2
             /\ Len(Host!Local8Bit(ch)) = 1 <=> ch # "wide"
  BY <1>1, <1>2
<1>4. DOMAIN cmd = 1..Len(cmd) /\ Len(cmd) \in Nat
  OBVIOUS
<1>5. Parts(cmd) = [i \in 1..Len(cmd) |-> Host!Local8Bit(cmd[i])]
  BY <1>4 DEF Parts
<1>6. Parts(cmd) \in [1..Len(cmd) -> Seq(Bytes)]
  BY <1>3, <1>5
<1>7. Parts(cmd) \in Seq(Seq(Bytes)) /\ Len(Parts(cmd)) = Len(cmd)
  BY <1>4, <1>6
<1>8. QED
  BY <1>3, <1>5, <1>7

Joining(seqs, f) == [i \in 1..Len(seqs) |-> IF i = 1 THEN seqs[i] ELSE f[i - 1] \o seqs[i]]

LEMMA JoiningExists ==
  ASSUME NEW seqs \in Seq(Seq(Bytes))
  PROVE  \E f : f = Joining(seqs, f)
<1> DEFINE n == Len(seqs)
           Good(f, m) == \A i \in 1..m : f[i] = IF i = 1 THEN seqs[i] ELSE f[i - 1] \o seqs[i]
           Has(m) == m <= n => \E f \in [1..m -> Seq(Bytes)] : Good(f, m)
           S == {m \in Nat : Has(m)}
<1>1. n \in Nat /\ \A i \in 1..n : seqs[i] \in Seq(Bytes)
  OBVIOUS
<1> HIDE DEF n
<1>2. 0 \in S
  <2> DEFINE f == [i \in 1..0 |-> <<>>]
  <2>1. f \in [1..0 -> Seq(Bytes)] /\ Good(f, 0)
    OBVIOUS
  <2> HIDE DEF f, Good
  <2>2. Has(0)
    BY <2>1
  <2> HIDE DEF Has
  <2>3. QED  BY <2>2
<1>3. ASSUME NEW m \in Nat, m \in S
      PROVE  m + 1 \in S
  <2> SUFFICES ASSUME m + 1 <= n
               PROVE  \E f \in [1..m+1 -> Seq(Bytes)] : Good(f, m + 1)
    <3> HIDE DEF Good
    <3>1. Has(m + 1)
      OBVIOUS
    <3> HIDE DEF Has
    <3>2. QED  BY <3>1
  <2>1. PICK f \in [1..m -> Seq(Bytes)] : Good(f, m)
    <3> HIDE DEF Good
    <3>1. Has(m)
      <4> HIDE DEF Has
      <4>1. QED  BY <1>3
    <3>2. QED  BY <1>1, <3>1
  <2> DEFINE last == IF m + 1 = 1 THEN seqs[m + 1] ELSE f[m] \o seqs[m + 1]
             g == [i \in 1..m+1 |-> IF i = m + 1 THEN last ELSE f[i]]
  <2>2. last \in Seq(Bytes)
    <3>1. m + 1 \in 1..n
      BY <1>1
    <3>2. seqs[m + 1] \in Seq(Bytes)
      BY <1>1, <3>1
    <3>3. CASE m = 0  BY <3>2, <3>3
    <3>4. CASE m # 0
      <4>1. m \in 1..m /\ m + 1 # 1
        BY <3>4
      <4>2. f[m] \in Seq(Bytes)
        BY <2>1, <4>1
      <4>3. QED  BY <3>2, <4>1, <4>2, Joined DEF Joins
    <3>5. QED  BY <3>3, <3>4
  <2>3. g \in [1..m+1 -> Seq(Bytes)]
    <3> HIDE DEF last
    <3>1. \A i \in 1..m+1 : i # m + 1 => i \in 1..m
      OBVIOUS
    <3>2. QED  BY <2>1, <2>2, <3>1
  <2>4. ASSUME NEW i \in 1..m+1
        PROVE  g[i] = IF i = 1 THEN seqs[i] ELSE g[i - 1] \o seqs[i]
    <3>1. CASE i = m + 1
      <4>1. g[i] = last
        BY <3>1
      <4>2. i # 1 => i - 1 \in 1..m+1 /\ i - 1 # m + 1 /\ i - 1 = m
        BY <3>1
      <4>3. i # 1 => g[i - 1] = f[m]
        BY <4>2
      <4>4. QED  BY <3>1, <4>1, <4>3
    <3>2. CASE i # m + 1
      <4>1. i \in 1..m /\ (i # 1 => i - 1 \in 1..m+1 /\ i - 1 # m + 1)
        BY <3>2
      <4>2. g[i] = f[i] /\ (i # 1 => g[i - 1] = f[i - 1])
        BY <3>2, <4>1
      <4>3. f[i] = IF i = 1 THEN seqs[i] ELSE f[i - 1] \o seqs[i]
        BY <2>1, <4>1
      <4>4. QED  BY <4>2, <4>3
    <3>3. QED  BY <3>1, <3>2
  <2>5. Good(g, m + 1)
    BY <2>4
  <2> HIDE DEF g, Good
  <2>6. QED  BY <2>3, <2>5
<1>4. n \in S
  <2> HIDE DEF S
  <2>1. Nat \subseteq S
    BY <1>2, <1>3, SetInduction
  <2>2. QED  BY <1>1, <2>1
<1>5. PICK f \in [1..n -> Seq(Bytes)] : Good(f, n)
  <2> HIDE DEF Good
  <2>1. Has(n)
    <3> HIDE DEF Has
    <3>1. QED  BY <1>4
  <2>2. QED  BY <1>1, <2>1
<1>6. f = Joining(seqs, f)
  <2>1. Joining(seqs, f) = [i \in 1..n |-> IF i = 1 THEN seqs[i] ELSE f[i - 1] \o seqs[i]]
    BY DEF Joining, n
  <2>2. f = [i \in 1..n |-> f[i]]
    BY <1>5
  <2>3. QED  BY <1>5, <2>1, <2>2
<1>7. QED
  BY <1>6

(* A command takes a byte for each character, and more if one is wide.     *)
LEMMA Encoded ==
  ASSUME NEW cmd \in Seq(STRING)
  PROVE  /\ Host!ToLocal8Bit(cmd) \in Seq(Bytes)
         /\ Len(Host!ToLocal8Bit(cmd)) >= Len(cmd)
         /\ Len(Host!ToLocal8Bit(cmd)) = Len(cmd) <=> \A i \in 1..Len(cmd) : cmd[i] # "wide"
<1> DEFINE seqs == Parts(cmd)
           n == Len(cmd)
           f == CHOOSE f : f = Joining(seqs, f)
           Plain(m) == \A i \in 1..m : cmd[i] # "wide"
           Fits(m) == f[m] \in Seq(Bytes) /\ Len(f[m]) >= m /\ (Len(f[m]) = m <=> Plain(m))
           S == {m \in Nat : m \in 1..n => Fits(m)}
<1>1. Host!ToLocal8Bit(cmd) = IF Len(seqs) = 0 THEN seqs ELSE f[Len(seqs)]
  <2>1. Host!ToLocal8Bit(cmd) = Host!FlattenSeq(seqs)
    BY DEF Host!ToLocal8Bit, Parts
  <2> HIDE DEF seqs
  <2>2. QED  BY <2>1 DEF Host!FlattenSeq, Joining
<1>2. /\ seqs \in Seq(Seq(Bytes)) /\ Len(seqs) = n /\ n \in Nat
      /\ \A i \in 1..n : seqs[i] \in Seq(Bytes) /\ Len(seqs[i]) \in 1..2 /\ (Len(seqs[i]) = 1 <=> cmd[i] # "wide")
  BY PartsFacts
<1> HIDE DEF seqs, n
<1>3. f = Joining(seqs, f)
  BY <1>2, JoiningExists
<1> HIDE DEF f
<1>4. \A i \in 1..n : f[i] = IF i = 1 THEN seqs[i] ELSE f[i - 1] \o seqs[i]
  BY <1>2, <1>3 DEF Joining
<1>5. CASE n = 0
  <2>1. seqs = <<>> /\ <<>> \in Seq(Bytes)
    BY <1>2, <1>5
  <2>2. QED  BY <1>1, <1>2, <1>5, <2>1 DEF n
<1>6. CASE n # 0
  <2>1. 0 \in S
    OBVIOUS
  <2>2. ASSUME NEW m \in Nat, m \in S, m + 1 \in 1..n
        PROVE  Fits(m + 1)
    <3>1. /\ seqs[m + 1] \in Seq(Bytes) /\ Len(seqs[m + 1]) \in 1..2
          /\ Len(seqs[m + 1]) = 1 <=> cmd[m + 1] # "wide"
      BY <1>2, <2>2
    <3>2. CASE m = 0
      <4>1. f[1] = seqs[1] /\ m + 1 = 1
        BY <1>4, <2>2, <3>2
      <4>2. Plain(1) <=> cmd[1] # "wide"
        OBVIOUS
      <4>3. seqs[1] \in Seq(Bytes) /\ Len(seqs[1]) \in 1..2 /\ (Len(seqs[1]) = 1 <=> cmd[1] # "wide")
        BY <3>1, <4>1
      <4> HIDE DEF Plain
      <4>4. Fits(1)
        <5>1. f[1] \in Seq(Bytes) /\ Len(f[1]) \in 1..2 /\ (Len(f[1]) = 1 <=> cmd[1] # "wide")
          BY <4>1, <4>3
        <5> DEFINE b == Len(f[1])
        <5> HIDE DEF b
        <5>2. b \in 1..2 => b >= 1
          OBVIOUS
        <5>3. QED  BY <4>2, <5>1, <5>2 DEF b
      <4> HIDE DEF Fits
      <4>5. QED  BY <4>1, <4>4
    <3>3. CASE m # 0
      <4>1. m \in 1..n /\ m + 1 # 1 /\ (m + 1) - 1 = m
        BY <1>2, <2>2, <3>3
      <4>2. Fits(m)
        BY <2>2, <4>1
      <4>3. f[m + 1] = f[m] \o seqs[m + 1]
        BY <1>4, <2>2, <4>1
      <4>4. f[m + 1] \in Seq(Bytes) /\ Len(f[m + 1]) = Len(f[m]) + Len(seqs[m + 1])
        BY <3>1, <4>2, <4>3, Joined DEF Joins
      <4>5. Plain(m + 1) <=> Plain(m) /\ cmd[m + 1] # "wide"
        <5>1. \A i \in 1..m+1 : i \in 1..m \/ i = m + 1
          OBVIOUS
        <5>2. m + 1 \in 1..m+1 /\ 1..m \subseteq 1..m+1
          OBVIOUS
        <5>3. QED  BY <5>1, <5>2
      <4> HIDE DEF Plain
      <4>6. Len(f[m + 1]) >= m + 1 /\ (Len(f[m + 1]) = m + 1 <=> Plain(m) /\ Len(seqs[m + 1]) = 1)
        <5> DEFINE a == Len(f[m])
                   b == Len(seqs[m + 1])
        <5>1. a \in Nat /\ b \in 1..2 /\ a >= m /\ Len(f[m + 1]) = a + b
          BY <3>1, <4>2, <4>4
        <5>2. a = m <=> Plain(m)
          BY <4>2
        <5> HIDE DEF a
        <5>3. b = 1 <=> Len(seqs[m + 1]) = 1
          OBVIOUS
        <5> HIDE DEF b
        <5>4. a + b >= m + 1 /\ (a + b = m + 1 <=> a = m /\ b = 1)
          BY <5>1
        <5>5. QED  BY <5>1, <5>2, <5>3, <5>4
      <4>7. QED  BY <3>1, <4>4, <4>5, <4>6
    <3>4. QED  BY <3>2, <3>3
  <2>3. \A m \in Nat : m \in S => m + 1 \in S
    <3> HIDE DEF Fits
    <3>1. QED  BY <2>2
  <2>4. Fits(n)
    <3>1. Nat \subseteq S
      <4> HIDE DEF S
      <4>1. QED  BY <2>1, <2>3, SetInduction
    <3>2. n \in 1..n /\ n \in S
      <4> HIDE DEF S
      <4>1. QED  BY <1>2, <1>6, <3>1
    <3> HIDE DEF Fits
    <3>3. QED  BY <3>2
  <2>5. QED
    BY <1>1, <1>2, <1>6, <2>4 DEF n
<1>7. QED
  BY <1>5, <1>6

-----------------------------------------------------------------------------
(* The inductive invariant                                                 *)

Packable == {i \in Sendable : BytesOf(i) # <<>>}
PlType(i) == CASE i.kind = "transmit" -> NGHAM_SPP_TYPE_TX
               [] i.kind = "command"  -> NGHAM_SPP_TYPE_CMD
               [] i.kind = "local"    -> NGHAM_SPP_TYPE_ROUTED
Body(i) == IF i.kind = "command" THEN Host!ToLocal8Bit(i.cmd) ELSE <<i.ngham_flags>> \o i.data
Announced(i) == IF i.kind = "command" THEN Len(i.cmd) ELSE Len(Body(i))

Printed ==
  {p \in [pl_type : {NGHAM_SPP_TYPE_RX, NGHAM_SPP_TYPE_CMD}, d : Seq(Bytes), bytes : Seq(Line)] :
     Len(p.d) \in 1..SPP_PL_MAX /\ p.bytes = PacketBytes(p.pl_type, Len(p.d), p.d)}

(* What the parsers hold.                                                  *)
DeviceInv ==
  /\ dev_state \in {"START", "HEADER", "PAYLOAD"}
  /\ dev_d \in Seq(Line) /\ dev_pl \in Seq(Line) /\ dev_target \in Octets
  /\ dev_state = "HEADER" => Len(dev_d) < SPP_HDR_SIZE - 1
  /\ dev_state = "PAYLOAD" => /\ Len(dev_d) = SPP_HDR_SIZE - 1 /\ dev_target \in Readings(dev_d[4])
                              /\ Len(dev_pl) < dev_target

HostInv ==
  /\ host_state \in {"START", "HEADER", "PAYLOAD"}
  /\ host_d \in Seq(Line) /\ Len(host_d) <= SPP_PL_MAX + SPP_HDR_SIZE /\ host_target \in Nat
  /\ host_state = "HEADER" => Len(host_d) \in 1..SPP_HDR_SIZE-1
  /\ host_state = "PAYLOAD" => /\ Len(host_d) >= SPP_HDR_SIZE
                               /\ \E n \in Readings(host_d[SPP_HDR_SIZE]) : host_target = SPP_HDR_SIZE + n
                               /\ Len(host_d) < host_target \/ host_target = SPP_HDR_SIZE

(* What is on the line.                                                    *)
OutputInv == dev_output \in Seq(Printed)

DownInv ==
  \/ down = Idle
  \/ /\ down \in [intent : Packable, bytes : Seq(Line) \ {<<>>}, whole : BOOLEAN]
     /\ \E k \in 1..Len(BytesOf(down.intent)) :
          down.bytes = SubSeq(BytesOf(down.intent), k, Len(BytesOf(down.intent)))

UpInv ==
  /\ up \in [sent : Nat, whole : BOOLEAN]
  /\ IF dev_output = <<>> THEN up.sent = 0 /\ ~up.whole ELSE up.sent < Len(Head(dev_output).bytes)

(* The packet that a CRC in a header belongs to is known, unless another   *)
(* CRC came behind it.                                                     *)
NoCrcIn(s, from) == \A k \in from..Len(s) : s[k] \notin CrcLo

DevHeardInv ==
  /\ dev_heard \in Packable \cup {Idle.intent}
  /\ /\ dev_state # "START" /\ Len(dev_d) >= 1 /\ dev_d[1] \in CrcLo /\ NoCrcIn(dev_d, 2)
     /\ dev_state = "PAYLOAD" => NoCrcIn(dev_pl, 1)
     => dev_heard \in Packable /\ dev_d[1] = BytesOf(dev_heard)[2]

HostHeardInv ==
  /\ host_heard \in Printed \cup {Host!Nothing}
  /\ /\ host_state # "START" /\ Len(host_d) >= 2 /\ host_d[2] \in CrcLo /\ NoCrcIn(host_d, 3)
     => host_heard \in Printed /\ host_d[2] = host_heard.bytes[2]

(* Of a packet that has arrived whole so far, the parser holds what has    *)
(* arrived.                                                                *)
Arrived == Len(BytesOf(down.intent)) - Len(down.bytes)

DeviceHolds(B, k) ==
  IF k < SPP_HDR_SIZE
    THEN dev_state = "HEADER" /\ dev_d = SubSeq(B, 2, k)
    ELSE /\ dev_state = "PAYLOAD" /\ dev_d = SubSeq(B, 2, SPP_HDR_SIZE)
         /\ dev_pl = SubSeq(B, SPP_HDR_SIZE + 1, k) /\ dev_target = Len(B) - SPP_HDR_SIZE

DownWhole ==
  down # Idle /\ down.whole /\ WellPacked(down.intent) /\ Arrived > 0 =>
    DeviceHolds(BytesOf(down.intent), Arrived)

HostHolds(B, k) ==
  /\ host_d = SubSeq(B, 1, k)
  /\ IF k < SPP_HDR_SIZE THEN host_state = "HEADER" ELSE host_state = "PAYLOAD" /\ host_target = Len(B)

UpWhole ==
  dev_output # <<>> /\ up.whole => up.sent > 0 /\ HostHolds(Head(dev_output).bytes, up.sent)

FaultsInv == down_faults \in Nat /\ up_faults \in Nat

IInv == /\ DeviceInv /\ HostInv /\ OutputInv /\ DownInv /\ UpInv /\ FaultsInv
        /\ DevHeardInv /\ HostHeardInv /\ DownWhole /\ UpWhole

-----------------------------------------------------------------------------
(* What is sent and printed                                                *)

(* The layout of packet bytes with type t, length octet n and payload b.   *)
LaidOut(B, t, n, b) ==
  LET s == Checked(t, n, b)
  IN  /\ t \in Octets /\ n \in Nat /\ b \in Seq(Bytes) /\ s \in Seq(Bytes)
      /\ Len(s) = 2 + Len(b) /\ s[1] = Octet(t) /\ s[2] = Octet(n % (SPP_PL_MAX + 1))
      /\ n % (SPP_PL_MAX + 1) \in Octets
      /\ \A k \in 1..Len(b) : s[2 + k] = b[k]
      /\ B \in Seq(Line) /\ Len(B) = SPP_HDR_SIZE + Len(b)
      /\ B[1] = Octet(SPP_START) /\ B[2] = <<"crc_lo", s>> /\ B[3] = <<"crc_hi", s>>
      /\ B[4] = Octet(t) /\ B[5] = Octet(n % (SPP_PL_MAX + 1))
      /\ \A k \in 1..Len(b) : B[SPP_HDR_SIZE + k] = b[k]
      /\ \A k \in 4..Len(B) : B[k] \in Bytes
      /\ B[2] \in CrcLo /\ \A k \in 1..Len(B) : k # 2 => B[k] \notin CrcLo

LEMMA Laid ==
  ASSUME NEW t \in Octets, NEW n \in Nat, NEW b \in Seq(Bytes)
  PROVE  LaidOut(PacketBytes(t, n, b), t, n, b)
<1> DEFINE B == PacketBytes(t, n, b)
           s == Checked(t, n, b)
<1>1. /\ s \in Seq(Bytes) /\ n % (SPP_PL_MAX + 1) \in Octets
      /\ Len(s) = 2 + Len(b) /\ s[1] = Octet(t) /\ s[2] = Octet(n % (SPP_PL_MAX + 1))
      /\ \A k \in 1..Len(b) : s[2 + k] = b[k]
  BY CheckedLayout
<1>2. /\ B \in Seq(Line) /\ Len(B) = SPP_HDR_SIZE + Len(b)
      /\ B[1] = Octet(SPP_START) /\ B[2] = <<"crc_lo", s>> /\ B[3] = <<"crc_hi", s>>
      /\ B[4] = Octet(t) /\ B[5] = Octet(n % (SPP_PL_MAX + 1))
      /\ \A k \in 1..Len(b) : B[SPP_HDR_SIZE + k] = b[k]
      /\ \A k \in 4..Len(B) : B[k] \in Bytes
  BY PacketLayout
<1> HIDE DEF B, s
<1>3. B[2] \in CrcLo
  BY <1>1, <1>2, LineFacts
<1>4. ASSUME NEW k \in 1..Len(B), k # 2
      PROVE  B[k] \notin CrcLo
  <2>1. CASE k = 1
    BY <1>2, <2>1, OctetFacts, LineFacts
  <2>2. CASE k = 3
    <3>1. <<"crc_hi", s>> \in CrcHi
      BY <1>1, LineFacts
    <3>2. QED  BY <1>2, <2>2, <3>1, LineFacts
  <2>3. CASE k # 1 /\ k # 3
    <3>1. k \in 4..Len(B)
      BY <1>4, <2>3
    <3>2. QED  BY <1>2, <3>1, LineFacts
  <2>4. QED  BY <2>1, <2>2, <2>3
<1>5. QED
  BY <1>1, <1>2, <1>3, <1>4 DEF LaidOut, B, s

LEMMA Intents ==
  ASSUME NEW i \in Packable
  PROVE  /\ i.kind \in {"transmit", "command", "local"} /\ i # Idle.intent
         /\ i.kind = "command" => i.cmd \in Seq(STRING)
         /\ i.kind # "command" => i.ngham_flags \in Bytes /\ i.data \in Seq(Bytes)
         /\ PlType(i) \in Octets /\ Announced(i) \in Nat /\ Body(i) \in Seq(Bytes)
         /\ BytesOf(i) = PacketBytes(PlType(i), Announced(i), Body(i))
         /\ i.kind # "command" => Len(Body(i)) \in 1..SPP_PL_MAX
<1>1. i \in Sendable /\ BytesOf(i) # <<>>
  BY DEF Packable
<1>2. CASE i \in [kind : {"transmit"}, ngham_flags : Bytes, data : Seq(Bytes)]
  <2> DEFINE b == <<i.ngham_flags>> \o i.data
  <2>1. i.kind = "transmit" /\ i.ngham_flags \in Bytes /\ i.data \in Seq(Bytes)
    BY <1>2
  <2>2. <<i.ngham_flags>> \in Seq(Bytes) /\ Len(<<i.ngham_flags>>) = 1
    BY <2>1
  <2>3. b \in Seq(Bytes) /\ Len(b) = 1 + Len(i.data)
    BY <2>1, <2>2, Joined DEF Joins
  <2> HIDE DEF b
  <2>4. BytesOf(i) = Host!PackTransmit(i.data, i.ngham_flags)
    BY <2>1 DEF BytesOf
  <2>5. Host!PackTransmit(i.data, i.ngham_flags)
          = IF Len(i.data) > PackMax THEN <<>> ELSE PacketBytes(NGHAM_SPP_TYPE_TX, Len(b), b)
    BY DEF Host!PackTransmit, Host!SppFillHeader, Host!PacketBytes, Host!NGHAM_SPP_TYPE_TX, Host!Octet, Host!Crc,
           PacketBytes, NGHAM_SPP_TYPE_TX, Octet, Crc, b
  <2>6. Len(i.data) <= PackMax /\ BytesOf(i) = PacketBytes(NGHAM_SPP_TYPE_TX, Len(b), b)
    BY <1>1, <2>1, <2>4, <2>5, PackAssumption
  <2>7. PlType(i) = NGHAM_SPP_TYPE_TX /\ Body(i) = b /\ Announced(i) = Len(b)
    BY <2>1 DEF PlType, Body, Announced, b
  <2>8. Len(b) \in 1..SPP_PL_MAX
    BY <2>1, <2>3, <2>6, PackAssumption, OctetAssumption
  <2>9. i # Idle.intent /\ PlType(i) \in Octets
    BY <2>1, <2>7, OctetFacts DEF NGHAM_SPP_TYPE_TX, Idle
  <2>10. QED
    BY <2>1, <2>3, <2>6, <2>7, <2>8, <2>9
<1>3. CASE i \in [kind : {"local"}, ngham_flags : Bytes, data : {s \in Seq(Bytes) : Len(s) < SPP_PL_MAX}]
  <2> DEFINE b == <<i.ngham_flags>> \o i.data
  <2>1. i.kind = "local" /\ i.ngham_flags \in Bytes /\ i.data \in Seq(Bytes) /\ Len(i.data) < SPP_PL_MAX
    BY <1>3
  <2>2. <<i.ngham_flags>> \in Seq(Bytes) /\ Len(<<i.ngham_flags>>) = 1
    BY <2>1
  <2>3. b \in Seq(Bytes) /\ Len(b) = 1 + Len(i.data)
    BY <2>1, <2>2, Joined DEF Joins
  <2> HIDE DEF b
  <2>4. BytesOf(i) = Device!SppPrintLocalPkt(i.ngham_flags, i.data).bytes
    BY <2>1 DEF BytesOf
  <2>5. BytesOf(i) = PacketBytes(NGHAM_SPP_TYPE_ROUTED, Len(b), b)
    BY <2>4 DEF Device!SppPrintLocalPkt, Device!Packet, Device!SppFillHeader, Device!PacketBytes,
           Device!NGHAM_SPP_TYPE_ROUTED, Device!Octet, Device!Crc,
           PacketBytes, NGHAM_SPP_TYPE_ROUTED, Octet, Crc, b
  <2>7. PlType(i) = NGHAM_SPP_TYPE_ROUTED /\ Body(i) = b /\ Announced(i) = Len(b)
    BY <2>1 DEF PlType, Body, Announced, b
  <2>8. Len(b) \in 1..SPP_PL_MAX
    BY <2>1, <2>3, OctetAssumption
  <2>9. i # Idle.intent /\ PlType(i) \in Octets
    BY <2>1, <2>7, OctetFacts DEF NGHAM_SPP_TYPE_ROUTED, Idle
  <2>10. QED
    BY <2>1, <2>3, <2>5, <2>7, <2>8, <2>9
<1>4. CASE i \in [kind : {"command"}, cmd : Seq(STRING)]
  <2> DEFINE b == Host!ToLocal8Bit(i.cmd)
  <2>1. i.kind = "command" /\ i.cmd \in Seq(STRING)
    BY <1>4
  <2>2. b \in Seq(Bytes)
    BY <2>1, Encoded
  <2> HIDE DEF b
  <2>3. BytesOf(i) = Host!PackCommand(i.cmd)
    BY <2>1 DEF BytesOf
  <2>4. BytesOf(i) = PacketBytes(NGHAM_SPP_TYPE_CMD, Len(i.cmd), b)
    BY <2>3 DEF Host!PackCommand, Host!PacketBytes, Host!NGHAM_SPP_TYPE_CMD, Host!Octet, Host!Crc,
           PacketBytes, NGHAM_SPP_TYPE_CMD, Octet, Crc, b
  <2>5. PlType(i) = NGHAM_SPP_TYPE_CMD /\ Body(i) = b /\ Announced(i) = Len(i.cmd)
    BY <2>1 DEF PlType, Body, Announced, b
  <2>6. i # Idle.intent /\ PlType(i) \in Octets
    BY <2>1, <2>5, OctetFacts DEF NGHAM_SPP_TYPE_CMD, Idle
  <2>7. QED
    BY <2>1, <2>2, <2>4, <2>5, <2>6
<1>5. QED
  BY <1>1, <1>2, <1>3, <1>4, SendableAssumption

LEMMA IntentLaid ==
  ASSUME NEW i \in Packable
  PROVE  LaidOut(BytesOf(i), PlType(i), Announced(i), Body(i))
BY Intents, Laid

LEMMA PrintedLaid ==
  ASSUME NEW p \in Printed
  PROVE  /\ LaidOut(p.bytes, p.pl_type, Len(p.d), p.d) /\ Len(p.d) % (SPP_PL_MAX + 1) = Len(p.d)
         /\ Len(p.d) \in 1..SPP_PL_MAX /\ p.pl_type \in Octets /\ p # Host!Nothing
<1>1. p.pl_type \in Octets /\ p.d \in Seq(Bytes) /\ Len(p.d) \in 1..SPP_PL_MAX
  BY OctetFacts DEF Printed, NGHAM_SPP_TYPE_RX, NGHAM_SPP_TYPE_CMD
<1>2. p.bytes = PacketBytes(p.pl_type, Len(p.d), p.d)
  BY DEF Printed
<1>3. LaidOut(p.bytes, p.pl_type, Len(p.d), p.d)
  BY <1>1, <1>2, Laid
<1>4. Len(p.d) % (SPP_PL_MAX + 1) = Len(p.d)
  <2> DEFINE n == Len(p.d)
  <2>1. n \in 1..SPP_PL_MAX
    BY <1>1
  <2> HIDE DEF n
  <2>2. n % (SPP_PL_MAX + 1) = n
    BY <2>1, OctetAssumption
  <2>3. QED  BY <2>2 DEF n
<1>5. p # Host!Nothing
  <2>1. DOMAIN p = {"pl_type", "d", "bytes"}
    BY DEF Printed
  <2>2. DOMAIN Host!Nothing = {"pl_type"}
    BY DEF Host!Nothing
  <2>3. QED  BY <2>1, <2>2
<1>6. QED
  BY <1>1, <1>3, <1>4, <1>5

(* A packet is well packed if its length octet counts its payload, and     *)
(* there is some.                                                          *)
LEMMA WellAnnounced ==
  ASSUME NEW i \in Packable
  PROVE  WellPacked(i) <=> Announced(i) % (SPP_PL_MAX + 1) = Len(Body(i)) /\ Len(Body(i)) > 0
<1>1. CASE i.kind # "command"
  <2> DEFINE n == Len(Body(i))
  <2>1. n \in 1..SPP_PL_MAX /\ Announced(i) = n
    BY <1>1, Intents DEF Announced
  <2> HIDE DEF n
  <2>2. n % (SPP_PL_MAX + 1) = n /\ n > 0
    BY <2>1, OctetAssumption
  <2>3. QED  BY <1>1, <2>1, <2>2 DEF WellPacked, n
<1>2. CASE i.kind = "command"
  <2> DEFINE n == Len(i.cmd)
             b == Len(Body(i))
             Plain == \A k \in 1..Len(i.cmd) : i.cmd[k] # "wide"
  <2>1. i.cmd \in Seq(STRING) /\ Body(i) = Host!ToLocal8Bit(i.cmd) /\ Announced(i) = n
    BY <1>2, Intents DEF Body, Announced
  <2>2. n \in Nat /\ b \in Nat /\ b >= n /\ (b = n <=> Plain)
    BY <2>1, Encoded
  <2>3. (i.cmd # <<>> <=> n > 0) /\ ("wide" \notin {i.cmd[k] : k \in DOMAIN i.cmd} <=> Plain)
    BY <2>1
  <2> HIDE DEF b, Plain
  <2>4. WellPacked(i) <=> n > 0 /\ n <= SPP_PL_MAX /\ Plain
    BY <1>2, <2>3 DEF WellPacked
  <2> HIDE DEF n
  <2>5. n % (SPP_PL_MAX + 1) <= n /\ n % (SPP_PL_MAX + 1) <= SPP_PL_MAX /\ (n <= SPP_PL_MAX => n % (SPP_PL_MAX + 1) = n)
    BY <2>2, OctetAssumption
  <2>6. n % (SPP_PL_MAX + 1) = b /\ b > 0 <=> n > 0 /\ n <= SPP_PL_MAX /\ b = n
    BY <2>2, <2>5, OctetAssumption
  <2>7. QED  BY <2>1, <2>2, <2>4, <2>6 DEF b
<1>3. QED
  BY <1>1, <1>2

-----------------------------------------------------------------------------
(* The modem's parser, byte by byte                                        *)

LEMMA Appended ==
  ASSUME NEW S, NEW s \in Seq(S), NEW c \in S
  PROVE  /\ Append(s, c) \in Seq(S) /\ Len(Append(s, c)) = Len(s) + 1 /\ Append(s, c) # <<>>
         /\ \A k \in 1..Len(s) : Append(s, c)[k] = s[k]
         /\ Append(s, c)[Len(s) + 1] = c
BY AppendProperties

LEMMA DeviceReadings == \A c : Device!Readings(c) = Readings(c)
BY DEF Device!Readings, Readings, Device!Octets, Octets

(* What the parser found covered by the CRC, and whether the CRC is it.    *)
Covered(c)  == SubSeq(dev_d, 3, 4) \o Append(dev_pl, c)
CrcRight(c) == dev_d[1] = <<"crc_lo", Covered(c)>> /\ dev_d[2] = <<"crc_hi", Covered(c)>>

Started(c) ==
  /\ dev_state = "START" /\ UNCHANGED <<dev_target, dev_pl>>
  /\ \/ SPP_START \in Readings(c) /\ dev_state' = "HEADER" /\ dev_d' = <<>>
     \/ Readings(c) # {SPP_START} /\ dev_state' = "START" /\ dev_d' = dev_d
InHeader(c) ==
  /\ dev_state = "HEADER" /\ Len(dev_d) < 3 /\ dev_state' = "HEADER"
  /\ dev_d' = Append(dev_d, c) /\ UNCHANGED <<dev_target, dev_pl>>
HeaderDone(c) ==
  /\ dev_state = "HEADER" /\ Len(dev_d) = 3
  /\ dev_d' = Append(dev_d, c) /\ dev_target' \in Readings(c)
  /\ IF dev_target' # 0 THEN dev_state' = "PAYLOAD" /\ dev_pl' = <<>> ELSE dev_state' = "START" /\ dev_pl' = dev_pl
InPayload(c) ==
  /\ dev_state = "PAYLOAD" /\ Len(dev_pl) + 1 < dev_target /\ dev_state' = "PAYLOAD"
  /\ dev_pl' = Append(dev_pl, c) /\ UNCHANGED <<dev_d, dev_target>>
PacketDone(c) ==
  /\ dev_state = "PAYLOAD" /\ Len(dev_pl) + 1 = dev_target /\ dev_state' = "START"
  /\ dev_pl' \in Seq(Line) /\ UNCHANGED <<dev_d, dev_target>>

Quiet == dev_call' = Device!NoCall /\ UNCHANGED <<dev_mute, dev_output>>
Transmits(c) ==
  /\ CrcRight(c) /\ NGHAM_SPP_TYPE_TX \in Readings(dev_d[3])
  /\ dev_call' = (IF dev_mute THEN Device!NoCall
                  ELSE [fn |-> "packer_call", ngham_flags |-> Append(dev_pl, c)[1], pl |-> Tail(Append(dev_pl, c))])
  /\ UNCHANGED <<dev_mute, dev_output>>
Runs(c) ==
  /\ CrcRight(c) /\ NGHAM_SPP_TYPE_CMD \in Readings(dev_d[3])
  /\ \E rep \in Replies : /\ dev_call' = [fn |-> "cmd", d |-> Append(dev_pl, c), rep |-> rep]
                          /\ dev_output' = dev_output \o Device!SppPrintCmd(rep)
Routes(c) ==
  /\ CrcRight(c) /\ NGHAM_SPP_TYPE_ROUTED \in Readings(dev_d[3])
  /\ dev_call' = (IF NGHAM_FLAG_TYPE_EXTENSION \in Readings(Append(dev_pl, c)[1])
                  THEN [fn |-> "port_handle_ngham_ext", ngham_flags |-> Append(dev_pl, c)[1], pl |-> Tail(Append(dev_pl, c))]
                  ELSE Device!NoCall)
  /\ UNCHANGED <<dev_mute, dev_output>>
Ignores(c) ==
  /\ Quiet
  /\ CrcRight(c) => {NGHAM_SPP_TYPE_TX, NGHAM_SPP_TYPE_CMD, NGHAM_SPP_TYPE_ROUTED} \cap Readings(dev_d[3]) = {}

LEMMA DeviceSteps ==
  ASSUME DeviceInv, NEW c \in Line, Device!SppParse(c)
  PROVE  \/ Started(c) /\ Quiet
         \/ InHeader(c) /\ Quiet
         \/ HeaderDone(c) /\ Quiet
         \/ InPayload(c) /\ Quiet
         \/ PacketDone(c) /\ (Transmits(c) \/ Runs(c) \/ Routes(c) \/ Ignores(c))
<1>1. /\ Device!SPP_HDR_SIZE = 5 /\ SPP_HDR_SIZE = 5 /\ dev_d \in Seq(Line) /\ dev_pl \in Seq(Line)
      /\ dev_target \in Octets /\ Octets \subseteq Nat /\ Len(dev_d) \in Nat /\ Len(dev_pl) \in Nat
  BY OctetFacts DEF DeviceInv, Device!SPP_HDR_SIZE, SPP_HDR_SIZE
<1>2. CASE Device!SppStart(c)
  <2>1. Started(c) /\ Quiet
    BY <1>2, DeviceReadings DEF Device!SppStart, Started, Quiet
  <2>2. QED  BY <2>1
<1>3. CASE Device!SppHeader(c)
  <2>1. InHeader(c) /\ Quiet
    BY <1>1, <1>3 DEF Device!SppHeader, InHeader, Quiet
  <2>2. QED  BY <2>1
<1>4. CASE Device!SppHeaderLast(c)
  <2>1. Len(dev_d) = 3
    <3> DEFINE n == Len(dev_d)
    <3>1. n \in Nat /\ n < 5 - 1 /\ n + 2 >= 5
      BY <1>1, <1>4 DEF Device!SppHeaderLast, DeviceInv
    <3> HIDE DEF n
    <3>2. n = 3
      BY <3>1
    <3>3. QED  BY <3>2 DEF n
  <2>2. HeaderDone(c) /\ Quiet
    BY <1>4, <2>1, DeviceReadings DEF Device!SppHeaderLast, HeaderDone, Quiet
  <2>3. QED  BY <2>2
<1>5. dev_state = "PAYLOAD" =>
        /\ Device!WithByte(c) = Append(dev_pl, c) /\ Len(dev_pl) < dev_target /\ Len(dev_pl) < PKT_PL_SIZE
        /\ Len(Append(dev_pl, c)) = Len(dev_pl) + 1 /\ Append(dev_pl, c) \in Seq(Line) /\ Len(dev_d) = 4
  <2> SUFFICES ASSUME dev_state = "PAYLOAD"
               PROVE  /\ Device!WithByte(c) = Append(dev_pl, c) /\ Len(dev_pl) < dev_target /\ Len(dev_pl) < PKT_PL_SIZE
                      /\ Len(Append(dev_pl, c)) = Len(dev_pl) + 1 /\ Append(dev_pl, c) \in Seq(Line) /\ Len(dev_d) = 4
    OBVIOUS
  <2>1. Len(dev_pl) < dev_target /\ Len(dev_d) = 4
    BY <1>1 DEF DeviceInv
  <2>2. Len(dev_pl) < PKT_PL_SIZE
    BY <1>1, <2>1, OctetAssumption, PktAssumption DEF Octets
  <2>3. Device!WithByte(c) = Append(dev_pl, c)
    BY <2>2 DEF Device!WithByte
  <2>4. QED  BY <1>1, <2>1, <2>2, <2>3, Appended
<1>6. CASE Device!SppPayload(c)
  <2>1. dev_state = "PAYLOAD" /\ Len(Append(dev_pl, c)) # dev_target /\ dev_pl' = Append(dev_pl, c)
        /\ dev_state' = "PAYLOAD" /\ Quiet /\ UNCHANGED <<dev_d, dev_target>>
    BY <1>5, <1>6 DEF Device!SppPayload, Quiet
  <2>2. Len(dev_pl) + 1 < dev_target
    BY <1>1, <1>5, <2>1
  <2>3. QED  BY <2>1, <2>2 DEF InPayload
<1>7. CASE Device!SppPacket(c)
  <2> DEFINE buf == Append(dev_pl, c)
  <2>1. dev_state = "PAYLOAD" /\ dev_state' = "START" /\ UNCHANGED <<dev_d, dev_target>>
    BY <1>7 DEF Device!SppPacket
  <2>2. /\ Len(buf) = dev_target
        /\ \/ Device!CrcMatches(buf) /\ (Device!SppTransmit(buf) \/ Device!SppCommand(buf) \/ Device!SppRouted(buf))
           \/ Device!SppIgnored(buf)
    BY <1>5, <1>7, <2>1 DEF Device!SppPacket
  <2>3. buf \in Seq(Line) /\ Len(buf) = Len(dev_pl) + 1 /\ Len(dev_d) = 4
    BY <1>5, <2>1
  <2>4. Device!CrcMatches(buf) <=> CrcRight(c)
    <3> DEFINE x == SubSeq(dev_d, 1, 2)
               s == Covered(c)
    <3>1. \A k \in 1..2 : dev_d[k] \in Line
      <4>1. dev_d \in Seq(Line) /\ \A k \in 1..2 : k \in 1..Len(dev_d)
        BY <1>1, <2>3
      <4>2. QED  BY <4>1, ElementOfSeq
    <3>2. x \in Seq(Line) /\ Len(x) = 2 /\ x[1] = dev_d[1] /\ x[2] = dev_d[2]
      <4>1. x \in Seq(Line) /\ Len(x) = 2 /\ \A k \in 1..2 : x[k] = dev_d[1 + k - 1]
        BY <3>1, SubSeqProperties
      <4>2. QED  BY <4>1
    <3>3. Device!CrcMatches(buf) <=> x = << <<"crc_lo", s>>, <<"crc_hi", s>> >>
      BY DEF Device!CrcMatches, Device!Crc, Covered
    <3> HIDE DEF x, s
    <3>4. x = <<x[1], x[2]>>
      BY <3>2
    <3>5. QED  BY <3>2, <3>3, <3>4 DEF CrcRight, s
  <2>5. \A t : Device!IsType(t) <=> t \in Readings(dev_d[3])
    BY DeviceReadings DEF Device!IsType
  <2>6. Device!Shortened(buf) \in Seq(Line)
    <3> DEFINE n == Len(buf)
    <3>1. n \in Nat /\ \A k \in 1..n-1 : buf[k] \in Line
      BY <2>3
    <3> HIDE DEF buf, n
    <3>2. SubSeq(buf, 1, n - 1) \in Seq(Line)
      BY <3>1, SubSeqProperties
    <3>3. QED  BY <3>2 DEF Device!Shortened, n
  <2>7. Device!NGHAM_SPP_TYPE_TX = NGHAM_SPP_TYPE_TX /\ Device!NGHAM_SPP_TYPE_CMD = NGHAM_SPP_TYPE_CMD
        /\ Device!NGHAM_SPP_TYPE_ROUTED = NGHAM_SPP_TYPE_ROUTED
        /\ Device!NGHAM_FLAG_TYPE_EXTENSION = NGHAM_FLAG_TYPE_EXTENSION
    BY DEF Device!NGHAM_SPP_TYPE_TX, NGHAM_SPP_TYPE_TX, Device!NGHAM_SPP_TYPE_CMD, NGHAM_SPP_TYPE_CMD,
           Device!NGHAM_SPP_TYPE_ROUTED, NGHAM_SPP_TYPE_ROUTED,
           Device!NGHAM_FLAG_TYPE_EXTENSION, NGHAM_FLAG_TYPE_EXTENSION
  <2> HIDE DEF buf
  <2>8. CASE Device!CrcMatches(buf) /\ Device!SppTransmit(buf)
    <3>1. dev_pl' \in Seq(Line)
      BY <2>6, <2>8 DEF Device!SppTransmit
    <3>2. Transmits(c)
      BY <2>4, <2>5, <2>7, <2>8 DEF Device!SppTransmit, Device!TxPacket, Transmits, buf
    <3>3. QED  BY <2>1, <2>2, <2>3, <3>1, <3>2 DEF PacketDone
  <2>9. CASE Device!CrcMatches(buf) /\ Device!SppCommand(buf)
    <3>1. dev_pl' \in Seq(Line)
      BY <2>3, <2>9 DEF Device!SppCommand
    <3>2. Runs(c)
      BY <2>4, <2>5, <2>7, <2>9 DEF Device!SppCommand, Runs, buf
    <3>3. QED  BY <2>1, <2>2, <2>3, <3>1, <3>2 DEF PacketDone
  <2>10. CASE Device!CrcMatches(buf) /\ Device!SppRouted(buf)
    <3>1. dev_pl' \in Seq(Line)
      BY <2>6, <2>10 DEF Device!SppRouted
    <3>2. Routes(c)
      BY <2>4, <2>5, <2>7, <2>10, DeviceReadings DEF Device!SppRouted, Device!ExtPacket, Routes, buf
    <3>3. QED  BY <2>1, <2>2, <2>3, <3>1, <3>2 DEF PacketDone
  <2>11. CASE Device!SppIgnored(buf)
    <3>1. dev_pl' \in Seq(Line) /\ Quiet
      BY <2>3, <2>11 DEF Device!SppIgnored, Quiet
    <3>2. CrcRight(c) => {NGHAM_SPP_TYPE_TX, NGHAM_SPP_TYPE_CMD, NGHAM_SPP_TYPE_ROUTED} \cap Readings(dev_d[3]) = {}
      BY <2>4, <2>5, <2>7, <2>11 DEF Device!SppIgnored
    <3>3. QED  BY <2>1, <2>2, <2>3, <3>1, <3>2 DEF PacketDone, Ignores
  <2>12. QED
    BY <2>2, <2>8, <2>9, <2>10, <2>11
<1>8. QED
  BY <1>2, <1>3, <1>4, <1>6, <1>7 DEF Device!SppParse

LEMMA DeviceKept ==
  ASSUME DeviceInv, NEW c \in Line, Device!SppParse(c)
  PROVE  DeviceInv'
<1>1. /\ dev_d \in Seq(Line) /\ dev_pl \in Seq(Line) /\ dev_target \in Octets
      /\ Readings(c) \subseteq Octets /\ Octets \subseteq Nat
      /\ Len(dev_d) \in Nat /\ Len(dev_pl) \in Nat
  BY OctetFacts, LineFacts DEF DeviceInv
<1>2. CASE Started(c)
  <2>1. dev_target' = dev_target /\ dev_pl' = dev_pl /\ dev_state' \in {"START", "HEADER"}
    BY <1>2 DEF Started
  <2>2. (dev_d' = <<>> \/ dev_d' = dev_d) /\ (dev_state' = "HEADER" => dev_d' = <<>>)
    BY <1>2 DEF Started
  <2>3. dev_d' \in Seq(Line) /\ (dev_d' = <<>> => Len(dev_d') = 0)
    BY <1>1, <2>2, EmptySeq
  <2>4. QED  BY <1>1, <2>1, <2>2, <2>3 DEF DeviceInv, SPP_HDR_SIZE
<1>3. CASE InHeader(c)
  <2>1. dev_d' \in Seq(Line) /\ Len(dev_d') = Len(dev_d) + 1
    BY <1>1, <1>3, Appended DEF InHeader
  <2>2. QED  BY <1>1, <1>3, <2>1 DEF InHeader, DeviceInv, SPP_HDR_SIZE
<1>4. CASE HeaderDone(c)
  <2>1. dev_d' \in Seq(Line) /\ Len(dev_d') = 4 /\ dev_d'[4] = c
    <3>1. /\ Append(dev_d, c) \in Seq(Line) /\ Len(Append(dev_d, c)) = Len(dev_d) + 1
          /\ Append(dev_d, c)[Len(dev_d) + 1] = c
      BY <1>1, Appended
    <3>2. dev_d' = Append(dev_d, c) /\ Len(dev_d) = 3
      BY <1>4 DEF HeaderDone
    <3>3. QED  BY <3>1, <3>2
  <2>2. dev_target' \in Readings(c) /\ dev_target' \in Octets
    BY <1>1, <1>4 DEF HeaderDone
  <2>3. CASE dev_target' # 0
    <3>1. dev_state' = "PAYLOAD" /\ dev_pl' = <<>>
      BY <1>4, <2>3 DEF HeaderDone
    <3>2. dev_pl' \in Seq(Line) /\ Len(dev_pl') = 0
      BY <3>1
    <3>3. Len(dev_pl') < dev_target'
      BY <1>1, <2>2, <2>3, <3>2
    <3>4. QED  BY <2>1, <2>2, <3>1, <3>2, <3>3 DEF DeviceInv, SPP_HDR_SIZE
  <2>4. CASE dev_target' = 0
    <3>1. dev_state' = "START" /\ dev_pl' = dev_pl
      BY <1>4, <2>4 DEF HeaderDone
    <3>2. QED  BY <1>1, <2>1, <2>2, <3>1 DEF DeviceInv
  <2>5. QED  BY <2>3, <2>4
<1>5. CASE InPayload(c)
  <2>1. dev_pl' \in Seq(Line) /\ Len(dev_pl') = Len(dev_pl) + 1
    BY <1>1, <1>5, Appended DEF InPayload
  <2>2. QED  BY <1>1, <1>5, <2>1 DEF InPayload, DeviceInv
<1>6. CASE PacketDone(c)
  BY <1>1, <1>6 DEF PacketDone, DeviceInv
<1>7. QED
  BY <1>2, <1>3, <1>4, <1>5, <1>6, DeviceSteps

(* spp_print_cmd: where its packets end in the reply, and what they hold.  *)
Chunks(rep)  == (Len(rep) + SPP_PL_MAX - 1) \div SPP_PL_MAX
UpTo(rep, k) == IF Len(rep) < k * SPP_PL_MAX THEN Len(rep) ELSE k * SPP_PL_MAX
Chunk(rep, i) == SubSeq(rep, UpTo(rep, i - 1) + 1, UpTo(rep, i))

LEMMA ChunkEnds ==
  ASSUME NEW rep \in Replies
  PROVE  /\ Chunks(rep) \in Nat /\ UpTo(rep, 0) = 0 /\ UpTo(rep, Chunks(rep)) = Len(rep)
         /\ \A k \in 0..Chunks(rep) : UpTo(rep, k) \in 0..Len(rep)
         /\ \A i \in 1..Chunks(rep) : /\ UpTo(rep, i - 1) = (i - 1) * SPP_PL_MAX
                                      /\ UpTo(rep, i - 1) < UpTo(rep, i)
                                      /\ UpTo(rep, i) <= UpTo(rep, i - 1) + SPP_PL_MAX
         /\ \A i, k \in 0..Chunks(rep) : i <= k => UpTo(rep, i) <= UpTo(rep, k)
<1> DEFINE m == SPP_PL_MAX
           n == Len(rep)
           u(k) == IF n < k * m THEN n ELSE k * m
           chunks == (n + m - 1) \div m
<1>1. rep \in Seq(Bytes) /\ n \in Nat /\ m \in Nat /\ m >= 4
  BY ReplyAssumption, OctetAssumption
<1>2. Chunks(rep) = chunks /\ \A k : UpTo(rep, k) = u(k)
  BY DEF Chunks, UpTo
<1> HIDE DEF m, n
<1>3. chunks \in Nat /\ m * chunks <= n + m - 1 /\ n <= m * chunks
  BY <1>1
<1> HIDE DEF chunks
<1>4. \A k \in Nat : k * m \in Nat /\ k * m = m * k
  BY <1>1
<1>5. \A i, k \in Nat : i <= k => m * i <= m * k
  BY <1>1
<1>6. u(0) = 0 /\ u(chunks) = n
  <2>1. 0 * m = 0
    BY <1>1
  <2>2. chunks * m \in Nat /\ n <= chunks * m
    BY <1>3, <1>4
  <2>3. QED  BY <1>1, <2>1, <2>2
<1>7. \A k \in 0..chunks : u(k) \in 0..n
  <2> SUFFICES ASSUME NEW k \in 0..chunks PROVE u(k) \in 0..n
    OBVIOUS
  <2>1. k * m \in Nat
    BY <1>3, <1>4
  <2>2. QED  BY <1>1, <2>1
<1>8. \A i, k \in 0..chunks : i <= k => u(i) <= u(k)
  <2> SUFFICES ASSUME NEW i \in 0..chunks, NEW k \in 0..chunks, i <= k PROVE u(i) <= u(k)
    OBVIOUS
  <2>1. i * m \in Nat /\ k * m \in Nat /\ i * m <= k * m
    BY <1>3, <1>4, <1>5
  <2>2. QED  BY <1>1, <2>1
<1>9. \A i \in 1..chunks : u(i - 1) = (i - 1) * m /\ u(i - 1) < u(i) /\ u(i) <= u(i - 1) + m
  <2> SUFFICES ASSUME NEW i \in 1..chunks
               PROVE  u(i - 1) = (i - 1) * m /\ u(i - 1) < u(i) /\ u(i) <= u(i - 1) + m
    OBVIOUS
  <2> DEFINE a == (i - 1) * m
             b == i * m
  <2>1. a \in Nat /\ b \in Nat /\ b = a + m
    BY <1>1, <1>3
  <2>2. b <= n + m - 1
    <3>1. m * i <= m * chunks /\ m * i = b /\ m * chunks \in Nat
      BY <1>1, <1>3, <1>4, <1>5
    <3> HIDE DEF b
    <3>2. QED  BY <1>1, <1>3, <2>1, <3>1
  <2>3. u(i - 1) = (IF n < a THEN n ELSE a) /\ u(i) = (IF n < b THEN n ELSE b)
    OBVIOUS
  <2> HIDE DEF a, b, u
  <2>4. a < n
    BY <1>1, <2>1, <2>2
  <2>5. QED  BY <1>1, <2>1, <2>3, <2>4 DEF a
<1> HIDE DEF u
<1>10. QED
  BY <1>2, <1>3, <1>6, <1>7, <1>8, <1>9 DEF m, n

LEMMA ChunkBytes ==
  ASSUME NEW rep \in Replies, NEW i \in 1..Chunks(rep)
  PROVE  /\ Chunk(rep, i) \in Seq(Bytes) /\ Len(Chunk(rep, i)) \in 1..SPP_PL_MAX
         /\ UpTo(rep, i) = UpTo(rep, i - 1) + Len(Chunk(rep, i))
         /\ \A j \in 1..Len(Chunk(rep, i)) : rep[UpTo(rep, i - 1) + j] = Chunk(rep, i)[j]
<1> DEFINE a == UpTo(rep, i - 1)
           e == UpTo(rep, i)
           n == Len(rep)
<1>1. rep \in Seq(Bytes) /\ n \in Nat /\ SPP_PL_MAX \in Nat
  BY ReplyAssumption, OctetAssumption
<1>2. a \in Nat /\ e \in Nat /\ a < e /\ e <= a + SPP_PL_MAX /\ e <= n
  <2>1. i \in 0..Chunks(rep) /\ i - 1 \in 0..Chunks(rep)
    BY ChunkEnds
  <2>2. a \in 0..n /\ e \in 0..n /\ a < e /\ e <= a + SPP_PL_MAX
    BY <2>1, ChunkEnds
  <2> HIDE DEF a, e, n
  <2>3. QED  BY <1>1, <2>2
<1>3. Chunk(rep, i) = SubSeq(rep, a + 1, e)
  BY DEF Chunk
<1> HIDE DEF a, e
<1>4. \A k \in a+1..e : rep[k] \in Bytes
  <2>1. \A k \in 1..n : rep[k] \in Bytes
    BY <1>1
  <2> HIDE DEF n
  <2>2. QED  BY <1>1, <1>2, <2>1
<1>5. /\ Chunk(rep, i) \in Seq(Bytes) /\ Len(Chunk(rep, i)) = e - (a + 1) + 1
      /\ \A j \in 1..e-(a + 1)+1 : Chunk(rep, i)[j] = rep[(a + 1) + j - 1]
  BY <1>1, <1>2, <1>3, <1>4, SubSeqProperties
<1>6. e - (a + 1) + 1 = e - a /\ e - a \in 1..SPP_PL_MAX /\ e = a + (e - a)
  BY <1>1, <1>2
<1>7. ASSUME NEW j \in 1..e-a PROVE rep[a + j] = Chunk(rep, i)[j]
  <2>1. (a + 1) + j - 1 = a + j
    BY <1>2
  <2>2. QED  BY <1>5, <1>6, <2>1
<1>8. QED
  BY <1>5, <1>6, <1>7 DEF a, e

LEMMA ReplyPackets ==
  ASSUME NEW rep \in Replies
  PROVE  Device!SppPrintCmd(rep) =
           [i \in 1..Chunks(rep) |-> [pl_type |-> NGHAM_SPP_TYPE_CMD, d |-> Chunk(rep, i),
                                      bytes |-> PacketBytes(NGHAM_SPP_TYPE_CMD, Len(Chunk(rep, i)), Chunk(rep, i))]]
<1> DEFINE m == SPP_PL_MAX
           n == Len(rep)
           Least(a, b) == IF a < b THEN a ELSE b
           d(i) == SubSeq(rep, (i - 1) * m + 1, Least(n, i * m))
<1>1. Device!SppPrintCmd(rep) = [i \in 1..Chunks(rep) |-> Device!Packet(Device!NGHAM_SPP_TYPE_CMD, d(i))]
  BY DEF Device!SppPrintCmd, Chunks
<1>2. \A b : Device!Packet(Device!NGHAM_SPP_TYPE_CMD, b)
               = [pl_type |-> NGHAM_SPP_TYPE_CMD, d |-> b, bytes |-> PacketBytes(NGHAM_SPP_TYPE_CMD, Len(b), b)]
  BY DEF Device!Packet, Device!SppFillHeader, Device!PacketBytes, Device!NGHAM_SPP_TYPE_CMD, Device!Octet, Device!Crc,
         PacketBytes, NGHAM_SPP_TYPE_CMD, Octet, Crc
<1>3. ASSUME NEW i \in 1..Chunks(rep) PROVE d(i) = Chunk(rep, i)
  <2>1. UpTo(rep, i - 1) = (i - 1) * m
    BY ChunkEnds
  <2>2. UpTo(rep, i) = Least(n, i * m)
    BY DEF UpTo
  <2>3. QED  BY <2>1, <2>2 DEF Chunk
<1> HIDE DEF d
<1>4. QED
  BY <1>1, <1>2, <1>3

(* spp_print_cmd cuts a reply into packets that are neither empty nor too  *)
(* long.                                                                   *)
LEMMA RepliesPrinted ==
  ASSUME NEW rep \in Replies
  PROVE  Device!SppPrintCmd(rep) \in Seq(Printed)
<1> DEFINE n == Chunks(rep)
           P(i) == [pl_type |-> NGHAM_SPP_TYPE_CMD, d |-> Chunk(rep, i),
                    bytes |-> PacketBytes(NGHAM_SPP_TYPE_CMD, Len(Chunk(rep, i)), Chunk(rep, i))]
<1>1. ASSUME NEW i \in 1..n
      PROVE  P(i) \in Printed
  <2> DEFINE d == Chunk(rep, i)
  <2>1. d \in Seq(Bytes) /\ Len(d) \in 1..SPP_PL_MAX
    BY ChunkBytes
  <2> HIDE DEF d
  <2>2. NGHAM_SPP_TYPE_CMD \in Octets /\ Len(d) \in Nat
    BY <2>1, OctetFacts DEF NGHAM_SPP_TYPE_CMD
  <2>3. PacketBytes(NGHAM_SPP_TYPE_CMD, Len(d), d) \in Seq(Line)
    BY <2>1, <2>2, Laid DEF LaidOut
  <2>4. [pl_type |-> NGHAM_SPP_TYPE_CMD, d |-> d, bytes |-> PacketBytes(NGHAM_SPP_TYPE_CMD, Len(d), d)] \in Printed
    BY <2>1, <2>3 DEF Printed
  <2>5. QED  BY <2>4 DEF d
<1>2. n \in Nat /\ Device!SppPrintCmd(rep) = [i \in 1..n |-> P(i)]
  BY ChunkEnds, ReplyPackets
<1> HIDE DEF n, P
<1>3. QED
  BY <1>1, <1>2

-----------------------------------------------------------------------------
(* The line to the modem                                                   *)

(* What is known while i is on the line, of whose bytes B k have arrived.  *)
OnLine(i, B, k) ==
  /\ i \in Packable /\ i = down.intent /\ B = BytesOf(i) /\ k = Arrived
  /\ LaidOut(B, PlType(i), Announced(i), Body(i))
  /\ k \in Nat /\ Len(B) \in Nat /\ k < Len(B)
  /\ Len(down.bytes) = Len(B) - k /\ down.bytes = SubSeq(B, k + 1, Len(B)) /\ down.bytes \in Seq(Line)
  /\ Head(down.bytes) = B[k + 1] /\ B[k + 1] \in Line
  /\ down.bytes = B <=> k = 0
  /\ down.whole \in BOOLEAN /\ down # Idle

LEMMA DownFacts ==
  ASSUME DownInv, down.bytes # <<>> \/ down # Idle
  PROVE  OnLine(down.intent, BytesOf(down.intent), Arrived)
<1> DEFINE i == down.intent
           B == BytesOf(i)
           n == Len(B)
<1>1. Idle.bytes = <<>>
  BY DEF Idle
<1>2. /\ down \in [intent : Packable, bytes : Seq(Line) \ {<<>>}, whole : BOOLEAN]
      /\ \E k \in 1..n : down.bytes = SubSeq(B, k, n)
  BY <1>1 DEF DownInv
<1>3. i \in Packable /\ LaidOut(B, PlType(i), Announced(i), Body(i)) /\ B \in Seq(Line)
  <2>1. i \in Packable
    BY <1>2
  <2> HIDE DEF i
  <2>2. QED  BY <2>1, IntentLaid DEF LaidOut
<1>4. PICK k \in 1..n : down.bytes = SubSeq(B, k, n)
  BY <1>2
<1>5. n \in Nat /\ \A j \in 1..n : B[j] \in Line
  <2> HIDE DEF B
  <2>1. QED  BY <1>3
<1> HIDE DEF n
<1>6. /\ Len(down.bytes) = n - k + 1 /\ \A j \in 1..n-k+1 : down.bytes[j] = B[k + j - 1]
      /\ Head(down.bytes) = B[k]
  <2>1. \A j \in k..n : B[j] \in Line
    BY <1>5
  <2> HIDE DEF B
  <2>2. /\ Len(SubSeq(B, k, n)) = IF k <= n THEN n - k + 1 ELSE 0
        /\ \A j \in 1..n-k+1 : SubSeq(B, k, n)[j] = B[k + j - 1]
    BY <1>5, <2>1, SubSeqProperties
  <2>3. k \in 1..Len(B) /\ n \in k..Len(B)
    BY <1>5 DEF n
  <2>4. Head(SubSeq(B, k, n)) = B[k]
    BY <1>3, <2>3, HeadTailOfSubSeq
  <2>5. QED  BY <1>4, <1>5, <2>2, <2>4
<1>7. Arrived = k - 1
  <2>1. Arrived = n - Len(down.bytes)
    BY DEF Arrived, n
  <2>2. QED  BY <1>5, <1>6, <2>1
<1>8. down.bytes = B <=> k = 1
  <2>1. CASE k = 1
    <3>1. SubSeq(B, 1, n) = B
      <4> HIDE DEF B
      <4>1. QED  BY <1>3, SubSeqFull DEF n
    <3>2. QED  BY <1>4, <2>1, <3>1
  <2>2. CASE k # 1
    <3>1. n - k + 1 # n
      BY <1>5, <2>2
    <3>2. QED  BY <1>6, <2>2, <3>1 DEF n
  <2>3. QED  BY <2>1, <2>2
<1>9. k - 1 \in Nat /\ k - 1 < n /\ n - k + 1 = n - (k - 1) /\ (k - 1) + 1 = k /\ (k - 1 = 0 <=> k = 1)
  BY <1>5
<1>10. down.bytes \in Seq(Line) /\ down.whole \in BOOLEAN /\ down # Idle /\ B[k] \in Line
  BY <1>1, <1>2, <1>5
<1>11. QED
  BY <1>3, <1>4, <1>5, <1>6, <1>7, <1>8, <1>9, <1>10 DEF OnLine, n

(* A byte is gone from the line.                                           *)
LEMMA ByteGone ==
  ASSUME DownInv, down.bytes # <<>>, NEW ok \in BOOLEAN, down' = AfterByte(ok)
  PROVE  /\ DownInv'
         /\ down' = Idle <=> Arrived + 1 = Len(BytesOf(down.intent))
         /\ down' # Idle => /\ down'.intent = down.intent /\ Arrived' = Arrived + 1
                            /\ down'.whole => ok /\ down.whole /\ (Arrived = 0 => dev_state = "START")
<1> DEFINE i == down.intent
           B == BytesOf(i)
           n == Len(B)
           k == Arrived
<1>1. OnLine(i, B, k)
  BY DownFacts
<1>2. /\ k \in Nat /\ n \in Nat /\ k < n /\ Len(down.bytes) = n - k /\ i \in Packable /\ B \in Seq(Line)
      /\ down.bytes \in Seq(Line) /\ down.bytes = SubSeq(B, k + 1, n) /\ (down.bytes = B <=> k = 0)
      /\ down.whole \in BOOLEAN
  BY <1>1 DEF OnLine, LaidOut
<1> HIDE DEF k, n
<1>3. CASE k + 1 = n
  <2>1. Len(down.bytes) = 1
    BY <1>2, <1>3
  <2>2. down' = Idle
    BY <2>1 DEF AfterByte
  <2>3. QED  BY <1>3, <2>2 DEF DownInv, n, k
<1>4. CASE k + 1 # n
  <2>1. Len(down.bytes) # 1
    BY <1>2, <1>4
  <2> DEFINE w == ok /\ down.whole /\ (down.bytes = B => dev_state = "START")
  <2>0. w \in BOOLEAN /\ (w => ok /\ down.whole /\ (k = 0 => dev_state = "START"))
    BY <1>2
  <2>2. down' = [intent |-> i, bytes |-> Tail(down.bytes), whole |-> w]
    BY <2>1 DEF AfterByte
  <2> HIDE DEF w
  <2>3. Tail(down.bytes) = SubSeq(B, k + 2, n)
    <3>1. k + 1 \in 1..Len(B) /\ n \in k+1..Len(B) /\ (k + 1) + 1 = k + 2
      BY <1>2 DEF n
    <3> HIDE DEF B
    <3>2. QED  BY <1>2, <3>1, HeadTailOfSubSeq
  <2>4. Tail(down.bytes) \in Seq(Line) /\ Len(Tail(down.bytes)) = n - (k + 1) /\ Tail(down.bytes) # <<>>
    <3> DEFINE s == down.bytes
    <3>1. s \in Seq(Line) /\ s # <<>> /\ Len(s) = n - k
      BY <1>2
    <3> HIDE DEF s
    <3>2. Tail(s) \in Seq(Line) /\ Len(Tail(s)) = Len(s) - 1
      BY <3>1, HeadTailProperties
    <3>3. Len(Tail(s)) = n - (k + 1) /\ Len(Tail(s)) # 0
      <4> DEFINE x == Len(s)
                 y == Len(Tail(s))
      <4>1. k \in Nat /\ n \in Nat /\ k < n /\ x = n - k /\ y = x - 1
        BY <1>2, <3>1, <3>2
      <4> HIDE DEF x, y
      <4>2. y = n - (k + 1) /\ y # 0
        BY <1>4, <4>1
      <4>3. QED  BY <4>2 DEF y
    <3>4. Tail(s) # <<>>
      <4>1. Len(<<>>) = 0
        OBVIOUS
      <4>2. QED  BY <3>3, <4>1
    <3>5. QED  BY <3>2, <3>3, <3>4 DEF s
  <2>5. down' \in [intent : Packable, bytes : Seq(Line) \ {<<>>}, whole : BOOLEAN]
    <3>1. \A x \in Packable, y \in Seq(Line) \ {<<>>}, z \in BOOLEAN :
            [intent |-> x, bytes |-> y, whole |-> z]
              \in [intent : Packable, bytes : Seq(Line) \ {<<>>}, whole : BOOLEAN]
      OBVIOUS
    <3>2. i \in Packable /\ Tail(down.bytes) \in Seq(Line) \ {<<>>} /\ w \in BOOLEAN
      BY <1>2, <2>0, <2>4
    <3> HIDE DEF i
    <3>3. QED  BY <2>2, <3>1, <3>2
  <2>6. k + 2 \in 1..n /\ down'.intent = i /\ down'.bytes = SubSeq(B, k + 2, n)
    BY <1>2, <1>4, <2>2, <2>3
  <2>7. DownInv'
    BY <2>5, <2>6 DEF DownInv, n
  <2>8. Arrived' = n - Len(down'.bytes)
    BY <2>6 DEF Arrived, n
  <2>9. Arrived' = k + 1
    BY <1>2, <2>2, <2>4, <2>8
  <2>10. down' # Idle
    BY <2>5 DEF Idle
  <2>11. down'.whole => ok /\ down.whole /\ (k = 0 => dev_state = "START")
    BY <2>0, <2>2
  <2>12. QED  BY <1>4, <2>6, <2>7, <2>9, <2>10, <2>11 DEF n, k
<1>5. QED
  BY <1>3, <1>4

(* A byte that the parser gets tells a CRC only if it is the first byte of *)
(* the CRC on the line.                                                    *)
LEMMA HeardBytes ==
  ASSUME DownInv, down.bytes # <<>>, NEW c, c = Bad \/ c = Head(down.bytes)
  PROVE  /\ c \in Line /\ down.intent \in Packable /\ BytesOf(down.intent)[2] \in CrcLo
         /\ c \in CrcLo => c = BytesOf(down.intent)[2]
<1> DEFINE B == BytesOf(down.intent)
           k == Arrived
<1>1. OnLine(down.intent, B, k)
  BY DownFacts
<1>2. /\ down.intent \in Packable /\ B[2] \in CrcLo /\ k \in Nat /\ Len(B) \in Nat /\ k < Len(B)
      /\ Head(down.bytes) = B[k + 1] /\ B[k + 1] \in Line /\ \A j \in 1..Len(B) : j # 2 => B[j] \notin CrcLo
  BY <1>1 DEF OnLine, LaidOut
<1> HIDE DEF B, k
<1>3. CASE c = Bad
  BY <1>2, <1>3, LineFacts DEF B
<1>4. CASE c = Head(down.bytes)
  <2>1. k + 1 \in 1..Len(B)
    BY <1>2
  <2>2. c = B[k + 1] /\ (k + 1 # 2 => c \notin CrcLo)
    BY <1>2, <1>4, <2>1
  <2>3. QED  BY <1>2, <2>2 DEF B
<1>5. QED
  BY <1>3, <1>4

LEMMA DevHeardKept ==
  ASSUME DeviceInv, DownInv, DevHeardInv, down.bytes # <<>>,
         NEW c, c = Bad \/ c = Head(down.bytes), DeviceParses(c)
  PROVE  DevHeardInv'
<1> DEFINE Premise == /\ dev_state # "START" /\ Len(dev_d) >= 1 /\ dev_d[1] \in CrcLo /\ NoCrcIn(dev_d, 2)
                      /\ dev_state = "PAYLOAD" => NoCrcIn(dev_pl, 1)
           lo == BytesOf(down.intent)[2]
<1>1. c \in Line /\ down.intent \in Packable /\ lo \in CrcLo /\ (c \in CrcLo => c = lo)
  BY HeardBytes
<1>2. /\ Device!SppParse(c)
      /\ dev_heard' = (IF dev_state' = "START" THEN Idle.intent
                       ELSE IF c = lo THEN down.intent ELSE dev_heard)
  BY DEF DeviceParses
<1> HIDE DEF lo
<1>3. /\ dev_state' = "START" => dev_heard' = Idle.intent
      /\ dev_state' # "START" /\ c = lo => dev_heard' = down.intent
      /\ dev_state' # "START" /\ c # lo => dev_heard' = dev_heard
  BY <1>2
<1>4. dev_heard' \in Packable \cup {Idle.intent}
  BY <1>1, <1>3 DEF DevHeardInv
<1>5. /\ dev_d \in Seq(Line) /\ dev_pl \in Seq(Line) /\ Len(dev_d) \in Nat /\ Len(dev_pl) \in Nat
  BY DEF DeviceInv
<1>6. DevHeardInv => (Premise => dev_heard \in Packable /\ dev_d[1] = BytesOf(dev_heard)[2])
  BY DEF DevHeardInv
<1>7. ASSUME Premise'
      PROVE  dev_heard' \in Packable /\ dev_d'[1] = BytesOf(dev_heard')[2]
  <2>1. ASSUME dev_state' # "START", dev_d' = Append(dev_d, c)
        PROVE  dev_heard' \in Packable /\ dev_d'[1] = BytesOf(dev_heard')[2]
    <3>1. /\ Len(dev_d') = Len(dev_d) + 1 /\ dev_d'[Len(dev_d) + 1] = c
          /\ \A k \in 1..Len(dev_d) : dev_d'[k] = dev_d[k]
      BY <1>1, <1>5, <2>1, Appended
    <3>2. CASE Len(dev_d) = 0
      <4>1. dev_d'[1] = c /\ c \in CrcLo
        BY <1>7, <3>1, <3>2
      <4>2. c = lo /\ dev_heard' = down.intent
        BY <1>1, <1>3, <2>1, <4>1
      <4>3. QED  BY <1>1, <4>1, <4>2 DEF lo
    <3>3. CASE Len(dev_d) # 0
      <4> DEFINE n == Len(dev_d)
      <4>1. n \in Nat /\ n # 0
        BY <1>5, <3>3
      <4> HIDE DEF n
      <4>2. n + 1 \in 2..n+1 /\ 1 \in 1..n /\ n >= 1 /\ \A k \in 2..n : k \in 2..n+1 /\ k \in 1..n
        BY <4>1
      <4>3. \A k \in 2..n+1 : dev_d'[k] \notin CrcLo
        BY <1>7, <3>1 DEF NoCrcIn, n
      <4>4. c \notin CrcLo /\ dev_d'[1] = dev_d[1] /\ \A k \in 2..n : dev_d[k] \notin CrcLo
        BY <3>1, <4>2, <4>3 DEF n
      <4>5. dev_heard' = dev_heard
        BY <1>1, <1>3, <2>1, <4>4
      <4>6. dev_d[1] \in CrcLo /\ NoCrcIn(dev_d, 2) /\ Len(dev_d) >= 1
        BY <1>7, <4>2, <4>4 DEF NoCrcIn, n
      <4>7. dev_state = "HEADER" => Premise
        BY <4>6
      <4>8. dev_state = "HEADER"
        BY <1>1, <1>2, <2>1, <3>1, <1>5, DeviceSteps DEF Started, InHeader, HeaderDone, InPayload, PacketDone
      <4>9. QED  BY <1>6, <4>4, <4>5, <4>7, <4>8
    <3>4. QED  BY <3>2, <3>3
  <2>2. CASE Started(c)
    <3>1. dev_d' = <<>>
      BY <1>7, <2>2 DEF Started
    <3>2. Len(dev_d') = 0
      BY <3>1
    <3>3. QED  BY <1>7, <3>2
  <2>3. CASE InHeader(c)
    BY <2>1, <2>3 DEF InHeader
  <2>4. CASE HeaderDone(c)
    <3>1. dev_state' # "START"
      BY <1>7
    <3>2. QED  BY <2>1, <2>4, <3>1 DEF HeaderDone
  <2>5. CASE InPayload(c)
    <3>1. dev_state = "PAYLOAD" /\ dev_state' = "PAYLOAD" /\ dev_d' = dev_d /\ dev_pl' = Append(dev_pl, c)
      BY <2>5 DEF InPayload
    <3>2. /\ Len(dev_pl') = Len(dev_pl) + 1 /\ dev_pl'[Len(dev_pl) + 1] = c
          /\ \A k \in 1..Len(dev_pl) : dev_pl'[k] = dev_pl[k]
      BY <1>1, <1>5, <3>1, Appended
    <3>3. NoCrcIn(dev_pl, 1)' /\ NoCrcIn(dev_d, 2)' /\ Len(dev_d') >= 1 /\ dev_d'[1] \in CrcLo
      BY <1>7, <3>1
    <3>4. \A k \in 1..Len(dev_pl)+1 : dev_pl'[k] \notin CrcLo
      BY <3>2, <3>3 DEF NoCrcIn
    <3>5. Len(dev_pl) + 1 \in 1..Len(dev_pl)+1 /\ \A k \in 1..Len(dev_pl) : k \in 1..Len(dev_pl)+1
      BY <1>5
    <3>6. c \notin CrcLo /\ \A k \in 1..Len(dev_pl) : dev_pl[k] \notin CrcLo
      BY <3>2, <3>4, <3>5
    <3>7. NoCrcIn(dev_pl, 1) /\ NoCrcIn(dev_d, 2)
      BY <3>1, <3>3, <3>6 DEF NoCrcIn
    <3>8. Premise
      BY <3>1, <3>3, <3>7
    <3>9. dev_heard' = dev_heard
      BY <1>1, <1>3, <3>1, <3>6
    <3>10. QED  BY <1>6, <3>1, <3>8, <3>9
  <2>6. CASE PacketDone(c)
    BY <1>7, <2>6 DEF PacketDone
  <2>7. QED
    BY <1>1, <1>2, <2>2, <2>3, <2>4, <2>5, <2>6, DeviceSteps
<1>8. QED
  BY <1>4, <1>7 DEF DevHeardInv

(* The bytes from a to k, and one more.                                    *)
LEMMA Extended ==
  ASSUME NEW B \in Seq(Line), NEW a \in Nat \ {0}, NEW k \in Nat, a <= k + 1, k < Len(B)
  PROVE  /\ Append(SubSeq(B, a, k), B[k + 1]) = SubSeq(B, a, k + 1)
         /\ SubSeq(B, a, k) \in Seq(Line) /\ Len(SubSeq(B, a, k)) = (k + 1) - a
         /\ \A j \in 1..(k + 1)-a : SubSeq(B, a, k)[j] = B[a + j - 1]
<1>1. Len(B) \in Nat /\ \A j \in 1..Len(B) : B[j] \in Line
  OBVIOUS
<1>2. \A j \in a..k : B[j] \in Line
  BY <1>1
<1>3. /\ SubSeq(B, a, k) \in Seq(Line) /\ Len(SubSeq(B, a, k)) = IF a <= k THEN k - a + 1 ELSE 0
      /\ \A j \in 1..k-a+1 : SubSeq(B, a, k)[j] = B[a + j - 1]
  BY <1>2, SubSeqProperties
<1>4. (IF a <= k THEN k - a + 1 ELSE 0) = (k + 1) - a /\ (k + 1) - a = k - a + 1
  OBVIOUS
<1>5. a \in 1..Len(B) /\ k + 1 \in a..Len(B) /\ (k + 1) - 1 = k /\ B[k + 1] \in Line
  BY <1>1
<1>6. SubSeq(B, a, k + 1) = SubSeq(B, a, k) \o <<B[k + 1]>>
  BY <1>5, SubSeqRecursiveSecond
<1>7. Append(SubSeq(B, a, k), B[k + 1]) = SubSeq(B, a, k) \o <<B[k + 1]>>
  BY <1>3, <1>5, AppendIsConcat
<1>8. QED
  BY <1>3, <1>4, <1>6, <1>7

LEMMA DownWholeKept ==
  ASSUME DeviceInv, DownInv, DownWhole, down.bytes # <<>>,
         DeviceParses(Head(down.bytes)), down' = AfterByte(TRUE)
  PROVE  DownWhole'
<1> DEFINE i == down.intent
           B == BytesOf(i)
           k == Arrived
           c == B[k + 1]
           n == Len(B)
<1>1. OnLine(i, B, k)
  BY DownFacts
<1>2. /\ i \in Packable /\ k \in Nat /\ n \in Nat /\ k < n /\ B \in Seq(Line) /\ c \in Line /\ Head(down.bytes) = c
      /\ down # Idle /\ LaidOut(B, PlType(i), Announced(i), Body(i))
  BY <1>1 DEF OnLine, LaidOut
<1>3. Device!SppParse(c)
  BY <1>2 DEF DeviceParses
<1> SUFFICES ASSUME down' # Idle, down'.whole, WellPacked(i), down'.intent = i
             PROVE  IF k + 1 < 5
                      THEN dev_state' = "HEADER" /\ dev_d' = SubSeq(B, 2, k + 1)
                      ELSE /\ dev_state' = "PAYLOAD" /\ dev_d' = SubSeq(B, 2, 5)
                           /\ dev_pl' = SubSeq(B, 6, k + 1) /\ dev_target' = n - 5
  <2>1. down' # Idle => down'.intent = i /\ Arrived' = k + 1
    BY ByteGone
  <2> SUFFICES ASSUME down' # Idle, down'.whole, WellPacked(down.intent)'
               PROVE  DeviceHolds(BytesOf(down.intent), Arrived)'
    BY DEF DownWhole
  <2>2. down'.intent = i /\ Arrived' = k + 1
    BY <2>1
  <2>3. WellPacked(i)
    BY <2>2
  <2>4. BytesOf(down.intent)' = B
    BY <2>2
  <2> HIDE DEF i, B, k
  <2>5. IF k + 1 < 5
          THEN dev_state' = "HEADER" /\ dev_d' = SubSeq(B, 2, k + 1)
          ELSE /\ dev_state' = "PAYLOAD" /\ dev_d' = SubSeq(B, 2, 5)
               /\ dev_pl' = SubSeq(B, 6, k + 1) /\ dev_target' = n - 5
    BY <2>2, <2>3
  <2>6. (Arrived < 5)' <=> k + 1 < 5
    BY <2>2
  <2>7. SPP_HDR_SIZE = 5 /\ SPP_HDR_SIZE + 1 = 6
    BY DEF SPP_HDR_SIZE
  <2>8. CASE k + 1 < 5
    <3>1. dev_state' = "HEADER" /\ dev_d' = SubSeq(BytesOf(down.intent), 2, Arrived)'
      BY <2>2, <2>4, <2>5, <2>8
    <3>2. QED  BY <2>6, <2>7, <2>8, <3>1 DEF DeviceHolds
  <2>9. CASE ~(k + 1 < 5)
    <3>1. /\ dev_state' = "PAYLOAD" /\ dev_d' = SubSeq(BytesOf(down.intent), 2, 5)'
          /\ dev_pl' = SubSeq(BytesOf(down.intent), 6, Arrived)' /\ dev_target' = Len(BytesOf(down.intent))' - 5
      BY <2>2, <2>4, <2>5, <2>9 DEF n
    <3>2. QED  BY <2>6, <2>7, <2>9, <3>1 DEF DeviceHolds
  <2>10. QED  BY <2>8, <2>9
<1>4. k + 1 # n /\ down.whole /\ (k = 0 => dev_state = "START")
  <2>1. down' = Idle <=> k + 1 = n
    BY ByteGone
  <2>2. down'.whole => down.whole /\ (k = 0 => dev_state = "START")
    BY ByteGone
  <2>3. QED  BY <2>1, <2>2
<1>5. k > 0 => IF k < 5 THEN dev_state = "HEADER" /\ dev_d = SubSeq(B, 2, k)
               ELSE /\ dev_state = "PAYLOAD" /\ dev_d = SubSeq(B, 2, 5)
                    /\ dev_pl = SubSeq(B, 6, k) /\ dev_target = n - 5
  BY <1>2, <1>4 DEF DownWhole, DeviceHolds, SPP_HDR_SIZE
<1>6. /\ n = 5 + Len(Body(i)) /\ Len(Body(i)) > 0 /\ B[1] = Octet(SPP_START) /\ B[5] = Octet(Len(Body(i)))
      /\ Len(Body(i)) \in Octets
  BY <1>2, WellAnnounced DEF LaidOut, SPP_HDR_SIZE
<1> HIDE DEF i, B, k, c, n
<1>7. k + 1 < n /\ n - 5 = Len(Body(i)) /\ n > 5
  <2> DEFINE b == Len(Body(i))
  <2>1. n = 5 + b /\ b > 0 /\ b \in Nat
    BY <1>6, OctetFacts
  <2> HIDE DEF b
  <2>2. k + 1 < n /\ n - 5 = b /\ n > 5
    BY <1>2, <1>4, <2>1
  <2>3. QED  BY <2>2 DEF b
<1>8. CASE k = 0
  <2>1. dev_state = "START" /\ c = Octet(SPP_START) /\ Readings(c) = {SPP_START}
    BY <1>4, <1>6, <1>8, OctetFacts DEF c
  <2>2. Started(c)
    BY <1>2, <1>3, <2>1, DeviceSteps DEF InHeader, HeaderDone, InPayload, PacketDone
  <2>3. dev_state' = "HEADER" /\ dev_d' = <<>>
    BY <2>1, <2>2 DEF Started
  <2>4. SubSeq(B, 2, 1) = <<>>
    BY <1>2, SubSeqEmpty
  <2>5. QED  BY <1>8, <2>3, <2>4
<1>9. CASE k \in 1..3
  <2>1. dev_state = "HEADER" /\ dev_d = SubSeq(B, 2, k)
    BY <1>5, <1>9
  <2>2. Append(SubSeq(B, 2, k), c) = SubSeq(B, 2, k + 1) /\ Len(SubSeq(B, 2, k)) = (k + 1) - 2
    BY <1>2, <1>7, <1>9, Extended DEF c, n
  <2>3. Len(dev_d) < 3
    BY <1>9, <2>1, <2>2
  <2>4. InHeader(c)
    BY <1>2, <1>3, <2>1, <2>3, DeviceSteps DEF Started, HeaderDone, InPayload, PacketDone
  <2>5. QED  BY <1>9, <2>1, <2>2, <2>4 DEF InHeader
<1>10. CASE k = 4
  <2>1. dev_state = "HEADER" /\ dev_d = SubSeq(B, 2, 4)
    BY <1>5, <1>10
  <2>2. Append(SubSeq(B, 2, 4), c) = SubSeq(B, 2, 5) /\ Len(SubSeq(B, 2, 4)) = 3
    <3>1. Append(SubSeq(B, 2, k), B[k + 1]) = SubSeq(B, 2, k + 1) /\ Len(SubSeq(B, 2, k)) = (k + 1) - 2
      BY <1>2, <1>7, <1>10, Extended DEF n
    <3>2. QED  BY <1>10, <3>1 DEF c
  <2>3. HeaderDone(c)
    BY <1>2, <1>3, <2>1, <2>2, DeviceSteps DEF Started, InHeader, InPayload, PacketDone
  <2>4. Readings(c) = {Len(Body(i))}
    BY <1>6, <1>10, OctetFacts DEF c
  <2>5. dev_target' = n - 5 /\ dev_target' # 0
    BY <1>6, <1>7, <2>3, <2>4, OctetFacts DEF HeaderDone
  <2>6. dev_state' = "PAYLOAD" /\ dev_pl' = <<>> /\ dev_d' = SubSeq(B, 2, 5)
    BY <2>1, <2>2, <2>3, <2>5 DEF HeaderDone
  <2>7. SubSeq(B, 6, 5) = <<>>
    BY SubSeqEmpty
  <2>8. QED  BY <1>10, <2>5, <2>6, <2>7
<1>11. CASE k > 4
  <2>1. dev_state = "PAYLOAD" /\ dev_d = SubSeq(B, 2, 5) /\ dev_pl = SubSeq(B, 6, k) /\ dev_target = n - 5
    BY <1>2, <1>5, <1>11
  <2>2. Append(SubSeq(B, 6, k), c) = SubSeq(B, 6, k + 1) /\ Len(SubSeq(B, 6, k)) = (k + 1) - 6
    BY <1>2, <1>7, <1>11, Extended DEF c, n
  <2>3. Len(dev_pl) + 1 # dev_target
    BY <1>2, <1>7, <1>11, <2>1, <2>2
  <2>4. InPayload(c)
    BY <1>2, <1>3, <2>1, <2>3, DeviceSteps DEF Started, InHeader, HeaderDone, PacketDone
  <2>5. QED  BY <1>2, <1>11, <2>1, <2>2, <2>4 DEF InPayload
<1>12. QED
  BY <1>2, <1>8, <1>9, <1>10, <1>11

-----------------------------------------------------------------------------
(* What the modem acts on                                                  *)

LEMMA FlagsFirst ==
  ASSUME NEW x \in Bytes, NEW s \in Seq(Bytes)
  PROVE  (<<x>> \o s)[1] = x /\ Tail(<<x>> \o s) = s
<1> DEFINE b == <<x>> \o s
<1>1. <<x>> \in Seq(Bytes) /\ Len(<<x>>) = 1 /\ <<x>>[1] = x
  OBVIOUS
<1>2. b \in Seq(Bytes) /\ Len(b) = 1 + Len(s) /\ b[1] = x /\ \A k \in 1..Len(s) : b[1 + k] = s[k]
  <2> DEFINE a == <<x>>
  <2>1. a \in Seq(Bytes) /\ Len(a) = 1 /\ a[1] = x /\ b = a \o s
    BY <1>1
  <2> HIDE DEF a, b
  <2>2. Joins(Bytes, a, s)
    BY <2>1, Joined
  <2>3. 1 \in 1..Len(a)
    BY <2>1
  <2>4. QED  BY <2>1, <2>2, <2>3 DEF Joins
<1> HIDE DEF b
<1>3. Len(b) # 0 /\ Len(s) \in Nat
  BY <1>2
<1>4. b # <<>>
  BY <1>2, <1>3, EmptySeq
<1>5. Tail(b) \in Seq(Bytes) /\ Len(Tail(b)) = Len(b) - 1 /\ \A k \in 1..Len(Tail(b)) : Tail(b)[k] = b[k + 1]
  BY <1>2, <1>4, HeadTailProperties
<1>6. Len(Tail(b)) = Len(s) /\ \A k \in 1..Len(s) : Tail(b)[k] = s[k]
  BY <1>2, <1>5
<1>7. Tail(b) = s
  BY <1>5, <1>6, SeqEqual
<1>8. QED
  BY <1>2, <1>7 DEF b

(* What the parser finds right is the packet its CRC belongs to.           *)
LEMMA Accepted ==
  ASSUME DeviceInv, DevHeardInv, NEW c \in Line,
         dev_state = "PAYLOAD", Len(dev_pl) + 1 = dev_target, CrcRight(c)
  PROVE  /\ dev_heard \in Packable /\ WellPacked(dev_heard) /\ Append(dev_pl, c) = Body(dev_heard)
         /\ Readings(dev_d[3]) = {PlType(dev_heard)}
<1> DEFINE s == Covered(c)
           b == Append(dev_pl, c)
           h == SubSeq(dev_d, 3, 4)
<1>1. /\ dev_d \in Seq(Line) /\ Len(dev_d) = 4 /\ dev_pl \in Seq(Line) /\ Len(dev_pl) \in Nat
      /\ dev_target \in Readings(dev_d[4]) /\ \A k \in 1..4 : dev_d[k] \in Line
  <2> HIDE DEF s, b, h
  <2>1. /\ dev_d \in Seq(Line) /\ dev_pl \in Seq(Line) /\ Len(dev_pl) \in Nat /\ Len(dev_d) = SPP_HDR_SIZE - 1
        /\ dev_target \in Readings(dev_d[4])
    BY DEF DeviceInv
  <2>2. Len(dev_d) = 4
    BY <2>1 DEF SPP_HDR_SIZE
  <2>3. \A k \in 1..Len(dev_d) : dev_d[k] \in Line
    BY <2>1, ElementOfSeq
  <2>4. QED  BY <2>1, <2>2, <2>3
<1>2. s = h \o b
  BY DEF Covered
<1>3. b \in Seq(Line) /\ Len(b) = Len(dev_pl) + 1 /\ (\A k \in 1..Len(dev_pl) : b[k] = dev_pl[k])
  BY <1>1, Appended
<1>4. h \in Seq(Line) /\ Len(h) = 2 /\ h[1] = dev_d[3] /\ h[2] = dev_d[4]
  <2>1. \A k \in 3..4 : dev_d[k] \in Line
    BY <1>1
  <2>2. h \in Seq(Line) /\ Len(h) = 2 /\ \A k \in 1..2 : h[k] = dev_d[3 + k - 1]
    BY <2>1, SubSeqProperties
  <2>3. QED  BY <2>2
<1> HIDE DEF b, h
<1>5. /\ s \in Seq(Line) /\ Len(s) = 2 + Len(b) /\ s[1] = dev_d[3] /\ s[2] = dev_d[4]
      /\ \A k \in 1..Len(b) : s[2 + k] = b[k]
  <2>1. Joins(Line, h, b)
    BY <1>3, <1>4, Joined
  <2>2. 1 \in 1..Len(h) /\ 2 \in 1..Len(h)
    BY <1>4
  <2>3. QED  BY <1>2, <1>4, <2>1, <2>2 DEF Joins
<1> HIDE DEF s
<1>6. dev_d[1] = <<"crc_lo", s>> /\ dev_d[2] = <<"crc_hi", s>> /\ dev_d[1] \in Line
  BY <1>1 DEF CrcRight, s
<1>7. s \in Seq(Bytes) /\ dev_d[1] \in CrcLo /\ dev_d[2] \notin CrcLo
  <2>1. s \in Seq(Bytes) /\ dev_d[1] \in CrcLo
    BY <1>6, LineFacts
  <2>2. dev_d[2] \in CrcHi
    BY <1>6, <2>1, LineFacts
  <2>3. QED  BY <2>1, <2>2, LineFacts
<1>8. \A k \in 1..Len(s) : s[k] \in Bytes /\ s[k] \notin CrcLo
  <2>1. \A k \in 1..Len(s) : s[k] \in Bytes
    BY <1>7
  <2>2. QED  BY <2>1, LineFacts
<1>9. NoCrcIn(dev_d, 2)
  <2>1. 1 \in 1..Len(s) /\ 2 \in 1..Len(s)
    BY <1>1, <1>3, <1>5
  <2>2. dev_d[3] \notin CrcLo /\ dev_d[4] \notin CrcLo
    BY <1>5, <1>8, <2>1
  <2>3. \A k \in 2..Len(dev_d) : k = 2 \/ k = 3 \/ k = 4
    BY <1>1
  <2>4. QED  BY <1>7, <2>2, <2>3 DEF NoCrcIn
<1>10. NoCrcIn(dev_pl, 1)
  <2>1. ASSUME NEW k \in 1..Len(dev_pl) PROVE dev_pl[k] \notin CrcLo
    <3>1. k \in 1..Len(b) /\ 2 + k \in 1..Len(s)
      BY <1>1, <1>3, <1>5
    <3>2. s[2 + k] = b[k] /\ b[k] = dev_pl[k]
      BY <1>3, <1>5, <3>1
    <3>3. QED  BY <1>8, <3>1, <3>2
  <2>2. QED  BY <2>1 DEF NoCrcIn
<1>11. dev_heard \in Packable /\ dev_d[1] = BytesOf(dev_heard)[2]
  <2>1. Len(dev_d) >= 1
    BY <1>1
  <2>2. QED  BY <1>7, <1>9, <1>10, <2>1 DEF DevHeardInv
<1> DEFINE t == PlType(dev_heard)
           n == Announced(dev_heard)
           body == Body(dev_heard)
           r == Checked(t, n, body)
<1>12. /\ t \in Octets /\ body \in Seq(Bytes) /\ Len(r) = 2 + Len(body) /\ r[1] = Octet(t)
       /\ r[2] = Octet(n % (SPP_PL_MAX + 1)) /\ n % (SPP_PL_MAX + 1) \in Octets
       /\ \A k \in 1..Len(body) : r[2 + k] = body[k]
       /\ BytesOf(dev_heard)[2] = <<"crc_lo", r>>
  BY <1>11, IntentLaid DEF LaidOut
<1> HIDE DEF t, n, body, r
<1>13. s = r
  <2>1. <<"crc_lo", s>>[2] = s /\ <<"crc_lo", r>>[2] = r
    OBVIOUS
  <2>2. QED  BY <1>6, <1>11, <1>12, <2>1
<1>14. b = body
  <2>1. Len(b) = Len(body)
    <3>1. Len(b) \in Nat /\ Len(body) \in Nat /\ 2 + Len(b) = 2 + Len(body)
      BY <1>3, <1>5, <1>12, <1>13
    <3>2. QED  BY <3>1
  <2>2. \A k \in 1..Len(b) : b[k] = body[k]
    BY <1>5, <1>12, <1>13, <2>1
  <2>3. QED  BY <1>3, <1>12, <2>1, <2>2, SeqEqual
<1>15. Readings(dev_d[3]) = {t} /\ dev_target = n % (SPP_PL_MAX + 1)
  <2> DEFINE q == n % (SPP_PL_MAX + 1)
  <2>1. dev_d[3] = Octet(t) /\ dev_d[4] = Octet(q) /\ t \in Octets /\ q \in Octets
    BY <1>5, <1>12, <1>13
  <2> HIDE DEF q
  <2>2. Readings(dev_d[3]) = {t} /\ Readings(dev_d[4]) = {q}
    BY <2>1, OctetFacts
  <2>3. QED  BY <1>1, <2>2 DEF q
<1>16. n % (SPP_PL_MAX + 1) = Len(body) /\ Len(body) > 0
  <2>1. Len(body) = dev_target /\ Len(body) > 0
    BY <1>1, <1>3, <1>14
  <2>2. QED  BY <1>15, <2>1
<1>17. WellPacked(dev_heard)
  BY <1>11, <1>16, WellAnnounced DEF n, body
<1>18. QED
  BY <1>11, <1>14, <1>15, <1>17 DEF b, t, body

(* The call for a packet that is found right.                              *)
LEMMA ActedOn ==
  ASSUME NEW i \in Packable, NEW c, CrcRight(c), Append(dev_pl, c) = Body(i), Readings(dev_d[3]) = {PlType(i)},
         Transmits(c) \/ Runs(c) \/ Routes(c) \/ Ignores(c)
  PROVE  Expected(i, dev_call')
<1>1. /\ i.kind \in {"transmit", "command", "local"}
      /\ i.kind # "command" => i.ngham_flags \in Bytes /\ i.data \in Seq(Bytes)
  BY Intents
<1>2. NGHAM_SPP_TYPE_TX = 1 /\ NGHAM_SPP_TYPE_ROUTED = 2 /\ NGHAM_SPP_TYPE_CMD = 3
  BY DEF NGHAM_SPP_TYPE_TX, NGHAM_SPP_TYPE_ROUTED, NGHAM_SPP_TYPE_CMD
<1>3. i.kind # "command" =>
        Append(dev_pl, c)[1] = i.ngham_flags /\ Tail(Append(dev_pl, c)) = i.data
  BY <1>1, FlagsFirst DEF Body
<1> DEFINE t == PlType(i)
<1>8. /\ Transmits(c) => t = 1
      /\ Runs(c) => t = 3
      /\ Routes(c) => t = 2
      /\ Ignores(c) => t # 1 /\ t # 2 /\ t # 3
  <2>1. \A x : x \in Readings(dev_d[3]) <=> x = t
    OBVIOUS
  <2> HIDE DEF t
  <2>2. Transmits(c) => t = 1
    BY <1>2, <2>1 DEF Transmits
  <2>3. Runs(c) => t = 3
    BY <1>2, <2>1 DEF Runs
  <2>4. Routes(c) => t = 2
    BY <1>2, <2>1 DEF Routes
  <2>5. Ignores(c) => t # 1 /\ t # 2 /\ t # 3
    BY <1>2, <2>1 DEF Ignores
  <2>6. QED  BY <2>2, <2>3, <2>4, <2>5
<1>9. /\ i.kind = "transmit" => t = 1
      /\ i.kind = "local" => t = 2
      /\ i.kind = "command" => t = 3
  BY <1>2 DEF PlType
<1> HIDE DEF t
<1>4. CASE i.kind = "transmit"
  <2>1. Transmits(c)
    BY <1>4, <1>8, <1>9
  <2>2. QED  BY <1>3, <1>4, <2>1 DEF Transmits, Expected
<1>5. CASE i.kind = "local"
  <2>1. Routes(c)
    BY <1>5, <1>8, <1>9
  <2>2. NGHAM_FLAG_TYPE_EXTENSION \in Readings(i.ngham_flags) <=> i.ngham_flags = Octet(NGHAM_FLAG_TYPE_EXTENSION)
    BY <1>1, <1>5, OctetFacts DEF NGHAM_FLAG_TYPE_EXTENSION
  <2>3. QED  BY <1>3, <1>5, <2>1, <2>2 DEF Routes, Expected
<1>6. CASE i.kind = "command"
  <2>1. Runs(c)
    BY <1>6, <1>8, <1>9
  <2>2. Append(dev_pl, c) = Host!ToLocal8Bit(i.cmd)
    BY <1>6 DEF Body
  <2>3. QED  BY <1>6, <2>1, <2>2 DEF Runs, Expected
<1>7. QED
  BY <1>1, <1>4, <1>5, <1>6

(* What a step of the modem's parser leads to.                             *)
LEMMA DeviceActs ==
  ASSUME DeviceInv, DownInv, DevHeardInv, down.bytes # <<>>,
         NEW c, c = Bad \/ c = Head(down.bytes), DeviceParses(c),
         dev_call' # Device!NoCall
  PROVE  /\ dev_heard # Idle.intent /\ WellPacked(dev_heard) /\ Expected(dev_heard, dev_call')
         /\ dev_heard' = Idle.intent
<1>1. c \in Line
  BY HeardBytes
<1>2. PacketDone(c) /\ ~Quiet /\ (Transmits(c) \/ Runs(c) \/ Routes(c))
  BY <1>1, DeviceSteps DEF DeviceParses, Quiet, Ignores
<1>3. CrcRight(c) /\ dev_state = "PAYLOAD" /\ Len(dev_pl) + 1 = dev_target /\ dev_state' = "START"
  BY <1>2 DEF Transmits, Runs, Routes, PacketDone
<1>4. /\ dev_heard \in Packable /\ WellPacked(dev_heard) /\ Append(dev_pl, c) = Body(dev_heard)
      /\ Readings(dev_d[3]) = {PlType(dev_heard)}
  BY <1>1, <1>3, Accepted
<1>5. Expected(dev_heard, dev_call')
  BY <1>2, <1>3, <1>4, ActedOn
<1>6. QED
  BY <1>3, <1>4, <1>5, Intents DEF DeviceParses

-----------------------------------------------------------------------------
(* The steps of the line to the modem                                      *)

(* Packets are added behind those on the line to the host.                 *)
LEMMA OutputGrown ==
  ASSUME OutputInv, UpInv, UpWhole, UNCHANGED <<host, up>>, NEW s \in Seq(Printed), dev_output' = dev_output \o s
  PROVE  (OutputInv /\ UpInv /\ UpWhole)'
<1>1. dev_output \in Seq(Printed) /\ dev_output' \in Seq(Printed)
  BY ConcatProperties DEF OutputInv
<1>2. CASE dev_output = <<>>
  <2>1. dev_output' = s /\ up' = up /\ up.sent = 0 /\ ~up.whole
    BY <1>2, ConcatEmptySeq DEF UpInv
  <2>2. ASSUME s # <<>>
        PROVE  0 < Len(Head(s).bytes)
    <3>1. Head(s) \in Printed
      BY <2>2
    <3>2. \A p \in Printed : Len(p.bytes) = 5 + Len(p.d) /\ Len(p.d) \in 1..SPP_PL_MAX
      BY PrintedLaid DEF LaidOut, SPP_HDR_SIZE
    <3>3. Len(Head(s).bytes) = 5 + Len(Head(s).d) /\ Len(Head(s).d) \in 1..SPP_PL_MAX
      BY <3>1, <3>2
    <3>4. QED  BY <3>3
  <2>3. UpInv' /\ UpWhole'
    BY <2>1, <2>2 DEF UpInv, UpWhole
  <2>4. QED  BY <1>1, <2>3 DEF OutputInv
<1>3. CASE dev_output # <<>>
  <2> DEFINE o == dev_output
  <2>1. Joins(Printed, o, s)
    BY <1>1, Joined
  <2> HIDE DEF o
  <2>2. o \in Seq(Printed) /\ o # <<>> /\ Len(s) \in Nat
    BY <1>1, <1>3 DEF o
  <2>3. 1 \in 1..Len(o)
    BY <2>2, EmptySeq
  <2>4. o \o s \in Seq(Printed) /\ (o \o s)[1] = o[1] /\ Len(o \o s) # 0
    BY <2>1, <2>2, <2>3 DEF Joins
  <2>5. o \o s # <<>>
    BY <2>4, EmptySeq
  <2>6. Head(o \o s) = Head(o)
    BY <2>2, <2>4, <2>5
  <2>7. dev_output' # <<>> /\ Head(dev_output)' = Head(dev_output) /\ up' = up /\ UNCHANGED host
    BY <2>5, <2>6 DEF o
  <2>8. UpInv' /\ UpWhole'
    BY <1>3, <2>7 DEF UpInv, UpWhole, HostHolds, host
  <2>9. QED  BY <1>1, <2>8 DEF OutputInv
<1>4. QED
  BY <1>2, <1>3

LEMMA ParserPrints ==
  ASSUME DeviceInv, OutputInv, NEW c \in Line, Device!SppParse(c)
  PROVE  \E s \in Seq(Printed) : dev_output' = dev_output \o s
<1>1. dev_output \in Seq(Printed) /\ <<>> \in Seq(Printed)
  BY DEF OutputInv
<1>2. dev_output = dev_output \o <<>>
  BY <1>1, ConcatEmptySeq
<1>3. dev_output' = dev_output \/ \E rep \in Replies : dev_output' = dev_output \o Device!SppPrintCmd(rep)
  BY DeviceSteps DEF Quiet, Transmits, Runs, Routes, Ignores
<1>4. QED
  BY <1>1, <1>2, <1>3, RepliesPrinted

LEMMA SendKept ==
  ASSUME IInv, NEW i \in Sendable, Send(i)
  PROVE  IInv'
<1> DEFINE B == BytesOf(i)
<1>1. i \in Packable /\ B # <<>> /\ down' = [intent |-> i, bytes |-> B, whole |-> TRUE]
  BY DEF Send, Packable
<1>2. UNCHANGED <<device, host, up, down_faults, up_faults, dev_heard, host_heard>>
  BY DEF Send
<1>3. B \in Seq(Line)
  BY <1>1, IntentLaid DEF LaidOut
<1>4. Len(B) \in Nat /\ 1 \in 1..Len(B) /\ B = SubSeq(B, 1, Len(B))
  <2> HIDE DEF B
  <2>1. QED  BY <1>1, <1>3, SubSeqFull, EmptySeq
<1>5. DownInv'
  <2>1. down'.intent = i /\ down'.bytes = B
    BY <1>1
  <2>2. BytesOf(down'.intent) = B
    BY <2>1
  <2>3. down' \in [intent : Packable, bytes : Seq(Line) \ {<<>>}, whole : BOOLEAN]
    <3> HIDE DEF B
    <3>1. QED  BY <1>1, <1>3
  <2> HIDE DEF B
  <2>4. QED  BY <1>4, <2>1, <2>2, <2>3 DEF DownInv
<1>6. Arrived' = 0
  <2>1. down'.intent = i /\ down'.bytes = B
    BY <1>1
  <2>2. QED  BY <1>4, <2>1 DEF Arrived
<1>7. DownWhole'
  BY <1>6 DEF DownWhole
<1>8. (DeviceInv /\ HostInv /\ OutputInv /\ UpInv /\ FaultsInv /\ DevHeardInv /\ HostHeardInv /\ UpWhole)'
  BY <1>2 DEF IInv, device, host, DeviceInv, HostInv, OutputInv, UpInv, FaultsInv, DevHeardInv, HostHeardInv, UpWhole, HostHolds
<1>9. QED
  BY <1>5, <1>7, <1>8 DEF IInv

LEMMA DownKept ==
  ASSUME IInv, Down
  PROVE  IInv'
<1>1. DeviceInv /\ HostInv /\ OutputInv /\ DownInv /\ UpInv /\ DevHeardInv /\ HostHeardInv /\ DownWhole /\ UpWhole
  BY DEF IInv
<1>2. down.bytes # <<>> /\ UNCHANGED <<host, host_heard, up>>
  BY DEF Down, DownIntact, DownFault, DownDamaged, DownLost, DownNoise
<1>3. (HostInv /\ HostHeardInv /\ FaultsInv)'
  <2>1. (HostInv /\ HostHeardInv)'
    BY <1>1, <1>2 DEF host, HostInv, HostHeardInv
  <2>2. up_faults' = up_faults /\ (down_faults' = down_faults \/ down_faults' = down_faults + 1)
    BY DEF Down, DownIntact, DownFault, DownDamaged, DownLost, DownNoise
  <2>3. QED  BY <2>1, <2>2 DEF IInv, FaultsInv
<1>4. ASSUME NEW c, c = Bad \/ c = Head(down.bytes), DeviceParses(c)
      PROVE  DeviceInv' /\ DevHeardInv' /\ OutputInv' /\ UpInv' /\ UpWhole'
  <2>1. c \in Line /\ Device!SppParse(c)
    BY <1>1, <1>2, <1>4, HeardBytes DEF DeviceParses
  <2>2. DeviceInv'
    BY <1>1, <2>1, DeviceKept
  <2>3. DevHeardInv'
    BY <1>1, <1>2, <1>4, DevHeardKept
  <2>4. PICK s \in Seq(Printed) : dev_output' = dev_output \o s
    BY <1>1, <2>1, ParserPrints
  <2>5. (OutputInv /\ UpInv /\ UpWhole)'
    BY <1>1, <1>2, <2>4, OutputGrown
  <2>6. QED  BY <2>2, <2>3, <2>5
<1>5. ASSUME NEW ok \in BOOLEAN, down' = AfterByte(ok)
      PROVE  DownInv' /\ (~ok => DownWhole')
  BY <1>1, <1>2, <1>5, ByteGone DEF DownWhole
<1>6. CASE DownIntact
  <2>1. DeviceParses(Head(down.bytes)) /\ down' = AfterByte(TRUE)
    BY <1>6 DEF DownIntact
  <2>2. DownInv' /\ DownWhole'
    BY <1>1, <1>2, <1>5, <2>1, DownWholeKept
  <2>3. QED  BY <1>3, <1>4, <2>1, <2>2 DEF IInv
<1>7. CASE DownDamaged
  <2>1. DeviceParses(Bad) /\ down' = AfterByte(FALSE)
    BY <1>7 DEF DownDamaged
  <2>2. DownInv' /\ DownWhole'
    BY <1>5, <2>1
  <2>3. QED  BY <1>3, <1>4, <2>1, <2>2 DEF IInv
<1>8. CASE DownLost
  <2>1. down' = AfterByte(FALSE) /\ UNCHANGED <<dev_state, dev_d, dev_target, dev_pl, dev_output, dev_heard>>
    BY <1>8 DEF DownLost
  <2>2. DownInv' /\ DownWhole'
    BY <1>5, <2>1
  <2>3. (DeviceInv /\ DevHeardInv /\ OutputInv /\ UpInv /\ UpWhole)'
    BY <1>1, <1>2, <2>1 DEF host, DeviceInv, DevHeardInv, OutputInv, UpInv, UpWhole, HostHolds
  <2>4. QED  BY <1>3, <2>2, <2>3 DEF IInv
<1>9. CASE DownNoise
  <2> DEFINE w == down.bytes = BytesOf(down.intent)
  <2>1. DeviceParses(Bad) /\ down' = [down EXCEPT !.whole = w]
    BY <1>9 DEF DownNoise
  <2>2. OnLine(down.intent, BytesOf(down.intent), Arrived)
    BY <1>1, <1>2, DownFacts
  <2>3. (w <=> Arrived = 0) /\ down # Idle
    BY <2>2 DEF OnLine
  <2>4. w \in BOOLEAN
    OBVIOUS
  <2> HIDE DEF w
  <2>5. /\ down \in [intent : Packable, bytes : Seq(Line) \ {<<>>}, whole : BOOLEAN]
        /\ \E k \in 1..Len(BytesOf(down.intent)) :
             down.bytes = SubSeq(BytesOf(down.intent), k, Len(BytesOf(down.intent)))
    BY <1>1, <2>3 DEF DownInv
  <2>6. /\ down' \in [intent : Packable, bytes : Seq(Line) \ {<<>>}, whole : BOOLEAN]
        /\ down'.intent = down.intent /\ down'.bytes = down.bytes /\ down'.whole = w
    BY <2>1, <2>4, <2>5
  <2>7. DownInv'
    BY <2>5, <2>6 DEF DownInv
  <2>8. Arrived' = Arrived
    BY <2>6 DEF Arrived
  <2>9. DownWhole'
    BY <2>3, <2>6, <2>8 DEF DownWhole
  <2>10. QED  BY <1>3, <1>4, <2>1, <2>7, <2>9 DEF IInv
<1>10. QED
  BY <1>6, <1>7, <1>8, <1>9 DEF Down

LEMMA RxPrinted ==
  ASSUME NEW p \in RxPackets
  PROVE  Device!SppPrintRxPkt(p.rxhdr, p.pl) \in Printed
<1> DEFINE d == p.rxhdr \o p.pl
           q == Device!SppPrintRxPkt(p.rxhdr, p.pl)
<1>1. d \in Seq(Bytes) /\ Len(d) \in 1..SPP_PL_MAX
  <2> DEFINE x == p.rxhdr
             y == p.pl
  <2>1. x \in Seq(Bytes) /\ y \in Seq(Bytes) /\ Len(x) + Len(y) \in 1..SPP_PL_MAX
    BY RxAssumption
  <2>2. d = x \o y
    OBVIOUS
  <2> HIDE DEF x, y, d
  <2>3. QED  BY <2>1, <2>2, Joined DEF Joins
<1>2. q = [pl_type |-> NGHAM_SPP_TYPE_RX, d |-> d, bytes |-> PacketBytes(NGHAM_SPP_TYPE_RX, Len(d), d)]
  BY DEF Device!SppPrintRxPkt, Device!Packet, Device!SppFillHeader, Device!PacketBytes, Device!NGHAM_SPP_TYPE_RX,
         Device!Octet, Device!Crc, PacketBytes, NGHAM_SPP_TYPE_RX, Octet, Crc
<1> HIDE DEF d
<1>3. NGHAM_SPP_TYPE_RX \in Octets /\ Len(d) \in Nat
  BY <1>1, OctetFacts DEF NGHAM_SPP_TYPE_RX
<1>4. PacketBytes(NGHAM_SPP_TYPE_RX, Len(d), d) \in Seq(Line)
  BY <1>1, <1>3, Laid DEF LaidOut
<1>5. q \in Printed
  BY <1>1, <1>2, <1>4 DEF Printed
<1>6. QED
  BY <1>5 DEF q

LEMMA PrintKept ==
  ASSUME IInv, NEW p \in RxPackets, PrintRxPkt(p)
  PROVE  IInv'
<1> DEFINE q == Device!SppPrintRxPkt(p.rxhdr, p.pl)
<1>5. q \in Printed
  BY RxPrinted
<1>6. dev_output' = Append(dev_output, q) /\ dev_output \in Seq(Printed)
  BY DEF PrintRxPkt, IInv, OutputInv
<1>7. UNCHANGED <<dev_state, dev_d, dev_target, dev_pl, host, down, up, down_faults, up_faults, dev_heard, host_heard>>
  BY DEF PrintRxPkt
<1> HIDE DEF q
<1>8. <<q>> \in Seq(Printed) /\ dev_output' = dev_output \o <<q>>
  BY <1>5, <1>6, AppendIsConcat
<1>9. (OutputInv /\ UpInv /\ UpWhole)'
  BY <1>7, <1>8, OutputGrown DEF IInv
<1>10. (DeviceInv /\ DownInv /\ FaultsInv /\ DevHeardInv)'
  BY <1>7 DEF IInv, DeviceInv, DownInv, FaultsInv, DevHeardInv
<1>12. (HostInv /\ HostHeardInv)'
  BY <1>7 DEF IInv, host, HostInv, HostHeardInv
<1>13. DownWhole'
  BY <1>7 DEF IInv, DownWhole, DeviceHolds, Arrived
<1>11. QED
  BY <1>9, <1>10, <1>12, <1>13 DEF IInv

-----------------------------------------------------------------------------
(* The host's parser, byte by byte                                         *)

LEMMA HostReadings == \A c : Host!Readings(c) = Readings(c)
BY DEF Host!Readings, Readings, Host!Octets, Octets

(* The buffer is a packet whose CRC is right.                              *)
PacketRight(buf) ==
  LET s == SubSeq(buf, 4, Len(buf))
  IN  buf[2] = <<"crc_lo", s>> /\ buf[3] = <<"crc_hi", s>>

Silent == host_emitted' = Host!Nothing

HostStarted(c) ==
  /\ host_state = "START" /\ host_target' = host_target
  /\ \/ SPP_START \in Readings(c) /\ host_state' = "HEADER" /\ host_d' = <<Octet(SPP_START)>>
     \/ Readings(c) # {SPP_START} /\ host_state' = "START" /\ host_d' = host_d
HostInHeader(c) ==
  /\ host_state = "HEADER" /\ Len(host_d) < 4 /\ host_state' = "HEADER"
  /\ host_d' = Append(host_d, c) /\ host_target' = host_target
HostHeaderDone(c) ==
  /\ host_state = "HEADER" /\ Len(host_d) = 4 /\ host_state' = "PAYLOAD"
  /\ host_d' = Append(host_d, c) /\ \E n \in Readings(c) : host_target' = 5 + n
HostInPayload(c) ==
  /\ host_state = "PAYLOAD" /\ Len(host_d) < SPP_PL_MAX + 5 /\ Len(host_d) + 1 # host_target
  /\ host_state' = "PAYLOAD" /\ host_d' = Append(host_d, c) /\ host_target' = host_target
HostFull ==
  /\ host_state = "PAYLOAD" /\ Len(host_d) = SPP_PL_MAX + 5 /\ host_target = 5
  /\ host_state' = "START" /\ host_d' = host_d /\ host_target' = host_target
HostDone(c) ==
  /\ host_state = "PAYLOAD" /\ Len(host_d) + 1 = host_target /\ host_state' = "START"
  /\ host_d' = Append(host_d, c) /\ host_target' = host_target
Gives(c) ==
  /\ PacketRight(Append(host_d, c))
  /\ \E t \in Readings(host_d[4]) :
       host_emitted' = [pl_type |-> t, d |-> SubSeq(Append(host_d, c), 6, Len(Append(host_d, c)))]

LEMMA HostSteps ==
  ASSUME HostInv, NEW c \in Line, Host!HostParse(c)
  PROVE  \/ HostStarted(c) /\ Silent
         \/ HostInHeader(c) /\ Silent
         \/ HostHeaderDone(c) /\ Silent
         \/ HostInPayload(c) /\ Silent
         \/ HostFull /\ Silent
         \/ HostDone(c) /\ (Gives(c) \/ (~PacketRight(Append(host_d, c)) /\ Silent))
<1> DEFINE n == Len(host_d)
<1>1. Host!SPP_HDR_SIZE = 5 /\ Host!SPP_D_SIZE = SPP_PL_MAX + 5
  BY DEF Host!SPP_HDR_SIZE, Host!SPP_D_SIZE
<1>2. host_d \in Seq(Line) /\ n \in Nat /\ host_target \in Nat /\ SPP_PL_MAX \in Nat
  BY OctetAssumption DEF HostInv
<1>3. Append(host_d, c) \in Seq(Line) /\ Len(Append(host_d, c)) = n + 1 /\ Append(host_d, c)[n + 1] = c
      /\ \A k \in 1..n : Append(host_d, c)[k] = host_d[k]
  BY <1>2, Appended
<1>4. CASE Host!HostStart(c)
  <2>1. host_state = "START" /\ host_target' = host_target /\ Silent
    BY <1>4 DEF Host!HostStart, Silent
  <2>2. PICK v \in Readings(c) :
          IF v = SPP_START THEN host_state' = "HEADER" /\ host_d' = <<Octet(SPP_START)>>
          ELSE UNCHANGED <<host_state, host_d>>
    BY <1>4, HostReadings DEF Host!HostStart, Host!Octet, Octet
  <2>3. HostStarted(c)
    BY <2>1, <2>2 DEF HostStarted
  <2>4. QED  BY <2>1, <2>3
<1>5. CASE Host!HostHeader(c)
  <2>1. host_state = "HEADER" /\ host_d' = Append(host_d, c) /\ Silent
    BY <1>5 DEF Host!HostHeader, Silent
  <2>2. n \in 1..4
    BY <2>1 DEF HostInv, SPP_HDR_SIZE
  <2>3. IF n + 1 >= 5 THEN host_state' = "PAYLOAD" /\ \E m \in Readings(host_d'[5]) : host_target' = 5 + m
        ELSE UNCHANGED <<host_state, host_target>>
    BY <1>1, <1>3, <1>5, <2>1, HostReadings DEF Host!HostHeader
  <2> HIDE DEF n
  <2>4. CASE n = 4
    <3>1. host_d'[5] = c
      BY <1>3, <2>1, <2>4
    <3>2. HostHeaderDone(c)
      BY <2>1, <2>3, <2>4, <3>1 DEF HostHeaderDone, n
    <3>3. QED  BY <2>1, <3>2
  <2>5. CASE n # 4
    <3>1. n < 4 /\ ~(n + 1 >= 5)
      BY <2>2, <2>5
    <3>2. HostInHeader(c)
      BY <2>1, <2>3, <3>1 DEF HostInHeader, n
    <3>3. QED  BY <2>1, <3>2
  <2>6. QED  BY <2>4, <2>5
<1>6. host_state = "PAYLOAD" =>
        /\ n >= 5 /\ n <= SPP_PL_MAX + 5 /\ (n < host_target \/ host_target = 5)
        /\ host_target <= SPP_PL_MAX + 5
        /\ Host!WithByte(c) = IF n < SPP_PL_MAX + 5 THEN Append(host_d, c) ELSE host_d
  <2> SUFFICES ASSUME host_state = "PAYLOAD"
               PROVE  /\ n >= 5 /\ n <= SPP_PL_MAX + 5 /\ (n < host_target \/ host_target = 5)
                      /\ host_target <= SPP_PL_MAX + 5
                      /\ Host!WithByte(c) = IF n < SPP_PL_MAX + 5 THEN Append(host_d, c) ELSE host_d
    OBVIOUS
  <2>1. /\ n >= 5 /\ n <= SPP_PL_MAX + 5 /\ (n < host_target \/ host_target = 5)
        /\ \E m \in Readings(host_d[5]) : host_target = 5 + m
    BY DEF HostInv, SPP_HDR_SIZE
  <2>2. host_d[5] \in Line
    <3>1. 5 \in 1..Len(host_d)
      BY <1>2, <2>1
    <3>2. QED  BY <1>2, <3>1, ElementOfSeq
  <2>3. \E m \in Octets : host_target = 5 + m
    BY <2>1, <2>2, LineFacts
  <2>4. host_target <= SPP_PL_MAX + 5
    BY <1>2, <2>3 DEF Octets
  <2>5. QED  BY <1>1, <2>1, <2>4 DEF Host!WithByte
<1>7. CASE Host!HostPayload(c)
  <2>1. /\ host_state = "PAYLOAD" /\ Len(Host!WithByte(c)) # host_target /\ host_d' = Host!WithByte(c)
        /\ host_state' = (IF n < SPP_PL_MAX + 5 THEN "PAYLOAD" ELSE "START")
        /\ host_target' = host_target /\ Silent
    BY <1>1, <1>7 DEF Host!HostPayload, Silent
  <2>2. CASE n < SPP_PL_MAX + 5
    <3>1. Host!WithByte(c) = Append(host_d, c) /\ n + 1 # host_target
      BY <1>3, <1>6, <2>1, <2>2
    <3>2. HostInPayload(c)
      BY <2>1, <2>2, <3>1 DEF HostInPayload
    <3>3. QED  BY <2>1, <3>2
  <2>3. CASE ~(n < SPP_PL_MAX + 5)
    <3>1. Host!WithByte(c) = host_d
      BY <1>6, <2>1, <2>3
    <3> HIDE DEF n
    <3>2. n = SPP_PL_MAX + 5 /\ host_target = 5
      BY <1>2, <1>6, <2>1, <2>3
    <3>3. HostFull
      BY <2>1, <2>3, <3>1, <3>2 DEF HostFull, n
    <3>4. QED  BY <2>1, <3>3
  <2>4. QED  BY <2>2, <2>3
<1>8. CASE Host!HostPacket(c)
  <2> DEFINE buf == Host!WithByte(c)
  <2>1. /\ host_state = "PAYLOAD" /\ Len(buf) = host_target /\ host_d' = buf
        /\ host_state' = "START" /\ host_target' = host_target
        /\ IF Host!CrcMatches(buf)
             THEN \E t \in Readings(buf[4]) : host_emitted' = [pl_type |-> t, d |-> SubSeq(buf, 6, Len(buf))]
             ELSE Silent
    <3>1. Host!SPP_HDR_SIZE + 1 = 6
      BY <1>1
    <3>2. QED  BY <1>8, <3>1, HostReadings DEF Host!HostPacket, Silent
  <2>2. n < SPP_PL_MAX + 5
    <3>1. ~(n < SPP_PL_MAX + 5) => buf = host_d
      BY <1>6, <2>1
    <3> HIDE DEF buf
    <3>2. ~(n < SPP_PL_MAX + 5) => n = host_target
      BY <2>1, <3>1
    <3> HIDE DEF n
    <3>3. QED  BY <1>2, <1>6, <2>1, <3>2, OctetAssumption
  <2>3. buf = Append(host_d, c)
    BY <1>6, <2>1, <2>2
  <2>4. n >= 5 /\ buf[4] = host_d[4] /\ Len(buf) = n + 1 /\ buf \in Seq(Line)
    <3>1. n >= 5 /\ 4 \in 1..n
      BY <1>2, <1>6, <2>1
    <3>2. QED  BY <1>3, <2>3, <3>1
  <2> HIDE DEF buf
  <2>5. Host!CrcMatches(buf) <=> PacketRight(buf)
    <3> DEFINE x == SubSeq(buf, 2, 3)
               s == SubSeq(buf, 4, Len(buf))
    <3>1. \A k \in 2..3 : buf[k] \in Line
      <4>1. \A k \in 2..3 : k \in 1..Len(buf)
        BY <1>2, <2>4
      <4>2. QED  BY <2>4, <4>1, ElementOfSeq
    <3>2. x \in Seq(Line) /\ Len(x) = 2 /\ x[1] = buf[2] /\ x[2] = buf[3]
      <4>1. x \in Seq(Line) /\ Len(x) = 2 /\ \A k \in 1..2 : x[k] = buf[2 + k - 1]
        BY <3>1, SubSeqProperties
      <4>2. QED  BY <4>1
    <3>3. Host!CrcMatches(buf) <=> x = << <<"crc_lo", s>>, <<"crc_hi", s>> >>
      BY DEF Host!CrcMatches, Host!Crc
    <3>4. PacketRight(buf) <=> buf[2] = <<"crc_lo", s>> /\ buf[3] = <<"crc_hi", s>>
      BY DEF PacketRight
    <3> HIDE DEF x, s
    <3>5. x = <<x[1], x[2]>>
      BY <3>2
    <3>6. QED  BY <3>2, <3>3, <3>4, <3>5
  <2>6. HostDone(c)
    BY <2>1, <2>3, <2>4 DEF HostDone
  <2>7. Gives(c) \/ (~PacketRight(Append(host_d, c)) /\ Silent)
    BY <2>1, <2>3, <2>4, <2>5 DEF Gives
  <2>8. QED  BY <2>6, <2>7
<1>9. QED
  BY <1>4, <1>5, <1>7, <1>8 DEF Host!HostParse

(* The host's buffer is not overrun.                                       *)
LEMMA HostBounded ==
  ASSUME HostInv, NEW c \in Line, Host!HostParse(c)
  PROVE  Len(host_d') <= SPP_PL_MAX + SPP_HDR_SIZE
<1> DEFINE n == Len(host_d)
<1>1. host_d \in Seq(Line) /\ n \in Nat /\ SPP_PL_MAX \in Nat /\ SPP_PL_MAX >= 4
      /\ n <= SPP_PL_MAX + 5 /\ SPP_HDR_SIZE = 5 /\ Len(Append(host_d, c)) = n + 1
  BY OctetAssumption, Appended DEF HostInv, SPP_HDR_SIZE
<1>2. Len(<<Octet(SPP_START)>>) = 1
  OBVIOUS
<1>3. HostDone(c) => host_target <= SPP_PL_MAX + 5
  <2> SUFFICES ASSUME HostDone(c) PROVE host_target <= SPP_PL_MAX + 5
    OBVIOUS
  <2>1. n >= 5 /\ \E m \in Readings(host_d[5]) : host_target = 5 + m
    BY DEF HostDone, HostInv, SPP_HDR_SIZE
  <2>2. host_d[5] \in Line
    <3>1. 5 \in 1..Len(host_d)
      BY <1>1, <2>1
    <3>2. QED  BY <1>1, <3>1, ElementOfSeq
  <2>3. \E m \in Octets : host_target = 5 + m
    BY <2>1, <2>2, LineFacts
  <2>4. QED  BY <1>1, <2>3 DEF Octets
<1>4. \/ host_d' = host_d \/ host_d' = <<Octet(SPP_START)>>
      \/ host_d' = Append(host_d, c) /\ n + 1 <= SPP_PL_MAX + 5
  <2>1. HostStarted(c) \/ HostFull => host_d' = host_d \/ host_d' = <<Octet(SPP_START)>>
    BY DEF HostStarted, HostFull
  <2>2. HostInHeader(c) \/ HostHeaderDone(c) => host_d' = Append(host_d, c) /\ (n < 4 \/ n = 4)
    BY DEF HostInHeader, HostHeaderDone
  <2>3. HostInPayload(c) => host_d' = Append(host_d, c) /\ n < SPP_PL_MAX + 5
    BY DEF HostInPayload
  <2>4. HostDone(c) => host_d' = Append(host_d, c) /\ n + 1 = host_target
    BY DEF HostDone
  <2> HIDE DEF n
  <2>5. QED  BY <1>1, <1>3, <2>1, <2>2, <2>3, <2>4, HostSteps
<1>5. Len(host_d') = n \/ Len(host_d') = 1 \/ (Len(host_d') = n + 1 /\ n + 1 <= SPP_PL_MAX + 5)
  BY <1>1, <1>2, <1>4
<1> HIDE DEF n
<1>6. QED
  BY <1>1, <1>5

LEMMA HostKept ==
  ASSUME HostInv, NEW c \in Line, Host!HostParse(c)
  PROVE  HostInv'
<1> DEFINE n == Len(host_d)
<1>0. Len(host_d') <= SPP_PL_MAX + SPP_HDR_SIZE
  BY HostBounded
<1>1. /\ host_d \in Seq(Line) /\ host_target \in Nat /\ n \in Nat /\ SPP_PL_MAX \in Nat
      /\ host_state = "HEADER" => n \in 1..4
      /\ n <= SPP_PL_MAX + 5
      /\ host_state = "PAYLOAD" => /\ n >= 5
                                   /\ \E m \in Readings(host_d[5]) : host_target = 5 + m
                                   /\ n < host_target \/ host_target = 5
  BY OctetAssumption DEF HostInv, SPP_HDR_SIZE
<1>2. Append(host_d, c) \in Seq(Line) /\ Len(Append(host_d, c)) = n + 1 /\ Append(host_d, c)[n + 1] = c
      /\ \A k \in 1..n : Append(host_d, c)[k] = host_d[k]
  BY <1>1, Appended
<1> HIDE DEF n
<1>3. CASE HostStarted(c)
  <2>1. host_target' = host_target /\ (host_state' = "HEADER" \/ host_state' = "START")
        /\ (host_d' = <<Octet(SPP_START)>> \/ (host_d' = host_d /\ host_state' = "START"))
    BY <1>3 DEF HostStarted
  <2>2. Octet(SPP_START) \in Line
    BY OctetFacts, LineFacts
  <2>3. <<Octet(SPP_START)>> \in Seq(Line) /\ Len(<<Octet(SPP_START)>>) = 1
    BY <2>2
  <2>4. 1 \in 1..SPP_HDR_SIZE-1
    BY DEF SPP_HDR_SIZE
  <2>5. QED  BY <1>0, <1>1, <2>1, <2>3, <2>4 DEF HostInv
<1>4. CASE HostInHeader(c)
  <2>1. host_d' \in Seq(Line) /\ Len(host_d') = n + 1 /\ host_state' = "HEADER" /\ host_target' = host_target
        /\ host_state = "HEADER" /\ n < 4
    BY <1>2, <1>4 DEF HostInHeader, n
  <2>2. n + 1 \in 1..SPP_HDR_SIZE-1
    BY <1>1, <2>1 DEF SPP_HDR_SIZE
  <2>3. QED  BY <1>0, <1>1, <2>1, <2>2 DEF HostInv
<1>5. CASE HostHeaderDone(c)
  <2>1. n = 4 /\ host_d' = Append(host_d, c) /\ host_state' = "PAYLOAD"
    BY <1>5 DEF HostHeaderDone, n
  <2>2. PICK m \in Readings(c) : host_target' = 5 + m
    BY <1>5 DEF HostHeaderDone
  <2>3. m \in Nat
    BY OctetFacts, LineFacts
  <2>4. host_d' \in Seq(Line) /\ Len(host_d') = 5 /\ host_d'[5] = c
    BY <1>2, <2>1
  <2>5. 5 < host_target' \/ host_target' = 5
    BY <2>2, <2>3
  <2>6. host_target' \in Nat /\ 5 <= SPP_PL_MAX + 5
    BY <1>1, <2>2, <2>3
  <2>7. \E k \in Readings(host_d'[5]) : host_target' = 5 + k
    BY <2>2, <2>4
  <2>8. QED  BY <1>0, <2>1, <2>4, <2>5, <2>6, <2>7 DEF HostInv, SPP_HDR_SIZE
<1>6. CASE HostInPayload(c)
  <2>1. /\ n < SPP_PL_MAX + 5 /\ n + 1 # host_target /\ host_state = "PAYLOAD"
        /\ host_state' = "PAYLOAD" /\ host_d' = Append(host_d, c) /\ host_target' = host_target
    BY <1>6 DEF HostInPayload, n
  <2>2. n >= 5 /\ (n < host_target \/ host_target = 5) /\ \E m \in Readings(host_d[5]) : host_target = 5 + m
    BY <1>1, <2>1
  <2>3. host_d'[5] = host_d[5]
    <3>1. 5 \in 1..n
      BY <1>1, <2>2
    <3>2. QED  BY <1>2, <2>1, <3>1
  <2>4. n + 1 >= 5 /\ n + 1 <= SPP_PL_MAX + 5 /\ (n + 1 < host_target \/ host_target = 5)
    BY <1>1, <2>1, <2>2
  <2>5. host_d' \in Seq(Line) /\ Len(host_d') = n + 1
    BY <1>2, <2>1
  <2>6. QED  BY <1>0, <1>1, <2>1, <2>2, <2>3, <2>4, <2>5 DEF HostInv, SPP_HDR_SIZE
<1>7. CASE HostFull
  BY <1>0, <1>1, <1>7 DEF HostFull, HostInv
<1>8. CASE HostDone(c)
  BY <1>0, <1>1, <1>2, <1>8 DEF HostDone, HostInv
<1>9. QED
  BY <1>3, <1>4, <1>5, <1>6, <1>7, <1>8, HostSteps

-----------------------------------------------------------------------------
(* The line to the host                                                    *)

(* What is known while p is on the line, of whose bytes B k have been sent. *)
OnLineUp(p, B, k) ==
  /\ p \in Printed /\ p = Head(dev_output) /\ B = p.bytes /\ k = up.sent
  /\ LaidOut(B, p.pl_type, Len(p.d), p.d) /\ Len(p.d) \in 1..SPP_PL_MAX
  /\ k \in Nat /\ Len(B) \in Nat /\ k < Len(B) /\ B \in Seq(Line)
  /\ UpByte = B[k + 1] /\ B[k + 1] \in Line /\ (UpLast <=> k + 1 = Len(B))
  /\ up \in [sent : Nat, whole : BOOLEAN] /\ Tail(dev_output) \in Seq(Printed)

LEMMA UpFacts ==
  ASSUME OutputInv, UpInv, dev_output # <<>>
  PROVE  OnLineUp(Head(dev_output), Head(dev_output).bytes, up.sent)
<1> DEFINE p == Head(dev_output)
           B == p.bytes
           k == up.sent
<1>1. p \in Printed /\ Tail(dev_output) \in Seq(Printed)
  BY HeadTailProperties DEF OutputInv
<1>2. UpByte = B[k + 1] /\ (UpLast <=> k + 1 = Len(B))
  BY DEF UpByte, UpLast
<1>3. k \in Nat /\ k < Len(B) /\ up \in [sent : Nat, whole : BOOLEAN]
  BY DEF UpInv
<1> HIDE DEF p, k
<1>4. LaidOut(B, p.pl_type, Len(p.d), p.d) /\ Len(p.d) \in 1..SPP_PL_MAX
  BY <1>1, PrintedLaid
<1> HIDE DEF B
<1>5. B \in Seq(Line) /\ Len(B) \in Nat
  BY <1>4 DEF LaidOut
<1>6. B[k + 1] \in Line
  <2>1. k + 1 \in 1..Len(B)
    BY <1>3, <1>5
  <2>2. QED  BY <1>5, <2>1, ElementOfSeq
<1>7. QED
  BY <1>1, <1>2, <1>3, <1>4, <1>5, <1>6 DEF OnLineUp, p, B, k

(* A byte is gone from the line.                                           *)
LEMMA UpByteGone ==
  ASSUME OutputInv, UpInv, dev_output # <<>>, NEW ok \in BOOLEAN, UpAfterByte(ok)
  PROVE  /\ OutputInv' /\ UpInv'
         /\ UpLast => dev_output' = Tail(dev_output) /\ ~up'.whole
         /\ ~UpLast => /\ dev_output' = dev_output /\ up'.sent = up.sent + 1
                       /\ up'.whole => ok /\ IF up.sent = 0 THEN host_state = "START" ELSE up.whole
<1> DEFINE p == Head(dev_output)
           B == p.bytes
           k == up.sent
<1>1. OnLineUp(p, B, k)
  BY UpFacts
<1>2. /\ k \in Nat /\ Len(B) \in Nat /\ k < Len(B) /\ (UpLast <=> k + 1 = Len(B))
      /\ up \in [sent : Nat, whole : BOOLEAN] /\ Tail(dev_output) \in Seq(Printed)
  BY <1>1 DEF OnLineUp
<1>3. CASE UpLast
  <2>1. dev_output' = Tail(dev_output) /\ up' = [sent |-> 0, whole |-> FALSE]
    BY <1>3 DEF UpAfterByte
  <2>2. up'.sent = 0 /\ ~up'.whole /\ up' \in [sent : Nat, whole : BOOLEAN]
    BY <2>1
  <2>3. \A q \in Printed : 0 < Len(q.bytes)
    <3>1. \A q \in Printed : Len(q.bytes) = 5 + Len(q.d) /\ Len(q.d) \in 1..SPP_PL_MAX
      BY PrintedLaid DEF LaidOut, SPP_HDR_SIZE
    <3>2. QED  BY <3>1
  <2>4. dev_output' # <<>> => Head(dev_output)' \in Printed
    BY <1>2, <2>1
  <2>5. QED  BY <1>2, <1>3, <2>1, <2>2, <2>3, <2>4 DEF OutputInv, UpInv
<1>4. CASE ~UpLast
  <2> DEFINE w == ok /\ IF k = 0 THEN host_state = "START" ELSE up.whole
  <2>1. dev_output' = dev_output /\ up' = [sent |-> k + 1, whole |-> w]
    BY <1>4 DEF UpAfterByte
  <2>2. w \in BOOLEAN /\ (w => ok /\ IF k = 0 THEN host_state = "START" ELSE up.whole)
    BY <1>2
  <2> HIDE DEF w, k
  <2>3. up'.sent = k + 1 /\ up'.whole = w /\ up' \in [sent : Nat, whole : BOOLEAN]
    BY <1>2, <2>1, <2>2
  <2>4. k + 1 < Len(B)
    BY <1>2, <1>4
  <2>5. UpInv'
    BY <2>1, <2>3, <2>4 DEF UpInv
  <2>6. QED  BY <1>4, <2>1, <2>2, <2>3, <2>5 DEF OutputInv, k
<1>5. QED
  BY <1>3, <1>4

(* What the host's parser gets; only the first byte of a CRC tells one.    *)
LEMMA HeardUp ==
  ASSUME OutputInv, UpInv, dev_output # <<>>, NEW c, c = Bad \/ c = UpByte
  PROVE  /\ c \in Line /\ Head(dev_output) \in Printed /\ Head(dev_output).bytes[2] \in CrcLo
         /\ c \in CrcLo => c = Head(dev_output).bytes[2]
<1> DEFINE p == Head(dev_output)
           B == p.bytes
           k == up.sent
<1>1. OnLineUp(p, B, k)
  BY UpFacts
<1>2. /\ p \in Printed /\ B[2] \in CrcLo /\ k \in Nat /\ Len(B) \in Nat /\ k < Len(B)
      /\ UpByte = B[k + 1] /\ B[k + 1] \in Line /\ \A j \in 1..Len(B) : j # 2 => B[j] \notin CrcLo
  BY <1>1 DEF OnLineUp, LaidOut
<1> HIDE DEF p, k
<1>3. CASE c = Bad
  BY <1>2, <1>3, LineFacts DEF p
<1>4. CASE c = UpByte
  <2>1. k + 1 \in 1..Len(B)
    BY <1>2
  <2>2. c = B[k + 1] /\ (k + 1 # 2 => c \notin CrcLo)
    BY <1>2, <1>4, <2>1
  <2>3. QED  BY <1>2, <2>2 DEF p
<1>5. QED
  BY <1>3, <1>4

LEMMA HostHeardKept ==
  ASSUME HostInv, OutputInv, UpInv, HostHeardInv, dev_output # <<>>,
         NEW c, c = Bad \/ c = UpByte, HostParses(c)
  PROVE  HostHeardInv'
<1> DEFINE Premise == host_state # "START" /\ Len(host_d) >= 2 /\ host_d[2] \in CrcLo /\ NoCrcIn(host_d, 3)
           p == Head(dev_output)
           lo == p.bytes[2]
           n == Len(host_d)
<1>1. c \in Line /\ p \in Printed /\ lo \in CrcLo /\ (c \in CrcLo => c = lo)
  BY HeardUp
<1>2. /\ Host!HostParse(c)
      /\ host_heard' = (IF host_state' = "START" THEN Host!Nothing ELSE IF c = lo THEN p ELSE host_heard)
  BY DEF HostParses
<1> HIDE DEF lo, p
<1>3. /\ host_state' = "START" => host_heard' = Host!Nothing
      /\ host_state' # "START" /\ c = lo => host_heard' = p
      /\ host_state' # "START" /\ c # lo => host_heard' = host_heard
  BY <1>2
<1>4. host_heard' \in Printed \cup {Host!Nothing}
  BY <1>1, <1>3 DEF HostHeardInv
<1>5. host_d \in Seq(Line) /\ n \in Nat
  BY DEF HostInv
<1>6. Premise => host_heard \in Printed /\ host_d[2] = host_heard.bytes[2]
  BY DEF HostHeardInv
<1>7. /\ Len(Append(host_d, c)) = n + 1 /\ Append(host_d, c)[n + 1] = c
      /\ \A k \in 1..n : Append(host_d, c)[k] = host_d[k]
  BY <1>1, <1>5, Appended
<1> HIDE DEF n
<1>8. ASSUME Premise'
      PROVE  host_heard' \in Printed /\ host_d'[2] = host_heard'.bytes[2]
  <2>1. CASE HostStarted(c)
    <3>1. host_d' = <<Octet(SPP_START)>>
      BY <1>8, <2>1 DEF HostStarted
    <3>2. Len(host_d') = 1
      BY <3>1
    <3>3. QED  BY <1>8, <3>2
  <2>2. CASE HostFull \/ HostDone(c)
    BY <1>8, <2>2 DEF HostFull, HostDone
  <2>3. CASE HostInHeader(c) \/ HostHeaderDone(c) \/ HostInPayload(c)
    <3>1. host_d' = Append(host_d, c) /\ host_state # "START" /\ host_state' # "START" /\ n >= 1
      BY <2>3 DEF HostInHeader, HostHeaderDone, HostInPayload, HostInv, SPP_HDR_SIZE, n
    <3>2. Len(host_d') = n + 1 /\ host_d'[n + 1] = c /\ \A k \in 1..n : host_d'[k] = host_d[k]
      BY <1>7, <3>1
    <3>3. host_d'[2] \in CrcLo /\ \A k \in 3..n+1 : host_d'[k] \notin CrcLo
      BY <1>8, <3>2 DEF NoCrcIn
    <3>4. CASE n = 1
      <4>1. host_d'[2] = c
        BY <3>2, <3>4
      <4>2. c = lo /\ host_heard' = p
        BY <1>1, <1>3, <3>1, <3>3, <4>1
      <4>3. QED  BY <1>1, <4>1, <4>2 DEF lo
    <3>5. CASE n # 1
      <4>1. n >= 2 /\ n + 1 \in 3..n+1 /\ 2 \in 1..n /\ \A k \in 3..n : k \in 3..n+1 /\ k \in 1..n
        BY <1>5, <3>1, <3>5
      <4>2. c \notin CrcLo /\ host_d'[2] = host_d[2] /\ \A k \in 3..n : host_d[k] \notin CrcLo
        BY <3>2, <3>3, <4>1
      <4>3. Premise
        BY <3>1, <3>3, <4>1, <4>2 DEF NoCrcIn, n
      <4>4. host_heard' = host_heard
        BY <1>1, <1>3, <3>1, <4>2
      <4>5. QED  BY <1>6, <4>2, <4>3, <4>4
    <3>6. QED  BY <3>4, <3>5
  <2>4. QED
    BY <1>1, <1>2, <2>1, <2>2, <2>3, HostSteps
<1>9. QED
  BY <1>4, <1>8 DEF HostHeardInv

LEMMA UpWholeKept ==
  ASSUME HostInv, OutputInv, UpInv, UpWhole, dev_output # <<>>, HostParses(UpByte), UpAfterByte(TRUE)
  PROVE  UpWhole'
<1> DEFINE p == Head(dev_output)
           B == p.bytes
           k == up.sent
           c == B[k + 1]
           n == Len(B)
<1>1. OnLineUp(p, B, k)
  BY UpFacts
<1>2. /\ k \in Nat /\ n \in Nat /\ k < n /\ B \in Seq(Line) /\ c \in Line /\ UpByte = c
      /\ (UpLast <=> k + 1 = n) /\ LaidOut(B, p.pl_type, Len(p.d), p.d) /\ p \in Printed /\ p = Head(dev_output)
  BY <1>1 DEF OnLineUp
<1>3. Host!HostParse(c)
  BY <1>2 DEF HostParses
<1> SUFFICES ASSUME dev_output' = dev_output, k + 1 # n,
                    IF k = 0 THEN host_state = "START" ELSE up.whole
             PROVE  /\ host_d' = SubSeq(B, 1, k + 1)
                    /\ IF k + 1 < 5 THEN host_state' = "HEADER" ELSE host_state' = "PAYLOAD" /\ host_target' = n
  <2> SUFFICES ASSUME dev_output' # <<>>, up'.whole
               PROVE  up'.sent > 0 /\ HostHolds(Head(dev_output).bytes, up.sent)'
    BY DEF UpWhole
  <2>1. ~UpLast /\ dev_output' = dev_output /\ up'.sent = k + 1 /\ IF k = 0 THEN host_state = "START" ELSE up.whole
    BY UpByteGone
  <2>2. k + 1 # n /\ Head(dev_output)'.bytes = B
    BY <1>2, <2>1
  <2> HIDE DEF B, k, n
  <2>3. /\ host_d' = SubSeq(B, 1, k + 1)
        /\ IF k + 1 < 5 THEN host_state' = "HEADER" ELSE host_state' = "PAYLOAD" /\ host_target' = n
    BY <2>1, <2>2 DEF k
  <2>4. SPP_HDR_SIZE = 5 /\ k + 1 > 0
    BY <1>2 DEF SPP_HDR_SIZE
  <2>5. host_d' = SubSeq(Head(dev_output).bytes, 1, up.sent)'
    BY <2>1, <2>2, <2>3
  <2>6. IF (up.sent)' < SPP_HDR_SIZE THEN host_state' = "HEADER"
        ELSE host_state' = "PAYLOAD" /\ host_target' = Len(Head(dev_output).bytes)'
    BY <2>1, <2>2, <2>3, <2>4 DEF n
  <2>7. QED  BY <2>1, <2>4, <2>5, <2>6 DEF HostHolds
<1>4. k > 0 => /\ host_d = SubSeq(B, 1, k)
               /\ IF k < 5 THEN host_state = "HEADER" ELSE host_state = "PAYLOAD" /\ host_target = n
  <2>1. k > 0 => up.whole
    BY <1>2
  <2>2. k > 0 => HostHolds(B, k)
    BY <2>1 DEF UpWhole
  <2>3. QED  BY <2>2 DEF HostHolds, SPP_HDR_SIZE
<1>5. /\ B[1] = Octet(SPP_START) /\ B[5] = Octet(Len(p.d)) /\ n = 5 + Len(p.d) /\ Len(p.d) \in 1..SPP_PL_MAX
      /\ Len(p.d) \in Octets
  <2>1. Len(p.d) % (SPP_PL_MAX + 1) = Len(p.d) /\ Len(p.d) \in 1..SPP_PL_MAX
    BY <1>2, PrintedLaid
  <2>2. QED  BY <1>2, <2>1 DEF LaidOut, SPP_HDR_SIZE
<1>6. k = 0 => host_state = "START"
  OBVIOUS
<1> HIDE DEF B, k, n, p, c
<1>7. k + 1 < n /\ n >= 6
  <2> DEFINE b == Len(p.d)
  <2>1. b \in 1..SPP_PL_MAX /\ n = 5 + b
    BY <1>5
  <2> HIDE DEF b
  <2>2. QED  BY <1>2, <2>1
<1>8. CASE k = 0
  <2>1. host_state = "START" /\ c = Octet(SPP_START) /\ Readings(c) = {SPP_START}
    BY <1>5, <1>6, <1>8, OctetFacts DEF c
  <2>2. HostStarted(c)
    BY <1>2, <1>3, <2>1, HostSteps DEF HostInHeader, HostHeaderDone, HostInPayload, HostFull, HostDone
  <2>3. host_state' = "HEADER" /\ host_d' = <<c>>
    BY <2>1, <2>2 DEF HostStarted
  <2>4. SubSeq(B, 1, 1) = <<c>>
    <3>1. Append(SubSeq(B, 1, 0), B[0 + 1]) = SubSeq(B, 1, 0 + 1)
      <4>1. 0 < Len(B)
        BY <1>2, <1>8 DEF n
      <4>2. QED  BY <1>2, <4>1, Extended
    <3>2. SubSeq(B, 1, 0) = <<>> /\ c = B[1] /\ 0 + 1 = 1
      BY <1>8, SubSeqEmpty DEF c
    <3>3. Append(<<>>, c) = <<c>>
      OBVIOUS
    <3>4. Append(<<>>, c) = SubSeq(B, 1, 1)
      BY <3>1, <3>2
    <3>5. QED  BY <3>3, <3>4
  <2>5. k + 1 = 1 /\ k + 1 < 5
    BY <1>8
  <2>6. QED  BY <2>3, <2>4, <2>5
<1>9. Append(SubSeq(B, 1, k), c) = SubSeq(B, 1, k + 1) /\ Len(SubSeq(B, 1, k)) = k
  <2>1. 1 <= k + 1 /\ (k + 1) - 1 = k
    BY <1>2
  <2>2. QED  BY <1>2, <2>1, Extended DEF c, n
<1>10. CASE k \in 1..3
  <2>1. host_state = "HEADER" /\ host_d = SubSeq(B, 1, k)
    BY <1>4, <1>10
  <2>2. Len(host_d) < 4
    BY <1>9, <1>10, <2>1
  <2>3. HostInHeader(c)
    BY <1>2, <1>3, <2>1, <2>2, HostSteps DEF HostStarted, HostHeaderDone, HostInPayload, HostFull, HostDone
  <2>4. QED  BY <1>9, <1>10, <2>1, <2>3 DEF HostInHeader
<1>11. CASE k = 4
  <2>1. host_state = "HEADER" /\ host_d = SubSeq(B, 1, k) /\ Len(host_d) = 4
    BY <1>4, <1>9, <1>11
  <2>2. HostHeaderDone(c)
    BY <1>2, <1>3, <2>1, HostSteps DEF HostStarted, HostInHeader, HostInPayload, HostFull, HostDone
  <2>3. Readings(c) = {Len(p.d)}
    BY <1>5, <1>11, OctetFacts DEF c
  <2>4. host_target' = 5 + Len(p.d)
    BY <2>2, <2>3 DEF HostHeaderDone
  <2>5. QED  BY <1>5, <1>9, <1>11, <2>1, <2>2, <2>4 DEF HostHeaderDone
<1>12. CASE k > 4
  <2>1. host_state = "PAYLOAD" /\ host_d = SubSeq(B, 1, k) /\ host_target = n /\ Len(host_d) = k
    BY <1>2, <1>4, <1>9, <1>12
  <2>2. k + 1 # host_target /\ host_target # 5
    BY <1>2, <1>7, <2>1
  <2>3. HostInPayload(c)
    BY <1>2, <1>3, <2>1, <2>2, HostSteps DEF HostStarted, HostInHeader, HostHeaderDone, HostFull, HostDone
  <2>4. QED  BY <1>2, <1>9, <1>12, <2>1, <2>3 DEF HostInPayload
<1>13. QED
  BY <1>2, <1>8, <1>10, <1>11, <1>12

-----------------------------------------------------------------------------
(* The steps of the line to the host                                       *)

LEMMA UpKept ==
  ASSUME IInv, Up
  PROVE  IInv'
<1>1. DeviceInv /\ HostInv /\ OutputInv /\ DownInv /\ UpInv /\ DevHeardInv /\ HostHeardInv /\ DownWhole /\ UpWhole
  BY DEF IInv
<1>2. /\ dev_output # <<>> /\ UNCHANGED <<dev_state, dev_d, dev_target, dev_pl, dev_heard, down, down_faults>>
      /\ up_faults' = up_faults \/ up_faults' = up_faults + 1
  BY DEF Up, UpIntact, UpFault, UpDamaged, UpLost, UpNoise
<1>3. (DeviceInv /\ DownInv /\ DevHeardInv)'
  BY <1>1, <1>2 DEF DeviceInv, DownInv, DevHeardInv
<1>4. DownWhole' /\ FaultsInv'
  <2>1. DownWhole'
    BY <1>1, <1>2 DEF DownWhole, DeviceHolds, Arrived
  <2>2. FaultsInv'
    BY <1>2 DEF IInv, FaultsInv
  <2>3. QED  BY <2>1, <2>2
<1>5. ASSUME NEW c, c = Bad \/ c = UpByte, HostParses(c)
      PROVE  HostInv' /\ HostHeardInv'
  <2>1. c \in Line /\ Host!HostParse(c)
    BY <1>1, <1>2, <1>5, HeardUp DEF HostParses
  <2>2. HostInv'
    BY <1>1, <2>1, HostKept
  <2>3. HostHeardInv'
    BY <1>1, <1>2, <1>5, HostHeardKept
  <2>4. QED  BY <2>2, <2>3
<1>6. ASSUME NEW ok \in BOOLEAN, UpAfterByte(ok)
      PROVE  OutputInv' /\ UpInv' /\ (~ok => UpWhole')
  BY <1>1, <1>2, <1>6, UpByteGone DEF UpWhole
<1>7. CASE UpIntact
  <2>1. HostParses(UpByte) /\ UpAfterByte(TRUE)
    BY <1>7 DEF UpIntact
  <2>2. OutputInv' /\ UpInv' /\ UpWhole'
    BY <1>1, <1>2, <1>6, <2>1, UpWholeKept
  <2>3. QED  BY <1>3, <1>4, <1>5, <2>1, <2>2 DEF IInv
<1>8. CASE UpDamaged
  <2>1. HostParses(Bad) /\ UpAfterByte(FALSE)
    BY <1>8 DEF UpDamaged
  <2>2. OutputInv' /\ UpInv' /\ UpWhole'
    BY <1>6, <2>1
  <2>3. QED  BY <1>3, <1>4, <1>5, <2>1, <2>2 DEF IInv
<1>9. CASE UpLost
  <2>1. UpAfterByte(FALSE) /\ UNCHANGED <<host_state, host_d, host_target, host_heard>>
    BY <1>9 DEF UpLost
  <2>2. OutputInv' /\ UpInv' /\ UpWhole'
    BY <1>6, <2>1
  <2>3. HostInv' /\ HostHeardInv'
    BY <1>1, <2>1 DEF HostInv, HostHeardInv
  <2>4. QED  BY <1>3, <1>4, <2>2, <2>3 DEF IInv
<1>10. CASE UpNoise
  <2>1. HostParses(Bad) /\ up' = [up EXCEPT !.whole = FALSE] /\ dev_output' = dev_output
    BY <1>10 DEF UpNoise
  <2>2. up \in [sent : Nat, whole : BOOLEAN]
    BY <1>1 DEF UpInv
  <2>3. up' \in [sent : Nat, whole : BOOLEAN] /\ up'.sent = up.sent /\ ~up'.whole
    BY <2>1, <2>2
  <2>4. OutputInv' /\ UpInv' /\ UpWhole'
    BY <1>1, <1>2, <2>1, <2>3 DEF OutputInv, UpInv, UpWhole
  <2>5. QED  BY <1>3, <1>4, <1>5, <2>1, <2>4 DEF IInv
<1>11. QED
  BY <1>7, <1>8, <1>9, <1>10 DEF Up

LEMMA InvInitially == Init => IInv
<1> SUFFICES ASSUME Init PROVE IInv
  OBVIOUS
<1>1. /\ dev_state = "START" /\ dev_d = <<>> /\ dev_target = 0 /\ dev_pl = <<>> /\ dev_output = <<>>
      /\ host_state = "START" /\ host_d = <<>> /\ host_target = 0
      /\ down = Idle /\ up = [sent |-> 0, whole |-> FALSE] /\ down_faults = 0 /\ up_faults = 0
      /\ dev_heard = Idle.intent /\ host_heard = Host!Nothing
  BY DEF Init, Device!Init, Host!Init
<1>2. DeviceInv /\ HostInv /\ OutputInv
  BY <1>1, OctetFacts, OctetAssumption DEF DeviceInv, HostInv, OutputInv, SPP_HDR_SIZE
<1>3. DownInv /\ UpInv /\ FaultsInv
  BY <1>1 DEF DownInv, UpInv, FaultsInv
<1>4. DevHeardInv /\ HostHeardInv /\ DownWhole /\ UpWhole
  BY <1>1 DEF DevHeardInv, HostHeardInv, DownWhole, UpWhole
<1>5. QED
  BY <1>2, <1>3, <1>4 DEF IInv

LEMMA InvKept == IInv /\ [Next]_vars => IInv'
<1> SUFFICES ASSUME IInv, [Next]_vars PROVE IInv'
  OBVIOUS
<1>1. CASE \E i \in Sendable : Send(i)
  BY <1>1, SendKept
<1>2. CASE Down
  BY <1>2, DownKept
<1>3. CASE \E p \in RxPackets : PrintRxPkt(p)
  BY <1>3, PrintKept
<1>4. CASE Up
  BY <1>4, UpKept
<1>5. CASE UNCHANGED vars
  <2>1. UNCHANGED <<dev_state, dev_d, dev_target, dev_pl, dev_output, host_state, host_d, host_target,
                    down, up, down_faults, up_faults, dev_heard, host_heard>>
    BY <1>5 DEF vars, device, host
  <2>2. (DeviceInv /\ HostInv /\ OutputInv)'
    BY <2>1 DEF IInv, DeviceInv, HostInv, OutputInv
  <2>3. (DownInv /\ UpInv /\ FaultsInv)'
    BY <2>1 DEF IInv, DownInv, UpInv, FaultsInv
  <2>4. (DevHeardInv /\ HostHeardInv)'
    BY <2>1 DEF IInv, DevHeardInv, HostHeardInv
  <2>5. DownWhole'
    BY <2>1 DEF IInv, DownWhole, DeviceHolds, Arrived
  <2>6. UpWhole'
    BY <2>1 DEF IInv, UpWhole, HostHolds
  <2>7. QED  BY <2>2, <2>3, <2>4, <2>5, <2>6 DEF IInv
<1>6. QED
  BY <1>1, <1>2, <1>3, <1>4, <1>5 DEF Next

LEMMA InvHolds == Spec => []IInv
BY InvInitially, InvKept, PTL DEF Spec

-----------------------------------------------------------------------------
(* What the host is given                                                  *)

(* The bytes behind the header, and those that the CRC covers.             *)
LEMMA LaidRest ==
  ASSUME NEW t, NEW n, NEW b, NEW B, LaidOut(B, t, n, b)
  PROVE  SubSeq(B, 4, Len(B)) = Checked(t, n, b) /\ SubSeq(B, 6, Len(B)) = b
<1> DEFINE s == Checked(t, n, b)
           x == SubSeq(B, 4, Len(B))
           y == SubSeq(B, 6, Len(B))
           l == Len(b)
<1>1. /\ b \in Seq(Bytes) /\ s \in Seq(Bytes) /\ Len(s) = 2 + l /\ s[1] = B[4] /\ s[2] = B[5]
      /\ \A k \in 1..l : s[2 + k] = b[k]
      /\ B \in Seq(Line) /\ Len(B) = 5 + l /\ \A k \in 1..l : B[5 + k] = b[k]
      /\ \A k \in 4..Len(B) : B[k] \in Bytes
  BY DEF LaidOut, SPP_HDR_SIZE
<1>2. l \in Nat
  BY <1>1
<1> HIDE DEF l, s
<1>3. x \in Seq(Bytes) /\ Len(x) = 2 + l /\ \A k \in 1..2+l : x[k] = B[4 + k - 1]
  <2>1. /\ x \in Seq(Bytes) /\ Len(x) = (IF 4 <= Len(B) THEN Len(B) - 4 + 1 ELSE 0)
        /\ \A k \in 1..Len(B)-4+1 : x[k] = B[4 + k - 1]
    BY <1>1, <1>2, SubSeqProperties
  <2>2. (IF 4 <= Len(B) THEN Len(B) - 4 + 1 ELSE 0) = 2 + l /\ Len(B) - 4 + 1 = 2 + l
    BY <1>1, <1>2
  <2>3. QED  BY <2>1, <2>2
<1>4. y \in Seq(Bytes) /\ Len(y) = l /\ \A k \in 1..l : y[k] = B[6 + k - 1]
  <2>1. \A k \in 6..Len(B) : B[k] \in Bytes
    BY <1>1, <1>2
  <2>2. /\ y \in Seq(Bytes) /\ Len(y) = (IF 6 <= Len(B) THEN Len(B) - 6 + 1 ELSE 0)
        /\ \A k \in 1..Len(B)-6+1 : y[k] = B[6 + k - 1]
    BY <1>1, <1>2, <2>1, SubSeqProperties
  <2>3. (IF 6 <= Len(B) THEN Len(B) - 6 + 1 ELSE 0) = l /\ Len(B) - 6 + 1 = l
    BY <1>1, <1>2
  <2>4. QED  BY <2>2, <2>3
<1> HIDE DEF x, y
<1>5. ASSUME NEW k \in 1..2+l PROVE x[k] = s[k]
  <2>1. CASE k = 1
    BY <1>1, <1>3, <2>1
  <2>2. CASE k = 2
    BY <1>1, <1>3, <2>2
  <2>3. CASE k # 1 /\ k # 2
    <3>1. k - 2 \in 1..l /\ 2 + (k - 2) = k /\ 5 + (k - 2) = 4 + k - 1
      BY <1>2, <2>3
    <3>2. s[2 + (k - 2)] = b[k - 2] /\ B[5 + (k - 2)] = b[k - 2]
      BY <1>1, <3>1
    <3>3. QED  BY <1>3, <3>1, <3>2
  <2>4. QED  BY <2>1, <2>2, <2>3
<1>6. x = s
  BY <1>1, <1>3, <1>5, SeqEqual
<1>7. ASSUME NEW k \in 1..l PROVE y[k] = b[k]
  <2>1. 6 + k - 1 = 5 + k
    BY <1>2
  <2>2. QED  BY <1>1, <1>4, <2>1
<1>8. y = b
  BY <1>1, <1>4, <1>7, SeqEqual DEF l
<1>9. QED
  BY <1>6, <1>8 DEF x, y, s

(* What the host's parser finds right is the packet its CRC belongs to.    *)
LEMMA HostAccepted ==
  ASSUME HostInv, HostHeardInv, NEW c \in Line, HostDone(c), Gives(c)
  PROVE  /\ host_heard \in Printed
         /\ host_emitted' = [pl_type |-> host_heard.pl_type, d |-> host_heard.d]
<1> DEFINE buf == Append(host_d, c)
           n == Len(host_d)
           s == SubSeq(buf, 4, Len(buf))
           p == host_heard
<1>1. host_state = "PAYLOAD" /\ host_d \in Seq(Line) /\ n \in Nat /\ n >= 5
  BY DEF HostDone, HostInv, SPP_HDR_SIZE
<1>2. buf \in Seq(Line) /\ Len(buf) = n + 1 /\ \A k \in 1..n : buf[k] = host_d[k]
  BY <1>1, Appended
<1>3. /\ buf[2] = <<"crc_lo", s>> /\ buf[3] = <<"crc_hi", s>>
      /\ \E t \in Readings(host_d[4]) : host_emitted' = [pl_type |-> t, d |-> SubSeq(buf, 6, Len(buf))]
  BY DEF Gives, PacketRight
<1> HIDE DEF buf, n
<1>4. Len(s) = n - 2 /\ \A k \in 1..n-2 : s[k] = buf[4 + k - 1]
  <2>1. \A k \in 4..Len(buf) : buf[k] \in Line
    <3>1. \A k \in 4..Len(buf) : k \in 1..Len(buf)
      BY <1>1, <1>2
    <3>2. QED  BY <1>2, <3>1, ElementOfSeq
  <2>2. /\ Len(s) = (IF 4 <= Len(buf) THEN Len(buf) - 4 + 1 ELSE 0)
        /\ \A k \in 1..Len(buf)-4+1 : s[k] = buf[4 + k - 1]
    BY <1>1, <1>2, <2>1, SubSeqProperties
  <2>3. (IF 4 <= Len(buf) THEN Len(buf) - 4 + 1 ELSE 0) = n - 2 /\ Len(buf) - 4 + 1 = n - 2
    BY <1>1, <1>2
  <2>4. QED  BY <2>2, <2>3
<1> HIDE DEF s
<1>5. s \in Seq(Bytes) /\ buf[2] \in CrcLo /\ buf[3] \notin CrcLo
  <2>1. 2 \in 1..Len(buf)
    BY <1>1, <1>2
  <2>2. buf[2] \in Line
    BY <1>2, <2>1, ElementOfSeq
  <2>3. s \in Seq(Bytes) /\ buf[2] \in CrcLo
    BY <1>3, <2>2, LineFacts
  <2>4. buf[3] \in CrcHi
    BY <1>3, <2>3, LineFacts
  <2>5. QED  BY <2>3, <2>4, LineFacts
<1>6. \A k \in 4..n+1 : buf[k] \in Bytes /\ buf[k] \notin CrcLo
  <2>1. ASSUME NEW k \in 4..n+1 PROVE buf[k] \in Bytes
    <3>1. k - 3 \in 1..n-2 /\ 4 + (k - 3) - 1 = k
      BY <1>1
    <3>2. s[k - 3] = buf[k] /\ s[k - 3] \in Bytes
      BY <1>4, <1>5, <3>1, ElementOfSeq
    <3>3. QED  BY <3>2
  <2>2. QED  BY <2>1, LineFacts
<1>7. host_d[2] = buf[2] /\ NoCrcIn(host_d, 3) /\ n >= 2 /\ host_d[4] = buf[4]
  <2>1. 2 \in 1..n /\ 4 \in 1..n /\ \A k \in 3..n : k \in 1..n /\ (k = 3 \/ k \in 4..n+1)
    BY <1>1
  <2>2. QED  BY <1>2, <1>5, <1>6, <2>1 DEF NoCrcIn, n
<1>8. p \in Printed /\ buf[2] = p.bytes[2]
  BY <1>1, <1>5, <1>7 DEF HostHeardInv, n
<1> HIDE DEF p
<1> DEFINE t == p.pl_type
           r == Checked(t, Len(p.d), p.d)
<1>9. LaidOut(p.bytes, t, Len(p.d), p.d)
  BY <1>8, PrintedLaid
<1>10. /\ p.d \in Seq(Bytes) /\ Len(r) = 2 + Len(p.d) /\ r[1] = Octet(t) /\ t \in Octets
       /\ \A k \in 1..Len(p.d) : r[2 + k] = p.d[k]
       /\ p.bytes[2] = <<"crc_lo", r>>
  BY <1>9 DEF LaidOut
<1> HIDE DEF t, r
<1>11. s = r
  <2>1. <<"crc_lo", s>>[2] = s /\ <<"crc_lo", r>>[2] = r
    OBVIOUS
  <2>2. QED  BY <1>3, <1>8, <1>10, <2>1
<1>12. Readings(host_d[4]) = {t}
  <2>1. 1 \in 1..n-2 /\ 4 + 1 - 1 = 4
    BY <1>1
  <2>2. host_d[4] = Octet(t)
    BY <1>4, <1>7, <1>10, <1>11, <2>1
  <2>3. QED  BY <1>10, <2>2, OctetFacts
<1>13. SubSeq(buf, 6, Len(buf)) = p.d
  <2> DEFINE y == SubSeq(buf, 6, Len(buf))
             l == Len(p.d)
  <2>1. l \in Nat /\ n = l + 4
    <3>1. l \in Nat /\ n - 2 = 2 + l
      BY <1>4, <1>10, <1>11
    <3> HIDE DEF l
    <3>2. QED  BY <1>1, <3>1
  <2> HIDE DEF l
  <2>2. y \in Seq(Bytes) /\ Len(y) = l /\ \A k \in 1..l : y[k] = buf[6 + k - 1]
    <3>1. \A k \in 6..Len(buf) : buf[k] \in Bytes
      <4>1. \A k \in 6..Len(buf) : k \in 4..n+1
        BY <1>1, <1>2
      <4>2. QED  BY <1>6, <4>1
    <3>2. /\ y \in Seq(Bytes) /\ Len(y) = (IF 6 <= Len(buf) THEN Len(buf) - 6 + 1 ELSE 0)
          /\ \A k \in 1..Len(buf)-6+1 : y[k] = buf[6 + k - 1]
      BY <1>1, <1>2, <3>1, SubSeqProperties
    <3>3. (IF 6 <= Len(buf) THEN Len(buf) - 6 + 1 ELSE 0) = l /\ Len(buf) - 6 + 1 = l
      BY <1>1, <1>2, <2>1
    <3>4. QED  BY <3>2, <3>3
  <2> HIDE DEF y
  <2>3. ASSUME NEW k \in 1..l PROVE y[k] = p.d[k]
    <3>1. 2 + k \in 1..n-2 /\ 4 + (2 + k) - 1 = 6 + k - 1
      BY <2>1
    <3>2. s[2 + k] = buf[6 + k - 1]
      BY <1>4, <3>1
    <3>3. QED  BY <1>10, <1>11, <2>2, <3>2 DEF l
  <2>4. y = p.d
    BY <1>10, <2>2, <2>3, SeqEqual DEF l
  <2>5. QED  BY <2>4 DEF y
<1>14. host_emitted' = [pl_type |-> t, d |-> p.d]
  BY <1>3, <1>12, <1>13
<1>15. QED
  BY <1>8, <1>14 DEF p, t

-----------------------------------------------------------------------------
(* What arrives whole                                                      *)

(* The last byte of a packet that arrived whole is acted on.               *)
LEMMA WholeActedOn ==
  ASSUME IInv, DownIntact, down # Idle, down' = Idle, down.whole, WellPacked(down.intent)
  PROVE  Expected(down.intent, dev_call')
<1> DEFINE i == down.intent
           B == BytesOf(i)
           k == Arrived
           c == B[k + 1]
           n == Len(B)
           b == Body(i)
           t == PlType(i)
           a == Announced(i)
<1>1. down.bytes # <<>> /\ DeviceParses(Head(down.bytes)) /\ down' = AfterByte(TRUE)
  BY DEF DownIntact
<1>2. OnLine(i, B, k) /\ DeviceInv /\ DownInv /\ DownWhole
  BY <1>1, DownFacts DEF IInv
<1>3. /\ i \in Packable /\ k \in Nat /\ n \in Nat /\ k < n /\ B \in Seq(Line) /\ c \in Line /\ Head(down.bytes) = c
      /\ LaidOut(B, t, a, b)
  BY <1>2 DEF OnLine, LaidOut
<1>4. k + 1 = n
  BY <1>1, <1>2, ByteGone
<1>5. /\ n = 5 + Len(b) /\ Len(b) > 0 /\ Len(b) \in Nat /\ b \in Seq(Bytes) /\ t \in Octets
      /\ B[2] = <<"crc_lo", Checked(t, a, b)>> /\ B[3] = <<"crc_hi", Checked(t, a, b)>> /\ B[4] = Octet(t)
      /\ B[5] = Octet(a % (SPP_PL_MAX + 1))
  BY <1>3, WellAnnounced DEF LaidOut, SPP_HDR_SIZE
<1>6. Device!SppParse(c)
  BY <1>1, <1>3 DEF DeviceParses
<1>7. k > 0 => DeviceHolds(B, k)
  BY <1>2 DEF DownWhole
<1> HIDE DEF i, B, k, n, b, t, a
<1>8. k >= 5 /\ k > 0
  <2> DEFINE l == Len(b)
  <2>1. l \in Nat /\ l > 0 /\ n = 5 + l
    BY <1>5
  <2> HIDE DEF l
  <2>2. QED  BY <1>3, <1>4, <2>1
<1>9. /\ dev_state = "PAYLOAD" /\ dev_d = SubSeq(B, 2, 5) /\ dev_pl = SubSeq(B, 6, k) /\ dev_target = n - 5
  BY <1>3, <1>7, <1>8 DEF DeviceHolds, SPP_HDR_SIZE, n
<1>10. Append(dev_pl, c) = SubSeq(B, 6, n) /\ Len(dev_pl) = (k + 1) - 6
  BY <1>3, <1>4, <1>8, <1>9, Extended DEF n
<1>11. Append(dev_pl, c) = b
  BY <1>3, <1>10, LaidRest DEF n
<1>12. /\ Len(dev_d) = 4 /\ dev_d[1] = B[2] /\ dev_d[2] = B[3] /\ dev_d[3] = B[4] /\ dev_d[4] = B[5]
       /\ dev_d \in Seq(Line)
  <2>1. 5 < Len(B) /\ 4 < Len(B) /\ 2 <= 5 + 1 /\ 5 \in Nat /\ 2 \in Nat \ {0}
    BY <1>3, <1>4, <1>8 DEF n
  <2>2. /\ SubSeq(B, 2, 5) \in Seq(Line) /\ Len(SubSeq(B, 2, 5)) = (5 + 1) - 2
        /\ \A j \in 1..(5 + 1)-2 : SubSeq(B, 2, 5)[j] = B[2 + j - 1]
    BY <1>3, <2>1, Extended
  <2>3. (5 + 1) - 2 = 4 /\ 2 + 1 - 1 = 2 /\ 2 + 2 - 1 = 3 /\ 2 + 3 - 1 = 4 /\ 2 + 4 - 1 = 5
    OBVIOUS
  <2>4. 1 \in 1..4 /\ 2 \in 1..4 /\ 3 \in 1..4 /\ 4 \in 1..4
    OBVIOUS
  <2>5. Len(dev_d) = 4 /\ dev_d \in Seq(Line) /\ \A j \in 1..4 : dev_d[j] = B[2 + j - 1]
    BY <1>9, <2>2, <2>3
  <2>6. QED  BY <2>3, <2>4, <2>5
<1>13. CrcRight(c)
  <2> DEFINE h == SubSeq(dev_d, 3, 4)
             x == Octet(t)
             y == Octet(a % (SPP_PL_MAX + 1))
  <2>1. dev_d[3] = x /\ dev_d[4] = y
    BY <1>5, <1>12
  <2>2. h = <<x, y>>
    <3>1. \A j \in 3..4 : dev_d[j] \in Line
      <4>1. \A j \in 3..4 : j \in 1..Len(dev_d)
        BY <1>12
      <4>2. QED  BY <1>12, <4>1, ElementOfSeq
    <3> HIDE DEF x, y
    <3>2. h \in Seq(Line) /\ Len(h) = 2 /\ \A j \in 1..2 : h[j] = dev_d[3 + j - 1]
      BY <3>1, SubSeqProperties
    <3>3. h[1] = x /\ h[2] = y
      BY <2>1, <3>2
    <3> HIDE DEF h
    <3>4. h = <<h[1], h[2]>>
      BY <3>2
    <3>5. QED  BY <3>3, <3>4
  <2>3. Covered(c) = Checked(t, a, b)
    BY <1>11, <2>2 DEF Covered, Checked
  <2>4. QED  BY <1>5, <1>12, <2>3 DEF CrcRight
<1>14. Readings(dev_d[3]) = {t}
  BY <1>5, <1>12, OctetFacts
<1>15. Transmits(c) \/ Runs(c) \/ Routes(c) \/ Ignores(c)
  <2>1. Len(dev_pl) + 1 = dev_target /\ ~(Len(dev_pl) + 1 < dev_target)
    BY <1>3, <1>4, <1>8, <1>9, <1>10
  <2>2. QED
    BY <1>2, <1>3, <1>6, <1>9, <2>1, DeviceSteps DEF Started, InHeader, HeaderDone, InPayload
<1>16. Expected(i, dev_call')
  BY <1>3, <1>11, <1>13, <1>14, <1>15, ActedOn DEF b, t
<1>17. QED
  BY <1>16 DEF i

(* The last byte of a packet that arrived whole gives it to the host.      *)
LEMMA WholeGiven ==
  ASSUME IInv, UpIntact, UpLast, up.whole
  PROVE  host_emitted' = [pl_type |-> Head(dev_output).pl_type, d |-> Head(dev_output).d]
<1> DEFINE p == Head(dev_output)
           B == p.bytes
           k == up.sent
           c == B[k + 1]
           n == Len(B)
           t == p.pl_type
           b == p.d
<1>1. dev_output # <<>> /\ HostParses(UpByte) /\ HostInv /\ UpWhole /\ OutputInv /\ UpInv
  BY DEF UpIntact, IInv
<1>2. OnLineUp(p, B, k)
  BY <1>1, UpFacts
<1>3. /\ k \in Nat /\ n \in Nat /\ k < n /\ B \in Seq(Line) /\ c \in Line /\ UpByte = c
      /\ (UpLast <=> k + 1 = n) /\ LaidOut(B, t, Len(b), b) /\ p \in Printed /\ Len(b) \in 1..SPP_PL_MAX
  BY <1>2 DEF OnLineUp
<1>4. k + 1 = n /\ Host!HostParse(c)
  BY <1>1, <1>3 DEF HostParses
<1>5. HostHolds(B, k)
  BY <1>1 DEF UpWhole
<1>6. /\ n = 5 + Len(b) /\ t \in Octets /\ B[4] = Octet(t)
      /\ B[2] = <<"crc_lo", Checked(t, Len(b), b)>> /\ B[3] = <<"crc_hi", Checked(t, Len(b), b)>>
  BY <1>3 DEF LaidOut, SPP_HDR_SIZE
<1>7. SubSeq(B, 4, n) = Checked(t, Len(b), b) /\ SubSeq(B, 6, n) = b /\ SubSeq(B, 1, n) = B
  <2>1. SubSeq(B, 4, n) = Checked(t, Len(b), b) /\ SubSeq(B, 6, n) = b
    <3> HIDE DEF B, t, b
    <3>1. QED  BY <1>3, LaidRest
  <2>2. SubSeq(B, 1, n) = B
    <3> HIDE DEF B
    <3>1. QED  BY <1>3, SubSeqFull
  <2>3. QED  BY <2>1, <2>2
<1> HIDE DEF p, B, k, n, b, t
<1>8. k >= 5 /\ n >= 6
  <2> DEFINE l == Len(b)
  <2>1. l \in 1..SPP_PL_MAX /\ n = 5 + l
    BY <1>3, <1>6
  <2> HIDE DEF l
  <2>2. QED  BY <1>3, <1>4, <2>1
<1>9. host_state = "PAYLOAD" /\ host_d = SubSeq(B, 1, k) /\ host_target = n
  BY <1>3, <1>5, <1>8 DEF HostHolds, SPP_HDR_SIZE, n
<1>10. Append(host_d, c) = B /\ Len(host_d) = k /\ host_d[4] = B[4]
  <2>1. 1 <= k + 1 /\ (k + 1) - 1 = k /\ 4 \in 1..k /\ 1 + 4 - 1 = 4
    BY <1>3, <1>8
  <2>2. /\ Append(SubSeq(B, 1, k), c) = SubSeq(B, 1, k + 1) /\ Len(SubSeq(B, 1, k)) = (k + 1) - 1
        /\ \A j \in 1..(k + 1)-1 : SubSeq(B, 1, k)[j] = B[1 + j - 1]
    BY <1>3, <2>1, Extended DEF n
  <2>3. SubSeq(B, 1, k)[4] = B[4]
    <3>1. 4 \in 1..(k + 1)-1
      BY <2>1
    <3>2. SubSeq(B, 1, k)[4] = B[1 + 4 - 1]
      BY <2>2, <3>1
    <3>3. QED  BY <2>1, <3>2
  <2>4. QED  BY <1>4, <1>7, <1>9, <2>1, <2>2, <2>3
<1>11. PacketRight(B)
  BY <1>6, <1>7 DEF PacketRight, n
<1>12. HostDone(c) /\ Gives(c)
  <2>1. Len(host_d) + 1 = host_target /\ host_target # 5
    <3>1. Len(host_d) + 1 = n
      BY <1>4, <1>10
    <3>2. n # 5
      BY <1>3, <1>8
    <3>3. QED  BY <1>9, <3>1, <3>2
  <2>2. QED
    BY <1>1, <1>3, <1>4, <1>9, <1>10, <1>11, <2>1, HostSteps
    DEF HostStarted, HostInHeader, HostHeaderDone, HostInPayload, HostFull
<1>13. Readings(host_d[4]) = {t}
  BY <1>6, <1>10, OctetFacts
<1>14. host_emitted' = [pl_type |-> t, d |-> b]
  BY <1>7, <1>10, <1>12, <1>13 DEF Gives, n
<1>15. QED
  BY <1>14 DEF p, t, b

-----------------------------------------------------------------------------
(* Replies                                                                 *)

(* A sequence of packets divides what is owed: off[k] bytes of it are in   *)
(* the first k packets.                                                    *)
Owes(p) == IF p.pl_type = NGHAM_SPP_TYPE_CMD THEN p.d ELSE <<>>

Divides(off, s, q) ==
  /\ off \in [0..Len(q) -> Nat] /\ off[0] = 0 /\ off[Len(q)] = Len(s)
  /\ \A i, k \in 0..Len(q) : i <= k => off[i] <= off[k]
  /\ \A k \in 1..Len(q) : /\ off[k] = off[k - 1] + Len(Owes(q[k]))
                          /\ \A j \in 1..Len(Owes(q[k])) : s[off[k - 1] + j] = Owes(q[k])[j]

(* As long as the line to the host has had no fault, the packets on it     *)
(* make up what is owed, and the host's parser has all of the first one    *)
(* that was sent.                                                          *)
OwedInv ==
  up_faults = 0 =>
    /\ owed \in Seq(Bytes) /\ \E off : Divides(off, owed, dev_output)
    /\ IF up.sent = 0 THEN host_state = "START" ELSE up.whole

LEMMA OwesBytes ==
  ASSUME NEW p \in Printed
  PROVE  Owes(p) \in Seq(Bytes)
BY DEF Printed, Owes

LEMMA NothingDivided == Divides([k \in 0..0 |-> 0], <<>>, <<>>)
<1> DEFINE off == [k \in 0..0 |-> 0]
           q == <<>>
<1>1. Len(q) = 0 /\ off \in [0..0 -> Nat] /\ off[0] = 0 /\ \A k \in 0..0 : k = 0
  OBVIOUS
<1> HIDE DEF off, q
<1>2. Divides(off, q, q)
  <2>1. \A i, k \in 0..0 : i <= k => off[i] <= off[k]
    BY <1>1
  <2>2. 1..0 = {}
    OBVIOUS
  <2>3. QED  BY <1>1, <2>1, <2>2 DEF Divides
<1>3. QED  BY <1>2 DEF off, q

(* More packets with more bytes behind.                                    *)
LEMMA DividedMore ==
  ASSUME NEW q \in Seq(Printed), NEW r \in Seq(Printed), NEW s \in Seq(Bytes), NEW t \in Seq(Bytes),
         NEW off, Divides(off, s, q), NEW more, Divides(more, t, r)
  PROVE  \E o : Divides(o, s \o t, q \o r)
<1> DEFINE n == Len(q)
           m == Len(r)
           l == Len(s)
           o == [k \in 0..n+m |-> IF k <= n THEN off[k] ELSE l + more[k - n]]
<1>1. Joins(Printed, q, r) /\ Joins(Bytes, s, t) /\ n \in Nat /\ m \in Nat /\ l \in Nat /\ Len(t) \in Nat
  BY Joined
<1>2. /\ off \in [0..n -> Nat] /\ off[0] = 0 /\ off[n] = l
      /\ \A i, k \in 0..n : i <= k => off[i] <= off[k]
      /\ \A k \in 1..n : /\ off[k] = off[k - 1] + Len(Owes(q[k]))
                         /\ \A j \in 1..Len(Owes(q[k])) : s[off[k - 1] + j] = Owes(q[k])[j]
  BY DEF Divides
<1>3. /\ more \in [0..m -> Nat] /\ more[0] = 0 /\ more[m] = Len(t)
      /\ \A i, k \in 0..m : i <= k => more[i] <= more[k]
      /\ \A k \in 1..m : /\ more[k] = more[k - 1] + Len(Owes(r[k]))
                         /\ \A j \in 1..Len(Owes(r[k])) : t[more[k - 1] + j] = Owes(r[k])[j]
  BY DEF Divides
<1>4. /\ q \o r \in Seq(Printed) /\ Len(q \o r) = n + m
      /\ \A k \in 1..n : (q \o r)[k] = q[k]
      /\ \A k \in 1..m : (q \o r)[n + k] = r[k]
      /\ s \o t \in Seq(Bytes) /\ Len(s \o t) = l + Len(t)
      /\ \A k \in 1..l : (s \o t)[k] = s[k]
      /\ \A k \in 1..Len(t) : (s \o t)[l + k] = t[k]
  BY <1>1 DEF Joins
<1>5. /\ \A k \in 0..n : o[k] = off[k]
      /\ \A k \in 0..m : o[n + k] = l + more[k]
  <2>1. \A k \in 0..n : k \in 0..n+m /\ k <= n
    BY <1>1
  <2>2. ASSUME NEW k \in 0..m PROVE o[n + k] = l + more[k]
    <3>1. n + k \in 0..n+m /\ (n + k) - n = k /\ (n + k <= n => k = 0)
      BY <1>1
    <3>2. CASE k = 0
      BY <1>1, <1>2, <1>3, <3>1, <3>2
    <3>3. CASE k # 0
      BY <3>1, <3>3
    <3>4. QED  BY <3>2, <3>3
  <2>3. QED  BY <2>1, <2>2
<1>6. o \in [0..n+m -> Nat]
  <2>1. ASSUME NEW k \in 0..n+m PROVE o[k] \in Nat
    <3>1. CASE k \in 0..n
      BY <1>2, <1>5, <3>1
    <3>2. CASE k \notin 0..n
      <4>1. k - n \in 0..m /\ n + (k - n) = k
        BY <1>1, <3>2
      <4>2. o[n + (k - n)] = l + more[k - n]
        BY <1>5, <4>1
      <4>3. more[k - n] \in Nat
        BY <1>3, <4>1
      <4>4. \A x \in Nat : l + x \in Nat
        BY <1>1
      <4>5. QED  BY <4>1, <4>2, <4>3, <4>4
    <3>3. QED  BY <3>1, <3>2
  <2> DEFINE f(k) == IF k <= n THEN off[k] ELSE l + more[k - n]
  <2>2. o = [k \in 0..n+m |-> f(k)]
    OBVIOUS
  <2> HIDE DEF o, f
  <2>3. QED  BY <2>1, <2>2
<1> HIDE DEF o, n, m, l
<1>7. \A k \in 0..n+m : k \in 0..n \/ \E j \in 1..m : k = n + j
  <2>1. ASSUME NEW k \in 0..n+m, k \notin 0..n PROVE k - n \in 1..m /\ k = n + (k - n)
    BY <1>1, <2>1
  <2>2. QED  BY <2>1
<1>8. ASSUME NEW i \in 0..n+m, NEW k \in 0..n+m, i <= k
      PROVE  o[i] <= o[k]
  <2>1. CASE k \in 0..n
    <3>1. i \in 0..n
      BY <1>1, <1>8, <2>1
    <3>2. QED  BY <1>2, <1>5, <1>8, <2>1, <3>1
  <2>2. CASE i \in 0..n /\ k \notin 0..n
    <3>1. PICK j \in 1..m : k = n + j
      BY <1>7, <2>2
    <3>2. o[k] = l + more[j] /\ more[j] \in Nat
      <4>1. j \in 0..m
        BY <1>1
      <4>2. QED  BY <1>3, <1>5, <3>1, <4>1
    <3>3. o[i] = off[i] /\ off[i] <= l /\ off[i] \in Nat
      BY <1>1, <1>2, <1>5, <2>2
    <3>4. QED  BY <1>1, <3>2, <3>3
  <2>3. CASE i \notin 0..n
    <3>1. PICK j \in 1..m : i = n + j
      BY <1>7, <2>3
    <3>2. k \notin 0..n
      BY <1>1, <1>8, <2>3
    <3>3. PICK h \in 1..m : k = n + h
      BY <1>7, <3>2
    <3>4. j <= h /\ j \in 0..m /\ h \in 0..m
      BY <1>1, <1>8, <3>1, <3>3
    <3>5. more[j] <= more[h] /\ more[j] \in Nat /\ more[h] \in Nat
      BY <1>3, <3>4
    <3>6. o[i] = l + more[j] /\ o[k] = l + more[h]
      BY <1>5, <3>1, <3>3, <3>4
    <3>7. QED  BY <1>1, <3>5, <3>6
  <2>4. QED  BY <2>1, <2>2, <2>3
<1>9. ASSUME NEW k \in 1..n+m
      PROVE  /\ o[k] = o[k - 1] + Len(Owes((q \o r)[k]))
             /\ \A j \in 1..Len(Owes((q \o r)[k])) : (s \o t)[o[k - 1] + j] = Owes((q \o r)[k])[j]
  <2>1. CASE k \in 1..n
    <3>1. k \in 0..n /\ k - 1 \in 0..n /\ (q \o r)[k] = q[k]
      BY <1>1, <1>4, <2>1
    <3>2. o[k] = off[k] /\ o[k - 1] = off[k - 1] /\ off[k] = off[k - 1] + Len(Owes(q[k]))
      BY <1>2, <1>5, <2>1, <3>1
    <3>3. ASSUME NEW j \in 1..Len(Owes(q[k])) PROVE (s \o t)[off[k - 1] + j] = Owes(q[k])[j]
      <4>1. off[k - 1] \in Nat /\ off[k] <= off[n] /\ off[n] = l /\ off[k] \in Nat
        BY <1>1, <1>2, <2>1, <3>1
      <4> DEFINE w == Len(Owes(q[k]))
      <4>2. w \in Nat
        <5>1. q[k] \in Printed
          BY <2>1, ElementOfSeq DEF n
        <5>2. QED  BY <5>1, OwesBytes, LenProperties
      <4> HIDE DEF w
      <4>3. off[k - 1] + j \in 1..l
        <5>1. j \in 1..w /\ off[k] = off[k - 1] + w
          BY <3>2, <3>3 DEF w
        <5> DEFINE a == off[k - 1]
                   b == off[k]
        <5>2. a \in Nat /\ b \in Nat /\ b <= l /\ b = a + w /\ j \in 1..w
          BY <4>1, <5>1
        <5> HIDE DEF a, b
        <5>3. a + j \in 1..l
          BY <1>1, <4>2, <5>2
        <5>4. QED  BY <5>3 DEF a
      <4>4. (s \o t)[off[k - 1] + j] = s[off[k - 1] + j]
        BY <1>4, <4>3
      <4>5. QED  BY <1>2, <2>1, <3>3, <4>4
    <3>4. QED  BY <3>1, <3>2, <3>3
  <2>2. CASE k \notin 1..n
    <3>1. PICK i \in 1..m : k = n + i
      <4>1. k \notin 0..n /\ k \in 0..n+m
        BY <1>1, <2>2
      <4>2. QED  BY <1>7, <4>1
    <3>2. i \in 0..m /\ i - 1 \in 0..m /\ k - 1 = n + (i - 1) /\ (q \o r)[k] = r[i]
      BY <1>1, <1>4, <3>1
    <3>3. o[k] = l + more[i] /\ o[k - 1] = l + more[i - 1] /\ more[i] = more[i - 1] + Len(Owes(r[i]))
          /\ more[i - 1] \in Nat /\ more[i] \in Nat /\ more[i] <= more[m]
      BY <1>1, <1>3, <1>5, <3>1, <3>2
    <3> DEFINE w == Len(Owes(r[i]))
    <3>4. w \in Nat
      <4>1. r[i] \in Printed
        BY <3>1, ElementOfSeq DEF m
      <4>2. QED  BY <4>1, OwesBytes, LenProperties
    <3>5. o[k] = o[k - 1] + w
      <4> HIDE DEF w
      <4> DEFINE a == more[i - 1]
      <4>1. a \in Nat /\ o[k] = l + (a + w) /\ o[k - 1] = l + a
        BY <3>3 DEF w
      <4> HIDE DEF a
      <4>2. QED  BY <1>1, <3>4, <4>1
    <3>6. ASSUME NEW j \in 1..w PROVE (s \o t)[o[k - 1] + j] = Owes(r[i])[j]
      <4>1. t[more[i - 1] + j] = Owes(r[i])[j] /\ more[i] = more[i - 1] + w /\ more[m] = Len(t)
        BY <1>3, <3>1, <3>3, <3>6
      <4> HIDE DEF w
      <4>2. more[i - 1] + j \in 1..Len(t) /\ o[k - 1] + j = l + (more[i - 1] + j)
        <5> DEFINE a == more[i - 1]
                   b == more[i]
                   z == Len(t)
                   x == o[k - 1]
        <5>1. a \in Nat /\ b \in Nat /\ b <= z /\ b = a + w /\ j \in 1..w /\ x = l + a /\ z \in Nat
          BY <1>1, <3>3, <3>6, <4>1 DEF w
        <5> HIDE DEF a, b, z, x
        <5>2. a + j \in 1..z /\ x + j = l + (a + j)
          BY <1>1, <3>4, <5>1
        <5>3. QED  BY <5>2 DEF a, z, x
      <4>3. QED  BY <1>4, <4>1, <4>2
    <3>7. QED  BY <3>2, <3>5, <3>6
  <2>3. QED  BY <2>1, <2>2
<1>10. o[0] = 0 /\ o[n + m] = l + Len(t)
  <2>1. 0 \in 0..n /\ m \in 0..m
    BY <1>1
  <2>2. QED  BY <1>2, <1>3, <1>5, <2>1
<1>11. Divides(o, s \o t, q \o r)
  BY <1>4, <1>6, <1>8, <1>9, <1>10 DEF Divides
<1>12. QED
  BY <1>11

(* The packets of a reply divide it.                                       *)
LEMMA ReplyDivided ==
  ASSUME NEW rep \in Replies
  PROVE  \E off : Divides(off, rep, Device!SppPrintCmd(rep))
<1> DEFINE n == Chunks(rep)
           q == Device!SppPrintCmd(rep)
           off == [k \in 0..n |-> UpTo(rep, k)]
<1>1. n \in Nat /\ UpTo(rep, 0) = 0 /\ UpTo(rep, n) = Len(rep)
  BY ChunkEnds
<1>2. Len(q) = n /\ \A k \in 1..n : q[k].pl_type = NGHAM_SPP_TYPE_CMD /\ q[k].d = Chunk(rep, k)
  <2> HIDE DEF n
  <2>1. QED  BY <1>1, ReplyPackets DEF n
<1>3. \A k \in 1..n : Owes(q[k]) = Chunk(rep, k)
  BY <1>2 DEF Owes
<1>4. \A k \in 0..n : off[k] = UpTo(rep, k) /\ UpTo(rep, k) \in Nat
  BY ChunkEnds
<1>5. off \in [0..n -> Nat]
  BY <1>4
<1>6. \A i, k \in 0..n : i <= k => off[i] <= off[k]
  BY ChunkEnds
<1>7. 0 \in 0..n /\ n \in 0..n
  BY <1>1
<1> HIDE DEF off
<1>8. ASSUME NEW k \in 1..n
      PROVE  /\ off[k] = off[k - 1] + Len(Owes(q[k]))
             /\ \A j \in 1..Len(Owes(q[k])) : rep[off[k - 1] + j] = Owes(q[k])[j]
  <2>1. k \in 0..n /\ k - 1 \in 0..n
    BY <1>1
  <2>2. off[k] = UpTo(rep, k) /\ off[k - 1] = UpTo(rep, k - 1)
    BY <1>4, <2>1
  <2>3. QED  BY <1>3, <2>2, ChunkBytes
<1> HIDE DEF n, q
<1>9. Divides(off, rep, q)
  BY <1>1, <1>2, <1>4, <1>5, <1>6, <1>7, <1>8 DEF Divides
<1>10. QED
  BY <1>9 DEF q

(* The first packet goes, and with it the first bytes.                     *)
LEMMA DividedRest ==
  ASSUME NEW q \in Seq(Printed), q # <<>>, NEW s \in Seq(Bytes), NEW off, Divides(off, s, q)
  PROVE  LET w == Owes(Head(q))
         IN  /\ w = SubSeq(s, 1, Len(w)) /\ SubSeq(s, Len(w) + 1, Len(s)) \in Seq(Bytes)
             /\ \E o : Divides(o, SubSeq(s, Len(w) + 1, Len(s)), Tail(q))
             /\ Tail(q) = <<>> => w = s
<1> DEFINE n == Len(q)
           w == Owes(Head(q))
           l == Len(w)
           z == Len(s)
           rest == SubSeq(s, l + 1, z)
           o == [k \in 0..n-1 |-> off[k + 1] - l]
<1>1. /\ off \in [0..n -> Nat] /\ off[0] = 0 /\ off[n] = z
      /\ \A i, k \in 0..n : i <= k => off[i] <= off[k]
      /\ \A k \in 1..n : /\ off[k] = off[k - 1] + Len(Owes(q[k]))
                         /\ \A j \in 1..Len(Owes(q[k])) : s[off[k - 1] + j] = Owes(q[k])[j]
  BY DEF Divides
<1>2. /\ n \in Nat /\ z \in Nat /\ Head(q) = q[1] /\ Head(q) \in Printed /\ Len(Tail(q)) = n - 1 /\ n # 0
      /\ Tail(q) \in Seq(Printed) /\ \A k \in 1..n-1 : Tail(q)[k] = q[k + 1]
  <2>1. n # 0
    BY EmptySeq
  <2>2. QED  BY <2>1, HeadTailProperties
<1>3. w \in Seq(Bytes) /\ l \in Nat
  BY <1>2, OwesBytes
<1> HIDE DEF n, z
<1>4. 1 \in 1..n /\ 1 - 1 = 0 /\ 1 \in 0..n /\ n \in 0..n /\ n - 1 \in Nat
  BY <1>2
<1>5. off[1] = 0 + l /\ \A j \in 1..l : s[0 + j] = w[j]
  <2> HIDE DEF l, w
  <2>1. off[1] = off[1 - 1] + Len(Owes(q[1])) /\ \A j \in 1..Len(Owes(q[1])) : s[off[1 - 1] + j] = Owes(q[1])[j]
    BY <1>1, <1>4
  <2>2. QED  BY <1>1, <1>2, <1>4, <2>1 DEF l, w
<1> HIDE DEF l, w
<1>6. off[1] = l /\ l <= z /\ \A j \in 1..l : s[j] = w[j]
  <2>1. off[1] <= off[n] /\ off[n] = z
    BY <1>1, <1>2, <1>4
  <2>2. 0 + l = l /\ \A j \in 1..l : 0 + j = j
    BY <1>3
  <2>3. QED  BY <1>5, <2>1, <2>2
<1>7. w = SubSeq(s, 1, l)
  <2>1. \A k \in 1..l : s[k] \in Bytes
    BY <1>2, <1>3, <1>6 DEF z
  <2>2. SubSeq(s, 1, l) \in Seq(Bytes) /\ Len(SubSeq(s, 1, l)) = l /\ \A k \in 1..l : SubSeq(s, 1, l)[k] = s[k]
    BY <1>2, <1>3, <1>6, SubSeqProperties DEF z
  <2>3. QED  BY <1>3, <1>6, <2>2, SeqEqual DEF l
<1>8. rest \in Seq(Bytes) /\ Len(rest) = z - l /\ \A k \in 1..z-l : rest[k] = s[l + k]
  <2>1. \A k \in l+1..z : s[k] \in Bytes
    BY <1>2, <1>3, <1>6 DEF z
  <2>2. rest \in Seq(Bytes) /\ Len(rest) = z - (l + 1) + 1 /\ \A k \in 1..z-(l + 1)+1 : rest[k] = s[(l + 1) + k - 1]
    BY <1>2, <1>3, <1>6, <2>1, SubSeqProperties DEF z
  <2>3. z - (l + 1) + 1 = z - l /\ \A k \in 1..z-l : (l + 1) + k - 1 = l + k
    BY <1>2, <1>3
  <2>4. QED  BY <2>2, <2>3
<1> HIDE DEF rest
<1>9. ASSUME NEW k \in 0..n-1
      PROVE  k + 1 \in 0..n /\ off[k + 1] \in Nat /\ l <= off[k + 1] /\ o[k] = off[k + 1] - l /\ o[k] \in Nat
  <2>1. k + 1 \in 0..n /\ 1 <= k + 1
    BY <1>2, <1>4
  <2>2. off[k + 1] \in Nat /\ off[1] <= off[k + 1] /\ o[k] = off[k + 1] - l
    BY <1>1, <1>4, <2>1
  <2> DEFINE x == off[k + 1]
  <2>3. x \in Nat /\ l <= x /\ o[k] = x - l
    BY <1>6, <2>2
  <2> HIDE DEF x, o
  <2>4. o[k] \in Nat
    BY <1>3, <2>3
  <2>5. QED  BY <2>1, <2>3, <2>4 DEF x
<1>10. o \in [0..n-1 -> Nat]
  <2> DEFINE f(k) == off[k + 1] - l
  <2>1. o = [k \in 0..n-1 |-> f(k)]
    OBVIOUS
  <2>2. \A k \in 0..n-1 : f(k) = o[k]
    OBVIOUS
  <2> HIDE DEF o, f
  <2>3. QED  BY <1>9, <2>1, <2>2
<1> HIDE DEF o
<1>11. ASSUME NEW i \in 0..n-1, NEW k \in 0..n-1, i <= k
       PROVE  o[i] <= o[k]
  <2>1. off[i + 1] <= off[k + 1]
    <3>1. i + 1 \in 0..n /\ k + 1 \in 0..n /\ i + 1 <= k + 1
      BY <1>2, <1>4, <1>11
    <3>2. QED  BY <1>1, <3>1
  <2> DEFINE x == off[i + 1]
             y == off[k + 1]
  <2>2. x \in Nat /\ y \in Nat /\ x <= y /\ o[i] = x - l /\ o[k] = y - l
    BY <1>9, <2>1
  <2> HIDE DEF x, y
  <2>3. QED  BY <1>3, <2>2
<1>12. ASSUME NEW k \in 1..n-1
       PROVE  /\ o[k] = o[k - 1] + Len(Owes(Tail(q)[k]))
              /\ \A j \in 1..Len(Owes(Tail(q)[k])) : rest[o[k - 1] + j] = Owes(Tail(q)[k])[j]
  <2> DEFINE v == Owes(q[k + 1])
             h == Len(v)
             x == off[k]
             y == off[k + 1]
  <2>1. k + 1 \in 1..n /\ (k + 1) - 1 = k /\ k \in 0..n-1 /\ k - 1 \in 0..n-1 /\ (k - 1) + 1 = k /\ k + 1 \in 0..n
    BY <1>2, <1>4
  <2>2. Tail(q)[k] = q[k + 1] /\ y = x + h /\ \A j \in 1..h : s[x + j] = v[j]
    <3>1. off[k + 1] = off[(k + 1) - 1] + Len(Owes(q[k + 1]))
          /\ \A j \in 1..Len(Owes(q[k + 1])) : s[off[(k + 1) - 1] + j] = Owes(q[k + 1])[j]
      BY <1>1, <2>1
    <3>2. QED  BY <1>2, <2>1, <3>1
  <2>3. o[k] = y - l /\ o[k - 1] = x - l /\ x \in Nat /\ y \in Nat /\ l <= x
    BY <1>9, <2>1
  <2>4. y <= z
    BY <1>1, <1>4, <2>1
  <2>5. h \in Nat
    <3>1. q[k + 1] \in Printed
      BY <2>1, ElementOfSeq DEF n
    <3>2. QED  BY <3>1, OwesBytes, LenProperties
  <2>6. o[k] = o[k - 1] + h
    <3> HIDE DEF x, y, h
    <3>1. QED  BY <1>3, <2>2, <2>3, <2>5
  <2>7. ASSUME NEW j \in 1..h PROVE rest[o[k - 1] + j] = v[j]
    <3>1. s[x + j] = v[j]
      BY <2>2
    <3>2. o[k - 1] + j \in 1..z-l /\ l + (o[k - 1] + j) = x + j
      <4> HIDE DEF x, y, h
      <4>1. QED  BY <1>2, <1>3, <2>2, <2>3, <2>4, <2>5, <2>7
    <3>3. QED  BY <1>8, <3>1, <3>2
  <2>8. QED  BY <2>2, <2>6, <2>7
<1>13. o[0] = 0 /\ o[n - 1] = z - l
  <2>1. 0 \in 0..n-1 /\ n - 1 \in 0..n-1 /\ 0 + 1 = 1 /\ (n - 1) + 1 = n
    BY <1>2, <1>4
  <2>2. o[0] = off[1] - l /\ o[n - 1] = off[n] - l
    BY <1>9, <2>1
  <2>3. QED  BY <1>1, <1>3, <1>6, <2>2
<1>14. Divides(o, rest, Tail(q))
  BY <1>2, <1>8, <1>10, <1>11, <1>12, <1>13 DEF Divides
<1>15. Tail(q) = <<>> => w = s
  <2> SUFFICES ASSUME Tail(q) = <<>> PROVE w = s
    OBVIOUS
  <2>1. n - 1 = 0
    BY <1>2
  <2>2. n = 1
    BY <1>2, <2>1
  <2>3. l = z
    BY <1>1, <1>6, <2>2
  <2>4. QED  BY <1>3, <1>6, <2>3, SeqEqual DEF l, z
<1>16. QED
  BY <1>7, <1>8, <1>14, <1>15 DEF w, l, z, rest

-----------------------------------------------------------------------------
(* What is owed, step by step                                              *)

LEMMA OwedInitially == Init => OwedInv
<1> SUFFICES ASSUME Init PROVE OwedInv
  OBVIOUS
<1>1. dev_output = <<>> /\ owed = <<>> /\ host_state = "START" /\ up = [sent |-> 0, whole |-> FALSE]
  BY DEF Init, Device!Init, Host!Init
<1>2. up.sent = 0 /\ <<>> \in Seq(Bytes)
  BY <1>1
<1>3. \E off : Divides(off, owed, dev_output)
  BY <1>1, NothingDivided
<1>4. QED
  BY <1>1, <1>2, <1>3 DEF OwedInv

(* Packets with more of what is owed are added behind the others.          *)
LEMMA OwedGrown ==
  ASSUME OutputInv, OwedInv, up_faults' = up_faults, UNCHANGED <<up, host>>,
         NEW s \in Seq(Printed), NEW t \in Seq(Bytes), \E more : Divides(more, t, s),
         dev_output' = dev_output \o s, up_faults = 0 => owed' = owed \o t
  PROVE  OwedInv'
<1> SUFFICES ASSUME up_faults = 0
             PROVE  /\ owed' \in Seq(Bytes) /\ \E off : Divides(off, owed', dev_output')
                    /\ IF up'.sent = 0 THEN host_state' = "START" ELSE up'.whole
  BY DEF OwedInv
<1>1. /\ owed \in Seq(Bytes) /\ dev_output \in Seq(Printed)
      /\ IF up.sent = 0 THEN host_state = "START" ELSE up.whole
  BY DEF OwedInv, OutputInv
<1>2. PICK off : Divides(off, owed, dev_output)
  BY DEF OwedInv
<1>3. PICK more : Divides(more, t, s)
  OBVIOUS
<1>4. \E o : Divides(o, owed \o t, dev_output \o s)
  BY <1>1, <1>2, <1>3, DividedMore
<1>5. owed \o t \in Seq(Bytes)
  BY <1>1, ConcatProperties
<1>6. QED
  BY <1>1, <1>4, <1>5 DEF host

(* A call of the modem's parser owes the reply that it prints.             *)
LEMMA ParserOwes ==
  ASSUME DeviceInv, OutputInv, OwedInv, up_faults' = up_faults, UNCHANGED <<up, host>>,
         NEW c \in Line, DeviceParses(c)
  PROVE  OwedInv'
<1>1. /\ Device!SppParse(c) /\ dev_output \in Seq(Printed) /\ <<>> \in Seq(Printed) /\ <<>> \in Seq(Bytes)
      /\ owed' = (IF dev_call'.fn = "cmd" /\ up_faults = 0 THEN owed \o dev_call'.rep ELSE owed)
  BY DEF DeviceParses, OutputInv
<1>2. CASE \E rep \in Replies : /\ dev_output' = dev_output \o Device!SppPrintCmd(rep)
                                /\ dev_call'.fn = "cmd" /\ dev_call'.rep = rep
  <2>1. PICK rep \in Replies : /\ dev_output' = dev_output \o Device!SppPrintCmd(rep)
                               /\ dev_call'.fn = "cmd" /\ dev_call'.rep = rep
    BY <1>2
  <2>2. Device!SppPrintCmd(rep) \in Seq(Printed) /\ rep \in Seq(Bytes)
        /\ \E more : Divides(more, rep, Device!SppPrintCmd(rep))
    BY RepliesPrinted, ReplyDivided, ReplyAssumption
  <2>3. up_faults = 0 => owed' = owed \o rep
    BY <1>1, <2>1
  <2>4. QED  BY <2>1, <2>2, <2>3, OwedGrown
<1>3. CASE dev_output' = dev_output /\ dev_call'.fn # "cmd"
  <2>1. owed' = owed
    BY <1>1, <1>3
  <2>2. QED  BY <1>3, <2>1 DEF OwedInv, host
<1>4. QED
  <2>1. CASE Quiet
    BY <1>3, <2>1 DEF Quiet, Device!NoCall
  <2>2. CASE Runs(c)
    <3>1. PICK rep \in Replies : /\ dev_call' = [fn |-> "cmd", d |-> Append(dev_pl, c), rep |-> rep]
                                 /\ dev_output' = dev_output \o Device!SppPrintCmd(rep)
      BY <2>2 DEF Runs
    <3>2. dev_call'.fn = "cmd" /\ dev_call'.rep = rep
      BY <3>1
    <3>3. QED  BY <1>2, <3>1, <3>2
  <2>3. CASE Transmits(c)
    BY <1>3, <2>3 DEF Transmits, Device!NoCall
  <2>4. CASE Routes(c)
    BY <1>3, <2>4 DEF Routes, Device!NoCall
  <2>5. CASE Ignores(c)
    BY <2>1, <2>5 DEF Ignores
  <2>6. QED  BY <1>1, <2>1, <2>2, <2>3, <2>4, <2>5, DeviceSteps

(* While nothing goes wrong on the line, the parser is silent until the    *)
(* last byte of a packet and then gives the host what the packet holds.    *)
LEMMA PartGiven ==
  ASSUME IInv, OwedInv, up_faults = 0, UpIntact
  PROVE  /\ UpLast => up.whole /\ ReplyPart = Owes(Head(dev_output)) /\ host_state' = "START"
         /\ ~UpLast => ReplyPart = <<>> /\ up'.whole /\ up'.sent # 0
<1>1. /\ dev_output # <<>> /\ HostParses(UpByte) /\ UpAfterByte(TRUE)
      /\ HostInv /\ OutputInv /\ UpInv /\ UpWhole
  BY DEF UpIntact, IInv
<1>2. UpByte \in Line /\ Head(dev_output) \in Printed /\ Host!HostParse(UpByte)
  BY <1>1, HeardUp DEF HostParses
<1>3. IF up.sent = 0 THEN host_state = "START" ELSE up.whole
  BY DEF OwedInv
<1>4. OnLineUp(Head(dev_output), Head(dev_output).bytes, up.sent)
  BY <1>1, UpFacts
<1>5. CASE UpLast
  <2> DEFINE p == Head(dev_output)
             k == up.sent
             n == Len(p.bytes)
             l == Len(p.d)
  <2>1. k \in Nat /\ k + 1 = n /\ n = 5 + l /\ l \in 1..SPP_PL_MAX
    BY <1>4, <1>5 DEF OnLineUp, LaidOut, SPP_HDR_SIZE
  <2>2. k # 0
    <3> HIDE DEF k, n, l
    <3>1. QED  BY <2>1
  <2>3. up.whole
    BY <1>3, <2>2
  <2> HIDE DEF k, n, l
  <2>4. host_emitted' = [pl_type |-> p.pl_type, d |-> p.d]
    BY <1>5, <2>3, WholeGiven
  <2>5. host_emitted' # Host!Nothing /\ host_emitted'.pl_type = p.pl_type /\ host_emitted'.d = p.d
    <3>1. p.pl_type \in Nat
      BY <1>2, PrintedLaid, OctetFacts
    <3> DEFINE t == p.pl_type
               b == p.d
    <3>2. host_emitted' = [pl_type |-> t, d |-> b] /\ t \in Nat
      BY <2>4, <3>1
    <3> HIDE DEF t, b
    <3>3. host_emitted' # Host!Nothing /\ host_emitted'.pl_type = t /\ host_emitted'.d = b
      BY <3>2 DEF Host!Nothing
    <3>4. QED  BY <3>3 DEF t, b
  <2>6. ReplyPart = Owes(p)
    BY <2>5 DEF ReplyPart, Owes
  <2>7. host_state' = "START"
    BY <1>1, <1>2, <2>5, HostSteps DEF Silent, HostDone
  <2>8. QED  BY <1>5, <2>3, <2>6, <2>7
<1>6. CASE ~UpLast
  <2>1. dev_output' = dev_output
    BY <1>1, <1>6 DEF UpAfterByte
  <2>2. up' = [sent |-> up.sent + 1, whole |-> TRUE /\ IF up.sent = 0 THEN host_state = "START" ELSE up.whole]
    BY <1>1, <1>6 DEF UpAfterByte
  <2>3. up'.whole /\ up'.sent = up.sent + 1
    BY <1>3, <2>2
  <2>4. up'.sent # 0
    BY <1>4, <2>3 DEF OnLineUp
  <2>5. UpWhole'
    BY <1>1, UpWholeKept
  <2>6. host_state' # "START"
    BY <1>1, <2>1, <2>3, <2>5 DEF UpWhole, HostHolds
  <2>7. host_emitted' = Host!Nothing
    BY <1>1, <1>2, <2>6, HostSteps DEF Silent, HostDone
  <2>8. QED  BY <1>6, <2>3, <2>4, <2>7 DEF ReplyPart
<1>7. QED
  BY <1>5, <1>6

LEMMA UpOwes ==
  ASSUME IInv, OwedInv, Up
  PROVE  OwedInv'
<1>1. up_faults \in Nat /\ OutputInv
  BY DEF IInv, FaultsInv
<1>2. CASE UpFault
  <2>1. up_faults' = up_faults + 1
    BY <1>2 DEF UpFault
  <2>2. up_faults' # 0
    BY <1>1, <2>1
  <2>3. QED  BY <2>2 DEF OwedInv
<1>3. CASE UpIntact
  <2> SUFFICES ASSUME up_faults' = 0 PROVE OwedInv'
    BY DEF OwedInv
  <2>1. up_faults = 0 /\ dev_output # <<>> /\ dev_output \in Seq(Printed) /\ owed \in Seq(Bytes) /\ UpAfterByte(TRUE)
    BY <1>1, <1>3 DEF UpIntact, OwedInv, OutputInv
  <2>2. owed' = (IF dev_output' = <<>> THEN <<>> ELSE SubSeq(owed, Len(ReplyPart) + 1, Len(owed)))
    BY <1>1, <1>3, <2>1 DEF UpIntact, HostParses
  <2>3. PICK off : Divides(off, owed, dev_output)
    BY <2>1 DEF OwedInv
  <2>4. CASE UpLast
    <3>1. /\ dev_output' = Tail(dev_output) /\ up' = [sent |-> 0, whole |-> FALSE] /\ host_state' = "START"
          /\ ReplyPart = Owes(Head(dev_output))
      BY <1>3, <2>1, <2>4, PartGiven DEF UpAfterByte
    <3>2. CASE Tail(dev_output) = <<>>
      <4>1. owed' = <<>> /\ dev_output' = <<>> /\ up'.sent = 0
        BY <2>2, <3>1, <3>2
      <4>2. (\E o : Divides(o, owed', dev_output')) /\ owed' \in Seq(Bytes)
        BY <4>1, NothingDivided
      <4>3. QED  BY <3>1, <4>1, <4>2 DEF OwedInv
    <3>3. CASE Tail(dev_output) # <<>>
      <4>1. owed' = SubSeq(owed, Len(Owes(Head(dev_output))) + 1, Len(owed)) /\ up'.sent = 0
        BY <2>2, <3>1, <3>3
      <4>2. (\E o : Divides(o, owed', dev_output')) /\ owed' \in Seq(Bytes)
        BY <2>1, <2>3, <3>1, <4>1, DividedRest
      <4>3. QED  BY <3>1, <4>1, <4>2 DEF OwedInv
    <3>4. QED  BY <3>2, <3>3
  <2>5. CASE ~UpLast
    <3>1. dev_output' = dev_output /\ ReplyPart = <<>> /\ up'.whole /\ up'.sent # 0
      BY <1>3, <2>1, <2>5, PartGiven DEF UpAfterByte
    <3>2. owed' = owed
      <4>1. SubSeq(owed, 1, Len(owed)) = owed /\ Len(ReplyPart) + 1 = 1
        BY <2>1, <3>1, SubSeqFull
      <4>2. QED  BY <2>1, <2>2, <3>1, <4>1
    <3>3. QED  BY <2>1, <2>3, <3>1, <3>2 DEF OwedInv
  <2>6. QED  BY <2>4, <2>5
<1>4. QED
  BY <1>2, <1>3 DEF Up, UpDamaged, UpLost, UpNoise

LEMMA OwedKept == IInv /\ OwedInv /\ [Next]_vars => OwedInv'
<1> SUFFICES ASSUME IInv, OwedInv, [Next]_vars PROVE OwedInv'
  OBVIOUS
<1>1. DeviceInv /\ OutputInv /\ DownInv
  BY DEF IInv
<1>2. ASSUME UNCHANGED <<dev_output, owed, up, up_faults, host_state>>
      PROVE  OwedInv'
  BY <1>2 DEF OwedInv
<1>3. ASSUME NEW i \in Sendable, Send(i)
      PROVE  OwedInv'
  BY <1>2, <1>3 DEF Send, device, host
<1>4. CASE Down
  <2>1. down.bytes # <<>> /\ up_faults' = up_faults /\ UNCHANGED <<up, host>>
    BY <1>4 DEF Down, DownIntact, DownFault, DownDamaged, DownLost, DownNoise
  <2>2. ASSUME NEW c, c = Bad \/ c = Head(down.bytes), DeviceParses(c)
        PROVE  OwedInv'
    <3>1. c \in Line
      BY <1>1, <2>1, <2>2, HeardBytes
    <3>2. QED  BY <1>1, <2>1, <2>2, <3>1, ParserOwes
  <2>3. CASE DownLost
    BY <1>2, <2>1, <2>3 DEF DownLost, host
  <2>4. QED
    BY <1>4, <2>2, <2>3 DEF Down, DownIntact, DownDamaged, DownNoise
<1>5. ASSUME NEW p \in RxPackets, PrintRxPkt(p)
      PROVE  OwedInv'
  <2> DEFINE q == Device!SppPrintRxPkt(p.rxhdr, p.pl)
  <2>1. q \in Printed /\ q.pl_type = NGHAM_SPP_TYPE_RX
    <3>1. q.pl_type = NGHAM_SPP_TYPE_RX
      BY DEF Device!SppPrintRxPkt, Device!Packet, Device!NGHAM_SPP_TYPE_RX, NGHAM_SPP_TYPE_RX
    <3>2. QED  BY <3>1, RxPrinted
  <2>2. dev_output' = Append(dev_output, q) /\ UNCHANGED <<owed, up, host, up_faults>>
    BY <1>5 DEF PrintRxPkt
  <2> HIDE DEF q
  <2>3. <<q>> \in Seq(Printed) /\ dev_output' = dev_output \o <<q>> /\ <<>> \in Seq(Bytes)
    BY <1>1, <2>1, <2>2, AppendIsConcat DEF OutputInv
  <2>4. Divides([k \in 0..1 |-> 0], <<>>, <<q>>)
    <3> DEFINE o == [k \in 0..1 |-> 0]
               s == <<>>
               z == <<q>>
    <3>1. Owes(q) = <<>>
      BY <2>1 DEF Owes, NGHAM_SPP_TYPE_RX, NGHAM_SPP_TYPE_CMD
    <3>2. /\ o \in [0..1 -> Nat] /\ o[0] = 0 /\ o[1] = 0 /\ \A k \in 0..1 : o[k] = 0
          /\ Len(s) = 0 /\ Len(z) = 1 /\ z[1] = q
      OBVIOUS
    <3> HIDE DEF o, s, z
    <3>3. ASSUME NEW k \in 1..1
          PROVE  /\ o[k] = o[k - 1] + Len(Owes(z[k]))
                 /\ \A j \in 1..Len(Owes(z[k])) : s[o[k - 1] + j] = Owes(z[k])[j]
      <4>1. k = 1 /\ k - 1 = 0
        OBVIOUS
      <4>2. Len(Owes(z[k])) = 0 /\ 1..0 = {}
        BY <3>1, <3>2, <4>1
      <4>3. QED  BY <3>2, <4>1, <4>2
    <3>4. Divides(o, s, z)
      BY <3>2, <3>3 DEF Divides
    <3>5. QED  BY <3>4 DEF o, s, z
  <2>5. up_faults = 0 => owed' = owed \o <<>>
    BY <2>2, ConcatEmptySeq DEF OwedInv
  <2>6. QED  BY <1>1, <2>2, <2>3, <2>4, <2>5, OwedGrown
<1>6. CASE Up
  BY <1>6, UpOwes
<1>7. CASE UNCHANGED vars
  BY <1>2, <1>7 DEF vars, device, host
<1>8. QED
  BY <1>3, <1>4, <1>5, <1>6, <1>7 DEF Next

LEMMA OwedHolds == Spec => []OwedInv
BY OwedInitially, OwedKept, InvHolds, PTL DEF Spec

-----------------------------------------------------------------------------
(* The theorems                                                            *)

(* Every byte brings the modem's parser nearer to the end of the packet it *)
(* believes in.                                                            *)
LEMMA DeviceNearer ==
  ASSUME DeviceInv, NEW c \in Line, Device!SppParse(c)
  PROVE  DevToGo' \in 0..(IF dev_state = "START" THEN SPP_HDR_SIZE - 1 + SPP_PL_MAX ELSE DevToGo - 1)
<1> DEFINE n == Len(dev_d)
           k == Len(dev_pl)
<1>1. /\ n \in Nat /\ k \in Nat /\ dev_target \in Octets /\ SPP_PL_MAX \in Nat /\ SPP_HDR_SIZE = 5
      /\ Len(Append(dev_d, c)) = n + 1 /\ Len(Append(dev_pl, c)) = k + 1
  BY OctetAssumption, Appended DEF DeviceInv, SPP_HDR_SIZE
<1>2. /\ dev_state = "START" => DevToGo = 0
      /\ dev_state = "HEADER" => DevToGo = 4 + SPP_PL_MAX - n
      /\ dev_state = "PAYLOAD" => DevToGo = dev_target - k
  BY <1>1 DEF DevToGo
<1>3. /\ dev_state' = "START" => DevToGo' = 0
      /\ dev_state' = "HEADER" => DevToGo' = 4 + SPP_PL_MAX - Len(dev_d')
      /\ dev_state' = "PAYLOAD" => DevToGo' = dev_target' - Len(dev_pl')
  BY <1>1 DEF DevToGo
<1>4. CASE Started(c)
  <2>1. /\ dev_state = "START"
        /\ dev_state' = "START" \/ (dev_state' = "HEADER" /\ Len(dev_d') = 0)
    BY <1>4 DEF Started
  <2> HIDE DEF n, k
  <2>2. DevToGo' = 0 \/ DevToGo' = 4 + SPP_PL_MAX
    BY <1>1, <1>3, <2>1
  <2>3. QED  BY <1>1, <2>1, <2>2
<1>5. CASE InHeader(c)
  <2>1. dev_state = "HEADER" /\ n < 3 /\ dev_state' = "HEADER" /\ Len(dev_d') = n + 1
    BY <1>1, <1>5 DEF InHeader
  <2> HIDE DEF n, k
  <2>2. QED  BY <1>1, <1>2, <1>3, <2>1
<1>6. CASE HeaderDone(c)
  <2>1. /\ dev_state = "HEADER" /\ n = 3
        /\ dev_state' = "START" \/ (dev_state' = "PAYLOAD" /\ dev_target' # 0 /\ Len(dev_pl') = 0)
    BY <1>6 DEF HeaderDone
  <2>2. dev_target' \in Octets
    BY <1>6, LineFacts DEF HeaderDone
  <2> HIDE DEF n, k
  <2>3. QED  BY <1>1, <1>2, <1>3, <2>1, <2>2 DEF Octets
<1>7. CASE InPayload(c)
  <2>1. /\ dev_state = "PAYLOAD" /\ k + 1 < dev_target /\ dev_state' = "PAYLOAD"
        /\ Len(dev_pl') = k + 1 /\ dev_target' = dev_target
    BY <1>1, <1>7 DEF InPayload
  <2> HIDE DEF n, k
  <2>2. QED  BY <1>1, <1>2, <1>3, <2>1 DEF Octets
<1>8. CASE PacketDone(c)
  <2>1. dev_state = "PAYLOAD" /\ k + 1 = dev_target /\ dev_state' = "START"
    BY <1>8 DEF PacketDone
  <2> HIDE DEF n, k
  <2>2. QED  BY <1>1, <1>2, <1>3, <2>1 DEF Octets
<1>9. QED
  BY <1>4, <1>5, <1>6, <1>7, <1>8, DeviceSteps

(* The same of the host's parser, that fills its buffer after a length of  *)
(* zero.                                                                   *)
LEMMA HostNearer ==
  ASSUME HostInv, NEW c \in Line, Host!HostParse(c)
  PROVE  HostToGo' \in 0..(IF host_state = "START" THEN Host!SPP_D_SIZE ELSE HostToGo - 1)
<1> DEFINE n == Len(host_d)
<1>1. /\ n \in Nat /\ host_target \in Nat /\ SPP_PL_MAX \in Nat
      /\ SPP_HDR_SIZE = 5 /\ Host!SPP_D_SIZE = SPP_PL_MAX + 5 /\ Len(Append(host_d, c)) = n + 1
  BY OctetAssumption, Appended DEF HostInv, SPP_HDR_SIZE, Host!SPP_HDR_SIZE, Host!SPP_D_SIZE
<1>2. /\ host_state = "START" => HostToGo = 0
      /\ host_state = "HEADER" => HostToGo = SPP_PL_MAX + 6 - n
      /\ host_state = "PAYLOAD" =>
           /\ n <= SPP_PL_MAX + 5 /\ (n < host_target \/ host_target = 5)
           /\ host_target > 5 => HostToGo = host_target - n
           /\ host_target = 5 => HostToGo = SPP_PL_MAX + 6 - n
  BY <1>1 DEF HostToGo, HostInv
<1>3. /\ host_state' = "START" => HostToGo' = 0
      /\ host_state' = "HEADER" => HostToGo' = SPP_PL_MAX + 6 - Len(host_d')
      /\ host_state' = "PAYLOAD" /\ host_target' > 5 => HostToGo' = host_target' - Len(host_d')
      /\ host_state' = "PAYLOAD" /\ host_target' = 5 => HostToGo' = SPP_PL_MAX + 6 - Len(host_d')
  BY <1>1 DEF HostToGo
<1>4. host_state = "PAYLOAD" => n >= 5 /\ host_target >= 5
  <2> SUFFICES ASSUME host_state = "PAYLOAD" PROVE n >= 5 /\ host_target >= 5
    OBVIOUS
  <2>1. n >= 5
    BY DEF HostInv, SPP_HDR_SIZE
  <2> HIDE DEF n
  <2>2. QED  BY <1>1, <1>2, <2>1
<1>5. CASE HostStarted(c)
  <2>1. /\ host_state = "START"
        /\ host_state' = "START" \/ (host_state' = "HEADER" /\ Len(host_d') = 1)
    BY <1>5 DEF HostStarted
  <2> HIDE DEF n
  <2>2. HostToGo' = 0 \/ HostToGo' = SPP_PL_MAX + 5
    <3>1. host_state' = "HEADER" /\ Len(host_d') = 1 => HostToGo' = SPP_PL_MAX + 6 - 1
      BY <1>3
    <3>2. SPP_PL_MAX + 6 - 1 = SPP_PL_MAX + 5
      BY <1>1
    <3>3. QED  BY <1>3, <2>1, <3>1, <3>2
  <2>3. QED  BY <1>1, <2>1, <2>2
<1>6. CASE HostInHeader(c)
  <2>1. host_state = "HEADER" /\ n < 4 /\ host_state' = "HEADER" /\ Len(host_d') = n + 1
    BY <1>1, <1>6 DEF HostInHeader
  <2> HIDE DEF n
  <2>2. QED  BY <1>1, <1>2, <1>3, <2>1
<1>7. CASE HostHeaderDone(c)
  <2>1. host_state = "HEADER" /\ n = 4 /\ host_state' = "PAYLOAD" /\ Len(host_d') = n + 1
    BY <1>1, <1>7 DEF HostHeaderDone
  <2>2. \E m \in Octets : host_target' = 5 + m
    BY <1>7, LineFacts DEF HostHeaderDone
  <2> HIDE DEF n
  <2>3. QED  BY <1>1, <1>2, <1>3, <2>1, <2>2 DEF Octets
<1>8. CASE HostInPayload(c)
  <2>1. /\ host_state = "PAYLOAD" /\ n < SPP_PL_MAX + 5 /\ n + 1 # host_target
        /\ host_state' = "PAYLOAD" /\ Len(host_d') = n + 1 /\ host_target' = host_target
    BY <1>1, <1>8 DEF HostInPayload
  <2> HIDE DEF n
  <2>2. QED  BY <1>1, <1>2, <1>3, <1>4, <2>1
<1>9. CASE HostFull
  <2>1. host_state = "PAYLOAD" /\ n = SPP_PL_MAX + 5 /\ host_target = 5 /\ host_state' = "START"
    BY <1>9 DEF HostFull
  <2> HIDE DEF n
  <2>2. QED  BY <1>1, <1>2, <1>3, <2>1
<1>10. CASE HostDone(c)
  <2>1. host_state = "PAYLOAD" /\ n + 1 = host_target /\ host_state' = "START"
    BY <1>10 DEF HostDone
  <2> HIDE DEF n
  <2>2. QED  BY <1>1, <1>2, <1>3, <1>4, <2>1
<1>11. QED
  BY <1>5, <1>6, <1>7, <1>8, <1>9, <1>10, HostSteps

(* Whatever a parser gets, it is back at looking for a start byte after as *)
(* many bytes as the packet it believes in has, or fit its buffer.         *)
THEOREM ParsersBounded == Spec => BogusPacketsEnd
<1> DEFINE A == /\ DownIntact \/ DownDamaged \/ DownNoise =>
                     DevToGo' \in 0..(IF dev_state = "START" THEN SPP_HDR_SIZE - 1 + SPP_PL_MAX ELSE DevToGo - 1)
                /\ UpIntact \/ UpDamaged \/ UpNoise =>
                     /\ HostToGo' \in 0..(IF host_state = "START" THEN Host!SPP_D_SIZE ELSE HostToGo - 1)
                     /\ Len(host_d') <= Host!SPP_D_SIZE
<1>1. IInv => A
  <2> SUFFICES ASSUME IInv PROVE A
    OBVIOUS
  <2>1. DeviceInv /\ HostInv /\ OutputInv /\ DownInv /\ UpInv
    BY DEF IInv
  <2>2. ASSUME DownIntact \/ DownDamaged \/ DownNoise
        PROVE  DevToGo' \in 0..(IF dev_state = "START" THEN SPP_HDR_SIZE - 1 + SPP_PL_MAX ELSE DevToGo - 1)
    <3>1. PICK c : down.bytes # <<>> /\ (c = Bad \/ c = Head(down.bytes)) /\ Device!SppParse(c)
      BY <2>2 DEF DownIntact, DownDamaged, DownNoise, DownFault, DeviceParses
    <3>2. c \in Line
      BY <2>1, <3>1, HeardBytes
    <3>3. QED  BY <2>1, <3>1, <3>2, DeviceNearer
  <2>3. ASSUME UpIntact \/ UpDamaged \/ UpNoise
        PROVE  /\ HostToGo' \in 0..(IF host_state = "START" THEN Host!SPP_D_SIZE ELSE HostToGo - 1)
               /\ Len(host_d') <= Host!SPP_D_SIZE
    <3>1. PICK c : dev_output # <<>> /\ (c = Bad \/ c = UpByte) /\ Host!HostParse(c)
      BY <2>3 DEF UpIntact, UpDamaged, UpNoise, UpFault, HostParses
    <3>2. c \in Line
      BY <2>1, <3>1, HeardUp
    <3>3. Host!SPP_D_SIZE = SPP_PL_MAX + SPP_HDR_SIZE
      BY DEF Host!SPP_D_SIZE, Host!SPP_HDR_SIZE, SPP_HDR_SIZE
    <3>4. QED  BY <2>1, <3>1, <3>2, <3>3, HostNearer, HostBounded
  <2>4. QED  BY <2>2, <2>3
<1>2. QED
  BY <1>1, InvHolds, PTL DEF BogusPacketsEnd

(* Damage, loss and noise never make the modem transmit, run or route      *)
(* anything but a packet that was sent to it, complete and once.           *)
THEOREM DeviceSafe == Spec => DeviceActsOnlyOnWhatWasSent
<1> DEFINE A == dev_call' # dev_call /\ dev_call' # Device!NoCall =>
                  /\ dev_heard # Idle.intent /\ WellPacked(dev_heard) /\ Expected(dev_heard, dev_call')
                  /\ dev_heard' = Idle.intent
<1>1. IInv /\ [Next]_vars => [A]_vars
  <2> SUFFICES ASSUME IInv, Next, dev_call' # dev_call, dev_call' # Device!NoCall
               PROVE  /\ dev_heard # Idle.intent /\ WellPacked(dev_heard) /\ Expected(dev_heard, dev_call')
                      /\ dev_heard' = Idle.intent
    OBVIOUS
  <2>1. Down
    BY DEF Next, Send, PrintRxPkt, Up, UpIntact, UpFault, UpDamaged, UpLost, UpNoise, device
  <2>2. DeviceInv /\ DownInv /\ DevHeardInv
    BY DEF IInv
  <2>3. down.bytes # <<>> /\ \E c : (c = Bad \/ c = Head(down.bytes)) /\ DeviceParses(c)
    BY <2>1 DEF Down, DownIntact, DownFault, DownDamaged, DownLost, DownNoise
  <2>4. QED
    BY <2>2, <2>3, DeviceActs
<1>2. QED
  BY <1>1, InvHolds, PTL DEF Spec, DeviceActsOnlyOnWhatWasSent

(* Whatever came before it, a packet that arrives whole while the modem's  *)
(* parser is looking for one is acted on as it should be.                  *)
THEOREM DeviceComplete == Spec => WholePacketsActedOn
<1> DEFINE A == /\ down # Idle /\ down' = Idle /\ down.whole /\ down_faults' = down_faults
                /\ WellPacked(down.intent)
                => Expected(down.intent, dev_call')
<1>1. IInv /\ [Next]_vars => [A]_vars
  <2> SUFFICES ASSUME IInv, Next, down # Idle, down' = Idle, down.whole, down_faults' = down_faults,
                      WellPacked(down.intent)
               PROVE  Expected(down.intent, dev_call')
    OBVIOUS
  <2>1. Down
    BY DEF Next, Send, PrintRxPkt, Up, UpIntact, UpFault, UpDamaged, UpLost, UpNoise
  <2>2. ~DownFault
    <3>1. down_faults \in Nat
      BY DEF IInv, FaultsInv
    <3>2. down_faults + 1 # down_faults
      BY <3>1
    <3>3. QED  BY <3>2 DEF DownFault
  <2>3. DownIntact
    BY <2>1, <2>2 DEF Down, DownDamaged, DownLost, DownNoise
  <2>4. QED
    BY <2>3, WholeActedOn
<1>2. QED
  BY <1>1, InvHolds, PTL DEF Spec, WholePacketsActedOn

(* Damage, loss and noise never give the host anything but a packet that   *)
(* the modem printed, complete and once.                                   *)
THEOREM HostSafe == Spec => HostGetsOnlyWhatWasPrinted
<1> DEFINE A == host_emitted' # host_emitted /\ host_emitted' # Host!Nothing =>
                  /\ host_heard # Host!Nothing
                  /\ host_emitted' = [pl_type |-> host_heard.pl_type, d |-> host_heard.d]
                  /\ host_heard' = Host!Nothing
<1>1. IInv /\ [Next]_vars => [A]_vars
  <2> SUFFICES ASSUME IInv, Next, host_emitted' # host_emitted, host_emitted' # Host!Nothing
               PROVE  /\ host_heard # Host!Nothing
                      /\ host_emitted' = [pl_type |-> host_heard.pl_type, d |-> host_heard.d]
                      /\ host_heard' = Host!Nothing
    OBVIOUS
  <2>1. Up
    BY DEF Next, Send, PrintRxPkt, Down, DownIntact, DownFault, DownDamaged, DownLost, DownNoise, host
  <2>2. dev_output # <<>> /\ \E c : (c = Bad \/ c = UpByte) /\ HostParses(c)
    BY <2>1 DEF Up, UpIntact, UpFault, UpDamaged, UpLost, UpNoise
  <2>3. PICK c : (c = Bad \/ c = UpByte) /\ HostParses(c)
    BY <2>2
  <2>4. HostInv /\ OutputInv /\ UpInv /\ HostHeardInv
    BY DEF IInv
  <2>5. c \in Line /\ Host!HostParse(c)
    BY <2>2, <2>3, <2>4, HeardUp DEF HostParses
  <2>6. HostDone(c) /\ Gives(c)
    BY <2>4, <2>5, HostSteps DEF Silent
  <2>7. host_heard \in Printed /\ host_emitted' = [pl_type |-> host_heard.pl_type, d |-> host_heard.d]
    BY <2>4, <2>5, <2>6, HostAccepted
  <2>8. host_heard' = Host!Nothing
    BY <2>3, <2>6 DEF HostDone, HostParses
  <2>9. QED
    BY <2>7, <2>8, PrintedLaid
<1>2. QED
  BY <1>1, InvHolds, PTL DEF Spec, HostGetsOnlyWhatWasPrinted

(* Nothing that is printed takes a packet off the line.                    *)
LEMMA NotTail ==
  ASSUME NEW S, NEW o \in Seq(S), o # <<>>
  PROVE  /\ Tail(o) # o
         /\ \A s \in Seq(S) : Tail(o) # o \o s
         /\ \A q \in S : Tail(o) # Append(o, q)
<1>1. Len(Tail(o)) = Len(o) - 1 /\ Len(o) \in Nat
  BY HeadTailProperties
<1>2. \A s \in Seq(S) : Len(o \o s) = Len(o) + Len(s) /\ Len(s) \in Nat
  BY ConcatProperties
<1>3. \A q \in S : Len(Append(o, q)) = Len(o) + 1
  BY AppendProperties
<1> DEFINE n == Len(o)
           m == Len(Tail(o))
<1>4. m = n - 1 /\ n \in Nat
  BY <1>1
<1> HIDE DEF m, n
<1>5. m # n /\ m # n + 1 /\ \A k \in Nat : m # n + k
  BY <1>4
<1>6. Tail(o) # o
  BY <1>5 DEF m, n
<1>7. \A s \in Seq(S) : Tail(o) # o \o s
  BY <1>2, <1>5 DEF m, n
<1>8. \A q \in S : Tail(o) # Append(o, q)
  BY <1>3, <1>5 DEF m, n
<1>9. QED
  BY <1>6, <1>7, <1>8

(* Only the last byte of a packet takes it off the line.                   *)
LEMMA TakenOff ==
  ASSUME IInv, Next, dev_output # <<>>, dev_output' = Tail(dev_output), up_faults' = up_faults
  PROVE  UpIntact /\ UpLast
<1>1. dev_output \in Seq(Printed)
  BY DEF IInv, OutputInv
<1>2. ASSUME NEW s \in Seq(Printed), dev_output' = dev_output \o s
      PROVE  FALSE
  BY <1>1, <1>2, NotTail
<1>3. dev_output' # dev_output
  BY <1>1, NotTail
<1>4. ~Down
  <2> SUFFICES ASSUME Down PROVE FALSE
    OBVIOUS
  <2>1. down.bytes # <<>> /\ \E c : (c = Bad \/ c = Head(down.bytes)) /\ DeviceParses(c)
    BY <1>3 DEF Down, DownIntact, DownFault, DownDamaged, DownLost, DownNoise
  <2>2. PICK c : (c = Bad \/ c = Head(down.bytes)) /\ DeviceParses(c)
    BY <2>1
  <2>3. c \in Line /\ Device!SppParse(c)
    BY <2>1, <2>2, HeardBytes DEF IInv, DeviceParses
  <2>4. QED
    BY <1>2, <2>3, ParserPrints DEF IInv
<1>5. \A p \in RxPackets : ~PrintRxPkt(p)
  BY <1>1, RxPrinted, NotTail DEF PrintRxPkt
<1>6. ~\E i \in Sendable : Send(i)
  BY <1>3 DEF Send, device
<1>7. UpIntact
  <2>1. Up
    BY <1>4, <1>5, <1>6 DEF Next
  <2>2. up_faults + 1 # up_faults
    BY DEF IInv, FaultsInv
  <2>3. ~UpFault
    BY <2>2 DEF UpFault
  <2>4. QED  BY <2>1, <2>3 DEF Up, UpDamaged, UpLost, UpNoise
<1>8. UpLast
  BY <1>3, <1>7 DEF UpIntact, UpAfterByte
<1>9. QED
  BY <1>7, <1>8

(* A packet that arrives whole while the host's parser is looking for one  *)
(* is given to the host.                                                   *)
THEOREM HostComplete == Spec => WholePacketsGiven
<1> DEFINE A == /\ dev_output # <<>> /\ dev_output' = Tail(dev_output) /\ up.whole /\ up_faults' = up_faults
                => host_emitted' = [pl_type |-> Head(dev_output).pl_type, d |-> Head(dev_output).d]
<1>1. IInv /\ [Next]_vars => [A]_vars
  BY TakenOff, WholeGiven
<1>2. QED
  BY <1>1, InvHolds, PTL DEF Spec, WholePacketsGiven

(* Over a line without faults the replies of ngham_spp.c, cut into packets *)
(* of any number with received packets between, come together in order and *)
(* complete at the host.                                                   *)
THEOREM RepliesComplete == Spec => RepliesWhole
<1> DEFINE A == dev_output # <<>> /\ dev_output' = Tail(dev_output) /\ up_faults' = 0 =>
                  /\ ReplyPart = SubSeq(owed, 1, Len(ReplyPart))
                  /\ dev_output' = <<>> => ReplyPart = owed
<1>1. IInv /\ OwedInv /\ [Next]_vars => [A]_vars
  <2> SUFFICES ASSUME IInv, OwedInv, Next, dev_output # <<>>, dev_output' = Tail(dev_output), up_faults' = 0
               PROVE  /\ ReplyPart = SubSeq(owed, 1, Len(ReplyPart))
                      /\ dev_output' = <<>> => ReplyPart = owed
    OBVIOUS
  <2>1. up_faults = 0
    <3>1. up_faults' = up_faults \/ up_faults' = up_faults + 1
      BY DEF Next, Send, PrintRxPkt, Down, DownIntact, DownFault, DownDamaged, DownLost, DownNoise,
             Up, UpIntact, UpFault, UpDamaged, UpLost, UpNoise
    <3>2. up_faults \in Nat
      BY DEF IInv, FaultsInv
    <3>3. QED  BY <3>1, <3>2
  <2>2. UpIntact /\ UpLast
    BY <2>1, TakenOff
  <2>3. ReplyPart = Owes(Head(dev_output))
    BY <2>1, <2>2, PartGiven
  <2>4. dev_output \in Seq(Printed) /\ owed \in Seq(Bytes) /\ \E off : Divides(off, owed, dev_output)
    BY <2>1 DEF IInv, OutputInv, OwedInv
  <2>5. QED
    BY <2>3, <2>4, DividedRest
<1>2. QED
  BY <1>1, InvHolds, OwedHolds, PTL DEF Spec, RepliesWhole
=============================================================================
