------------------------- MODULE NghamCallsignProofs -------------------------
(***************************************************************************)
(* Call signs, for all strings, all octets received and whatever was in    *)
(* the memory that the encoder does not write: a proper call sign is shown *)
(* as it was given, one that was received is sent on as it came, and a     *)
(* command is read back with the call signs of both stations.              *)
(***************************************************************************)
EXTENDS NghamCallsign, FiniteSetTheorems, SequenceTheorems, WellFoundedInduction, NaturalsInduction, TLAPS

Six == 0..63

LEMMA Least ==
  ASSUME NEW T, T \subseteq Nat, T # {}
  PROVE  \E x \in T : \A y \in T : x <= y
<1> DEFINE R == OpToRel(<, Nat)
<1>1. IsWellFoundedOn(R, Nat)
  BY NatLessThanWellFounded
<1>2. \A x, y \in Nat : y < x => <<y, x>> \in R
  BY DEF OpToRel
<1> HIDE DEF R
<1>3. PICK x \in T : \A y \in T : ~ (<<y, x>> \in R)
  BY <1>1, WFMin
<1>4. \A y \in T : ~ (y < x)
  BY <1>2, <1>3
<1>5. QED
  BY <1>3, <1>4

-----------------------------------------------------------------------------
(* Six bits                                                                *)

LEMMA PackUnpack ==
  ASSUME NEW a \in Six, NEW b \in Six, NEW c \in Six, NEW e \in Six
  PROVE  LET p == Packed(a, b, c, e)
         IN  /\ p \in Seq(Octets) /\ Len(p) = 3
             /\ Unpacked(p[1], p[2], p[3]) = <<a, b, c, e>>
<1> DEFINE x == a * 4 + b \div 16
           y == (b % 16) * 16 + c \div 4
           z == (c % 4) * 64 + e
<1>1. b \div 16 \in 0..3 /\ b % 16 \in 0..15 /\ b = (b \div 16) * 16 + (b % 16)
  BY DEF Six
<1>2. c \div 4 \in 0..15 /\ c % 4 \in 0..3 /\ c = (c \div 4) * 4 + (c % 4)
  BY DEF Six
<1>3. x \in Octets /\ y \in Octets /\ z \in Octets
  BY <1>1, <1>2 DEF Six, Octets
<1>4. x \div 4 = a /\ x % 4 = b \div 16
  BY <1>1 DEF Six
<1>5. y \div 16 = b % 16 /\ y % 16 = c \div 4
  BY <1>1, <1>2 DEF Six
<1>6. z \div 64 = c % 4 /\ z % 64 = e
  BY <1>2 DEF Six
<1>7. (x % 4) * 16 + y \div 16 = b /\ (y % 16) * 4 + z \div 64 = c
  BY <1>1, <1>2, <1>4, <1>5, <1>6
<1>8. Packed(a, b, c, e) = <<x, y, z>>
  BY DEF Packed
<1>9. Unpacked(x, y, z) = <<a, b, c, e>>
  BY <1>4, <1>6, <1>7 DEF Unpacked
<1> HIDE DEF x, y, z
<1>10. QED
  BY <1>3, <1>8, <1>9

LEMMA UnpackedSix ==
  ASSUME NEW x \in Octets, NEW y \in Octets, NEW z \in Octets
  PROVE  \A k \in 1..4 : Unpacked(x, y, z)[k] \in Six
<1>1. x \div 4 \in Six /\ z % 64 \in Six
  BY DEF Six, Octets
<1>2. (x % 4) * 16 + y \div 16 \in Six
  <2>1. x % 4 \in 0..3 /\ y \div 16 \in 0..15
    BY DEF Octets
  <2>2. QED  BY <2>1 DEF Six
<1>3. (y % 16) * 4 + z \div 64 \in Six
  <2>1. y % 16 \in 0..15 /\ z \div 64 \in 0..3
    BY DEF Octets
  <2>2. QED  BY <2>1 DEF Six
<1> DEFINE p == x \div 4
           q == (x % 4) * 16 + y \div 16
           r == (y % 16) * 4 + z \div 64
           t == z % 64
<1>4. Unpacked(x, y, z) = <<p, q, r, t>> /\ p \in Six /\ q \in Six /\ r \in Six /\ t \in Six
  BY <1>1, <1>2, <1>3 DEF Unpacked
<1> HIDE DEF p, q, r, t
<1>5. QED  BY <1>4

(* The eight groups of six bits in six octets.                             *)
Groups(enc) == Unpacked(enc[1], enc[2], enc[3]) \o Unpacked(enc[4], enc[5], enc[6])

LEMMA TwoParts ==
  ASSUME NEW S, NEW a \in Seq(S), NEW b \in Seq(S)
  PROVE  /\ a \o b \in Seq(S) /\ Len(a \o b) = Len(a) + Len(b)
         /\ \A k \in 1..Len(a) : (a \o b)[k] = a[k]
         /\ \A k \in 1..Len(b) : (a \o b)[Len(a) + k] = b[k]
<1>1. /\ a \o b \in Seq(S) /\ Len(a \o b) = Len(a) + Len(b)
      /\ \A k \in 1..Len(a) + Len(b) : (a \o b)[k] = IF k <= Len(a) THEN a[k] ELSE b[k - Len(a)]
  BY ConcatProperties, ZenonT(60)
<1>2. Len(a) \in Nat /\ Len(b) \in Nat
  OBVIOUS
<1>3. ASSUME NEW k \in 1..Len(b)
      PROVE  (a \o b)[Len(a) + k] = b[k]
  <2>1. Len(a) + k \in 1..Len(a) + Len(b) /\ ~(Len(a) + k <= Len(a)) /\ Len(a) + k - Len(a) = k
    BY <1>2
  <2>2. QED  BY <1>1, <2>1
<1>4. QED
  BY <1>1, <1>2, <1>3

LEMMA GroupsOfOctets ==
  ASSUME NEW enc \in Seq(Octets), Len(enc) >= 6
  PROVE  /\ \A k \in 1..8 : Groups(enc)[k] \in Six
         /\ Groups(enc)[8] = enc[6] % 64
<1> DEFINE a == Unpacked(enc[1], enc[2], enc[3])
           b == Unpacked(enc[4], enc[5], enc[6])
<1>1. \A k \in 1..6 : enc[k] \in Octets
  OBVIOUS
<1>2. (\A k \in 1..4 : a[k] \in Six) /\ (\A k \in 1..4 : b[k] \in Six)
  <2>1. /\ enc[1] \in Octets /\ enc[2] \in Octets /\ enc[3] \in Octets
        /\ enc[4] \in Octets /\ enc[5] \in Octets /\ enc[6] \in Octets
    BY <1>1
  <2>2. QED  BY <2>1, UnpackedSix
<1>3. Len(a) = 4 /\ Len(b) = 4 /\ a \in Seq(Six) /\ b \in Seq(Six) /\ b[4] = enc[6] % 64
  <2>1. Len(a) = 4 /\ Len(b) = 4 /\ b[4] = enc[6] % 64
    BY DEF Unpacked
  <2>2. a = [k \in 1..4 |-> a[k]] /\ b = [k \in 1..4 |-> b[k]]
    BY DEF Unpacked
  <2> HIDE DEF a, b
  <2>3. QED  BY <1>2, <2>1, <2>2
<1>4. Groups(enc) = a \o b
  BY DEF Groups
<1> HIDE DEF a, b
<1>5. /\ \A k \in 1..4 : (a \o b)[k] = a[k]
      /\ \A k \in 1..4 : (a \o b)[4 + k] = b[k]
  <2>1. a \in Seq(Six) /\ b \in Seq(Six)
    BY <1>3
  <2>2. \A k \in 1..Len(a) : (a \o b)[k] = a[k]
    BY <2>1, TwoParts, Zenon
  <2>3. \A k \in 1..Len(b) : (a \o b)[Len(a) + k] = b[k]
    BY <2>1, TwoParts, SMT
  <2>4. QED  BY <1>3, <2>2, <2>3
<1>6. ASSUME NEW k \in 1..8
      PROVE  (a \o b)[k] \in Six
  <2>1. CASE k <= 4
    <3>1. k \in 1..4
      BY <2>1
    <3>2. QED  BY <1>2, <1>5, <3>1
  <2>2. CASE k > 4
    <3>1. k - 4 \in 1..4 /\ 4 + (k - 4) = k
      BY <2>2
    <3>2. QED  BY <1>2, <1>5, <3>1
  <2>3. k <= 4 \/ k > 4
    OBVIOUS
  <2>4. QED  BY <2>1, <2>2, <2>3
<1>7. (a \o b)[8] = enc[6] % 64
  <2>1. 4 \in 1..4 /\ 4 + 4 = 8
    OBVIOUS
  <2>2. QED  BY <1>3, <1>5, <2>1
<1>8. QED  BY <1>4, <1>6, <1>7

(* What was packed is unpacked.                                            *)
LEMMA GroupsOfPacked ==
  ASSUME NEW g \in [0..6 -> Six], NEW ssid \in Six, NEW enc,
         enc = Packed(g[0], g[1], g[2], g[3]) \o Packed(g[4], g[5], g[6], ssid)
  PROVE  /\ enc \in Seq(Octets) /\ Len(enc) = 6
         /\ \A k \in 1..7 : Groups(enc)[k] = g[k - 1]
         /\ Groups(enc)[8] = ssid
<1> DEFINE p == Packed(g[0], g[1], g[2], g[3])
           q == Packed(g[4], g[5], g[6], ssid)
<1>1. /\ p \in Seq(Octets) /\ Len(p) = 3
      /\ Unpacked(p[1], p[2], p[3]) = <<g[0], g[1], g[2], g[3]>>
  BY PackUnpack
<1>2. /\ q \in Seq(Octets) /\ Len(q) = 3
      /\ Unpacked(q[1], q[2], q[3]) = <<g[4], g[5], g[6], ssid>>
  BY PackUnpack
<1> HIDE DEF p, q
<1>3. /\ p \o q \in Seq(Octets) /\ Len(p \o q) = 6
      /\ \A k \in 1..3 : (p \o q)[k] = p[k]
      /\ \A k \in 1..3 : (p \o q)[3 + k] = q[k]
  <2>1. p \in Seq(Octets) /\ q \in Seq(Octets)
    BY <1>1, <1>2
  <2>2. p \o q \in Seq(Octets) /\ Len(p \o q) = Len(p) + Len(q)
    BY <2>1, TwoParts, SMT
  <2>3. \A k \in 1..Len(p) : (p \o q)[k] = p[k]
    BY <2>1, TwoParts, Zenon
  <2>4. \A k \in 1..Len(q) : (p \o q)[Len(p) + k] = q[k]
    BY <2>1, TwoParts, SMT
  <2>5. QED  BY <1>1, <1>2, <2>2, <2>3, <2>4
<1>4. enc = p \o q
  BY DEF p, q
<1>5. enc[1] = p[1] /\ enc[2] = p[2] /\ enc[3] = p[3] /\ enc[4] = q[1] /\ enc[5] = q[2] /\ enc[6] = q[3]
  BY <1>3, <1>4, SMTT(60)
<1> DEFINE left  == <<g[0], g[1], g[2], g[3]>>
           right == <<g[4], g[5], g[6], ssid>>
<1>6. Groups(enc) = left \o right
  BY <1>1, <1>2, <1>5 DEF Groups
<1>7. left \in Seq(Six) /\ Len(left) = 4 /\ right \in Seq(Six) /\ Len(right) = 4
  OBVIOUS
<1>8. /\ \A k \in 1..4 : Groups(enc)[k] = left[k]
      /\ \A k \in 1..4 : Groups(enc)[4 + k] = right[k]
  <2> HIDE DEF left, right
  <2>1. left \in Seq(Six) /\ right \in Seq(Six)
    BY <1>7
  <2>2. \A k \in 1..Len(left) : (left \o right)[k] = left[k]
    BY <2>1, TwoParts, Zenon
  <2>3. \A k \in 1..Len(right) : (left \o right)[Len(left) + k] = right[k]
    BY <2>1, TwoParts, SMT
  <2>4. QED  BY <1>6, <1>7, <2>2, <2>3
<1>9. /\ Groups(enc)[1] = g[0] /\ Groups(enc)[2] = g[1] /\ Groups(enc)[3] = g[2] /\ Groups(enc)[4] = g[3]
      /\ Groups(enc)[5] = g[4] /\ Groups(enc)[6] = g[5] /\ Groups(enc)[7] = g[6] /\ Groups(enc)[8] = ssid
  <2>1. /\ left[1] = g[0] /\ left[2] = g[1] /\ left[3] = g[2] /\ left[4] = g[3]
        /\ right[1] = g[4] /\ right[2] = g[5] /\ right[3] = g[6] /\ right[4] = ssid
    OBVIOUS
  <2> HIDE DEF left, right
  <2>2. QED  BY <1>8, <2>1
<1>10. \A k \in 1..7 : Groups(enc)[k] = g[k - 1]
  BY <1>9
<1>11. QED
  BY <1>3, <1>4, <1>9, <1>10

-----------------------------------------------------------------------------
(* Reading six octets                                                      *)

(* Seven groups hold characters up to the first that is zero.              *)
Stops(g, n) == n \in 0..7 /\ (n = 7 \/ g[n + 1] = 0) /\ \A k \in 1..n : g[k] # 0

LEMMA StopsOnce ==
  ASSUME NEW g, NEW m, NEW n, Stops(g, m), Stops(g, n)
  PROVE  m = n
<1>1. ASSUME NEW i \in 0..7, NEW j \in 0..7, Stops(g, i), Stops(g, j)
      PROVE  ~(i < j)
  <2> SUFFICES ASSUME i < j PROVE FALSE
    OBVIOUS
  <2>1. i + 1 \in 1..j /\ i # 7
    OBVIOUS
  <2>2. g[i + 1] # 0
    BY <1>1, <2>1 DEF Stops
  <2>3. QED  BY <1>1, <2>1, <2>2 DEF Stops
<1>2. m \in 0..7 /\ n \in 0..7
  BY DEF Stops
<1>3. ~(m < n) /\ ~(n < m)
  BY <1>1, <1>2
<1>4. QED  BY <1>2, <1>3

LEMMA StopsSomewhere ==
  ASSUME NEW g
  PROVE  \E n : Stops(g, n)
<1> DEFINE T == {n \in 0..7 : n = 7 \/ g[n + 1] = 0}
<1>1. T \subseteq Nat /\ T # {}
  <2>1. 7 \in T
    OBVIOUS
  <2>2. QED  BY <2>1
<1>2. PICK n \in T : \A m \in T : n <= m
  <2> HIDE DEF T
  <2>1. QED  BY <1>1, Least
<1>3. ASSUME NEW k \in 1..n
      PROVE  g[k] # 0
  <2>1. k - 1 \in 0..7 /\ (k - 1) + 1 = k /\ ~(n <= k - 1)
    BY <1>2
  <2>2. k - 1 \notin T
    BY <1>2, <2>1
  <2>3. QED  BY <2>1, <2>2
<1>4. QED  BY <1>2, <1>3 DEF Stops

LEMMA Decoded ==
  ASSUME NEW enc, NEW n, Stops(Groups(enc), n)
  PROVE  Decode(enc) = [j \in 1..n |-> Groups(enc)[j] + 32] \o SsidText(Groups(enc)[8])
<1> DEFINE g == Groups(enc)
           end == CHOOSE j \in 0..7 : (j = 7 \/ g[j + 1] = 0) /\ \A k \in 1..j : g[k] # 0
<1>1. end = n
  <2>1. end = CHOOSE j \in 0..7 : Stops(g, j)
    BY DEF Stops
  <2>2. n \in 0..7
    BY DEF Stops
  <2> HIDE DEF end
  <2>3. Stops(g, end)
    BY <2>1, <2>2
  <2>4. QED  BY <2>3, StopsOnce
<1>2. Decode(enc) = [j \in 1..end |-> g[j] + 32] \o SsidText(g[8])
  BY DEF Decode, Groups
<1> HIDE DEF end, g
<1>3. QED  BY <1>1, <1>2 DEF g

-----------------------------------------------------------------------------
(* Writing six octets                                                      *)

Ends(s, n) == n \in 0..7 /\ (n = 7 \/ Char(s, n) \in {0, Dash}) /\ \A k \in 0..n-1 : Char(s, k) \notin {0, Dash}

LEMMA EndsOnce ==
  ASSUME NEW s, NEW m, NEW n, Ends(s, m), Ends(s, n)
  PROVE  m = n
<1>1. ASSUME NEW i \in 0..7, NEW j \in 0..7, Ends(s, i), Ends(s, j)
      PROVE  ~(i < j)
  <2> SUFFICES ASSUME i < j PROVE FALSE
    OBVIOUS
  <2>1. i \in 0..j-1 /\ i # 7
    OBVIOUS
  <2>2. Char(s, i) \notin {0, Dash}
    BY <1>1, <2>1 DEF Ends
  <2>3. QED  BY <1>1, <2>1, <2>2 DEF Ends
<1>2. m \in 0..7 /\ n \in 0..7
  BY DEF Ends
<1>3. ~(m < n) /\ ~(n < m)
  BY <1>1, <1>2
<1>4. QED  BY <1>2, <1>3

LEMMA EndsSomewhere ==
  ASSUME NEW s
  PROVE  Ends(s, End(s))
<1> DEFINE T == {n \in 0..7 : n = 7 \/ Char(s, n) \in {0, Dash}}
<1>1. T \subseteq Nat /\ T # {}
  <2>1. 7 \in T
    OBVIOUS
  <2>2. QED  BY <2>1
<1>2. PICK n \in T : \A m \in T : n <= m
  <2> HIDE DEF T
  <2>1. QED  BY <1>1, Least
<1>3. ASSUME NEW k \in 0..n-1
      PROVE  Char(s, k) \notin {0, Dash}
  <2>1. k \in 0..7 /\ ~(n <= k)
    BY <1>2
  <2>2. k \notin T
    BY <1>2, <2>1
  <2>3. QED  BY <2>1, <2>2
<1>4. n \in 0..7 /\ Ends(s, n)
  BY <1>2, <1>3 DEF Ends
<1>5. End(s) = CHOOSE j \in 0..7 : Ends(s, j)
  BY DEF End, Ends
<1>6. QED  BY <1>4, <1>5

LEMMA EndIs ==
  ASSUME NEW s, NEW n, Ends(s, n)
  PROVE  End(s) = n
BY EndsSomewhere, EndsOnce

LEMMA LowSix == ASSUME NEW x \in Nat PROVE x % 64 \in Six /\ (x \in Six => x % 64 = x)
BY DEF Six

LEMMA Chars ==
  ASSUME NEW s \in Seq(1..255), NEW j \in Nat
  PROVE  Char(s, j) \in Octets /\ (Char(s, j) = 0 <=> j >= Len(s))
<1>1. CASE j < Len(s)
  <2>1. j + 1 \in 1..Len(s)
    BY <1>1
  <2>2. s[j + 1] \in 1..255
    BY <2>1, ElementOfSeq
  <2>3. Char(s, j) = s[j + 1]
    BY <1>1 DEF Char
  <2>4. Len(s) \in Nat
    OBVIOUS
  <2>5. Char(s, j) \in 1..255 /\ ~(j >= Len(s))
    BY <1>1, <2>2, <2>3, <2>4
  <2>6. 1..255 \subseteq Octets /\ 0 \notin 1..255
    BY DEF Octets
  <2>7. QED  BY <2>5, <2>6, Zenon
<1>2. CASE j >= Len(s)
  BY <1>2 DEF Char, Octets
<1>3. QED  BY <1>1, <1>2

LEMMA SixbitType ==
  ASSUME NEW c \in Octets
  PROVE  Sixbit(c) \in Six
<1>1. CASE c \in 97..122
  <2>1. Sixbit(c) = (c - 64) % 64
    BY <1>1 DEF Sixbit
  <2>2. QED  BY <1>1, <2>1 DEF Six
<1>2. CASE c \notin 97..122
  <2>1. Sixbit(c) = (c - 32) % 64 /\ c - 32 \in Int
    BY <1>2 DEF Sixbit, Octets
  <2>2. QED  BY <2>1 DEF Six
<1>3. QED  BY <1>1, <1>2

LEMMA SsidType ==
  ASSUME NEW s \in Seq(1..255), ~Refused(s)
  PROVE  Ssid(s) \in 0..99
<1>1. End(s) \in 0..7
  BY EndsSomewhere DEF Ends
<1>2. First(s) \in Octets /\ Second(s) \in Octets
  BY <1>1, Chars DEF First, Second
<1>3. CASE ~HasSsid(s)
  BY <1>3 DEF Ssid
<1>4. CASE HasSsid(s)
  <2>1. First(s) \in 48..57 /\ (Second(s) \in 48..57 \/ Second(s) = 0)
    BY <1>4 DEF Refused, Digit
  <2>2. Ssid(s) = IF Second(s) \in 48..57 THEN (First(s) - 48) * 10 + (Second(s) - 48) ELSE First(s) - 48
    BY <1>4 DEF Ssid, Digit
  <2>3. \A x \in 48..57, y \in 48..57 : (x - 48) * 10 + (y - 48) \in 0..99 /\ x - 48 \in 0..99
    OBVIOUS
  <2>4. QED  BY <2>1, <2>2, <2>3, ZenonT(60)
<1>5. QED  BY <1>3, <1>4

(* The seven groups of the copy: the characters, a terminator, and behind  *)
(* it what there was before.                                               *)
LEMMA CopyGroups ==
  ASSUME NEW s \in Seq(1..255), NEW memory \in Seq(Octets), Len(memory) = 7
  PROVE  /\ Copy(s, memory) \in [0..6 -> Six]
         /\ \A j \in 0..6 : j < End(s) => Copy(s, memory)[j] = Sixbit(Char(s, j))
         /\ \A j \in 0..6 : j = End(s) => Copy(s, memory)[j] = 0
<1>1. End(s) \in 0..7
  BY EndsSomewhere DEF Ends
<1>2. ASSUME NEW j \in 0..6
      PROVE  Sixbit(Char(s, j)) \in Six /\ memory[j + 1] % 64 \in Six /\ 0 \in Six
  <2>1. Sixbit(Char(s, j)) \in Six
    BY Chars, SixbitType
  <2>2. j + 1 \in 1..Len(memory)
    OBVIOUS
  <2>3. memory[j + 1] % 64 \in Six
    <3>1. memory[j + 1] \in Octets
      BY <2>2, ElementOfSeq
    <3>2. Octets \subseteq Nat
      BY DEF Octets
    <3>3. QED  BY <3>1, <3>2, LowSix
  <2>4. QED  BY <2>1, <2>3 DEF Six
<1>3. QED
  BY <1>1, <1>2 DEF Copy

LEMMA EncodedGroups ==
  ASSUME NEW s \in Seq(1..255), NEW memory \in Seq(Octets), Len(memory) = 7, NEW before, ~Refused(s)
  PROVE  LET enc == Encode(s, memory, before)
         IN  /\ enc \in Seq(Octets) /\ Len(enc) = 6
             /\ \A k \in 1..7 : Groups(enc)[k] = Copy(s, memory)[k - 1]
             /\ Groups(enc)[8] = Ssid(s) % 64
<1> DEFINE g == Copy(s, memory)
<1>1. g \in [0..6 -> Six]
  BY CopyGroups
<1>2. Ssid(s) % 64 \in Six
  <2>1. Ssid(s) \in 0..99 /\ 0..99 \subseteq Nat
    BY SsidType
  <2>2. QED  BY <2>1, LowSix
<1>3. Encode(s, memory, before) = Packed(g[0], g[1], g[2], g[3]) \o Packed(g[4], g[5], g[6], Ssid(s) % 64)
  BY DEF Encode
<1> HIDE DEF g
<1>4. QED
  BY <1>1, <1>2, <1>3, GroupsOfPacked, ZenonT(60) DEF g

LEMMA EncodeType ==
  ASSUME NEW s \in Seq(1..255), NEW memory \in Seq(Octets), Len(memory) = 7
  PROVE  LET enc == Encode(s, memory, SubSeq(memory, 1, 6))
         IN  enc \in Seq(Octets) /\ Len(enc) = 6
<1>1. CASE Refused(s)
  <2>1. Encode(s, memory, SubSeq(memory, 1, 6)) = SubSeq(memory, 1, 6)
    BY <1>1 DEF Encode
  <2>2. \A i \in 1..6 : memory[i] \in Octets
    <3>1. 1..6 \subseteq 1..Len(memory)
      OBVIOUS
    <3>2. QED  BY <3>1, ElementOfSeq
  <2>3. SubSeq(memory, 1, 6) \in Seq(Octets) /\ Len(SubSeq(memory, 1, 6)) = 6
    BY <2>2, SubSeqProperties
  <2>4. QED  BY <2>1, <2>3
<1>2. CASE ~Refused(s)
  BY <1>2, EncodedGroups
<1>3. QED  BY <1>1, <1>2

(* A call sign whose characters six bits hold is read as it was written.   *)
LEMMA ReadBack ==
  ASSUME NEW s \in Seq(1..255), NEW memory \in Seq(Octets), Len(memory) = 7, NEW before,
         NEW n, Ends(s, n), n <= Len(s), \A j \in 1..n : Sixbit(s[j]) # 0, ~Refused(s)
  PROVE  Decode(Encode(s, memory, before)) = [j \in 1..n |-> Sixbit(s[j]) + 32] \o SsidText(Ssid(s) % 64)
<1> DEFINE enc == Encode(s, memory, before)
<1>1. /\ \A k \in 1..7 : Groups(enc)[k] = Copy(s, memory)[k - 1]
      /\ Groups(enc)[8] = Ssid(s) % 64
  BY EncodedGroups
<1> HIDE DEF enc
<1>2. End(s) = n /\ n \in 0..7
  BY EndIs DEF Ends
<1>3. ASSUME NEW k \in 1..n
      PROVE  Groups(enc)[k] = Sixbit(s[k])
  <2>1. k \in 1..7 /\ k - 1 \in 0..6 /\ k - 1 < End(s) /\ k - 1 < Len(s) /\ (k - 1) + 1 = k
    BY <1>2
  <2>2. Groups(enc)[k] = Sixbit(Char(s, k - 1))
    BY <1>1, <2>1, CopyGroups
  <2>3. Char(s, k - 1) = s[k]
    BY <2>1 DEF Char
  <2>4. QED  BY <2>2, <2>3
<1>4. n # 7 => Groups(enc)[n + 1] = 0
  <2> SUFFICES ASSUME n # 7 PROVE Groups(enc)[n + 1] = 0
    OBVIOUS
  <2>1. n + 1 \in 1..7 /\ n \in 0..6 /\ (n + 1) - 1 = n
    BY <1>2
  <2>2. Copy(s, memory)[n] = 0
    BY <1>2, <2>1, CopyGroups
  <2>3. QED  BY <1>1, <2>1, <2>2
<1>5. Stops(Groups(enc), n)
  BY <1>2, <1>3, <1>4 DEF Stops
<1>6. Decode(enc) = [j \in 1..n |-> Groups(enc)[j] + 32] \o SsidText(Ssid(s) % 64)
  BY <1>1, <1>5, Decoded
<1>7. [j \in 1..n |-> Groups(enc)[j] + 32] = [j \in 1..n |-> Sixbit(s[j]) + 32]
  BY <1>3
<1>8. QED  BY <1>6, <1>7 DEF enc

-----------------------------------------------------------------------------
(* Proper call signs                                                       *)

LEMMA LetterRead ==
  ASSUME NEW c \in 1..255, Letter(c)
  PROVE  Sixbit(c) # 0 /\ Sixbit(c) + 32 = Capital(c) /\ c # Dash
<1>1. CASE c \in 97..122
  <2>1. Sixbit(c) = (c - 64) % 64 /\ Capital(c) = c - 32
    BY <1>1 DEF Sixbit, Capital
  <2>2. QED  BY <1>1, <2>1 DEF Dash
<1>2. CASE c \in 65..90 \cup 48..57
  <2>1. Sixbit(c) = (c - 32) % 64 /\ Capital(c) = c
    BY <1>2 DEF Sixbit, Capital
  <2>2. QED  BY <1>2, <2>1 DEF Dash
<1>3. QED
  BY <1>1, <1>2 DEF Letter, Digit

(* How a number is written: what stands behind the dash.                   *)
NumberText(number) ==
  LET short == IF Len(number) > 0 /\ number[1] = 48 THEN Tail(number) ELSE number
  IN  IF short \in {<<>>, <<48>>} THEN <<>> ELSE <<Dash>> \o short

LEMMA NoNumber == NumberText(<<>>) = SsidText(0)
BY DEF NumberText, SsidText

LEMMA OneDigit ==
  ASSUME NEW x \in 48..57
  PROVE  NumberText(<<x>>) = SsidText((x - 48) % 64)
<1>1. (x - 48) % 64 = x - 48
  OBVIOUS
<1>2. CASE x = 48
  <2>1. NumberText(<<x>>) = <<>>
    BY <1>2 DEF NumberText
  <2>2. SsidText(0) = <<>>
    BY DEF SsidText
  <2>3. QED  BY <1>1, <1>2, <2>1, <2>2
<1>3. CASE x # 48
  <2>1. NumberText(<<x>>) = <<Dash>> \o <<x>>
    <3>1. <<x>> # <<>> /\ <<x>> # <<48>>
      BY <1>3
    <3>2. QED  BY <1>3, <3>1 DEF NumberText
  <2>2. SsidText(x - 48) = <<Dash, (x - 48) + 48>>
    BY <1>3 DEF SsidText
  <2>3. (x - 48) + 48 = x
    OBVIOUS
  <2>4. QED  BY <1>1, <2>1, <2>2, <2>3
<1>4. QED  BY <1>2, <1>3

LEMMA TwoDigits ==
  ASSUME NEW x \in 48..57, NEW y \in 48..57, (x - 48) * 10 + (y - 48) <= 63
  PROVE  NumberText(<<x, y>>) = SsidText(((x - 48) * 10 + (y - 48)) % 64)
<1> DEFINE m == (x - 48) * 10 + (y - 48)
<1>1. m \in 0..63 /\ m % 64 = m
  OBVIOUS
<1>2. CASE x = 48 /\ y = 48
  <2>1. NumberText(<<x, y>>) = <<>>
    BY <1>2 DEF NumberText
  <2>2. SsidText(0) = <<>>
    BY DEF SsidText
  <2>3. m = 0
    BY <1>2
  <2>4. QED  BY <1>1, <2>1, <2>2, <2>3
<1>3. CASE x = 48 /\ y # 48
  <2>1. NumberText(<<x, y>>) = <<Dash>> \o <<y>>
    <3>1. <<y>> # <<>> /\ <<y>> # <<48>> /\ Tail(<<x, y>>) = <<y>> /\ Len(<<x, y>>) = 2
      BY <1>3
    <3>2. QED  BY <1>3, <3>1 DEF NumberText
  <2>2. m = y - 48 /\ m \in 1..9
    BY <1>3
  <2>3. SsidText(m) = <<Dash, m + 48>> /\ m + 48 = y
    BY <2>2 DEF SsidText
  <2>4. QED  BY <1>1, <2>1, <2>3
<1>4. CASE x # 48
  <2>1. NumberText(<<x, y>>) = <<Dash>> \o <<x, y>>
    <3>1. <<x, y>> # <<>> /\ <<x, y>> # <<48>> /\ <<x, y>>[1] = x
      BY <1>4
    <3>2. QED  BY <1>4, <3>1 DEF NumberText
  <2>2. m > 9 /\ m \div 10 + 48 = x /\ (m % 10) + 48 = y
    BY <1>4
  <2>3. SsidText(m) = <<Dash, m \div 10 + 48, (m % 10) + 48>>
    BY <1>1, <2>2 DEF SsidText
  <2>4. QED  BY <1>1, <2>1, <2>2, <2>3
<1>5. QED  BY <1>2, <1>3, <1>4

LEMMA CanonicalIs ==
  ASSUME NEW s \in Seq(1..255), NEW n \in 1..Len(s), n = Len(s) \/ s[n + 1] = Dash,
         \A j \in 1..n : s[j] # Dash
  PROVE  Canonical(s) = [j \in 1..n |-> Capital(s[j])] \o NumberText(SubSeq(s, n + 2, Len(s)))
<1> DEFINE Cut(k) == (k = Len(s) \/ s[k + 1] = Dash) /\ \A j \in 1..k : s[j] # Dash
           m == CHOOSE k \in 1..Len(s) : Cut(k)
<1>1. ASSUME NEW i \in 1..Len(s), NEW j \in 1..Len(s), Cut(i), Cut(j)
      PROVE  ~(i < j)
  <2> SUFFICES ASSUME i < j PROVE FALSE
    OBVIOUS
  <2>1. i + 1 \in 1..j /\ i # Len(s)
    OBVIOUS
  <2>2. QED  BY <1>1, <2>1
<1>2. Cut(n)
  OBVIOUS
<1>3. m = n
  <2> HIDE DEF Cut
  <2>1. m \in 1..Len(s) /\ Cut(m)
    BY <1>2
  <2> HIDE DEF m
  <2>2. ~(m < n) /\ ~(n < m)
    BY <1>1, <1>2, <2>1
  <2>3. QED  BY <2>1, <2>2
<1>4. Canonical(s) = [j \in 1..m |-> Capital(s[j])] \o NumberText(SubSeq(s, m + 2, Len(s)))
  BY DEF Canonical, NumberText
<1> HIDE DEF m
<1>5. QED  BY <1>3, <1>4

(* The number at the end of a call sign whose characters end at n.         *)
LEMMA NumberRead ==
  ASSUME NEW s \in Seq(1..255), NEW n \in 1..7, Ends(s, n), n <= Len(s),
         \/ Len(s) = n
         \/ /\ Len(s) \in n+2..n+3 /\ s[n + 1] = Dash
            /\ \A j \in n+2..Len(s) : Digit(s[j])
            /\ Len(s) = n + 3 => (s[n + 2] - 48) * 10 + s[n + 3] - 48 <= 63
  PROVE  ~Refused(s) /\ SsidText(Ssid(s) % 64) = NumberText(SubSeq(s, n + 2, Len(s)))
<1>1. End(s) = n /\ Len(s) \in Nat
  BY EndIs
<1>2. CASE Len(s) = n
  <2>1. Char(s, n) = 0
    BY <1>1, <1>2 DEF Char
  <2>2. ~HasSsid(s)
    BY <1>1, <2>1 DEF HasSsid, Dash
  <2>3. SubSeq(s, n + 2, Len(s)) = <<>>
    BY <1>2, SubSeqEmpty
  <2>4. Ssid(s) % 64 = 0
    BY <2>2 DEF Ssid
  <2>5. QED  BY <2>2, <2>3, <2>4, NoNumber DEF Refused
<1>3. CASE Len(s) # n
  <2> DEFINE x == s[n + 2]
             y == s[n + 3]
             number == SubSeq(s, n + 2, Len(s))
  <2>1. /\ Len(s) \in n+2..n+3 /\ s[n + 1] = Dash
        /\ x \in 48..57 /\ (Len(s) = n + 3 => y \in 48..57)
        /\ Len(s) = n + 3 => (x - 48) * 10 + y - 48 <= 63
    BY <1>3 DEF Digit
  <2>2. HasSsid(s) /\ First(s) = x
    BY <1>1, <2>1 DEF HasSsid, First, Char
  <2>3. number \in Seq(1..255) /\ Len(number) = Len(s) - (n + 1)
    <3>1. \A i \in n+2..Len(s) : s[i] \in 1..255
      <4>1. n+2..Len(s) \subseteq 1..Len(s)
        OBVIOUS
      <4>2. QED  BY <4>1, ElementOfSeq
    <3>2. n + 2 \in Int /\ Len(s) \in Int
      BY <1>1
    <3>3. /\ SubSeq(s, n + 2, Len(s)) \in Seq(1..255)
          /\ Len(SubSeq(s, n + 2, Len(s))) = IF n + 2 <= Len(s) THEN Len(s) - (n + 2) + 1 ELSE 0
      BY <3>1, <3>2, SubSeqProperties
    <3>4. QED  BY <1>1, <2>1, <3>3
  <2>4. \A i \in 1..Len(s)-(n+1) : number[i] = s[n + 1 + i]
    OBVIOUS
  <2> HIDE DEF number, x, y
  <2>5. CASE Len(s) = n + 2
    <3>1. Second(s) = 0
      BY <1>1, <2>5 DEF Second, Char
    <3>2. ~Refused(s) /\ Ssid(s) = x - 48
      BY <2>1, <2>2, <3>1 DEF Refused, Ssid, Digit
    <3>3. number = <<x>>
      BY <2>3, <2>4, <2>5 DEF x
    <3>4. QED  BY <2>1, <3>2, <3>3, OneDigit DEF number
  <2>6. CASE Len(s) = n + 3
    <3>1. Second(s) = y
      BY <1>1, <2>6 DEF Second, Char, y
    <3>2. y \in 48..57 /\ (x - 48) * 10 + (y - 48) <= 63
      BY <2>1, <2>6
    <3>3. ~Refused(s) /\ Ssid(s) = (x - 48) * 10 + (y - 48)
      BY <2>1, <2>2, <3>1, <3>2 DEF Refused, Ssid, Digit
    <3>4. number = <<x, y>>
      <4>1. Len(number) = 2 /\ number[1] = x /\ number[2] = y
        BY <2>3, <2>4, <2>6 DEF x, y
      <4>2. QED  BY <2>3, <4>1
    <3>5. QED  BY <2>1, <3>2, <3>3, <3>4, TwoDigits, ZenonT(60) DEF number
  <2>7. QED  BY <2>1, <2>5, <2>6
<1>4. QED  BY <1>2, <1>3

(* A proper call sign is read as it is written, whatever was in memory.    *)
LEMMA ProperReadBack ==
  ASSUME NEW s \in Seq(1..255), Proper(s), NEW memory \in Seq(Octets), Len(memory) = 7, NEW before
  PROVE  Decode(Encode(s, memory, before)) = Canonical(s)
<1>1. PICK n \in 1..7 :
        /\ n <= Len(s) /\ \A j \in 1..n : Letter(s[j])
        /\ \/ Len(s) = n
           \/ /\ Len(s) \in n+2..n+3 /\ s[n + 1] = Dash
              /\ \A j \in n+2..Len(s) : Digit(s[j])
              /\ Len(s) = n + 3 => (s[n + 2] - 48) * 10 + s[n + 3] - 48 <= 63
  BY DEF Proper
<1>2. Len(s) \in Nat /\ n \in 1..Len(s)
  BY <1>1
<1>3. ASSUME NEW j \in 1..n
      PROVE  /\ s[j] \in 1..255 /\ s[j] # Dash /\ s[j] # 0
             /\ Sixbit(s[j]) # 0 /\ Sixbit(s[j]) + 32 = Capital(s[j])
  <2>1. j \in 1..Len(s)
    BY <1>2
  <2>2. s[j] \in 1..255
    BY <2>1, ElementOfSeq
  <2>3. Sixbit(s[j]) # 0 /\ Sixbit(s[j]) + 32 = Capital(s[j]) /\ s[j] # Dash
    BY <1>1, <2>2, LetterRead
  <2>4. s[j] # 0
    <3>1. 0 \notin 1..255
      OBVIOUS
    <3>2. QED  BY <2>2, <3>1, Zenon
  <2>5. QED  BY <2>2, <2>3, <2>4
<1>4. Ends(s, n)
  <2>1. ASSUME NEW k \in 0..n-1
        PROVE  Char(s, k) \notin {0, Dash}
    <3>1. k + 1 \in 1..n /\ k < Len(s)
      BY <1>2
    <3>2. QED  BY <1>3, <3>1 DEF Char
  <2>2. Char(s, n) \in {0, Dash}
    BY <1>1, <1>2 DEF Char
  <2>3. QED  BY <2>1, <2>2 DEF Ends
<1>5. ~Refused(s) /\ SsidText(Ssid(s) % 64) = NumberText(SubSeq(s, n + 2, Len(s)))
  BY <1>1, <1>2, <1>4, NumberRead
<1>6. Decode(Encode(s, memory, before))
        = [j \in 1..n |-> Sixbit(s[j]) + 32] \o SsidText(Ssid(s) % 64)
  <2>1. n <= Len(s) /\ ~Refused(s) /\ \A j \in 1..n : Sixbit(s[j]) # 0
    BY <1>1, <1>3, <1>5
  <2>2. QED  BY <1>4, <2>1, ReadBack, Zenon
<1>7. [j \in 1..n |-> Sixbit(s[j]) + 32] = [j \in 1..n |-> Capital(s[j])]
  BY <1>3
<1>8. Canonical(s) = [j \in 1..n |-> Capital(s[j])] \o NumberText(SubSeq(s, n + 2, Len(s)))
  BY <1>1, <1>2, <1>3, CanonicalIs
<1>9. QED  BY <1>5, <1>6, <1>7, <1>8

-----------------------------------------------------------------------------
(* Call signs from the air                                                 *)

(* The characters that six bits hold, but for the space.                   *)
Printed == 33..95

(* A text of n characters and a number.                                    *)
Written(text, n, number) ==
  /\ text \in Seq(Printed)
  /\ Len(text) = n + Len(SsidText(number))
  /\ \A k \in 1..Len(SsidText(number)) : text[n + k] = SsidText(number)[k]
  /\ text = [j \in 1..n |-> text[j]] \o SsidText(number)

(* What is shown of any six octets: up to seven characters, and a number   *)
(* behind a dash.                                                          *)
LEMMA ShownIs ==
  ASSUME NEW enc \in Seq(Octets), Len(enc) = 6, NEW text, text = Decode(enc)
  PROVE  \E n \in 0..7 : \E number \in Six : number = enc[6] % 64 /\ Written(text, n, number)
<1> DEFINE g == Groups(enc)
           number == enc[6] % 64
           tail == SsidText(number)
<1>1. PICK n : Stops(g, n)
  BY StopsSomewhere
<1> DEFINE front == [j \in 1..n |-> g[j] + 32]
<1>2. (\A k \in 1..8 : g[k] \in Six) /\ g[8] = number
  BY GroupsOfOctets
<1>3. n \in 0..7 /\ number \in Six
  <2>1. number \in Six
    BY <1>2
  <2>2. QED  BY <1>1, <2>1 DEF Stops
<1>4. front \in Seq(Printed) /\ Len(front) = n
  <2>1. \A j \in 1..n : g[j] \in Six /\ g[j] # 0
    BY <1>1, <1>2, <1>3 DEF Stops
  <2> HIDE DEF g
  <2>2. \A j \in 1..n : g[j] + 32 \in Printed
    <3>1. \A x \in Six : x # 0 => x + 32 \in Printed
      BY DEF Six, Printed
    <3>2. QED  BY <2>1, <3>1, Zenon
  <2>3. QED  BY <1>3, <2>2
<1>5. tail \in Seq(Printed)
  <2> HIDE DEF number
  <2>1. CASE number = 0
    BY <2>1 DEF SsidText
  <2>2. CASE number > 9
    <3>1. number \div 10 + 48 \in Printed /\ (number % 10) + 48 \in Printed /\ Dash \in Printed
      BY <1>3, <2>2 DEF Six, Dash, Printed
    <3>2. tail = <<Dash, number \div 10 + 48, (number % 10) + 48>>
      BY <1>3, <2>2 DEF SsidText, Six
    <3>3. QED  BY <3>1, <3>2
  <2>3. CASE number \in 1..9
    <3>1. number + 48 \in Printed /\ Dash \in Printed
      BY <2>3 DEF Dash, Printed
    <3>2. tail = <<Dash, number + 48>>
      BY <2>3 DEF SsidText
    <3>3. QED  BY <3>1, <3>2
  <2>4. QED  BY <1>3, <2>1, <2>2, <2>3 DEF Six
<1>6. text = front \o tail
  BY <1>1, <1>2, Decoded
<1> HIDE DEF front, tail, g
<1>7. front \in Seq(Printed) /\ tail \in Seq(Printed)
  BY <1>4, <1>5
<1>8. text \in Seq(Printed) /\ Len(text) = n + Len(tail)
  <2>1. front \o tail \in Seq(Printed) /\ Len(front \o tail) = Len(front) + Len(tail)
    BY <1>7, TwoParts, SMT
  <2>2. QED  BY <1>4, <1>6, <2>1
<1>9. \A k \in 1..Len(tail) : text[n + k] = tail[k]
  <2>1. \A k \in 1..Len(tail) : (front \o tail)[Len(front) + k] = tail[k]
    BY <1>7, TwoParts, SMT
  <2>2. QED  BY <1>4, <1>6, <2>1
<1>10. front = [j \in 1..n |-> text[j]]
  <2>1. \A j \in 1..Len(front) : (front \o tail)[j] = front[j]
    BY <1>7, TwoParts, SMT
  <2>2. front = [j \in 1..n |-> front[j]]
    BY DEF front
  <2>3. QED  BY <1>4, <1>6, <2>1, <2>2
<1>11. QED
  BY <1>3, <1>6, <1>8, <1>9, <1>10 DEF tail, Written

LEMMA TwoMembers ==
  ASSUME NEW D, IsFiniteSet(D), NEW x \in D, NEW y \in D, x # y
  PROVE  ~(Cardinality(D) <= 1)
<1>1. IsFiniteSet({x}) /\ Cardinality({x}) = 1
  BY FS_Singleton
<1>2. IsFiniteSet({x} \cup {y}) /\ Cardinality({x} \cup {y}) = Cardinality({x}) + 1
  <2>1. y \notin {x}
    OBVIOUS
  <2>2. QED  BY <1>1, <2>1, FS_AddElement
<1>3. Cardinality({x} \cup {y}) <= Cardinality(D)
  <2>1. {x} \cup {y} \subseteq D
    OBVIOUS
  <2>2. QED  BY <2>1, FS_Subset
<1>4. Cardinality(D) \in Nat
  BY FS_CardinalityType
<1>5. QED  BY <1>1, <1>2, <1>3, <1>4

LEMMA WiderSeq ==
  ASSUME NEW S, NEW T, S \subseteq T, NEW s \in Seq(S)
  PROVE  s \in Seq(T)
OBVIOUS

LEMMA PrintedRead ==
  ASSUME NEW c \in Printed
  PROVE  c \in 1..255 /\ Sixbit(c) # 0 /\ Sixbit(c) + 32 = c /\ c # 0
<1>1. c \in 33..95
  BY DEF Printed
<1>2. Sixbit(c) = (c - 32) % 64
  BY <1>1 DEF Sixbit
<1>3. QED  BY <1>1, <1>2

LEMMA PrintedSeq ==
  ASSUME NEW s \in Seq(Printed)
  PROVE  s \in Seq(1..255)
<1> DEFINE T == 1..255
<1>1. Printed \subseteq T
  BY PrintedRead
<1> HIDE DEF T
<1>2. s \in Seq(T)
  BY <1>1, WiderSeq
<1>3. QED
  BY <1>2 DEF T

(* The number that is shown is read again.                                 *)
LEMMA NumberReadAgain ==
  ASSUME NEW text \in Seq(1..255), NEW n \in 0..7, NEW number \in Six, Ends(text, n),
         Len(text) = n + Len(SsidText(number)),
         \A k \in 1..Len(SsidText(number)) : text[n + k] = SsidText(number)[k]
  PROVE  ~Refused(text) /\ Ssid(text) = number
<1>1. End(text) = n
  BY EndIs
<1>2. CASE number = 0
  <2>1. SsidText(number) = <<>>
    BY <1>2 DEF SsidText
  <2>2. Len(text) = n
    BY <2>1
  <2>3. ~HasSsid(text)
    BY <1>1, <2>2 DEF HasSsid, Char, Dash
  <2>4. QED  BY <1>2, <2>3 DEF Refused, Ssid
<1>3. CASE number \in 1..9
  <2>1. SsidText(number) = <<Dash, number + 48>>
    BY <1>3 DEF SsidText
  <2>2. Len(text) = n + 2 /\ text[n + 1] = Dash /\ text[n + 2] = number + 48
    BY <2>1
  <2>3. HasSsid(text) /\ First(text) = number + 48 /\ Second(text) = 0
    BY <1>1, <2>2 DEF HasSsid, First, Second, Char
  <2>4. QED  BY <1>3, <2>3 DEF Refused, Ssid, Digit
<1>4. CASE number > 9
  <2>1. SsidText(number) = <<Dash, number \div 10 + 48, (number % 10) + 48>>
    BY <1>4 DEF SsidText, Six
  <2>2. /\ Len(text) = n + 3 /\ text[n + 1] = Dash
        /\ text[n + 2] = number \div 10 + 48 /\ text[n + 3] = (number % 10) + 48
    BY <2>1
  <2>3. HasSsid(text) /\ First(text) = number \div 10 + 48 /\ Second(text) = (number % 10) + 48
    BY <1>1, <2>2 DEF HasSsid, First, Second, Char
  <2>4. /\ number \div 10 + 48 \in 48..57 /\ (number % 10) + 48 \in 48..57
        /\ number = (number \div 10) * 10 + (number % 10)
    BY <1>4 DEF Six
  <2>5. Digit(First(text)) /\ Digit(Second(text))
    BY <2>3, <2>4 DEF Digit
  <2>6. ~Refused(text) /\ Ssid(text) = (First(text) - 48) * 10 + (Second(text) - 48)
    BY <2>3, <2>5 DEF Refused, Ssid
  <2>7. PICK t \in 0..9, u \in 0..9 : t = number \div 10 /\ u = number % 10
    BY <1>4 DEF Six
  <2>8. Ssid(text) = number
    <3>1. First(text) = t + 48 /\ Second(text) = u + 48 /\ number = t * 10 + u
      BY <2>3, <2>4, <2>7, Zenon
    <3>2. QED  BY <2>6, <3>1, SMTT(60)
  <2>9. QED  BY <2>6, <2>8, Zenon
<1>5. QED  BY <1>2, <1>3, <1>4 DEF Six

LEMMA WrittenAgain ==
  ASSUME NEW text, NEW n \in 0..7, NEW number \in Six, Written(text, n, number),
         Cardinality({j \in DOMAIN text : text[j] = Dash}) <= (IF number = 0 THEN 0 ELSE 1),
         NEW memory \in Seq(Octets), Len(memory) = 7, NEW before
  PROVE  Decode(Encode(text, memory, before)) = text
<1> DEFINE tail == SsidText(number)
<1>1. /\ text \in Seq(Printed) /\ Len(text) = n + Len(tail)
       /\ \A k \in 1..Len(tail) : text[n + k] = tail[k]
       /\ text = [j \in 1..n |-> text[j]] \o tail
  BY DEF Written
<1>3. Len(SsidText(number)) \in Nat /\ Len(text) \in Nat /\ DOMAIN text = 1..Len(text)
  <2>1. Len(text) \in Nat /\ DOMAIN text = 1..Len(text)
    BY <1>1
  <2>2. Len(SsidText(number)) \in Nat
    BY DEF SsidText
  <2>3. QED  BY <2>1, <2>2
<1>4. number # 0 => Len(SsidText(number)) >= 1 /\ SsidText(number)[1] = Dash
  BY DEF SsidText
<1>5. \A j \in 1..n : text[j] \in Printed
  <2>1. 1..n \subseteq 1..Len(text)
    BY <1>1, <1>3
  <2>2. QED  BY <1>1, <2>1, ElementOfSeq
<1>6. text \in Seq(1..255)
  BY <1>1, PrintedSeq
<1>7. \A j \in 1..n : text[j] # Dash
  <2> DEFINE D == {j \in DOMAIN text : text[j] = Dash}
  <2>1. IsFiniteSet(D)
    <3>1. IsFiniteSet(1..Len(text))
      BY <1>3, FS_Interval
    <3>2. D \subseteq 1..Len(text)
      BY <1>3
    <3>3. QED  BY <3>1, <3>2, FS_Subset
  <2> SUFFICES ASSUME NEW j \in 1..n, text[j] = Dash PROVE FALSE
    OBVIOUS
  <2>2. j \in D
    BY <1>1, <1>3
  <2>3. CASE number = 0
    <3>1. Cardinality(D) \in Nat /\ Cardinality(D) <= 0
      BY <2>1, <2>3, FS_CardinalityType
    <3>2. Cardinality(D) = 0
      BY <3>1
    <3>3. D = {}
      BY <2>1, <3>2, FS_EmptySet
    <3>4. QED  BY <2>2, <3>3
  <2>4. CASE number # 0
    <3>1. n + 1 \in D
      BY <1>1, <1>3, <1>4, <2>4
    <3>2. j # n + 1
      OBVIOUS
    <3>3. Cardinality(D) <= 1
      BY <1>1, <2>4
    <3> HIDE DEF D
    <3>4. QED  BY <2>1, <2>2, <3>1, <3>2, <3>3, TwoMembers
  <2>5. QED  BY <2>3, <2>4
<1>8. Ends(text, n)
  <2>1. ASSUME NEW k \in 0..n-1
        PROVE  Char(text, k) \notin {0, Dash}
    <3>1. k + 1 \in 1..n /\ k < Len(text)
      BY <1>1, <1>3
    <3>2. Char(text, k) = text[k + 1]
      BY <3>1 DEF Char
    <3>3. QED  BY <1>5, <1>7, <3>1, <3>2, PrintedRead
  <2>2. CASE number = 0
    <3>1. SsidText(number) = <<>>
      BY <2>2 DEF SsidText
    <3>2. Char(text, n) = 0
      BY <1>1, <3>1 DEF Char
    <3>3. QED  BY <2>1, <3>2 DEF Ends
  <2>3. CASE number # 0
    <3>1. Len(tail) \in Nat /\ Len(tail) >= 1 /\ tail[1] = Dash
      BY <1>3, <1>4, <2>3
    <3>2. n < Len(text) /\ text[n + 1] = Dash
      BY <1>1, <3>1
    <3>3. Char(text, n) = Dash
      BY <3>2 DEF Char
    <3>4. QED  BY <2>1, <3>3 DEF Ends
  <2>4. QED  BY <2>2, <2>3
<1>9. ~Refused(text) /\ Ssid(text) = number
  BY <1>1, <1>6, <1>8, NumberReadAgain
<1>10. number % 64 = number
  BY DEF Six
<1>11. \A j \in 1..n : Sixbit(text[j]) # 0 /\ Sixbit(text[j]) + 32 = text[j]
  BY <1>5, PrintedRead
<1>12. Decode(Encode(text, memory, before))
         = [j \in 1..n |-> Sixbit(text[j]) + 32] \o SsidText(Ssid(text) % 64)
  <2>1. n <= Len(text)
    BY <1>1, <1>3
  <2>2. /\ ~Refused(text) /\ Ends(text, n)
        /\ \A j \in 1..n : Sixbit(text[j]) # 0
    BY <1>8, <1>9, <1>11, Zenon
  <2>3. QED  BY <1>6, <2>1, <2>2, ReadBack, Zenon
<1>13. [j \in 1..n |-> Sixbit(text[j]) + 32] = [j \in 1..n |-> text[j]]
  BY <1>11
<1>14. QED
  BY <1>1, <1>9, <1>10, <1>12, <1>13

LEMMA ShownAgain ==
  ASSUME NEW enc \in Seq(Octets), Len(enc) = 6, NEW text, text = Decode(enc),
         Cardinality({j \in DOMAIN text : text[j] = Dash}) <= (IF enc[6] % 64 = 0 THEN 0 ELSE 1),
         NEW memory \in Seq(Octets), Len(memory) = 7, NEW before
  PROVE  Decode(Encode(text, memory, before)) = text
<1>1. PICK n \in 0..7 : \E number \in Six : number = enc[6] % 64 /\ Written(text, n, number)
  BY ShownIs
<1>2. PICK number \in Six : number = enc[6] % 64 /\ Written(text, n, number)
  BY <1>1
<1>3. QED
  BY <1>2, WrittenAgain

-----------------------------------------------------------------------------
(* Packets of packCommand                                                  *)

(* Decoding looks at six octets, also where a sub-packet has seven.        *)
LEMMA SameSix ==
  ASSUME NEW a, NEW b, \A k \in 1..6 : a[k] = b[k]
  PROVE  Decode(a) = Decode(b)
<1> DEFINE Text(g) ==
      LET end == CHOOSE j \in 0..7 : (j = 7 \/ g[j + 1] = 0) /\ \A k \in 1..j : g[k] # 0
      IN  [j \in 1..end |-> g[j] + 32] \o SsidText(g[8])
<1>1. Decode(a) = Text(Groups(a)) /\ Decode(b) = Text(Groups(b))
  BY DEF Decode, Groups
<1> HIDE DEF Text
<1>2. a[1] = b[1] /\ a[2] = b[2] /\ a[3] = b[3] /\ a[4] = b[4] /\ a[5] = b[5] /\ a[6] = b[6]
  OBVIOUS
<1>3. Groups(a) = Groups(b)
  BY <1>2 DEF Groups
<1>4. QED  BY <1>1, <1>3

(* p is a, of n octets, and behind it b, of m octets.                      *)
Front(p, a, n)     == \A k \in 1..n : p[k] = a[k]
Behind(p, n, b, m) == \A k \in 1..m : p[n + k] = b[k]

Joined(p, a, n, b, m) ==
  p \in Seq(Octets) /\ Len(p) = n + m /\ Front(p, a, n) /\ Behind(p, n, b, m)

LEMMA Appended ==
  ASSUME NEW a \in Seq(Octets), NEW b \in Seq(Octets), NEW n \in Nat, NEW m \in Nat,
         Len(a) = n, Len(b) = m
  PROVE  Joined(a \o b, a, n, b, m)
<1>1. a \o b \in Seq(Octets) /\ Len(a \o b) = Len(a) + Len(b)
  BY TwoParts, Zenon
<1>2. \A k \in 1..Len(a) : (a \o b)[k] = a[k]
  BY TwoParts, Zenon
<1>3. \A k \in 1..Len(b) : (a \o b)[Len(a) + k] = b[k]
  BY TwoParts, SMT
<1>4. QED  BY <1>1, <1>2, <1>3 DEF Joined, Front, Behind

(* The pieces of a packet, one behind the other.                           *)
Laid(d, h1, e, h3, f, h4, size, command) ==
  /\ d \in Seq(Octets) /\ Len(d) = 19 + size
  /\ d[1] = h1[1] /\ d[2] = h1[2] /\ d[10] = h3[1] /\ d[11] = h3[2]
  /\ d[18] = h4[1] /\ d[19] = h4[2]
  /\ \A k \in 1..6 : d[2 + k] = e[k] /\ d[11 + k] = f[k]
  /\ \A k \in 1..size : d[19 + k] = command[k]

LEMMA Layout ==
  ASSUME NEW h1 \in Seq(Octets), Len(h1) = 2, NEW e \in Seq(Octets), Len(e) = 6,
         NEW h2 \in Seq(Octets), Len(h2) = 1,
         NEW h3 \in Seq(Octets), Len(h3) = 2, NEW f \in Seq(Octets), Len(f) = 6,
         NEW h4 \in Seq(Octets), Len(h4) = 2,
         NEW size \in Nat, NEW command \in Seq(Octets), Len(command) = size
  PROVE  Laid(h1 \o e \o h2 \o h3 \o f \o h4 \o command, h1, e, h3, f, h4, size, command)
<1> DEFINE p1 == h1 \o e
           p2 == p1 \o h2
           p3 == p2 \o h3
           p4 == p3 \o f
           p5 == p4 \o h4
           p6 == p5 \o command
<1>0. /\ 1 \in Nat /\ 2 \in Nat /\ 6 \in Nat /\ 8 \in Nat /\ 9 \in Nat /\ 11 \in Nat /\ 17 \in Nat /\ 19 \in Nat
      /\ 2 + 6 = 8 /\ 8 + 1 = 9 /\ 9 + 2 = 11 /\ 11 + 6 = 17 /\ 17 + 2 = 19
  OBVIOUS
<1>1. Joined(p1, h1, 2, e, 6)
  BY <1>0, Appended, Zenon
<1>2. Joined(p2, p1, 8, h2, 1)
  <2> HIDE DEF p1
  <2>1. p1 \in Seq(Octets) /\ Len(p1) = 8
    BY <1>0, <1>1, Zenon DEF Joined
  <2>2. QED  BY <1>0, <2>1, Appended, Zenon
<1>3. Joined(p3, p2, 9, h3, 2)
  <2> HIDE DEF p2
  <2>1. p2 \in Seq(Octets) /\ Len(p2) = 9
    BY <1>0, <1>2, Zenon DEF Joined
  <2>2. QED  BY <1>0, <2>1, Appended, Zenon
<1>4. Joined(p4, p3, 11, f, 6)
  <2> HIDE DEF p3
  <2>1. p3 \in Seq(Octets) /\ Len(p3) = 11
    BY <1>0, <1>3, Zenon DEF Joined
  <2>2. QED  BY <1>0, <2>1, Appended, Zenon
<1>5. Joined(p5, p4, 17, h4, 2)
  <2> HIDE DEF p4
  <2>1. p4 \in Seq(Octets) /\ Len(p4) = 17
    BY <1>0, <1>4, Zenon DEF Joined
  <2>2. QED  BY <1>0, <2>1, Appended, Zenon
<1>6. Joined(p6, p5, 19, command, size)
  <2> HIDE DEF p5
  <2>1. p5 \in Seq(Octets) /\ Len(p5) = 19
    BY <1>0, <1>5, Zenon DEF Joined
  <2>2. QED  BY <1>0, <2>1, Appended, Zenon
<1> HIDE DEF p1, p2, p3, p4, p5
<1>7. Front(p6, p3, 11)
  <2> HIDE DEF p6
  <2> SUFFICES ASSUME NEW k \in 1..11 PROVE p6[k] = p3[k]
    BY DEF Front
  <2>1. k \in 1..17 /\ k \in 1..19
    OBVIOUS
  <2>2. QED  BY <1>4, <1>5, <1>6, <2>1, Zenon DEF Joined, Front
<1>8. Front(p6, p1, 8)
  <2> HIDE DEF p6
  <2> SUFFICES ASSUME NEW k \in 1..8 PROVE p6[k] = p1[k]
    BY DEF Front
  <2>1. k \in 1..9 /\ k \in 1..11
    OBVIOUS
  <2>2. QED  BY <1>2, <1>3, <1>7, <2>1, Zenon DEF Joined, Front
<1>9. \A k \in 1..6 : p6[2 + k] = e[k] /\ p6[11 + k] = f[k]
  <2> HIDE DEF p6
  <2> SUFFICES ASSUME NEW k \in 1..6 PROVE p6[2 + k] = e[k] /\ p6[11 + k] = f[k]
    OBVIOUS
  <2>1. 2 + k \in 1..8 /\ 11 + k \in 1..17 /\ 11 + k \in 1..19
    OBVIOUS
  <2>2. QED  BY <1>1, <1>4, <1>5, <1>6, <1>8, <2>1, ZenonT(60) DEF Joined, Front, Behind
<1>10. /\ p6[1] = h1[1] /\ p6[2] = h1[2] /\ p6[10] = h3[1] /\ p6[11] = h3[2]
       /\ p6[18] = h4[1] /\ p6[19] = h4[2]
  <2> HIDE DEF p6
  <2>1. p3[9 + 1] = h3[1] /\ p3[9 + 2] = h3[2] /\ p5[17 + 1] = h4[1] /\ p5[17 + 2] = h4[2]
    BY <1>3, <1>5 DEF Joined, Behind
  <2>2. /\ 1 \in 1..2 /\ 2 \in 1..2 /\ 1 \in 1..8 /\ 2 \in 1..8
        /\ 10 \in 1..11 /\ 11 \in 1..11 /\ 18 \in 1..19 /\ 19 \in 1..19
        /\ 9 + 1 = 10 /\ 9 + 2 = 11 /\ 17 + 1 = 18 /\ 17 + 2 = 19
    OBVIOUS
  <2>3. p3[10] = h3[1] /\ p3[11] = h3[2] /\ p5[18] = h4[1] /\ p5[19] = h4[2]
    BY <2>1, <2>2, Zenon
  <2>4. p1[1] = h1[1] /\ p1[2] = h1[2]
    BY <1>1, <2>2, Zenon DEF Joined, Front
  <2>5. QED  BY <1>6, <1>7, <1>8, <2>2, <2>3, <2>4, Zenon DEF Joined, Front
<1>11. h1 \o e \o h2 \o h3 \o f \o h4 \o command = p6
  BY DEF p1, p2, p3, p4, p5, p6
<1> HIDE DEF p6
<1>12. p6 \in Seq(Octets) /\ Len(p6) = 19 + size /\ \A k \in 1..size : p6[19 + k] = command[k]
  BY <1>6 DEF Joined, Behind
<1>13. QED  BY <1>9, <1>10, <1>11, <1>12, Zenon DEF Laid

LEMMA SetInduction ==
  ASSUME NEW S, 0 \in S, \A n \in Nat : n \in S => n + 1 \in S
  PROVE  Nat \subseteq S
<1> SUFFICES ASSUME Nat \ S # {} PROVE FALSE
  OBVIOUS
<1>1. PICK x \in Nat \ S : \A y \in Nat \ S : x <= y
  BY Least
<1>2. x # 0 /\ x - 1 \in Nat /\ ~(x <= x - 1)
  BY <1>1
<1>3. x - 1 \in S /\ (x - 1) + 1 = x
  BY <1>1, <1>2
<1>4. QED
  BY <1>1, <1>2, <1>3

(* The walk of SubPackets: what is read from a place on.                   *)
Fits(d, i) == i + 1 <= Len(d) /\ i + 1 + d[i + 1] <= Len(d)
At(d, i)   == [type |-> d[i], data |-> SubSeq(d, i + 2, i + 1 + d[i + 1])]
Walk(d, from) ==
  [i \in 1..Len(d)+1 |-> IF Fits(d, i) THEN <<At(d, i)>> \o from[i + 2 + d[i + 1]] ELSE <<>>]

LEMMA NextPlace ==
  ASSUME NEW d \in Seq(Octets), NEW i \in 1..Len(d)+1, Fits(d, i)
  PROVE  i + 2 + d[i + 1] \in i+2..Len(d)+1
<1>1. i + 1 \in 1..Len(d)
  BY DEF Fits
<1>2. d[i + 1] \in 0..255
  <2>1. d[i + 1] \in Octets
    BY <1>1, ElementOfSeq
  <2>2. QED  BY <2>1 DEF Octets
<1> DEFINE v == d[i + 1]
<1>3. v \in 0..255 /\ i + 1 + v <= Len(d) /\ i \in Nat /\ Len(d) \in Nat
  BY <1>2 DEF Fits
<1> HIDE DEF v
<1>4. i + 2 + v \in i+2..Len(d)+1
  BY <1>3
<1>5. QED  BY <1>4 DEF v

(* The recursion goes forward, so that there is a function it defines.     *)
LEMMA WalkExists ==
  ASSUME NEW d \in Seq(Octets)
  PROVE  \E from : from = Walk(d, from)
<1> DEFINE D == 1..Len(d)+1
           Good(from, n) == /\ from = [i \in D |-> from[i]]
                            /\ \A i \in D : i + n > Len(d) => from[i] = Walk(d, from)[i]
           S == {n \in Nat : \E from : Good(from, n)}
<1>1. 0 \in S
  <2> DEFINE from == [i \in D |-> <<>>]
  <2>1. ASSUME NEW i \in D, i + 0 > Len(d)
        PROVE  from[i] = Walk(d, from)[i]
    <3>1. ~ Fits(d, i)
      BY <2>1 DEF Fits
    <3>2. QED  BY <3>1 DEF Walk
  <2>2. from = [i \in D |-> from[i]]
    OBVIOUS
  <2>3. Good(from, 0)
    BY <2>1, <2>2
  <2> HIDE DEF Good
  <2>4. QED  BY <2>3
<1>2. ASSUME NEW n \in Nat, n \in S
      PROVE  n + 1 \in S
  <2>1. PICK from : Good(from, n)
    BY <1>2
  <2> DEFINE new == [i \in D |-> IF i + n > Len(d) THEN from[i] ELSE Walk(d, from)[i]]
  <2>2. \A i \in D : new[i] = Walk(d, from)[i]
    BY <2>1
  <2>3. ASSUME NEW i \in D, i + (n + 1) > Len(d)
        PROVE  new[i] = Walk(d, new)[i]
    <3>1. CASE Fits(d, i)
      <4> DEFINE next == i + 2 + d[i + 1]
      <4>1. next \in D /\ next + n > Len(d)
        BY <2>3, <3>1, NextPlace
      <4>2. new[next] = from[next]
        <5> HIDE DEF next
        <5>1. QED  BY <4>1
      <4> HIDE DEF new
      <4>3. Walk(d, from)[i] = <<At(d, i)>> \o from[next]
        BY <3>1 DEF Walk
      <4>4. Walk(d, new)[i] = <<At(d, i)>> \o new[next]
        BY <3>1 DEF Walk
      <4>5. QED  BY <2>2, <4>2, <4>3, <4>4
    <3>2. CASE ~ Fits(d, i)
      <4> HIDE DEF new
      <4>1. Walk(d, from)[i] = <<>> /\ Walk(d, new)[i] = <<>>
        BY <3>2 DEF Walk
      <4>2. QED  BY <2>2, <4>1
    <3>3. QED  BY <3>1, <3>2
  <2>4. new = [i \in D |-> new[i]]
    OBVIOUS
  <2> HIDE DEF new
  <2>5. Good(new, n + 1)
    BY <2>3, <2>4
  <2> HIDE DEF Good
  <2>6. QED  BY <2>5
<1>3. Len(d) \in S
  <2> HIDE DEF S
  <2>1. Nat \subseteq S
    BY <1>1, <1>2, SetInduction
  <2>2. QED  BY <2>1
<1>4. PICK from : Good(from, Len(d))
  BY <1>3
<1>5. \A i \in D : from[i] = Walk(d, from)[i]
  BY <1>4
<1>6. from = Walk(d, from)
  <2>1. from = [i \in D |-> from[i]]
    BY <1>4
  <2>2. Walk(d, from) = [i \in D |-> Walk(d, from)[i]]
    BY DEF Walk
  <2>3. [i \in D |-> from[i]] = [i \in D |-> Walk(d, from)[i]]
    BY <1>5
  <2>4. QED  BY <2>1, <2>2, <2>3, Zenon
<1>7. QED  BY <1>6

LEMMA WalkIs ==
  ASSUME NEW d \in Seq(Octets)
  PROVE  \E from :
           /\ SubPackets(d) = from[1]
           /\ \A i \in 1..Len(d)+1 :
                from[i] = IF Fits(d, i) THEN <<At(d, i)>> \o from[i + 2 + d[i + 1]] ELSE <<>>
<1> DEFINE Body(from) ==
      [i \in 1..Len(d)+1 |->
        IF i + 1 > Len(d) \/ i + 1 + d[i + 1] > Len(d) THEN <<>>
        ELSE <<[type |-> d[i], data |-> SubSeq(d, i + 2, i + 1 + d[i + 1])]>> \o from[i + 2 + d[i + 1]]]
           from == CHOOSE f : f = Body(f)
<1>1. ASSUME NEW f
      PROVE  Walk(d, f) = Body(f)
  <2>1. ASSUME NEW i \in 1..Len(d)+1
        PROVE  Walk(d, f)[i] = Body(f)[i]
    <3>1. i \in Int /\ Len(d) \in Int
      OBVIOUS
    <3>2. i + 1 <= Len(d) => d[i + 1] \in Int
      <4>1. i + 1 <= Len(d) => i + 1 \in 1..Len(d)
        BY <3>1
      <4>2. i + 1 <= Len(d) => d[i + 1] \in Octets
        BY <4>1, ElementOfSeq
      <4>3. Octets \subseteq Int
        BY DEF Octets
      <4>4. QED  BY <4>2, <4>3
    <3>3. Fits(d, i) <=> ~(i + 1 > Len(d) \/ i + 1 + d[i + 1] > Len(d))
      BY <3>1, <3>2 DEF Fits
    <3>4. QED  BY <3>3, Zenon DEF Walk, At
  <2>2. Walk(d, f) = [i \in 1..Len(d)+1 |-> Walk(d, f)[i]]
    BY DEF Walk
  <2>3. Body(f) = [i \in 1..Len(d)+1 |-> Body(f)[i]]
    OBVIOUS
  <2> HIDE DEF Body
  <2>4. QED  BY <2>1, <2>2, <2>3
<1>2. SubPackets(d) = from[1]
  BY DEF SubPackets
<1>3. \E f : f = Body(f)
  <2> HIDE DEF Body
  <2>1. QED  BY <1>1, WalkExists
<1>4. from = Body(from)
  <2> HIDE DEF Body
  <2>1. QED  BY <1>3
<1>5. from = Walk(d, from)
  <2> HIDE DEF Body, from
  <2>1. QED  BY <1>1, <1>4
<1> HIDE DEF from
<1>6. \A i \in 1..Len(d)+1 :
        from[i] = IF Fits(d, i) THEN <<At(d, i)>> \o from[i + 2 + d[i + 1]] ELSE <<>>
  BY <1>5 DEF Walk
<1>7. QED  BY <1>2, <1>6

LEMMA ThreeOf ==
  ASSUME NEW a, NEW b, NEW c
  PROVE  LET s == <<a>> \o (<<b>> \o (<<c>> \o <<>>))
         IN  Len(s) = 3 /\ s[1] = a /\ s[2] = b /\ s[3] = c
OBVIOUS

(* Three sub-packets are found, at the first, the tenth and the eighteenth *)
(* octet.                                                                  *)
LEMMA ThreeFound ==
  ASSUME NEW d \in Seq(Octets), NEW size \in Nat, Len(d) = 19 + size,
         d[2] = 7, d[11] = 6, d[19] = size
  PROVE  LET found == SubPackets(d)
         IN  Len(found) = 3 /\ found[1] = At(d, 1) /\ found[2] = At(d, 10) /\ found[3] = At(d, 18)
<1>1. PICK from :
        /\ SubPackets(d) = from[1]
        /\ \A i \in 1..Len(d)+1 :
             from[i] = IF Fits(d, i) THEN <<At(d, i)>> \o from[i + 2 + d[i + 1]] ELSE <<>>
  BY WalkIs
<1>2. 1 \in 1..Len(d)+1 /\ 10 \in 1..Len(d)+1 /\ 18 \in 1..Len(d)+1 /\ 20 + size \in 1..Len(d)+1
  OBVIOUS
<1>3. Fits(d, 1) /\ Fits(d, 10) /\ Fits(d, 18) /\ ~ Fits(d, 20 + size)
  <2>1. Fits(d, 1)
    BY DEF Fits
  <2>2. Fits(d, 10)
    BY DEF Fits
  <2>3. Fits(d, 18)
    BY DEF Fits
  <2>4. ~(20 + size + 1 <= 19 + size)
    OBVIOUS
  <2>5. QED  BY <2>1, <2>2, <2>3, <2>4 DEF Fits
<1>4. 1 + 2 + d[1 + 1] = 10 /\ 10 + 2 + d[10 + 1] = 18 /\ 18 + 2 + d[18 + 1] = 20 + size
  OBVIOUS
<1>5. /\ from[1] = <<At(d, 1)>> \o from[1 + 2 + d[1 + 1]]
      /\ from[10] = <<At(d, 10)>> \o from[10 + 2 + d[10 + 1]]
      /\ from[18] = <<At(d, 18)>> \o from[18 + 2 + d[18 + 1]]
      /\ from[20 + size] = <<>>
  BY <1>1, <1>2, <1>3, Zenon
<1>6. SubPackets(d) = <<At(d, 1)>> \o (<<At(d, 10)>> \o (<<At(d, 18)>> \o <<>>))
  BY <1>1, <1>4, <1>5, Zenon
<1>7. QED  BY <1>6, ThreeOf

(* A reader finds the call signs of both stations and the command.         *)
Found(d, destination, source, command) ==
  LET found == SubPackets(d)
  IN  /\ Len(found) = 3
      /\ found[1].type = EXT_TYPE_SRC /\ Decode(found[1].data) = Canonical(source)
      /\ found[2].type = EXT_TYPE_DEST /\ Decode(found[2].data) = Canonical(destination)
      /\ found[3].type = EXT_TYPE_CMD_REQ /\ found[3].data = command

LEMMA PackedReadBack ==
  ASSUME NEW destination \in Seq(1..255), NEW source \in Seq(1..255),
         Proper(destination), Proper(source),
         NEW command \in Seq(Octets), Len(command) <= MAX_SIZE,
         NEW memory \in Seq(Octets), Len(memory) = 7
  PROVE  Found(packCommand(destination, source, command, memory), destination, source, command)
<1> DEFINE before == SubSeq(memory, 1, 6)
           e == Encode(source, memory, before)
           f == Encode(destination, memory, before)
           size == Len(command)
           h1 == <<1, 7>>
           h2 == <<123>>
           h3 == <<6, 6>>
           h4 == <<7, size>>
           d == h1 \o e \o h2 \o h3 \o f \o h4 \o command
<1>1. packCommand(destination, source, command, memory) = d
  <2>1. ~(Len(command) > MAX_SIZE)
    BY DEF MAX_SIZE
  <2>2. SubHeader(EXT_TYPE_SRC) = h1 /\ SubHeader(EXT_TYPE_DEST) = h3 /\ EXT_TYPE_CMD_REQ = 7
    BY DEF SubHeader, EXT_TYPE_SRC, EXT_TYPE_DEST, EXT_TYPE_CMD_REQ
  <2>3. QED  BY <2>1, <2>2, Zenon DEF packCommand
<1>2. /\ e \in Seq(Octets) /\ Len(e) = 6 /\ f \in Seq(Octets) /\ Len(f) = 6
      /\ Decode(e) = Canonical(source) /\ Decode(f) = Canonical(destination)
  BY EncodeType, ProperReadBack, Zenon
<1>3. size \in Nat /\ size \in 0..203
  <2>1. size \in Nat
    OBVIOUS
  <2> HIDE DEF size
  <2>2. size <= 203
    BY DEF MAX_SIZE, size
  <2>3. QED  BY <2>1, <2>2
<1>4. /\ h1 \in Seq(Octets) /\ Len(h1) = 2 /\ h1[1] = 1 /\ h1[2] = 7
      /\ h2 \in Seq(Octets) /\ Len(h2) = 1
      /\ h3 \in Seq(Octets) /\ Len(h3) = 2 /\ h3[1] = 6 /\ h3[2] = 6
      /\ h4 \in Seq(Octets) /\ Len(h4) = 2 /\ h4[1] = 7 /\ h4[2] = size
  <2> HIDE DEF size
  <2>1. QED  BY <1>3 DEF Octets
<1> HIDE DEF e, f, size, h1, h2, h3, h4
<1>5. Len(command) = size
  BY DEF size
<1>6. /\ d \in Seq(Octets) /\ Len(d) = 19 + size
      /\ d[1] = h1[1] /\ d[2] = h1[2] /\ d[10] = h3[1] /\ d[11] = h3[2]
      /\ d[18] = h4[1] /\ d[19] = h4[2]
      /\ \A k \in 1..6 : d[2 + k] = e[k] /\ d[11 + k] = f[k]
      /\ \A k \in 1..size : d[19 + k] = command[k]
  <2>1. Laid(d, h1, e, h3, f, h4, size, command)
    BY <1>2, <1>3, <1>4, <1>5, Layout, Zenon
  <2>2. QED  BY <2>1, Zenon DEF Laid
<1> HIDE DEF d
<1>7. /\ d[1] = 1 /\ d[2] = 7 /\ d[10] = 6 /\ d[11] = 6 /\ d[18] = 7 /\ d[19] = size
  BY <1>4, <1>6, Zenon
<1> DEFINE found == SubPackets(d)
<1>8. Len(found) = 3 /\ found[1] = At(d, 1) /\ found[2] = At(d, 10) /\ found[3] = At(d, 18)
  BY <1>3, <1>6, <1>7, ThreeFound, Zenon
<1>9. /\ At(d, 1) = [type |-> 1, data |-> SubSeq(d, 3, 9)]
      /\ At(d, 10) = [type |-> 6, data |-> SubSeq(d, 12, 17)]
      /\ At(d, 18) = [type |-> 7, data |-> SubSeq(d, 20, 19 + size)]
  <2>1. /\ 1 + 1 = 2 /\ 1 + 2 = 3 /\ 1 + 1 + 7 = 9
        /\ 10 + 1 = 11 /\ 10 + 2 = 12 /\ 10 + 1 + 6 = 17
        /\ 18 + 1 = 19 /\ 18 + 2 = 20
    OBVIOUS
  <2>2. QED  BY <1>7, <2>1, Zenon DEF At
<1>10. Decode(SubSeq(d, 3, 9)) = Decode(e)
  <2>1. \A k \in 1..6 : SubSeq(d, 3, 9)[k] = e[k]
    <3> SUFFICES ASSUME NEW k \in 1..6 PROVE SubSeq(d, 3, 9)[k] = e[k]
      OBVIOUS
    <3>1. \A j \in 3..9 : d[j] \in Octets
      <4>1. 3..9 \subseteq 1..Len(d)
        BY <1>3, <1>6
      <4>2. QED  BY <1>6, <4>1, ElementOfSeq
    <3>2. SubSeq(d, 3, 9)[k] = d[3 + k - 1]
      BY <3>1, SubSeqProperties
    <3>3. 3 + k - 1 = 2 + k
      OBVIOUS
    <3>4. QED  BY <1>6, <3>2, <3>3
  <2>2. QED  BY <2>1, SameSix
<1>11. Decode(SubSeq(d, 12, 17)) = Decode(f)
  <2>1. \A k \in 1..6 : SubSeq(d, 12, 17)[k] = f[k]
    <3> SUFFICES ASSUME NEW k \in 1..6 PROVE SubSeq(d, 12, 17)[k] = f[k]
      OBVIOUS
    <3>1. \A j \in 12..17 : d[j] \in Octets
      <4>1. 12..17 \subseteq 1..Len(d)
        BY <1>3, <1>6
      <4>2. QED  BY <1>6, <4>1, ElementOfSeq
    <3>2. SubSeq(d, 12, 17)[k] = d[12 + k - 1]
      BY <3>1, SubSeqProperties
    <3>3. 12 + k - 1 = 11 + k
      OBVIOUS
    <3>4. QED  BY <1>6, <3>2, <3>3
  <2>2. QED  BY <2>1, SameSix
<1>12. SubSeq(d, 20, 19 + size) = command
  <2>1. \A j \in 20..19+size : d[j] \in Octets
    <3>1. 20..19+size \subseteq 1..Len(d)
      BY <1>3, <1>6
    <3>2. QED  BY <1>6, <3>1, ElementOfSeq
  <2>2. /\ SubSeq(d, 20, 19 + size) \in Seq(Octets)
        /\ Len(SubSeq(d, 20, 19 + size)) = size
        /\ \A k \in 1..size : SubSeq(d, 20, 19 + size)[k] = d[20 + k - 1]
    BY <1>3, <2>1, SubSeqProperties
  <2>3. \A k \in 1..size : SubSeq(d, 20, 19 + size)[k] = command[k]
    <3> SUFFICES ASSUME NEW k \in 1..size PROVE SubSeq(d, 20, 19 + size)[k] = command[k]
      OBVIOUS
    <3>1. 20 + k - 1 = 19 + k
      BY <1>3
    <3>2. QED  BY <1>6, <2>2, <3>1, SMTT(60)
  <2>4. QED  BY <1>5, <2>2, <2>3, SeqEqual
<1>13. /\ found[1].type = 1 /\ Decode(found[1].data) = Canonical(source)
       /\ found[2].type = 6 /\ Decode(found[2].data) = Canonical(destination)
       /\ found[3].type = 7 /\ found[3].data = command
  <2>1. /\ found[1].type = 1 /\ found[1].data = SubSeq(d, 3, 9)
        /\ found[2].type = 6 /\ found[2].data = SubSeq(d, 12, 17)
        /\ found[3].type = 7 /\ found[3].data = SubSeq(d, 20, 19 + size)
    <3> HIDE DEF found
    <3>1. /\ found[1] = [type |-> 1, data |-> SubSeq(d, 3, 9)]
          /\ found[2] = [type |-> 6, data |-> SubSeq(d, 12, 17)]
          /\ found[3] = [type |-> 7, data |-> SubSeq(d, 20, 19 + size)]
      BY <1>8, <1>9, Zenon
    <3> DEFINE x == SubSeq(d, 3, 9)
               y == SubSeq(d, 12, 17)
               z == SubSeq(d, 20, 19 + size)
    <3> HIDE DEF x, y, z
    <3>2. /\ found[1] = [type |-> 1, data |-> x]
          /\ found[2] = [type |-> 6, data |-> y]
          /\ found[3] = [type |-> 7, data |-> z]
      BY <3>1 DEF x, y, z
    <3>3. /\ found[1].type = 1 /\ found[1].data = x
          /\ found[2].type = 6 /\ found[2].data = y
          /\ found[3].type = 7 /\ found[3].data = z
      BY <3>2
    <3>4. QED  BY <3>3, Zenon DEF x, y, z
  <2>2. QED  BY <1>2, <1>10, <1>11, <1>12, <2>1, Zenon
<1>14. QED
  BY <1>1, <1>8, <1>13, Zenon DEF Found, EXT_TYPE_SRC, EXT_TYPE_DEST, EXT_TYPE_CMD_REQ

-----------------------------------------------------------------------------
(* The calls                                                               *)

Command(size) == [j \in 1..size |-> 65 + (j % 26)]

(* What was encoded, received or packed last, and with which memory.       *)
CallInv ==
  /\ enc_callsign # NULL => enc_callsign \in Seq(Octets) /\ Len(enc_callsign) = 6
  /\ enc_callsign = NULL => callsign = NULL /\ shown = NULL
  /\ shown # NULL => shown = Decode(enc_callsign)
  /\ callsign # NULL =>
       /\ callsign \in Callsigns
       /\ \E memory \in Memory : enc_callsign = Encode(callsign, memory, SubSeq(memory, 1, 6))
  /\ packed # NULL =>
       \E link \in Links, size \in CommandSizes, memory \in Memory :
         packed = [destination |-> link[1], source |-> link[2], command |-> Command(size),
                   d |-> packCommand(link[1], link[2], Command(size), memory)]

LEMMA MemoryType ==
  ASSUME NEW memory \in Memory
  PROVE  memory \in Seq(Octets) /\ Len(memory) = 7
BY CallsignAssumption DEF CallsignAssumption

LEMMA CommandType ==
  ASSUME NEW size \in Nat
  PROVE  Command(size) \in Seq(Octets) /\ Len(Command(size)) = size
<1>1. \A j \in 1..size : 65 + (j % 26) \in Octets
  BY DEF Octets
<1>2. QED  BY <1>1 DEF Command

LEMMA CallStarts == CallInit => CallInv
BY DEF CallInit, CallInv

LEMMA CallSteps ==
  ASSUME CallInv, [CallNext]_callvars
  PROVE  CallInv'
<1>1. CASE UNCHANGED callvars
  BY <1>1 DEF CallInv, callvars
<1>2. ASSUME NEW s \in Callsigns, NEW memory \in Memory, EncodeCallsign(s, memory)
      PROVE  CallInv'
  <2> DEFINE enc == Encode(s, memory, SubSeq(memory, 1, 6))
  <2>1. callsign' = s /\ enc_callsign' = enc /\ shown' = shown /\ packed' = packed /\ shown = NULL /\ packed = NULL
    BY <1>2 DEF EncodeCallsign, Idle, CallInv
  <2>2. s \in Seq(1..255)
    BY CallsignAssumption DEF CallsignAssumption
  <2>3. enc \in Seq(Octets) /\ Len(enc) = 6
    BY <2>2, MemoryType, EncodeType
  <2>4. enc # NULL
    BY <2>3, CallsignAssumption DEF CallsignAssumption
  <2>5. \E m \in Memory : enc_callsign' = Encode(s, m, SubSeq(m, 1, 6))
    BY <2>1
  <2> HIDE DEF enc
  <2>6. QED  BY <2>1, <2>3, <2>4, <2>5, Zenon DEF CallInv
<1>3. ASSUME NEW enc \in Foreign, ReceiveCallsign(enc)
      PROVE  CallInv'
  <2>1. /\ callsign' = NULL /\ enc_callsign' = enc /\ shown' = NULL /\ packed' = NULL
    BY <1>3 DEF ReceiveCallsign, Idle, CallInv
  <2>2. enc \in Seq(Octets) /\ Len(enc) = 6 /\ enc # NULL
    BY CallsignAssumption DEF CallsignAssumption
  <2>3. QED  BY <2>1, <2>2, Zenon DEF CallInv
<1>4. CASE DecodeCallsign
  <2>1. /\ callsign' = callsign /\ enc_callsign' = enc_callsign /\ packed' = packed
        /\ shown' = Decode(enc_callsign) /\ enc_callsign # NULL
    BY <1>4 DEF DecodeCallsign
  <2>2. QED  BY <2>1, Zenon DEF CallInv
<1>5. ASSUME NEW link \in Links, NEW size \in CommandSizes, NEW memory \in Memory,
             PackCommand(link[1], link[2], size, memory)
      PROVE  CallInv'
  <2>1. /\ callsign' = NULL /\ enc_callsign' = NULL /\ shown' = NULL
        /\ packed' = [destination |-> link[1], source |-> link[2], command |-> Command(size),
                      d |-> packCommand(link[1], link[2], Command(size), memory)]
    BY <1>5 DEF PackCommand, Command, Idle, CallInv
  <2>2. QED  BY <2>1, Zenon DEF CallInv
<1>6. QED
  BY <1>1, <1>2, <1>3, <1>4, <1>5, Zenon DEF CallNext

THEOREM CallInvariant == CallSpec => []CallInv
<1>1. CallInit => CallInv
  BY CallStarts
<1>2. CallInv /\ [CallNext]_callvars => CallInv'
  BY CallSteps
<1>3. QED  BY <1>1, <1>2, PTL DEF CallSpec

(* For all strings, whatever was in the memory of the encoder: a call sign *)
(* of up to seven letters and digits with a number up to 63 is shown as it *)
(* was given.                                                              *)
THEOREM RoundTrip == CallSpec => []CallsignsRoundTrip
<1>1. CallInv => CallsignsRoundTrip
  <2> SUFFICES ASSUME CallInv, callsign # NULL, shown # NULL, Proper(callsign)
               PROVE  shown = Canonical(callsign)
    BY DEF CallsignsRoundTrip
  <2>1. callsign \in Seq(1..255)
    BY CallsignAssumption DEF CallsignAssumption, CallInv
  <2>2. PICK memory \in Memory : enc_callsign = Encode(callsign, memory, SubSeq(memory, 1, 6))
    BY DEF CallInv
  <2>3. Decode(Encode(callsign, memory, SubSeq(memory, 1, 6))) = Canonical(callsign)
    BY <2>1, MemoryType, ProperReadBack, Zenon
  <2>4. QED  BY <2>2, <2>3, Zenon DEF CallInv
<1>2. QED  BY <1>1, CallInvariant, PTL

(* For all octets received: the string fits, and the call sign is sent on  *)
(* as it came, unless there is a dash among its characters.                *)
THEOREM SentOn == CallSpec => []ResentUnchanged
<1>1. CallInv => ResentUnchanged
  <2> SUFFICES ASSUME CallInv, shown # NULL PROVE ResentUnchanged
    BY DEF ResentUnchanged
  <2>1. shown = Decode(enc_callsign) /\ enc_callsign \in Seq(Octets) /\ Len(enc_callsign) = 6
    BY DEF CallInv
  <2>2. Len(shown) + 1 <= 11
    <3>1. PICK n \in 0..7 : \E number \in Six : number = enc_callsign[6] % 64 /\ Written(shown, n, number)
      BY <2>1, ShownIs, Zenon
    <3>2. PICK number \in Six : Written(shown, n, number)
      BY <3>1
    <3>3. Len(shown) = n + Len(SsidText(number))
      BY <3>2 DEF Written
    <3>4. Len(SsidText(number)) \in 0..3
      BY DEF SsidText
    <3>5. PICK m \in 0..3 : m = Len(SsidText(number))
      BY <3>4
    <3>6. Len(shown) = n + m
      BY <3>3, <3>5, Zenon
    <3>7. QED  BY <3>6
  <2>3. ASSUME Cardinality({j \in DOMAIN shown : shown[j] = Dash}) <= (IF enc_callsign[6] % 64 = 0 THEN 0 ELSE 1),
               NEW memory \in Memory
        PROVE  Decode(Encode(shown, memory, SubSeq(memory, 1, 6))) = shown
    BY <2>1, <2>3, MemoryType, ShownAgain, Zenon
  <2>4. QED  BY <2>2, <2>3, Zenon DEF ResentUnchanged
<1>2. QED  BY <1>1, CallInvariant, PTL

(* For all stations and sizes: a command that fits is read back from the   *)
(* packet by a reader that goes from header to header.                     *)
THEOREM ReadBackFromPacket == CallSpec => []CommandsReadBack
<1>1. CallInv => CommandsReadBack
  <2> SUFFICES ASSUME CallInv, packed # NULL, Len(packed.d) \in 1..MAX_SIZE,
                      Proper(packed.source), Proper(packed.destination)
               PROVE  Found(packed.d, packed.destination, packed.source, packed.command)
    BY DEF CommandsReadBack, Found
  <2>1. PICK link \in Links, size \in CommandSizes, memory \in Memory :
          packed = [destination |-> link[1], source |-> link[2], command |-> Command(size),
                    d |-> packCommand(link[1], link[2], Command(size), memory)]
    BY DEF CallInv
  <2>2. /\ packed.destination = link[1] /\ packed.source = link[2] /\ packed.command = Command(size)
        /\ packed.d = packCommand(link[1], link[2], Command(size), memory)
    BY <2>1
  <2>3. link[1] \in Seq(1..255) /\ link[2] \in Seq(1..255) /\ size \in Nat
    BY CallsignAssumption DEF CallsignAssumption
  <2>4. Command(size) \in Seq(Octets) /\ Len(Command(size)) = size
    BY <2>3, CommandType
  <2>5. Len(Command(size)) <= MAX_SIZE
    <3>1. CASE Len(Command(size)) > MAX_SIZE
      <4>1. packed.d = <<>>
        BY <2>2, <3>1, Zenon DEF packCommand
      <4>2. QED  BY <4>1
    <3>2. QED  BY <2>3, <2>4, <3>1 DEF MAX_SIZE
  <2>6. memory \in Seq(Octets) /\ Len(memory) = 7
    BY MemoryType
  <2>7. QED  BY <2>2, <2>3, <2>4, <2>5, <2>6, PackedReadBack, Zenon
<1>2. QED  BY <1>1, CallInvariant, PTL
=============================================================================
