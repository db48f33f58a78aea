-------------------------- MODULE NghamCodecProofs --------------------------
(***************************************************************************)
(* The layout of a frame for every payload length, every octet of flags    *)
(* and both modulations: it fits its buffer, has the length its size tag   *)
(* announces, and ngham_decode finds in it what ngham_encode put there,    *)
(* exactly when the Reed-Solomon code corrects the damage.  And the        *)
(* control blocks of that code, whenever they are set up and released.     *)
(***************************************************************************)
EXTENDS NghamCodec, NghamRsBlocks, FiniteSetTheorems, SequenceTheorems, TLAPS

-----------------------------------------------------------------------------
(* The table of sizes                                                      *)

LEMMA TableValues ==
  ASSUME NEW s \in 0..NGH_SIZES-1
  PROVE  /\ NGH_PL_SIZE[s] = IF s = 0 THEN 28 ELSE 28 + 32 * s
         /\ NGH_PL_SIZE_FULL[s] = NGH_PL_SIZE[s] + 3
         /\ NGH_PAR_SIZE[s] = IF s < 3 THEN 16 ELSE 32
         /\ NGH_PL_PAR_SIZE[s] = NGH_PL_SIZE_FULL[s] + NGH_PAR_SIZE[s]
         /\ NGH_PL_PAR_SIZE[s] \in 47..255
<1>1. s \in {0, 1, 2, 3, 4, 5, 6}
  BY DEF NGH_SIZES
<1>2. QED
  BY <1>1 DEF NGH_SIZES, Table, NGH_PL_SIZE, NGH_PL_SIZE_FULL, NGH_PAR_SIZE, NGH_PL_PAR_SIZE

(* A length that is not refused has a size, and leaves no more padding     *)
(* than five bits tell.                                                    *)
LEMMA SizeNrFacts ==
  ASSUME NEW n \in 1..NGHAM_PL_MAX
  PROVE  SizeNr(n) \in 0..NGH_SIZES-1 /\ NGH_PL_SIZE[SizeNr(n)] - n \in 0..31
<1> DEFINE Fits(s) == n <= NGH_PL_SIZE[s] /\ \A u \in 0..s-1 : n > NGH_PL_SIZE[u]
<1>1. \A s \in 0..NGH_SIZES-1 : NGH_PL_SIZE[s] = 28 + 32 * s
  BY TableValues DEF NGH_SIZES
<1>2. \E s \in 0..NGH_SIZES-1 : n <= 28 + 32 * s /\ \A u \in 0..s-1 : n > 28 + 32 * u
  <2>1. n \in 1..220
    BY DEF NGHAM_PL_MAX
  <2>2. CASE n <= 28
    <3>1. 0 \in 0..6 /\ n <= 28 + 32 * 0 /\ \A u \in 0..0-1 : n > 28 + 32 * u
      BY <2>2
    <3>2. QED  BY <3>1 DEF NGH_SIZES
  <2>3. ASSUME NEW s \in 1..6, n > 28 + 32 * (s - 1), n <= 28 + 32 * s
        PROVE  s \in 0..NGH_SIZES-1 /\ n <= 28 + 32 * s /\ \A u \in 0..s-1 : n > 28 + 32 * u
    BY <2>3 DEF NGH_SIZES
  <2>4. n > 28 => \E s \in 1..6 : n > 28 + 32 * (s - 1) /\ n <= 28 + 32 * s
    <3>1. ASSUME n > 28
          PROVE  \/ n > 28 + 32 * (1 - 1) /\ n <= 28 + 32 * 1
                 \/ n > 28 + 32 * (2 - 1) /\ n <= 28 + 32 * 2
                 \/ n > 28 + 32 * (3 - 1) /\ n <= 28 + 32 * 3
                 \/ n > 28 + 32 * (4 - 1) /\ n <= 28 + 32 * 4
                 \/ n > 28 + 32 * (5 - 1) /\ n <= 28 + 32 * 5
                 \/ n > 28 + 32 * (6 - 1) /\ n <= 28 + 32 * 6
      BY <2>1, <3>1
    <3>2. QED  BY <3>1
  <2>5. QED  BY <2>1, <2>2, <2>3, <2>4
<1>3. PICK s \in 0..NGH_SIZES-1 : Fits(s)
  BY <1>1, <1>2 DEF NGH_SIZES
<1>4. SizeNr(n) \in 0..NGH_SIZES-1 /\ Fits(SizeNr(n))
  <2>1. SizeNr(n) = CHOOSE u \in 0..NGH_SIZES-1 : Fits(u)
    BY DEF SizeNr
  <2> HIDE DEF Fits
  <2>2. QED  BY <1>3, <2>1
<1> DEFINE z == SizeNr(n)
<1>5. n <= 28 + 32 * z /\ z \in 0..6 /\ (z > 0 => n > 28 + 32 * (z - 1))
  BY <1>1, <1>4 DEF NGH_SIZES
<1>6. NGH_PL_SIZE[z] = 28 + 32 * z
  BY <1>1, <1>4
<1>7. QED
  <2> HIDE DEF z
  <2>1. n \in 1..220
    BY DEF NGHAM_PL_MAX
  <2>2. 28 + 32 * z - n \in 0..31
    BY <1>5, <2>1
  <2>3. QED  BY <1>4, <1>6, <2>2 DEF z

-----------------------------------------------------------------------------
(* Sequences put together and taken apart                                  *)

LEMMA ThreeParts ==
  ASSUME NEW S, NEW a \in Seq(S), NEW b \in Seq(S), NEW c \in Seq(S)
  PROVE  /\ (a \o b) \o c \in Seq(S)
         /\ Len((a \o b) \o c) = Len(a) + Len(b) + Len(c)
         /\ \A k \in 1..Len(a) : ((a \o b) \o c)[k] = a[k]
         /\ \A k \in 1..Len(b) : ((a \o b) \o c)[Len(a) + k] = b[k]
         /\ \A k \in 1..Len(c) : ((a \o b) \o c)[Len(a) + Len(b) + k] = c[k]
<1> DEFINE ab == a \o b
<1>1. ab \in Seq(S) /\ Len(ab) = Len(a) + Len(b) /\ Len(a) \in Nat /\ Len(b) \in Nat /\ Len(c) \in Nat
  BY ConcatProperties
<1>2. \A k \in 1..Len(ab) : ab[k] = IF k <= Len(a) THEN a[k] ELSE b[k - Len(a)]
  BY ConcatProperties
<1>3. /\ ab \o c \in Seq(S) /\ Len(ab \o c) = Len(ab) + Len(c)
      /\ \A k \in 1..Len(ab) + Len(c) : (ab \o c)[k] = IF k <= Len(ab) THEN ab[k] ELSE c[k - Len(ab)]
  <2> HIDE DEF ab
  <2>1. ab \in Seq(S)
    BY <1>1
  <2>2. QED  BY <2>1, ConcatProperties, ZenonT(60)
<1> HIDE DEF ab
<1>4. \A k \in 1..Len(a) : (ab \o c)[k] = a[k]
  BY <1>1, <1>2, <1>3
<1>5. \A k \in 1..Len(b) : (ab \o c)[Len(a) + k] = b[k]
  <2> SUFFICES ASSUME NEW k \in 1..Len(b) PROVE (ab \o c)[Len(a) + k] = b[k]
    OBVIOUS
  <2>1. Len(a) + k \in 1..Len(ab) /\ ~(Len(a) + k <= Len(a)) /\ Len(a) + k - Len(a) = k
    BY <1>1
  <2>2. Len(a) + k \in 1..Len(ab) + Len(c) /\ Len(a) + k <= Len(ab)
    BY <1>1
  <2>3. (ab \o c)[Len(a) + k] = ab[Len(a) + k]
    BY <1>3, <2>2
  <2>4. QED  BY <1>2, <2>1, <2>3
<1>6. \A k \in 1..Len(c) : (ab \o c)[Len(a) + Len(b) + k] = c[k]
  <2> SUFFICES ASSUME NEW k \in 1..Len(c) PROVE (ab \o c)[Len(a) + Len(b) + k] = c[k]
    OBVIOUS
  <2>1. /\ Len(a) + Len(b) + k \in 1..Len(ab) + Len(c) /\ ~(Len(a) + Len(b) + k <= Len(ab))
        /\ Len(a) + Len(b) + k - Len(ab) = k
    BY <1>1
  <2>2. QED  BY <1>3, <2>1
<1>7. QED
  BY <1>1, <1>3, <1>4, <1>5, <1>6 DEF ab

LEMMA FourParts ==
  ASSUME NEW S, NEW a \in Seq(S), NEW b \in Seq(S), NEW c \in Seq(S), NEW e \in Seq(S),
         NEW w, w = ((a \o b) \o c) \o e
  PROVE  /\ w \in Seq(S)
         /\ Len(w) = Len(a) + Len(b) + Len(c) + Len(e)
         /\ \A k \in 1..Len(a) : w[k] = a[k]
         /\ \A k \in 1..Len(b) : w[Len(a) + k] = b[k]
         /\ \A k \in 1..Len(c) : w[Len(a) + Len(b) + k] = c[k]
         /\ \A k \in 1..Len(e) : w[Len(a) + Len(b) + Len(c) + k] = e[k]
<1> DEFINE w3 == (a \o b) \o c
<1>1. /\ w3 \in Seq(S) /\ Len(w3) = Len(a) + Len(b) + Len(c)
      /\ \A k \in 1..Len(a) : w3[k] = a[k]
      /\ \A k \in 1..Len(b) : w3[Len(a) + k] = b[k]
      /\ \A k \in 1..Len(c) : w3[Len(a) + Len(b) + k] = c[k]
  BY ThreeParts
<1>2. Len(a) \in Nat /\ Len(b) \in Nat /\ Len(c) \in Nat /\ Len(e) \in Nat
  OBVIOUS
<1> HIDE DEF w3
<1>3. /\ w \in Seq(S) /\ Len(w) = Len(w3) + Len(e)
      /\ \A k \in 1..Len(w3) + Len(e) : w[k] = IF k <= Len(w3) THEN w3[k] ELSE e[k - Len(w3)]
  <2>1. w3 \in Seq(S) /\ w = w3 \o e
    BY <1>1 DEF w3
  <2>2. QED  BY <2>1, ConcatProperties, ZenonT(60)
<1>4. ASSUME NEW j \in 1..Len(w3)
      PROVE  w[j] = w3[j]
  <2>1. j \in 1..Len(w3) + Len(e) /\ j <= Len(w3)
    BY <1>1, <1>2
  <2>2. QED  BY <1>3, <2>1
<1>5. \A k \in 1..Len(a) : w[k] = a[k]
  BY <1>1, <1>2, <1>4
<1>6. \A k \in 1..Len(b) : w[Len(a) + k] = b[k]
  <2> SUFFICES ASSUME NEW k \in 1..Len(b) PROVE w[Len(a) + k] = b[k]
    OBVIOUS
  <2>1. Len(a) + k \in 1..Len(w3)
    BY <1>1, <1>2
  <2>2. QED  BY <1>1, <1>4, <2>1
<1>7. \A k \in 1..Len(c) : w[Len(a) + Len(b) + k] = c[k]
  <2> SUFFICES ASSUME NEW k \in 1..Len(c) PROVE w[Len(a) + Len(b) + k] = c[k]
    OBVIOUS
  <2>1. Len(a) + Len(b) + k \in 1..Len(w3)
    BY <1>1, <1>2
  <2>2. QED  BY <1>1, <1>4, <2>1
<1>8. \A k \in 1..Len(e) : w[Len(a) + Len(b) + Len(c) + k] = e[k]
  <2> SUFFICES ASSUME NEW k \in 1..Len(e) PROVE w[Len(a) + Len(b) + Len(c) + k] = e[k]
    OBVIOUS
  <2>1. /\ Len(w3) + k \in 1..Len(w3) + Len(e) /\ ~(Len(w3) + k <= Len(w3))
        /\ Len(w3) + k - Len(w3) = k /\ Len(w3) + k = Len(a) + Len(b) + Len(c) + k
    BY <1>1, <1>2
  <2>2. QED  BY <1>3, <2>1
<1>9. QED
  BY <1>1, <1>2, <1>3, <1>5, <1>6, <1>7, <1>8

LEMMA TakenOut ==
  ASSUME NEW S, NEW whole \in Seq(S), NEW part \in Seq(S), NEW m \in Nat,
         m + Len(part) <= Len(whole),
         \A k \in 1..Len(part) : whole[m + k] = part[k]
  PROVE  SubSeq(whole, m + 1, m + Len(part)) = part
<1> DEFINE n == Len(part)
           cut == SubSeq(whole, m + 1, m + n)
<1>1. n \in Nat /\ Len(whole) \in Nat /\ m + 1 \in 1..Len(whole)+1 /\ m + n \in m..Len(whole)
  OBVIOUS
<1>2. cut \in Seq(S) /\ Len(cut) = n /\ \A k \in 1..n : cut[k] = whole[m + k]
  <2>1. /\ cut \in Seq(S)
        /\ Len(cut) = IF m + 1 <= m + n THEN m + n - (m + 1) + 1 ELSE 0
        /\ \A k \in 1..m + n - (m + 1) + 1 : cut[k] = whole[m + 1 + k - 1]
    BY <1>1, SubSeqProperties
  <2>2. m + n - (m + 1) + 1 = n /\ \A k \in 1..n : m + 1 + k - 1 = m + k
    BY <1>1
  <2> HIDE DEF n, cut
  <2>3. QED  BY <1>1, <2>1, <2>2
<1>3. \A k \in 1..n : cut[k] = part[k]
  BY <1>2
<1> HIDE DEF cut
<1>4. cut = part
  BY <1>2, <1>3, SeqEqual
<1>5. QED  BY <1>4 DEF cut

-----------------------------------------------------------------------------
(* The layout of the code word and of the frame                            *)

Checked(s, q) == <<Header(s, q)>> \o Payload(q)
Symbols(s, q) ==
  {Header(s, q), <<"zero">>} \cup ({"pl", "parity"} \X Nat) \cup ({"crc_hi", "crc_lo"} \X {Checked(s, q)})

LEMMA CheckedLayout ==
  ASSUME NEW q, q.pl_len \in Nat, NEW s
  PROVE  /\ Checked(s, q) \in Seq(Symbols(s, q)) /\ Len(Checked(s, q)) = q.pl_len + 1
         /\ Payload(q) \in Seq(Symbols(s, q)) /\ Len(Payload(q)) = q.pl_len
         /\ Checked(s, q)[1] = Header(s, q)
         /\ \A k \in 1..q.pl_len : Checked(s, q)[k + 1] = Payload(q)[k]
<1> DEFINE S == Symbols(s, q)
           n == q.pl_len
           head == <<Header(s, q)>>
<1>1. \A k \in 1..n : <<"pl", k>> \in S
  BY DEF Symbols
<1>2. Header(s, q) \in S
  BY DEF Symbols
<1> HIDE DEF S
<1>3. Payload(q) \in Seq(S) /\ Len(Payload(q)) = n
  BY <1>1 DEF Payload
<1>4. head \in Seq(S) /\ Len(head) = 1 /\ head[1] = Header(s, q)
  BY <1>2
<1> HIDE DEF head
<1>5. /\ head \o Payload(q) \in Seq(S) /\ Len(head \o Payload(q)) = Len(head) + Len(Payload(q))
      /\ \A k \in 1..Len(head) + Len(Payload(q)) :
           (head \o Payload(q))[k] = IF k <= Len(head) THEN head[k] ELSE Payload(q)[k - Len(head)]
  <2>1. Payload(q) \in Seq(S) /\ head \in Seq(S)
    BY <1>3, <1>4
  <2>2. QED  BY <2>1, ConcatProperties, ZenonT(60)
<1>6. Checked(s, q) = head \o Payload(q)
  BY DEF Checked, head
<1>7. \A k \in 1..n : k + 1 \in 1..1 + n /\ ~(k + 1 <= 1) /\ k + 1 - 1 = k
  OBVIOUS
<1>8. 1 + n = n + 1 /\ 1 \in 1..1 + n
  OBVIOUS
<1>9. \A k \in 1..n : Checked(s, q)[k + 1] = Payload(q)[k]
  BY <1>3, <1>4, <1>5, <1>6, <1>7
<1>10. Checked(s, q)[1] = Header(s, q)
  BY <1>3, <1>4, <1>5, <1>6, <1>8
<1>11. QED
  BY <1>3, <1>4, <1>5, <1>6, <1>8, <1>9, <1>10 DEF S

LEMMA PartTypes ==
  ASSUME NEW q, q.pl_len \in 1..NGHAM_PL_MAX, NEW s, s = SizeNr(q.pl_len)
  PROVE  LET S == Symbols(s, q)
             pad == NGH_PL_SIZE_FULL[s] - (q.pl_len + 3)
         IN  /\ Crc(Checked(s, q)) \in Seq(S) /\ Len(Crc(Checked(s, q))) = 2
             /\ Zeros(pad) \in Seq(S) /\ Len(Zeros(pad)) = pad
             /\ Parity(s) \in Seq(S) /\ Len(Parity(s)) = NGH_PAR_SIZE[s]
             /\ pad \in 0..31 /\ pad = NGH_PL_SIZE[s] - q.pl_len
             /\ q.pl_len + 3 + pad = NGH_PL_SIZE_FULL[s]
<1> DEFINE S == Symbols(s, q)
           n == q.pl_len
           pad == NGH_PL_SIZE_FULL[s] - (n + 3)
<1>1. s \in 0..NGH_SIZES-1 /\ NGH_PL_SIZE[s] - n \in 0..31
  BY SizeNrFacts
<1>2. /\ NGH_PL_SIZE[s] \in Nat /\ NGH_PL_SIZE_FULL[s] = NGH_PL_SIZE[s] + 3
      /\ NGH_PAR_SIZE[s] \in Nat
  BY <1>1, TableValues DEF NGH_SIZES
<1>3. n \in Nat
  BY DEF NGHAM_PL_MAX
<1>4. pad = NGH_PL_SIZE[s] - n /\ pad \in 0..31 /\ n + 3 + pad = NGH_PL_SIZE_FULL[s]
  BY <1>1, <1>2, <1>3
<1>5. /\ <<"crc_hi", Checked(s, q)>> \in S /\ <<"crc_lo", Checked(s, q)>> \in S
      /\ <<"zero">> \in S /\ \A k \in Nat : <<"parity", k>> \in S
  BY DEF Symbols
<1> HIDE DEF S
<1>6. Crc(Checked(s, q)) \in Seq(S) /\ Len(Crc(Checked(s, q))) = 2
  BY <1>5 DEF Crc
<1>7. Parity(s) \in Seq(S) /\ Len(Parity(s)) = NGH_PAR_SIZE[s]
  BY <1>2, <1>5 DEF Parity
<1>8. Zeros(pad) \in Seq(S) /\ Len(Zeros(pad)) = pad
  <2>1. pad \in Nat
    BY <1>4
  <2> HIDE DEF pad
  <2>2. QED  BY <1>5, <2>1 DEF Zeros
<1>9. QED
  BY <1>4, <1>6, <1>7, <1>8 DEF S

(* Where everything is in the code word of a packet.                       *)
LEMMA CodewordLayout ==
  ASSUME NEW q, q.pl_len \in 1..NGHAM_PL_MAX, NEW s, s = SizeNr(q.pl_len)
  PROVE  LET C == Codeword(s, q)
         IN  /\ C \in Seq(Symbols(s, q)) /\ Len(C) = NGH_PL_PAR_SIZE[s]
             /\ C[1] = Header(s, q)
             /\ SubSeq(C, 2, q.pl_len + 1) = Payload(q)
             /\ SubSeq(C, 1, q.pl_len + 1) = Checked(s, q)
             /\ SubSeq(C, q.pl_len + 2, q.pl_len + 3) = Crc(Checked(s, q))
<1> DEFINE S == Symbols(s, q)
           n == q.pl_len
           pad == NGH_PL_SIZE_FULL[s] - (n + 3)
           a == Checked(s, q)
           b == Crc(a)
           c == Zeros(pad)
           e == Parity(s)
           C == Codeword(s, q)
<1>1. n \in Nat /\ n >= 1
  BY DEF NGHAM_PL_MAX
<1>2. /\ a \in Seq(S) /\ Len(a) = n + 1 /\ Payload(q) \in Seq(S) /\ Len(Payload(q)) = n
      /\ a[1] = Header(s, q) /\ \A k \in 1..n : a[k + 1] = Payload(q)[k]
  BY <1>1, CheckedLayout
<1>3. /\ b \in Seq(S) /\ Len(b) = 2 /\ c \in Seq(S) /\ Len(c) = pad
      /\ e \in Seq(S) /\ Len(e) = NGH_PAR_SIZE[s] /\ pad \in Nat
      /\ n + 3 + pad = NGH_PL_SIZE_FULL[s]
  BY PartTypes
<1>4. C = ((a \o b) \o c) \o e
  BY DEF Codeword, Checked
<1>5. /\ NGH_PAR_SIZE[s] \in Nat /\ NGH_PL_SIZE_FULL[s] \in Nat
      /\ NGH_PL_PAR_SIZE[s] = NGH_PL_SIZE_FULL[s] + NGH_PAR_SIZE[s]
  <2>1. s \in 0..NGH_SIZES-1
    BY SizeNrFacts
  <2>2. QED  BY <2>1, TableValues DEF NGH_SIZES
<1> HIDE DEF S, n, pad, a, b, c, e, C
<1>6. /\ C \in Seq(S)
      /\ Len(C) = Len(a) + Len(b) + Len(c) + Len(e)
      /\ \A k \in 1..Len(a) : C[k] = a[k]
      /\ \A k \in 1..Len(b) : C[Len(a) + k] = b[k]
  <2>1. a \in Seq(S) /\ b \in Seq(S) /\ c \in Seq(S) /\ e \in Seq(S)
    BY <1>2, <1>3
  <2>2. QED  BY <1>4, <2>1, FourParts, SMTT(60)
<1>7. Len(C) = NGH_PL_PAR_SIZE[s] /\ n + 3 <= Len(C)
  BY <1>1, <1>2, <1>3, <1>5, <1>6
<1>8. C[1] = Header(s, q)
  BY <1>1, <1>2, <1>6
<1>9. SubSeq(C, 1, n + 1) = a
  <2>1. /\ 0 + Len(a) <= Len(C) /\ 0 + 1 = 1 /\ 0 + Len(a) = n + 1 /\ \A k \in 1..Len(a) : 0 + k = k
    BY <1>1, <1>2, <1>7
  <2>2. \A k \in 1..Len(a) : C[0 + k] = a[k]
    BY <1>6, <2>1
  <2>3. SubSeq(C, 0 + 1, 0 + Len(a)) = a
    BY <1>2, <1>6, <2>1, <2>2, TakenOut
  <2>4. QED  BY <2>1, <2>3
<1>10. SubSeq(C, n + 2, n + 3) = b
  <2>1. /\ (n + 1) + Len(b) <= Len(C) /\ (n + 1) + 1 = n + 2 /\ (n + 1) + Len(b) = n + 3 /\ n + 1 \in Nat
    BY <1>1, <1>3, <1>7
  <2>2. \A k \in 1..Len(b) : C[(n + 1) + k] = b[k]
    BY <1>2, <1>6
  <2>3. SubSeq(C, (n + 1) + 1, (n + 1) + Len(b)) = b
    BY <1>3, <1>6, <2>1, <2>2, TakenOut
  <2>4. QED  BY <2>1, <2>3
<1>11. SubSeq(C, 2, n + 1) = Payload(q)
  <2>1. /\ 1 + Len(Payload(q)) <= Len(C) /\ 1 + 1 = 2 /\ 1 + Len(Payload(q)) = n + 1
        /\ \A k \in 1..n : 1 + k = k + 1 /\ k + 1 \in 1..n + 1
    BY <1>1, <1>2, <1>7
  <2>2. \A k \in 1..Len(Payload(q)) : C[1 + k] = Payload(q)[k]
    BY <1>2, <1>6, <2>1
  <2>3. SubSeq(C, 1 + 1, 1 + Len(Payload(q))) = Payload(q)
    BY <1>2, <1>6, <2>1, <2>2, TakenOut
  <2>4. QED  BY <2>1, <2>3
<1>12. QED
  BY <1>6, <1>7, <1>8, <1>9, <1>10, <1>11 DEF S, n, a, b, C

(* The header gives back the padding, and three bits of the flags.         *)
LEMMA HeaderRead ==
  ASSUME NEW q, q.pl_len \in 1..NGHAM_PL_MAX, q.ngham_flags \in 0..255,
         NEW s, s = SizeNr(q.pl_len)
  PROVE  /\ NGH_PL_SIZE[s] - Low5(Header(s, q)) = q.pl_len
         /\ High3(Header(s, q)) = q.ngham_flags % 8
<1> DEFINE pad == NGH_PL_SIZE[s] - q.pl_len
           f == q.ngham_flags
           octet == (pad % 32) + ((f * 32) % 256)
<1>1. s \in 0..NGH_SIZES-1 /\ pad \in 0..31
  BY SizeNrFacts
<1>2. NGH_PL_SIZE[s] \in Nat /\ q.pl_len \in Nat
  BY <1>1, TableValues DEF NGH_SIZES, NGHAM_PL_MAX
<1>3. pad % 32 = pad
  BY <1>1
<1>4. (f * 32) % 256 = (f % 8) * 32 /\ f % 8 \in 0..7
  OBVIOUS
<1>5. ASSUME NEW x \in 0..31, NEW y \in 0..7
      PROVE  (x + y * 32) % 32 = x /\ (x + y * 32) \div 32 = y
  BY <1>5
<1>6. octet % 32 = pad /\ octet \div 32 = f % 8
  <2>1. octet = pad + (f % 8) * 32
    BY <1>3, <1>4
  <2> HIDE DEF octet, pad
  <2>2. QED  BY <1>1, <1>4, <1>5, <2>1
<1>7. Low5(Header(s, q)) = octet % 32 /\ High3(Header(s, q)) = octet \div 32
  BY DEF Low5, High3, Header
<1> HIDE DEF octet
<1>8. QED
  BY <1>1, <1>2, <1>6, <1>7

LEMMA ScrambleTypes ==
  ASSUME NEW S, NEW w \in Seq(S)
  PROVE  Scramble(w) \in Seq({"xor"} \X Nat \X S) /\ Len(Scramble(w)) = Len(w)
<1>1. Len(w) \in Nat /\ DOMAIN w = 1..Len(w) /\ \A k \in 1..Len(w) : w[k] \in S
  OBVIOUS
<1>2. \A k \in 1..Len(w) : <<"xor", k, w[k]>> \in {"xor"} \X Nat \X S
  BY <1>1
<1>3. Scramble(w) = [k \in 1..Len(w) |-> <<"xor", k, w[k]>>]
  BY <1>1 DEF Scramble
<1> DEFINE n == Len(w)
           T == {"xor"} \X Nat \X S
           x(k) == <<"xor", k, w[k]>>
<1>4. \A k \in 1..n : x(k) \in T
  BY <1>2
<1>5. Scramble(w) = [k \in 1..n |-> x(k)] /\ n \in Nat
  BY <1>1, <1>3
<1> HIDE DEF n, T, x
<1>6. Scramble(w) \in Seq(T) /\ Len(Scramble(w)) = n
  BY <1>4, <1>5
<1>7. QED
  BY <1>6 DEF n, T

LEMMA MonotoneSeq ==
  ASSUME NEW S, NEW T, S \subseteq T, NEW w \in Seq(S)
  PROVE  w \in Seq(T)
OBVIOUS

(* Where the size tag and the code word are in the frame of a packet.      *)
LEMMA FrameLayout ==
  ASSUME NEW q, q.pl_len \in 1..NGHAM_PL_MAX, NEW s, s = SizeNr(q.pl_len)
  PROVE  /\ CodewordStart \in 11..19
         /\ Len(Frame(q)) = CodewordStart + NGH_PL_PAR_SIZE[s]
         /\ SubSeq(Frame(q), CodewordStart - 2, CodewordStart) = Tag(s)
         /\ SubSeq(Frame(q), CodewordStart + 1, Len(Frame(q))) = Scramble(Codeword(s, q))
<1> DEFINE a == Preamble
           b == SyncWord
           c == Tag(s)
           e == Scramble(Codeword(s, q))
           A == {"preamble", "sync"} \X Nat
           C == {"tag"} \X {s} \X Nat
           E == {"xor"} \X Nat \X Symbols(s, q)
           T == A \cup C \cup E
           w == Frame(q)
<1>1. Codeword(s, q) \in Seq(Symbols(s, q)) /\ Len(Codeword(s, q)) = NGH_PL_PAR_SIZE[s]
  BY CodewordLayout
<1>2. e \in Seq(E) /\ Len(e) = NGH_PL_PAR_SIZE[s] /\ NGH_PL_PAR_SIZE[s] \in Nat
  <2>1. s \in 0..NGH_SIZES-1
    BY SizeNrFacts
  <2>2. NGH_PL_PAR_SIZE[s] \in Nat
    BY <2>1, TableValues
  <2>3. QED  BY <1>1, <2>2, ScrambleTypes
<1>3. c \in Seq(C) /\ Len(c) = 3
  BY DEF Tag, NGH_SIZE_TAG_SIZE
<1> DEFINE L == IF FOUR_LEVEL THEN 8 ELSE 4
<1>4. a \in Seq(A) /\ Len(a) = L /\ b \in Seq(A) /\ Len(b) = L /\ L \in {4, 8}
  <2>1. L \in {4, 8}
    OBVIOUS
  <2>2. a = [k \in 1..L |-> <<"preamble", k>>] /\ b = [k \in 1..L |-> <<"sync", k>>]
    BY DEF Preamble, SyncWord
  <2>3. \A k \in 1..L : <<"preamble", k>> \in A /\ <<"sync", k>> \in A
    BY <2>1
  <2> HIDE DEF L, A, a, b
  <2>4. L \in Nat
    BY <2>1
  <2>5. QED  BY <2>1, <2>2, <2>3, <2>4
<1>5. w = ((a \o b) \o c) \o e
  BY DEF Frame
<1>6. CodewordStart = 2 * L + 3
  BY <1>4 DEF CodewordStart, NGH_SIZE_TAG_SIZE
<1>7. A \subseteq T /\ C \subseteq T /\ E \subseteq T
  OBVIOUS
<1> HIDE DEF a, b, c, e, A, C, E, T, L, w
<1>8. a \in Seq(T) /\ b \in Seq(T) /\ c \in Seq(T) /\ e \in Seq(T)
  <2>1. a \in Seq(T) /\ b \in Seq(T)
    BY <1>4, <1>7, MonotoneSeq
  <2>2. c \in Seq(T)
    BY <1>3, <1>7, MonotoneSeq
  <2>3. e \in Seq(T)
    BY <1>2, <1>7, MonotoneSeq
  <2>4. QED  BY <2>1, <2>2, <2>3
<1>9. /\ w \in Seq(T) /\ Len(w) = Len(a) + Len(b) + Len(c) + Len(e)
      /\ \A k \in 1..Len(c) : w[Len(a) + Len(b) + k] = c[k]
      /\ \A k \in 1..Len(e) : w[Len(a) + Len(b) + Len(c) + k] = e[k]
  BY <1>5, <1>8, FourParts
<1>10. Len(w) = CodewordStart + NGH_PL_PAR_SIZE[s] /\ CodewordStart \in 11..19
  <2>1. CodewordStart \in {11, 19} /\ CodewordStart = L + L + 3
    BY <1>4, <1>6
  <2>2. Len(w) = L + L + 3 + NGH_PL_PAR_SIZE[s]
    BY <1>2, <1>3, <1>4, <1>9
  <2>3. QED  BY <1>2, <1>4, <2>1, <2>2
<1>11. SubSeq(w, CodewordStart - 2, CodewordStart) = c
  <2>1. /\ 2 * L \in Nat /\ 2 * L + Len(c) <= Len(w)
        /\ CodewordStart - 2 = 2 * L + 1 /\ CodewordStart = 2 * L + Len(c)
    BY <1>2, <1>3, <1>4, <1>6, <1>10
  <2>2. \A k \in 1..Len(c) : w[2 * L + k] = c[k]
    BY <1>4, <1>9
  <2>3. SubSeq(w, 2 * L + 1, 2 * L + Len(c)) = c
    BY <1>8, <1>9, <2>1, <2>2, TakenOut
  <2>4. QED  BY <2>1, <2>3
<1>12. SubSeq(w, CodewordStart + 1, Len(w)) = e
  <2>1. CodewordStart \in Nat /\ CodewordStart + Len(e) <= Len(w) /\ CodewordStart + Len(e) = Len(w)
    BY <1>2, <1>10
  <2>2. \A k \in 1..Len(e) : w[CodewordStart + k] = e[k]
    BY <1>3, <1>4, <1>6, <1>9
  <2>3. SubSeq(w, CodewordStart + 1, CodewordStart + Len(e)) = e
    BY <1>8, <1>9, <2>1, <2>2, TakenOut
  <2>4. QED  BY <2>1, <2>3
<1>13. QED
  BY <1>10, <1>11, <1>12 DEF w, c, e

-----------------------------------------------------------------------------
(* The invariant of the codec: what is on the air is the frame of the      *)
(* packet, and what arrives has as many bytes as its code word.            *)

CodecInv ==
  /\ stage \in {"idle", "air", "received", "handled"}
  /\ stage # "idle" => packet \in Packets /\ packet.pl_len \in 1..NGHAM_PL_MAX
  /\ stage = "air" => d = Frame(packet)
  /\ stage \in {"received", "handled"} => DOMAIN code_word = 1..NGH_PL_PAR_SIZE[size_nr]
  /\ RoundTrip

LEMMA PacketTypes ==
  ASSUME CodecInv, stage # "idle"
  PROVE  /\ packet.pl_len \in 1..NGHAM_PL_MAX /\ packet.ngham_flags \in 0..255
         /\ size_nr = SizeNr(packet.pl_len) /\ size_nr \in 0..NGH_SIZES-1
         /\ NGH_PL_PAR_SIZE[size_nr] \in 47..255
<1>1. packet.pl_len \in 1..NGHAM_PL_MAX /\ packet.ngham_flags \in 0..255
  BY CodecAssumption DEF CodecInv, Packets
<1>2. size_nr = SizeNr(packet.pl_len) /\ size_nr \in 0..NGH_SIZES-1
  BY <1>1, SizeNrFacts DEF size_nr
<1>3. QED
  BY <1>1, <1>2, TableValues

(* The bytes a burst does not hit arrive as they were.                     *)
LEMMA Received ==
  ASSUME CodecInv, stage = "air", NEW first \in Nat, NEW n \in Nat, Receive(first, n)
  PROVE  /\ DOMAIN code_word' = 1..NGH_PL_PAR_SIZE[size_nr]
         /\ \A k \in 1..NGH_PL_PAR_SIZE[size_nr] :
              k \notin first..first+n-1 => code_word'[k] = Codeword(size_nr, packet)[k]
<1> DEFINE C == Codeword(size_nr, packet)
           N == NGH_PL_PAR_SIZE[size_nr]
           sent == SubSeq(d, CodewordStart + 1, Len(d))
           hit == [k \in DOMAIN sent |-> IF k \in first..first+n-1 THEN <<"xor", k, <<"bad">>>> ELSE sent[k]]
<1>1. packet.pl_len \in 1..NGHAM_PL_MAX /\ size_nr = SizeNr(packet.pl_len)
  BY PacketTypes
<1>2. C \in Seq(Symbols(size_nr, packet)) /\ Len(C) = N
  BY <1>1, CodewordLayout
<1>3. d = Frame(packet)
  BY DEF CodecInv
<1>4. sent = Scramble(C)
  BY <1>1, <1>3, FrameLayout
<1>5. DOMAIN C = 1..N
  BY <1>2
<1>6. sent = [k \in 1..N |-> <<"xor", k, C[k]>>]
  BY <1>4, <1>5 DEF Scramble
<1>7. code_word' = Descramble(hit)
  BY DEF Receive
<1> HIDE DEF sent
<1>8. hit = [k \in 1..N |-> IF k \in first..first+n-1 THEN <<"xor", k, <<"bad">>>> ELSE sent[k]]
  BY <1>6
<1> HIDE DEF hit
<1>9. code_word' = [k \in 1..N |-> IF hit[k][2] = k THEN hit[k][3] ELSE <<"garbage">>]
  BY <1>7, <1>8 DEF Descramble
<1>10. ASSUME NEW k \in 1..N, k \notin first..first+n-1
       PROVE  code_word'[k] = C[k]
  <2>1. hit[k] = <<"xor", k, C[k]>>
    BY <1>6, <1>8, <1>10
  <2>2. QED  BY <1>9, <2>1
<1>11. QED
  BY <1>9, <1>10

(* ngham_decode tells apart what the code corrects and what it does not.   *)
LEMMA Decoded ==
  ASSUME CodecInv, NghamDecode
  PROVE  RoundTrip'
<1> DEFINE s == size_nr
           C == Codeword(s, packet)
           N == NGH_PL_PAR_SIZE[s]
           n == packet.pl_len
           wrong == {k \in 1..N : code_word[k] # C[k]}
           rs == RsDecode(code_word, s, C)
<1>1. stage = "received"
  BY DEF NghamDecode
<1>2. n \in 1..NGHAM_PL_MAX /\ packet.ngham_flags \in 0..255 /\ s = SizeNr(n) /\ N \in 47..255
  BY <1>1, PacketTypes
<1>3. DOMAIN code_word = 1..N
  BY <1>1 DEF CodecInv
<1>4. /\ C \in Seq(Symbols(s, packet)) /\ Len(C) = N /\ C[1] = Header(s, packet)
      /\ SubSeq(C, 2, n + 1) = Payload(packet)
      /\ SubSeq(C, 1, n + 1) = Checked(s, packet)
      /\ SubSeq(C, n + 2, n + 3) = Crc(Checked(s, packet))
  BY <1>2, CodewordLayout
<1>5. DOMAIN C = 1..N
  BY <1>4
<1>6. Cardinality(wrong) \in Nat
  <2> HIDE DEF N
  <2>1. IsFiniteSet(1..N)
    <3>1. N \in Int /\ 1 \in Int
      BY <1>2
    <3>2. QED  BY <3>1, FS_Interval
  <2>2. IsFiniteSet(wrong)
    BY <2>1, FS_Subset
  <2>3. QED  BY <2>2, FS_CardinalityType
<1>7. rs = IF Cardinality(wrong) <= Capability(s) THEN <<Cardinality(wrong), C>> ELSE <<-1, code_word>>
  <2>1. {k \in DOMAIN C : code_word[k] # C[k]} = wrong
    BY <1>5
  <2>2. QED  BY <2>1 DEF RsDecode
<1>8. /\ stage' = "handled" /\ packet' = packet /\ code_word' = code_word /\ size_nr' = s
  BY DEF NghamDecode, size_nr
<1>9. NGH_PL_SIZE[s] - Low5(C[1]) = n /\ High3(C[1]) = packet.ngham_flags % 8
  BY <1>2, <1>4, HeaderRead
<1> DEFINE pl_len == NGH_PL_SIZE[s] - Low5(rs[2][1])
           ok == [condition |-> "PKT_CONDITION_OK", pl_len |-> pl_len, errors |-> rs[1],
                  ngham_flags |-> High3(rs[2][1]), pl |-> SubSeq(rs[2], 2, pl_len + 1)]
<1>10. handled' = IF /\ rs[1] # -1
                     /\ Crc(SubSeq(rs[2], 1, pl_len + 1)) = SubSeq(rs[2], pl_len + 2, pl_len + 3)
                    THEN ok ELSE Fail
  BY DEF NghamDecode
<1> DEFINE right == [condition |-> "PKT_CONDITION_OK", pl_len |-> n, errors |-> Cardinality(wrong),
                     ngham_flags |-> packet.ngham_flags % 8, pl |-> Payload(packet)]
<1>11. handled' = IF Cardinality(wrong) <= Capability(s) THEN right ELSE Fail
  <2> HIDE DEF rs, C, N, s, wrong
  <2>1. CASE Cardinality(wrong) <= Capability(s)
    <3>1. rs[1] = Cardinality(wrong) /\ rs[2] = C /\ rs[1] # -1
      BY <1>6, <1>7, <2>1
    <3>2. pl_len = n
      BY <1>9, <3>1
    <3>3. Crc(SubSeq(rs[2], 1, pl_len + 1)) = SubSeq(rs[2], pl_len + 2, pl_len + 3)
      BY <1>4, <3>1, <3>2
    <3>4. ok = right
      BY <1>4, <1>9, <3>1, <3>2
    <3>5. QED  BY <1>10, <2>1, <3>1, <3>3, <3>4
  <2>2. CASE ~(Cardinality(wrong) <= Capability(s))
    <3>1. rs[1] = -1
      BY <1>7, <2>2
    <3>2. QED  BY <1>10, <2>2, <3>1
  <2>3. QED  BY <2>1, <2>2
<1>12. {k \in DOMAIN code_word : code_word[k] # C[k]} = wrong
  BY <1>3
<1>13. (Codeword(size_nr, packet))' = C /\ (Capability(size_nr))' = Capability(s) /\ (Payload(packet))' = Payload(packet)
  BY <1>8 DEF Codeword, Header, Payload, Crc, Zeros, Parity, Capability
<1>14. RoundTrip' = (stage' = "handled" =>
         handled' = IF Cardinality(wrong) <= Capability(s) THEN right ELSE Fail)
  BY <1>8, <1>12, <1>13 DEF RoundTrip, Fail
<1>15. QED
  BY <1>11, <1>14

LEMMA CodecInvInductive == CodecInv /\ [CodecNext]_codecvars => CodecInv'
<1> SUFFICES ASSUME CodecInv, [CodecNext]_codecvars PROVE CodecInv'
  OBVIOUS
<1>1. ASSUME NEW q \in Packets, NghamEncode(q)
      PROVE  CodecInv'
  <2>1. q.pl_len \in Nat
    BY CodecAssumption DEF Packets
  <2>2. q.pl_len \in 1..NGHAM_PL_MAX
    BY <1>1, <2>1 DEF NghamEncode, NGHAM_PL_MAX
  <2>3. stage' = "air" /\ packet' = q /\ d' = Frame(packet')
    BY <1>1 DEF NghamEncode
  <2>4. (Frame(packet))' = Frame(packet')
    BY DEF Frame, Codeword, Header, Payload, Crc, Zeros, Parity, Scramble, Tag
  <2>5. QED  BY <1>1, <2>2, <2>3, <2>4 DEF CodecInv, RoundTrip
<1>2. ASSUME stage = "air", NEW first \in BurstStarts(size_nr, packet.pl_len),
             NEW n \in 0..Capability(size_nr)+1, Receive(first, n)
      PROVE  CodecInv'
  <2>1. first \in Nat /\ n \in Nat
    <3>1. packet.pl_len \in Nat /\ size_nr \in 0..NGH_SIZES-1
      BY <1>2, PacketTypes DEF NGHAM_PL_MAX
    <3>2. NGH_PL_SIZE_FULL[size_nr] \in Nat
      BY <3>1, TableValues DEF NGH_SIZES
    <3>3. QED  BY <3>1, <3>2 DEF BurstStarts
  <2>2. DOMAIN code_word' = 1..NGH_PL_PAR_SIZE[size_nr]
    BY <1>2, <2>1, Received
  <2>3. packet' = packet /\ size_nr' = size_nr /\ stage' = "received"
    BY <1>2 DEF Receive, size_nr
  <2>4. QED  BY <1>2, <2>2, <2>3 DEF CodecInv, RoundTrip
<1>3. ASSUME NghamDecode
      PROVE  CodecInv'
  <2>1. RoundTrip'
    BY <1>3, Decoded
  <2>2. /\ stage = "received" /\ stage' = "handled" /\ packet' = packet /\ code_word' = code_word
        /\ size_nr' = size_nr
    BY <1>3 DEF NghamDecode, size_nr
  <2>3. QED  BY <2>1, <2>2 DEF CodecInv
<1>4. CASE Done
  BY <1>4 DEF Done, CodecInv, RoundTrip
<1>5. CASE UNCHANGED codecvars
  <2>1. UNCHANGED <<stage, packet, d, code_word, handled>>
    BY <1>5 DEF codecvars
  <2>2. RoundTrip'
    <3>1. RoundTrip
      BY DEF CodecInv
    <3>2. UNCHANGED <<size_nr, Codeword(size_nr, packet), Capability(size_nr), Payload(packet)>>
      BY <2>1 DEF size_nr, Codeword, Header, Payload, Crc, Zeros, Parity, Capability
    <3>3. QED  BY <2>1, <3>1, <3>2 DEF RoundTrip
  <2>3. UNCHANGED Frame(packet)
    BY <2>1 DEF Frame, Codeword, Header, Payload, Crc, Zeros, Parity, Scramble, Tag
  <2>4. QED  BY <2>1, <2>2, <2>3 DEF CodecInv, size_nr
<1>6. QED
  BY <1>1, <1>2, <1>3, <1>4, <1>5 DEF CodecNext

LEMMA CodecInvariant == CodecSpec => []CodecInv
<1>1. CodecInit => CodecInv
  BY DEF CodecInit, CodecInv, RoundTrip
<1>2. QED
  BY <1>1, CodecInvInductive, PTL DEF CodecSpec

LEMMA FitsInState == CodecInv => FrameFits
<1> SUFFICES ASSUME CodecInv, stage = "air"
             PROVE  /\ Len(d) <= NGH_MAX_TOT_SIZE
                    /\ Len(d) - CodewordStart = NGH_PL_PAR_SIZE[size_nr]
                    /\ SubSeq(d, CodewordStart - 2, CodewordStart) = Tag(size_nr)
  BY DEF FrameFits
<1>1. d = Frame(packet)
  BY DEF CodecInv
<1>2. packet.pl_len \in 1..NGHAM_PL_MAX /\ size_nr = SizeNr(packet.pl_len) /\ NGH_PL_PAR_SIZE[size_nr] \in 47..255
  BY PacketTypes
<1>3. /\ CodewordStart \in 11..19 /\ Len(d) = CodewordStart + NGH_PL_PAR_SIZE[size_nr]
      /\ SubSeq(d, CodewordStart - 2, CodewordStart) = Tag(size_nr)
  BY <1>1, <1>2, FrameLayout
<1>4. QED
  <2>1. ASSUME NEW start \in 11..19, NEW size \in 47..255
        PROVE  start + size <= NGH_MAX_TOT_SIZE /\ (start + size) - start = size
    BY DEF NGH_MAX_TOT_SIZE
  <2>2. QED  BY <1>2, <1>3, <2>1, ZenonT(60)

(* For every length of the payload, either modulation: the frame           *)
(* ngham_encode builds fits the buffer it is built in, and is as long as   *)
(* its size tag says.                                                      *)
THEOREM FramesFit == CodecSpec => []FrameFits
BY CodecInvariant, FitsInState, PTL

(* Whatever arrives in place of a code word, ngham_decode hands over the   *)
(* packet ngham_encode was given, three bits of its flags, exactly when    *)
(* the Reed-Solomon code corrects the damage, and reports a failure        *)
(* otherwise.                                                              *)
THEOREM PacketsRoundTrip == CodecSpec => []RoundTrip
<1>1. CodecInv => RoundTrip
  BY DEF CodecInv
<1>2. QED
  BY <1>1, CodecInvariant, PTL

Correctable ==
  Cardinality({k \in DOMAIN code_word : code_word[k] # Codeword(size_nr, packet)[k]}) <= Capability(size_nr)

(* A burst anywhere in the frame, no longer than the code corrects, leaves *)
(* a code word of which RoundTrip says that it is delivered.               *)
THEOREM ShortBurstsCorrected ==
  CodecSpec =>
    [][\A first \in Nat, n \in 0..Capability(size_nr) :
         stage = "air" /\ Receive(first, n) => Correctable']_codecvars
<1>1. ASSUME CodecInv, stage = "air", NEW first \in Nat, NEW n \in 0..Capability(size_nr), Receive(first, n)
      PROVE  Correctable'
  <2> DEFINE N == NGH_PL_PAR_SIZE[size_nr]
             C == Codeword(size_nr, packet)
             wrong == {k \in 1..N : code_word'[k] # C[k]}
  <2>1. size_nr \in 0..NGH_SIZES-1
    BY <1>1, PacketTypes
  <2>2. Capability(size_nr) \in Nat
    BY <2>1, TableValues DEF Capability, NGH_SIZES
  <2>3. n \in Nat
    BY <2>2
  <2>4. DOMAIN code_word' = 1..N /\ \A k \in 1..N : k \notin first..first+n-1 => code_word'[k] = C[k]
    BY <1>1, <2>3, Received
  <2>5. packet' = packet /\ size_nr' = size_nr
    BY <1>1 DEF Receive, size_nr
  <2>6. C' = C /\ (Capability(size_nr))' = Capability(size_nr)
    BY <2>5 DEF Codeword, Header, Payload, Crc, Zeros, Parity, Capability
  <2>7. Correctable' = (Cardinality(wrong) <= Capability(size_nr))
    <3>1. Correctable' = (Cardinality({k \in DOMAIN code_word' : code_word'[k] # C'[k]})
                            <= (Capability(size_nr))')
      BY DEF Correctable
    <3> HIDE DEF C, N
    <3>2. {k \in DOMAIN code_word' : code_word'[k] # C'[k]} = wrong
      BY <2>4, <2>6
    <3>3. QED  BY <2>6, <3>1, <3>2
  <2>8. IsFiniteSet(first..first+n-1) /\ Cardinality(first..first+n-1) = n
    <3>1. first \in Int /\ first + n - 1 \in Int
      BY <2>3
    <3>2. /\ IsFiniteSet(first..first+n-1)
          /\ Cardinality(first..first+n-1) = IF first > first+n-1 THEN 0 ELSE (first+n-1) - first + 1
      BY <3>1, FS_Interval
    <3>3. QED  BY <2>3, <3>2
  <2>9. wrong \subseteq first..first+n-1
    BY <2>4
  <2>10. IsFiniteSet(wrong) /\ Cardinality(wrong) <= n
    BY <2>8, <2>9, FS_Subset
  <2>11. Cardinality(wrong) \in Nat
    BY <2>10, FS_CardinalityType
  <2> HIDE DEF wrong
  <2>12. n <= Capability(size_nr)
    BY <2>2
  <2>13. Cardinality(wrong) <= Capability(size_nr)
    BY <2>2, <2>3, <2>10, <2>11, <2>12
  <2>14. QED
    BY <2>7, <2>13
<1>2. CodecInv => \A first \in Nat, n \in 0..Capability(size_nr) :
                    stage = "air" /\ Receive(first, n) => Correctable'
  BY <1>1
<1>3. QED
  BY <1>2, CodecInvariant, PTL

-----------------------------------------------------------------------------
(* The control blocks                                                      *)

(* Between two calls the tables of both codes are on the heap, or nothing  *)
(* is, and the blocks of all sizes are those of the table of sizes.        *)
BlocksInv ==
  /\ ready \in BOOLEAN
  /\ heap = IF ready THEN TablesOf(16) \cup TablesOf(32) ELSE {}
  /\ ready => \A j \in 0..NGH_SIZES-1 :
                rs_cb[j] = [nroots |-> Roots(j), pad |-> NGH_PL_PAR_SIZE[6] - NGH_PL_PAR_SIZE[j]]
  /\ \A x \in invalid : x.block = "rs_cb"

LEMMA LargestCodeWord == NGH_PL_PAR_SIZE[6] = 255
BY TableValues DEF NGH_SIZES

LEMMA BlocksReady ==
  ASSUME BlocksInv, ready
  PROVE  /\ heap = TablesOf(16) \cup TablesOf(32)
         /\ \A j \in 0..NGH_SIZES-1 :
              rs_cb[j].nroots = Roots(j) /\ rs_cb[j].pad = 255 - NGH_PL_PAR_SIZE[j]
<1>1. heap = TablesOf(16) \cup TablesOf(32)
  BY Zenon DEF BlocksInv
<1>2. ASSUME NEW j \in 0..NGH_SIZES-1
      PROVE  rs_cb[j].nroots = Roots(j) /\ rs_cb[j].pad = 255 - NGH_PL_PAR_SIZE[j]
  <2>1. rs_cb[j] = [nroots |-> Roots(j), pad |-> NGH_PL_PAR_SIZE[6] - NGH_PL_PAR_SIZE[j]]
    BY Zenon DEF BlocksInv
  <2>2. QED  BY <2>1, LargestCodeWord
<1>3. QED  BY <1>1, <1>2

(* Sizes 0 and 3 have different tables, and the only ones.                 *)
LEMMA ReleaseFrees ==
  ASSUME BlocksInv, ready
  PROVE  LET m == Freed(Freed([heap |-> heap, invalid |-> invalid], Released[1]), Released[2])
         IN  m.heap = {} /\ \A x \in m.invalid : x.block = "rs_cb"
<1>1. rs_cb[Released[1]].nroots = 16 /\ rs_cb[Released[2]].nroots = 32
  <2>1. Released[1] = 0 /\ Released[2] = 3 /\ 0 \in 0..NGH_SIZES-1 /\ 3 \in 0..NGH_SIZES-1
    BY DEF Released, NGH_SIZES
  <2>2. Roots(0) = 16 /\ Roots(3) = 32
    BY DEF Roots
  <2>3. QED  BY <2>1, <2>2, BlocksReady
<1>2. TablesOf(16) \cap TablesOf(32) = {}
  BY DEF TablesOf
<1> DEFINE first == Freed([heap |-> heap, invalid |-> invalid], Released[1])
           both  == Freed(first, Released[2])
<1>3. /\ first.heap = heap \ TablesOf(16)
      /\ first.invalid = invalid \cup (TablesOf(16) \ heap) \cup {[code |-> Released[1], block |-> "rs_cb"]}
  BY <1>1 DEF Freed
<1>4. heap = TablesOf(16) \cup TablesOf(32)
  BY BlocksReady
<1>5. first.heap = TablesOf(32) /\ \A x \in first.invalid : x.block = "rs_cb"
  <2>1. first.heap = TablesOf(32)
    BY <1>2, <1>3, <1>4
  <2>2. first.invalid = invalid \cup {[code |-> Released[1], block |-> "rs_cb"]}
    BY <1>3, <1>4
  <2>3. \A x \in invalid : x.block = "rs_cb"
    BY Zenon DEF BlocksInv
  <2>4. QED  BY <2>1, <2>2, <2>3
<1> HIDE DEF first
<1>6. /\ both.heap = first.heap \ TablesOf(32)
      /\ both.invalid = first.invalid \cup (TablesOf(32) \ first.heap)
                          \cup {[code |-> Released[2], block |-> "rs_cb"]}
  BY <1>1 DEF Freed
<1>7. both.heap = {} /\ both.invalid = first.invalid \cup {[code |-> Released[2], block |-> "rs_cb"]}
  BY <1>5, <1>6
<1>8. both.heap = {} /\ \A x \in both.invalid : x.block = "rs_cb"
  BY <1>5, <1>7
<1>9. QED  BY <1>8 DEF first

LEMMA BlocksStep ==
  ASSUME BlocksInv, [BlocksNext]_blockvars
  PROVE  BlocksInv'
<1>1. CASE ngham_init_arrays
  BY <1>1 DEF ngham_init_arrays, BlocksInv
<1>2. CASE ngham_deinit_arrays
  <2>1. heap' = {} /\ \A x \in invalid' : x.block = "rs_cb"
    BY <1>2, ReleaseFrees DEF ngham_deinit_arrays
  <2>2. ready' = FALSE
    BY <1>2 DEF ngham_deinit_arrays
  <2>3. QED  BY <2>1, <2>2 DEF BlocksInv
<1>3. CASE UNCHANGED blockvars
  BY <1>3 DEF blockvars, BlocksInv
<1>4. QED  BY <1>1, <1>2, <1>3 DEF BlocksNext

LEMMA SoundInState == BlocksInv => ControlBlocksSound
<1>1. ASSUME BlocksInv, ready, NEW j \in 0..NGH_SIZES-1
      PROVE  /\ TablesOf(rs_cb[j].nroots) \subseteq heap
             /\ rs_cb[j].nroots = NGH_PAR_SIZE[j]
             /\ 255 - rs_cb[j].pad = NGH_PL_PAR_SIZE[j]
             /\ 255 - rs_cb[j].pad - rs_cb[j].nroots = 1 + NGH_PL_SIZE[j] + 2
  <2>1. rs_cb[j].nroots = Roots(j) /\ rs_cb[j].pad = 255 - NGH_PL_PAR_SIZE[j]
    BY <1>1, BlocksReady
  <2>2. Roots(j) = NGH_PAR_SIZE[j] /\ Roots(j) \in {16, 32}
    BY TableValues DEF Roots
  <2>3. TablesOf(Roots(j)) \subseteq heap
    BY <1>1, <2>2, BlocksReady
  <2>4. /\ NGH_PL_PAR_SIZE[j] \in 47..255 /\ NGH_PL_SIZE[j] \in Int
        /\ NGH_PL_PAR_SIZE[j] = NGH_PL_SIZE[j] + 3 + NGH_PAR_SIZE[j]
    BY TableValues DEF NGH_SIZES
  <2>5. QED  BY <2>1, <2>2, <2>3, <2>4
<1>2. QED
  BY <1>1 DEF BlocksInv, ControlBlocksSound

(* However often the arrays are set up and released, each size has tables  *)
(* that exist, the roots and padding of its code word, and nothing that    *)
(* init_rs_char allocated is left over or freed twice.                     *)
THEOREM BlocksSound == BlocksSpec => []ControlBlocksSound
<1>1. BlocksInit => BlocksInv
  BY DEF BlocksInit, BlocksInv
<1>2. BlocksInv /\ [BlocksNext]_blockvars => BlocksInv'
  BY BlocksStep
<1>3. QED
  BY <1>1, <1>2, SoundInState, PTL DEF BlocksSpec
=============================================================================
