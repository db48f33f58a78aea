--------------------------- MODULE CcsdsScrambler ---------------------------
(***************************************************************************)
(* ccsds_scrambler.c: octets are added to a sequence of 255.  ngham.c      *)
(* takes the sequence itself, with the position in the code word as index; *)
(* the two functions keep a position of their own.                         *)
(***************************************************************************)
EXTENDS Integers, Sequences, Bitwise

CONSTANTS
  Data,     \* octets that are scrambled
  Behind    \* what memory may hold behind the table

ccsds_poly == <<
  \HFF, \H48, \H0E, \HC0, \H9A, \H0D, \H70, \HBC, \H8E, \H2C, \H93, \HAD, \HA7,
  \HB7, \H46, \HCE, \H5A, \H97, \H7D, \HCC, \H32, \HA2, \HBF, \H3E, \H0A, \H10,
  \HF1, \H88, \H94, \HCD, \HEA, \HB1, \HFE, \H90, \H1D, \H81, \H34, \H1A, \HE1,
  \H79, \H1C, \H59, \H27, \H5B, \H4F, \H6E, \H8D, \H9C, \HB5, \H2E, \HFB, \H98,
  \H65, \H45, \H7E, \H7C, \H14, \H21, \HE3, \H11, \H29, \H9B, \HD5, \H63, \HFD,
  \H20, \H3B, \H02, \H68, \H35, \HC2, \HF2, \H38, \HB2, \H4E, \HB6, \H9E, \HDD,
  \H1B, \H39, \H6A, \H5D, \HF7, \H30, \HCA, \H8A, \HFC, \HF8, \H28, \H43, \HC6,
  \H22, \H53, \H37, \HAA, \HC7, \HFA, \H40, \H76, \H04, \HD0, \H6B, \H85, \HE4,
  \H71, \H64, \H9D, \H6D, \H3D, \HBA, \H36, \H72, \HD4, \HBB, \HEE, \H61, \H95,
  \H15, \HF9, \HF0, \H50, \H87, \H8C, \H44, \HA6, \H6F, \H55, \H8F, \HF4, \H80,
  \HEC, \H09, \HA0, \HD7, \H0B, \HC8, \HE2, \HC9, \H3A, \HDA, \H7B, \H74, \H6C,
  \HE5, \HA9, \H77, \HDC, \HC3, \H2A, \H2B, \HF3, \HE0, \HA1, \H0F, \H18, \H89,
  \H4C, \HDE, \HAB, \H1F, \HE9, \H01, \HD8, \H13, \H41, \HAE, \H17, \H91, \HC5,
  \H92, \H75, \HB4, \HF6, \HE8, \HD9, \HCB, \H52, \HEF, \HB9, \H86, \H54, \H57,
  \HE7, \HC1, \H42, \H1E, \H31, \H12, \H99, \HBD, \H56, \H3F, \HD2, \H03, \HB0,
  \H26, \H83, \H5C, \H2F, \H23, \H8B, \H24, \HEB, \H69, \HED, \HD1, \HB3, \H96,
  \HA5, \HDF, \H73, \H0C, \HA8, \HAF, \HCF, \H82, \H84, \H3C, \H62, \H25, \H33,
  \H7A, \HAC, \H7F, \HA4, \H07, \H60, \H4D, \H06, \HB8, \H5E, \H47, \H16, \H49,
  \HD6, \HD3, \HDB, \HA3, \H67, \H2D, \H4B, \HBE, \HE6, \H19, \H51, \H5F, \H9F,
  \H05, \H08, \H78, \HC4, \H4A, \H66, \HF5, \H58 >>

VARIABLES
  ccsds_poly_pos,   \* position in the table, an octet
  count,            \* octets since the position was set to zero; bound: 256
  reg,              \* reference: the last eight bits of the sequence
  data, output      \* the octet scrambled last, and what came out

vars == <<ccsds_poly_pos, count, reg, data, output>>

(* The eight bits that follow, by x^8 + x^7 + x^5 + x^3 + 1, oldest first.  *)
FollowingOctet(bits) ==
  LET b[k \in 0..15] ==
        IF k < 8 THEN (bits \div 2^(7 - k)) % 2
        ELSE (b[k - 1] + b[k - 3] + b[k - 5] + b[k - 8]) % 2
      sum[k \in 0..8] == IF k = 0 THEN 0 ELSE 2 * sum[k - 1] + b[7 + k]
  IN  sum[8]

Init == ccsds_poly_pos = 0 /\ count = 0 /\ reg = 255 /\ data = 0 /\ output = 0

ccsds_scrambler_init ==
  /\ ccsds_poly_pos' = 0
  /\ count' = 0 /\ reg' = 255
  /\ UNCHANGED <<data, output>>

(* Mutant: the position goes back to zero one octet early.                 *)
FollowingPosEarly(pos) == IF pos + 1 = 254 THEN 0 ELSE pos + 1

(* The line that would set it back at the end of the table stands behind   *)
(* the return: it runs over the end, as far as an octet counts.            *)
FollowingPos(pos) == (pos + 1) % 256

ccsds_scrambler_xor(octet, behind) ==
  /\ count < 256
  /\ data' = octet
  /\ output' = octet ^^ (IF ccsds_poly_pos < 255 THEN ccsds_poly[1 + ccsds_poly_pos] ELSE behind)
  /\ ccsds_poly_pos' = FollowingPos(ccsds_poly_pos)
  /\ count' = count + 1
  /\ reg' = FollowingOctet(reg)

Next ==
  \/ ccsds_scrambler_init
  \/ \E octet \in Data, behind \in Behind : ccsds_scrambler_xor(octet, behind)

Spec == Init /\ [][Next]_vars

-----------------------------------------------------------------------------
(* In a code word, of which the longest has 255 octets, each octet is      *)
(* added to the one that the shift register puts out at its place; longer  *)
(* streams leave the table and lose step with any receiver.                *)
SequenceStep == count' # count /\ count' \in 1..255 => output' = data' ^^ reg
FollowsSequence == [][SequenceStep]_vars
=============================================================================
