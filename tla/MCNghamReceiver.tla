--------------------------- MODULE MCNghamReceiver ---------------------------
(***************************************************************************)
(* The receiver with a scaled geometry, two code word sizes, the longer    *)
(* one as long as the demodulator can count, as 255 is to 256.             *)
(***************************************************************************)
EXTENDS NghamReceiver

CONSTANTS a, b, c   \* transmissions

MCParSize   == [s \in 0..1 |-> IF s = 0 THEN 3 ELSE 7]
MCTolerance == [s \in 0..1 |-> IF s = 0 THEN 1 ELSE 2]
MCSizeOf    == [t \in {a, b, c} |-> IF t = a THEN 0 ELSE 1]
MCFalseTags == {0, 1}

(* The code words of ngham.c satisfy what GeometryAssumption asks when the *)
(* demodulator counts in an octet.                                         *)
ASSUME RealGeometry ==
  \A n \in {47, 79, 111, 159, 191, 223, 255} :
    LET corrected == IF n < 159 THEN 8 ELSE 16
    IN  n \in 1..255 /\ 2 * corrected < n /\ NGH_SIZE_TAG_SIZE + 1 < 256
=============================================================================
