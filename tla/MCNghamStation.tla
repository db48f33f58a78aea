--------------------------- MODULE MCNghamStation ---------------------------
(***************************************************************************)
(* The station with the smallest geometry that has two code word sizes,    *)
(* the longer one as long as the demodulator can count, as 255 is to 256.  *)
(***************************************************************************)
EXTENDS NghamStation

CONSTANTS a, b   \* transmissions

MCParSize   == [s \in 0..1 |-> IF s = 0 THEN 1 ELSE 4]
MCTolerance == [s \in 0..1 |-> IF s = 0 THEN 0 ELSE 1]
MCSizeOf    == [t \in Transmissions |-> IF t = a THEN 0 ELSE 1]
MCFalseTags == {0, 1}

(* What no step and no property reads: slots that are not published, the   *)
(* variables of a push that is over, and those of a reception that is.     *)
MCView ==
  <<parser, packet_size, demod, inits,
    IF demod = "hunting" THEN NULL ELSE <<count, channel>>,
    [i \in Rings!RxWindow |-> rx_pkts[i]], rx_pkts_ip, rx_pkts_op,
    IF rx_pc = "idle" THEN NULL ELSE <<rx_pc, rx_p, rx_next>>, main_pc, handled, rx_overflow>>
=============================================================================
