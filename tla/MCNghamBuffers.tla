--------------------------- MODULE MCNghamBuffers ---------------------------
(***************************************************************************)
(* Two rings of four for TLC, so that packets wait behind each other.      *)
(* There are packets of each kind the rings tell apart: one that decodes   *)
(* and one that does not, two that can be sent, the shortest and the       *)
(* longest, and one too long for ngham_tx_push.                            *)
(*                                                                         *)
(* The two rings meet in the tick only.  In each behaviour one of them is  *)
(* under stress and takes whatever comes; the other takes one packet at a  *)
(* time, always the same.                                                  *)
(***************************************************************************)
EXTENDS NghamBuffers, TLC

CONSTANTS good, bad, short, full, long

VARIABLE stressed   \* the ring that is under stress

MCRxPackets  == {good, bad}
MCDecodable  == {good}
MCTxPackets  == {short, full, long}
MCPlLen      == (short :> 1) @@ (full :> 220) @@ (long :> 221)

MCInit == Init /\ stressed \in {"rx", "tx"}

MCNext ==
  /\ Next
  /\ UNCHANGED stressed
  /\ rx_pc = "idle" /\ rx_pc' = "copy" => stressed = "rx" \/ (RxWindow = {} /\ rx_p' = good)
  /\ tx_pc = "idle" /\ tx_pc' = "copy" => stressed = "tx" \/ (TxWindow = {} /\ tx_p' = short)

MCSpec == MCInit /\ [][MCNext]_<<vars, stressed>> /\ Fairness

(* What no step and no property reads: slots that are not published, and   *)
(* the variables of a push that is over.                                   *)
MCView ==
  <<stressed, main_pc, outputs, reports,
    rx_pkts_ip, rx_pkts_op, [i \in RxWindow |-> rx_pkts[i]], IF rx_pc = "idle" THEN NULL ELSE rxPush,
    tx_pkts_ip, tx_pkts_op, [i \in TxWindow |-> tx_pkts[i]], IF tx_pc = "idle" THEN NULL ELSE txPush>>
=============================================================================
