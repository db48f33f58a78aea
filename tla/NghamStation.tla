---------------------------- MODULE NghamStation ----------------------------
(***************************************************************************)
(* A receiving station: the demodulator and ngham_parse, which pushes each *)
(* code word into the RX ring within the interrupt of its last byte, and   *)
(* the main loop, which decodes and reports.                               *)
(*                                                                         *)
(* The hook ngham_platform_handle_decoded_pkt is taken to call             *)
(* ngham_rx_push, one of the two ways that ngham_parse names.  Interrupts  *)
(* do not nest, and a push takes less than a byte time, so that no byte    *)
(* comes during one; a sync word may.  The slots of the ring hold what     *)
(* ngham_decode makes of a code word.  Nothing is transmitted.             *)
(***************************************************************************)
EXTENDS NghamReceiver

CONSTANTS RX_PKTS_SIZE, TX_PKTS_SIZE, NULL

VARIABLES
  rx_pkts, rx_pkts_ip, rx_pkts_op, tx_pkts, tx_pkts_ip, tx_pkts_op,
  rx_pc, rx_p, rx_next, tx_pc, tx_p, tx_next, main_pc,
  handled, sent, rx_overflow, tx_overflow

Rings == INSTANCE NghamBuffers WITH
  RxPackets <- Transmissions \cup {Noise}, Decodable <- Transmissions,
  TxPackets <- {}, PlLen <- [p \in {} |-> 0]

ASSUME RingAssumption ==
  Rings!IsRingSize(RX_PKTS_SIZE) /\ Rings!IsRingSize(TX_PKTS_SIZE)
ASSUME NullAssumption == NULL \notin Transmissions \cup {Noise}

ringvars == <<rx_pkts, rx_pkts_ip, rx_pkts_op, tx_pkts, tx_pkts_ip, tx_pkts_op,
              rx_pc, rx_p, rx_next, tx_pc, tx_p, tx_next, main_pc,
              handled, sent, rx_overflow, tx_overflow>>

StationInit == Init /\ Rings!Init

(* A sync word is found, whatever the processor does.                      *)
HearSync(t) == Sync(t) /\ UNCHANGED ringvars

(* A byte that completes no code word.  A failure to find a size is        *)
(* reported from here, past the ring.                                      *)
HearByte ==
  /\ rx_pc = "idle"
  /\ ParseSizeTag \/ ParseSizeKnown \/ ParseSizeUnknown \/ ParseByte
  /\ UNCHANGED ringvars

(* The last byte of a code word: the push begins.                          *)
HearLastByte == ParseLastByte /\ Rings!RxPushCheck(outcome')

(* The rest of the push, and the main loop.                                *)
Push == (Rings!RxPushCopyBegin \/ Rings!RxPushCopyEnd \/ Rings!RxPushPublish) /\ UNCHANGED vars
Tick == (Rings!TickRx \/ Rings!TickTx \/ Rings!DecodeBegin \/ Rings!DecodeEnd \/ Rings!RxRelease)
        /\ UNCHANGED vars

(* ngham_init, here between two receptions.                                *)
Restart == demod = "hunting" /\ NghamInit /\ Rings!NghamInit

StationNext ==
  \/ \E t \in Transmissions \cup {Noise} : HearSync(t)
  \/ HearByte
  \/ HearLastByte
  \/ Push
  \/ Tick
  \/ Restart

StationSpec == StationInit /\ [][StationNext]_<<vars, ringvars>>

-----------------------------------------------------------------------------
(* Receiver, ring and main loop together keep the promise of PacketLink:   *)
(* the outcome of every reception whose size was found is reported once    *)
(* and in the order of the receptions, whatever is heard while packets are *)
(* copied, decoded and released, or it met a full ring, or ngham_init.     *)
Link == INSTANCE PacketLink WITH
  receiving <- IF demod = "hunting" THEN None ELSE air,
  Capacity  <- RX_PKTS_SIZE - 1,
  queue     <- Rings!RxQueue \o (IF rx_pc = "idle" THEN <<>> ELSE <<rx_p>>),
  serving   <- Rings!RxServing,
  report    <- IF handled.condition = "PKT_CONDITION_OK" THEN handled.pkt ELSE Noise,
  overflow  <- rx_overflow /\ rx_pc = "idle"
StationImplementsLink == Link!LinkSpec
=============================================================================
