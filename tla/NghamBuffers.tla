---------------------------- MODULE NghamBuffers ----------------------------
(***************************************************************************)
(* The packet rings of ngham_buffers.c and the tick that empties them.     *)
(*                                                                         *)
(* Three activities share the rings and no lock protects them:             *)
(*   - reception: ngham_parse runs in an interrupt and calls ngham_rx_push *)
(*     for each completed code word;                                       *)
(*   - application: calls ngham_tx_push for each packet to transmit (from  *)
(*     the main loop, from the packet handler or from the SPP parser);     *)
(*   - main: the main loop calls ngham_process_tick.                       *)
(* Every access to a shared index is a step of its own, and a memcpy and   *)
(* an in-place decoding each take two, so that every overlap of the three  *)
(* is a behaviour, preemption and true parallelism alike.                  *)
(*                                                                         *)
(* A slot records whose bytes it holds and in which form: "raw" as         *)
(* received, "torn" while a memcpy is under way, "decoded" once            *)
(* ngham_decode has corrected it and replaced its flag byte.               *)
(***************************************************************************)
EXTENDS Naturals, Sequences

CONSTANTS
  RX_PKTS_SIZE, TX_PKTS_SIZE,  \* slots per ring
  RxPackets,                   \* code words the demodulator delivers
  Decodable,                   \* those that survive Reed-Solomon and CRC
  TxPackets,                   \* packets the application submits
  PlLen,                       \* PlLen[p]: the pl_len of p
  NULL

NGHAM_PL_MAX == 220

(* The index mask (SIZE-1) works only for a power of two.                  *)
IsRingSize(n) == n \in Nat /\ \E k \in 1..n : n = 2^k

ASSUME RxSizeAssumption == IsRingSize(RX_PKTS_SIZE)
ASSUME TxSizeAssumption == IsRingSize(TX_PKTS_SIZE)
ASSUME DecodableAssumption == Decodable \subseteq RxPackets
ASSUME PlLenAssumption == PlLen \in [TxPackets -> Nat]
ASSUME NullAssumption == NULL \notin RxPackets /\ NULL \notin TxPackets

VARIABLES
  rx_pkts, rx_pkts_ip, rx_pkts_op,
  tx_pkts, tx_pkts_ip, tx_pkts_op,
  rx_pc, rx_p, rx_next,        \* ngham_rx_push: where it is, p and next
  tx_pc, tx_p, tx_next,        \* ngham_tx_push: where it is, p and next
  main_pc,                     \* ngham_process_tick: where it is
  handled,                     \* last call of ngham_platform_handle_packet
  sent,                        \* last packet given to ngham_encode, if sent
  rx_overflow, tx_overflow     \* the last push to the ring reported an overflow

rxRing  == <<rx_pkts, rx_pkts_ip, rx_pkts_op>>
txRing  == <<tx_pkts, tx_pkts_ip, tx_pkts_op>>
rxPush  == <<rx_pc, rx_p, rx_next>>
txPush  == <<tx_pc, tx_p, tx_next>>
outputs == <<handled, sent>>
reports == <<rx_overflow, tx_overflow>>
vars    == <<rxRing, txRing, rxPush, txPush, main_pc, outputs, reports>>

(* Mutant: the mask is forgotten.                                          *)
NextIndexUnmasked(i, size) == i + 1

(* (i + 1) & (size - 1) for an index of a ring of that size.               *)
NextIndex(i, size) == IF i + 1 = size THEN 0 ELSE i + 1

Slot(p, f) == [pkt |-> p, form |-> f]

(* The call ngham_decode makes to the handler, and what ngham_encode gives *)
(* to the modulator (NULL when it returns 0).                              *)
RxOutcome == [p \in RxPackets |->
  IF p \in Decodable THEN [condition |-> "PKT_CONDITION_OK", pkt |-> p]
                     ELSE [condition |-> "PKT_CONDITION_FAIL", pkt |-> NULL]]
TxOutcome == [p \in TxPackets |-> IF PlLen[p] \in 1..NGHAM_PL_MAX THEN p ELSE NULL]

Condition == {"PKT_CONDITION_OK", "PKT_CONDITION_FAIL"}
NoOutcome == [condition |-> "PKT_CONDITION_FAIL", pkt |-> NULL]

Init ==
  /\ rx_pkts = [i \in 0..RX_PKTS_SIZE-1 |-> Slot(NULL, "raw")]
  /\ tx_pkts = [i \in 0..TX_PKTS_SIZE-1 |-> Slot(NULL, "raw")]
  /\ rx_pkts_ip = 0 /\ rx_pkts_op = 0
  /\ tx_pkts_ip = 0 /\ tx_pkts_op = 0
  /\ rx_pc = "idle" /\ rx_p = NULL /\ rx_next = 0
  /\ tx_pc = "idle" /\ tx_p = NULL /\ tx_next = 0
  /\ main_pc = "idle"
  /\ handled = NoOutcome /\ sent = NULL
  /\ rx_overflow = FALSE /\ tx_overflow = FALSE

-----------------------------------------------------------------------------
(* ngham_rx_push                                                           *)

(* next is computed and compared with the consumer's index: a full ring    *)
(* drops the packet.                                                       *)
RxPushCheck(p) ==
  /\ rx_pc = "idle"
  /\ LET next == NextIndex(rx_pkts_ip, RX_PKTS_SIZE)
     IN  IF next = rx_pkts_op
           THEN rx_overflow' = TRUE /\ UNCHANGED rxPush
           ELSE rx_pc' = "copy" /\ rx_p' = p /\ rx_next' = next /\ UNCHANGED rx_overflow
  /\ UNCHANGED <<rxRing, txRing, txPush, main_pc, outputs, tx_overflow>>

(* Mutant: the new index is stored before the memcpy.                      *)
RxPushCopyBeginPublished ==
  /\ rx_pc = "copy"
  /\ rx_pkts' = [rx_pkts EXCEPT ![rx_pkts_ip] = Slot(rx_p, "torn")]
  /\ rx_pkts_ip' = rx_next
  /\ rx_pc' = "publish"
  /\ UNCHANGED <<rx_pkts_op, rx_p, rx_next, txRing, txPush, main_pc, outputs, reports>>

RxPushCopyBegin ==
  /\ rx_pc = "copy"
  /\ rx_pkts' = [rx_pkts EXCEPT ![rx_pkts_ip] = Slot(rx_p, "torn")]
  /\ rx_pc' = "copying"
  /\ UNCHANGED <<rx_pkts_ip, rx_pkts_op, rx_p, rx_next, txRing, txPush, main_pc, outputs, reports>>

RxPushCopyEnd ==
  /\ rx_pc = "copying"
  /\ rx_pkts' = [rx_pkts EXCEPT ![rx_pkts_ip] = Slot(rx_p, "raw")]
  /\ rx_pc' = "publish"
  /\ UNCHANGED <<rx_pkts_ip, rx_pkts_op, rx_p, rx_next, txRing, txPush, main_pc, outputs, reports>>

RxPushPublish ==
  /\ rx_pc = "publish"
  /\ rx_pkts_ip' = rx_next
  /\ rx_pc' = "idle"
  /\ rx_overflow' = FALSE
  /\ UNCHANGED <<rx_pkts, rx_pkts_op, rx_p, rx_next, txRing, txPush, main_pc, outputs, tx_overflow>>

-----------------------------------------------------------------------------
(* ngham_tx_push                                                           *)

(* Mutant: no length check.                                                *)
TxPushCheckAnyLength(p) ==
  /\ tx_pc = "idle"
  /\ LET next == NextIndex(tx_pkts_ip, TX_PKTS_SIZE)
     IN  IF next = tx_pkts_op
           THEN tx_overflow' = TRUE /\ UNCHANGED txPush
           ELSE tx_pc' = "copy" /\ tx_p' = p /\ tx_next' = next /\ UNCHANGED tx_overflow
  /\ UNCHANGED <<rxRing, txRing, rxPush, main_pc, outputs, rx_overflow>>

(* An oversize packet is refused before the ring is looked at, with no     *)
(* effect but a log line: such a call is a stuttering step.                *)
TxPushCheck(p) ==
  /\ tx_pc = "idle"
  /\ PlLen[p] <= NGHAM_PL_MAX
  /\ LET next == NextIndex(tx_pkts_ip, TX_PKTS_SIZE)
     IN  IF next = tx_pkts_op
           THEN tx_overflow' = TRUE /\ UNCHANGED txPush
           ELSE tx_pc' = "copy" /\ tx_p' = p /\ tx_next' = next /\ UNCHANGED tx_overflow
  /\ UNCHANGED <<rxRing, txRing, rxPush, main_pc, outputs, rx_overflow>>

TxPushCopyBegin ==
  /\ tx_pc = "copy"
  /\ tx_pkts' = [tx_pkts EXCEPT ![tx_pkts_ip] = Slot(tx_p, "torn")]
  /\ tx_pc' = "copying"
  /\ UNCHANGED <<tx_pkts_ip, tx_pkts_op, tx_p, tx_next, rxRing, rxPush, main_pc, outputs, reports>>

TxPushCopyEnd ==
  /\ tx_pc = "copying"
  /\ tx_pkts' = [tx_pkts EXCEPT ![tx_pkts_ip] = Slot(tx_p, "raw")]
  /\ tx_pc' = "publish"
  /\ UNCHANGED <<tx_pkts_ip, tx_pkts_op, tx_p, tx_next, rxRing, rxPush, main_pc, outputs, reports>>

TxPushPublish ==
  /\ tx_pc = "publish"
  /\ tx_pkts_ip' = tx_next
  /\ tx_pc' = "idle"
  /\ tx_overflow' = FALSE
  /\ UNCHANGED <<tx_pkts, tx_pkts_op, tx_p, tx_next, rxRing, rxPush, main_pc, outputs, rx_overflow>>

-----------------------------------------------------------------------------
(* ngham_process_tick                                                      *)

(* Mutant: transmission is looked at first.                                *)
TickRxAfterTx ==
  /\ main_pc = "idle"
  /\ main_pc' = IF tx_pkts_ip # tx_pkts_op THEN "encode"
                ELSE IF rx_pkts_ip # rx_pkts_op THEN "decode" ELSE "tick_tx"
  /\ UNCHANGED <<rxRing, txRing, rxPush, txPush, outputs, reports>>

(* if (rx_pkts_ip != rx_pkts_op) ... else if (tx_pkts_ip != tx_pkts_op):   *)
(* the second condition is read after the first.                           *)
TickRx ==
  /\ main_pc = "idle"
  /\ main_pc' = IF rx_pkts_ip # rx_pkts_op THEN "decode" ELSE "tick_tx"
  /\ UNCHANGED <<rxRing, txRing, rxPush, txPush, outputs, reports>>

(* Mutant: the indices are compared as if they never wrapped.              *)
TickTxNoWrap ==
  /\ main_pc = "tick_tx"
  /\ main_pc' = IF tx_pkts_ip > tx_pkts_op THEN "encode" ELSE "idle"
  /\ UNCHANGED <<rxRing, txRing, rxPush, txPush, outputs, reports>>

TickTx ==
  /\ main_pc = "tick_tx"
  /\ main_pc' = IF tx_pkts_ip # tx_pkts_op THEN "encode" ELSE "idle"
  /\ UNCHANGED <<rxRing, txRing, rxPush, txPush, outputs, reports>>

(* ngham_decode corrects the slot in place.  A slot decoded before differs *)
(* from its code word in the flag byte only, so it decodes again; bytes    *)
(* of two packets do not become a code word.                               *)
DecodeBegin ==
  /\ main_pc = "decode"
  /\ rx_pkts' = [rx_pkts EXCEPT ![rx_pkts_op].form =
                   IF @ = "torn" THEN "torn" ELSE "decoded"]
  /\ main_pc' = "handle"
  /\ UNCHANGED <<rx_pkts_ip, rx_pkts_op, txRing, rxPush, txPush, outputs, reports>>

(* ... and hands it, by pointer, to the packet handler.                    *)
DecodeEnd ==
  /\ main_pc = "handle"
  /\ LET s == rx_pkts[rx_pkts_op]
     IN  handled' = IF s.form = "decoded" /\ s.pkt \in RxPackets
                      THEN RxOutcome[s.pkt] ELSE NoOutcome
  /\ main_pc' = "rx_release"
  /\ UNCHANGED <<rxRing, txRing, rxPush, txPush, sent, reports>>

(* Mutant: releasing one packet releases all that are waiting.             *)
RxReleaseAll ==
  /\ main_pc = "rx_release"
  /\ rx_pkts_op' = rx_pkts_ip
  /\ main_pc' = "idle"
  /\ UNCHANGED <<rx_pkts, rx_pkts_ip, txRing, rxPush, txPush, outputs, reports>>

RxRelease ==
  /\ main_pc = "rx_release"
  /\ rx_pkts_op' = NextIndex(rx_pkts_op, RX_PKTS_SIZE)
  /\ main_pc' = "idle"
  /\ UNCHANGED <<rx_pkts, rx_pkts_ip, txRing, rxPush, txPush, outputs, reports>>

(* Mutant: the packet pushed last is sent first.                           *)
EncodeNewest ==
  /\ main_pc = "encode"
  /\ LET newest == IF tx_pkts_ip = 0 THEN TX_PKTS_SIZE - 1 ELSE tx_pkts_ip - 1
         s      == tx_pkts[newest]
     IN  sent' = IF s.form = "raw" /\ s.pkt \in TxPackets THEN TxOutcome[s.pkt] ELSE NULL
  /\ main_pc' = "tx_release"
  /\ UNCHANGED <<rxRing, txRing, rxPush, txPush, handled, reports>>

(* ngham_encode reads the slot and gives the frame to the modulator.       *)
Encode ==
  /\ main_pc = "encode"
  /\ LET s == tx_pkts[tx_pkts_op]
     IN  sent' = IF s.form = "raw" /\ s.pkt \in TxPackets THEN TxOutcome[s.pkt] ELSE NULL
  /\ main_pc' = "tx_release"
  /\ UNCHANGED <<rxRing, txRing, rxPush, txPush, handled, reports>>

TxRelease ==
  /\ main_pc = "tx_release"
  /\ tx_pkts_op' = NextIndex(tx_pkts_op, TX_PKTS_SIZE)
  /\ main_pc' = "idle"
  /\ UNCHANGED <<tx_pkts, tx_pkts_ip, rxRing, rxPush, txPush, outputs, reports>>

(* ngham_init empties both rings.  It is called while nothing else runs.   *)
NghamInit ==
  /\ rx_pc = "idle" /\ tx_pc = "idle" /\ main_pc = "idle"
  /\ rx_pkts_ip' = 0 /\ rx_pkts_op' = 0
  /\ tx_pkts_ip' = 0 /\ tx_pkts_op' = 0
  /\ UNCHANGED <<rx_pkts, tx_pkts, rxPush, txPush, main_pc, outputs, reports>>

-----------------------------------------------------------------------------
RxPush == (\E p \in RxPackets : RxPushCheck(p)) \/ RxPushCopyBegin \/ RxPushCopyEnd \/ RxPushPublish
TxPush == (\E p \in TxPackets : TxPushCheck(p)) \/ TxPushCopyBegin \/ TxPushCopyEnd \/ TxPushPublish
Tick   == TickRx \/ TickTx \/ DecodeBegin \/ DecodeEnd \/ RxRelease \/ Encode \/ TxRelease

Next == RxPush \/ TxPush \/ Tick \/ NghamInit

Spec == Init /\ [][Next]_vars

(* The main loop keeps ticking; nothing obliges packets to arrive.  A push *)
(* that has begun finishes.                                                *)
Fairness ==
  /\ WF_vars(Tick)
  /\ WF_vars(RxPushCopyBegin \/ RxPushCopyEnd \/ RxPushPublish)
  /\ WF_vars(TxPushCopyBegin \/ TxPushCopyEnd \/ TxPushPublish)

FairSpec == Spec /\ Fairness

-----------------------------------------------------------------------------
(* Properties                                                              *)

Slots(P) == [pkt : P \cup {NULL}, form : {"raw", "torn", "decoded"}]

PushPc == {"idle", "copy", "copying", "publish"}
RxPc   == {"decode", "handle", "rx_release"}
TxPc   == {"encode", "tx_release"}

(* The rings, their indices and the three program counters keep their      *)
(* types: in particular an index never leaves its ring.                    *)
TypeOK ==
  /\ rx_pkts \in [0..RX_PKTS_SIZE-1 -> Slots(RxPackets)]
  /\ tx_pkts \in [0..TX_PKTS_SIZE-1 -> Slots(TxPackets)]
  /\ rx_pkts_ip \in 0..RX_PKTS_SIZE-1 /\ rx_pkts_op \in 0..RX_PKTS_SIZE-1
  /\ tx_pkts_ip \in 0..TX_PKTS_SIZE-1 /\ tx_pkts_op \in 0..TX_PKTS_SIZE-1
  /\ rx_pc \in PushPc /\ rx_p \in RxPackets \cup {NULL} /\ rx_next \in 0..RX_PKTS_SIZE-1
  /\ tx_pc \in PushPc /\ tx_p \in TxPackets \cup {NULL} /\ tx_next \in 0..TX_PKTS_SIZE-1
  /\ main_pc \in {"idle", "tick_tx"} \cup RxPc \cup TxPc
  /\ handled \in [condition : Condition, pkt : RxPackets \cup {NULL}]
  /\ sent \in TxPackets \cup {NULL}
  /\ rx_overflow \in BOOLEAN /\ tx_overflow \in BOOLEAN

(* How many slots lie from op up to ip, and the k-th slot after op.        *)
Distance(op, ip, size) == IF ip >= op THEN ip - op ELSE ip + size - op
After(op, k, size) == IF op + k >= size THEN op + k - size ELSE op + k

(* The slots between the two indices: published and not released.          *)
Window(op, ip, size) == {After(op, k, size) : k \in 0..Distance(op, ip, size)-1}
RxWindow == Window(rx_pkts_op, rx_pkts_ip, RX_PKTS_SIZE)
TxWindow == Window(tx_pkts_op, tx_pkts_ip, TX_PKTS_SIZE)

RxSlotsIntact ==
  \A i \in RxWindow :
    /\ rx_pkts[i].pkt \in RxPackets
    /\ rx_pkts[i].form = (IF i = rx_pkts_op /\ main_pc \in {"handle", "rx_release"}
                            THEN "decoded" ELSE "raw")

TxAccepted == {p \in TxPackets : PlLen[p] <= NGHAM_PL_MAX}

TxSlotsIntact ==
  \A i \in TxWindow : tx_pkts[i].pkt \in TxAccepted /\ tx_pkts[i].form = "raw"

(* A published slot is a complete packet nobody has touched since, but for *)
(* the one the tick is decoding in place, and the slot the tick works on   *)
(* is a published one; so neither a memcpy nor the decoder ever works on a *)
(* slot the other side uses, although no lock is taken and the indices are *)
(* the only thing the two sides share.                                     *)
NoTornSlot ==
  /\ RxSlotsIntact /\ TxSlotsIntact
  /\ main_pc \in RxPc => rx_pkts_op \in RxWindow
  /\ main_pc \in TxPc => tx_pkts_op \in TxWindow

(* The packets published and not yet served, oldest first.                 *)
Pending(pkts, op, ip, size, served) ==
  [k \in 1..Distance(op, ip, size)-served |-> pkts[After(op, k-1+served, size)].pkt]

RxServing == main_pc = "rx_release"
TxServing == main_pc = "tx_release"
RxQueue == Pending(rx_pkts, rx_pkts_op, rx_pkts_ip, RX_PKTS_SIZE, IF RxServing THEN 1 ELSE 0)
TxQueue == Pending(tx_pkts, tx_pkts_op, tx_pkts_ip, TX_PKTS_SIZE, IF TxServing THEN 1 ELSE 0)

RxFifo == INSTANCE PacketFifo WITH
  Packet <- RxPackets, Outcome <- RxOutcome, NoOutcome <- NoOutcome,
  Capacity <- RX_PKTS_SIZE-1, queue <- RxQueue, serving <- RxServing, out <- handled,
  overflow <- rx_overflow

TxFifo == INSTANCE PacketFifo WITH
  Packet <- TxAccepted, Outcome <- TxOutcome,
  NoOutcome <- NULL, Capacity <- TX_PKTS_SIZE-1,
  queue <- TxQueue, serving <- TxServing, out <- sent,
  overflow <- tx_overflow

(* Each ring implements a bounded FIFO: whatever the overlap of interrupt, *)
(* application and main loop, every packet accepted is served once, in     *)
(* order, uncorrupted; ngham_tx_push accepts no oversize packet; and a     *)
(* push overflows only if SIZE-1 slots are taken when it compares indices. *)
RxImplementsFifo == RxFifo!Spec
TxImplementsFifo == TxFifo!Spec

(* Every published RX packet leaves the ring, handled or wiped by          *)
(* ngham_init, whatever the application transmits meanwhile.               *)
RxDrains == \A i \in 0..RX_PKTS_SIZE-1 : (i \in RxWindow) ~> (i \notin RxWindow)

(* Every published TX packet leaves the ring, provided the tick finds the  *)
(* RX ring empty again and again: reception has priority.                  *)
TxDrainsUnlessRxBusy ==
  []<>(main_pc = "tick_tx") =>
    \A i \in 0..TX_PKTS_SIZE-1 : (i \in TxWindow) ~> (i \notin TxWindow)
=============================================================================
