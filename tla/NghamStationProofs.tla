------------------------- MODULE NghamStationProofs -------------------------
(***************************************************************************)
(* Receiver, RX ring and main loop together implement PacketLink, for      *)
(* every size of the ring, every set of code word sizes and whatever the   *)
(* channel does.  The invariant is the receiver's and the ring's; each     *)
(* step of the station is a step of one of them, or, when the last byte of *)
(* a code word comes, of both.                                             *)
(***************************************************************************)
EXTENDS NghamReceiverProofs, NghamStation

RingProofs == INSTANCE NghamBuffersProofs WITH
  RxPackets <- Transmissions \cup {Noise}, Decodable <- Transmissions,
  TxPackets <- {}, PlLen <- [p \in {} |-> 0]

(* What NghamBuffers assumes of its constants.                             *)
LEMMA RingParameters ==
  /\ RingProofs!IsRingSize(RX_PKTS_SIZE) /\ RingProofs!IsRingSize(TX_PKTS_SIZE)
  /\ Transmissions \subseteq Transmissions \cup {Noise}
  /\ [p \in {} |-> 0] \in [{} -> Nat]
  /\ NULL \notin Transmissions \cup {Noise} /\ NULL \notin {}
BY RingAssumption, NullAssumption DEF Rings!IsRingSize, RingProofs!IsRingSize

-----------------------------------------------------------------------------
(* Rings and RingProofs are the same rings                                 *)

LEMMA SameState ==
  /\ Rings!RxQueue = RingProofs!RxQueue /\ Rings!RxQueue' = RingProofs!RxQueue'
  /\ Rings!RxServing = RingProofs!RxServing /\ Rings!RxServing' = RingProofs!RxServing'
BY DEF Rings!RxQueue, RingProofs!RxQueue, Rings!Pending, RingProofs!Pending,
   Rings!RxServing, RingProofs!RxServing, Rings!Distance, RingProofs!Distance,
   Rings!After, RingProofs!After

LEMMA SameInit == Rings!Init => RingProofs!Init
BY DEF Rings!Init, RingProofs!Init, Rings!Slot, RingProofs!Slot, Rings!NoOutcome, RingProofs!NoOutcome

LEMMA SameCheck ==
  ASSUME NEW p
  PROVE  Rings!RxPushCheck(p) => RingProofs!RxPushCheck(p)
BY DEF Rings!RxPushCheck, RingProofs!RxPushCheck, Rings!NextIndex, RingProofs!NextIndex,
   Rings!rxRing, RingProofs!rxRing, Rings!txRing, RingProofs!txRing, Rings!rxPush,
   RingProofs!rxPush, Rings!txPush, RingProofs!txPush, Rings!outputs, RingProofs!outputs

LEMMA SamePush ==
  /\ Rings!RxPushCopyBegin => RingProofs!RxPushCopyBegin
  /\ Rings!RxPushCopyEnd => RingProofs!RxPushCopyEnd
  /\ Rings!RxPushPublish => RingProofs!RxPushPublish
BY DEF Rings!RxPushCopyBegin, RingProofs!RxPushCopyBegin, Rings!RxPushCopyEnd,
   RingProofs!RxPushCopyEnd, Rings!RxPushPublish, RingProofs!RxPushPublish,
   Rings!Slot, RingProofs!Slot, Rings!txRing, RingProofs!txRing, Rings!txPush, RingProofs!txPush,
   Rings!outputs, RingProofs!outputs, Rings!reports, RingProofs!reports

LEMMA SameTick ==
  /\ Rings!TickRx => RingProofs!TickRx
  /\ Rings!TickTx => RingProofs!TickTx
  /\ Rings!RxRelease => RingProofs!RxRelease
  /\ Rings!NghamInit => RingProofs!NghamInit
BY DEF Rings!TickRx, RingProofs!TickRx, Rings!TickTx, RingProofs!TickTx,
   Rings!RxRelease, RingProofs!RxRelease, Rings!NghamInit, RingProofs!NghamInit,
   Rings!NextIndex, RingProofs!NextIndex, Rings!rxRing, RingProofs!rxRing,
   Rings!txRing, RingProofs!txRing, Rings!rxPush, RingProofs!rxPush, Rings!txPush, RingProofs!txPush,
   Rings!outputs, RingProofs!outputs, Rings!reports, RingProofs!reports

LEMMA SameDecode ==
  /\ Rings!DecodeBegin => RingProofs!DecodeBegin
  /\ Rings!DecodeEnd => RingProofs!DecodeEnd
<1>1. Rings!DecodeBegin => RingProofs!DecodeBegin
  BY DEF Rings!DecodeBegin, RingProofs!DecodeBegin, Rings!txRing, RingProofs!txRing,
     Rings!rxPush, RingProofs!rxPush, Rings!txPush, RingProofs!txPush,
     Rings!outputs, RingProofs!outputs, Rings!reports, RingProofs!reports
<1>2. Rings!RxOutcome = RingProofs!RxOutcome /\ Rings!NoOutcome = RingProofs!NoOutcome
  BY DEF Rings!RxOutcome, RingProofs!RxOutcome, Rings!NoOutcome, RingProofs!NoOutcome
<1>3. Rings!DecodeEnd => RingProofs!DecodeEnd
  BY <1>2 DEF Rings!DecodeEnd, RingProofs!DecodeEnd, Rings!rxRing, RingProofs!rxRing,
     Rings!txRing, RingProofs!txRing, Rings!rxPush, RingProofs!rxPush, Rings!txPush,
     RingProofs!txPush, Rings!reports, RingProofs!reports
<1>4. QED  BY <1>1, <1>3

-----------------------------------------------------------------------------
(* The invariant                                                           *)

StationInv == IInv /\ RingProofs!IInv

(* Each step of the station is one of the receiver that keeps it in step,  *)
(* or none, and one of the rings, or none.                                 *)
LEMMA ReceiverPart ==
  ASSUME [StationNext]_<<vars, ringvars>>
  PROVE  [QuietNext]_vars
BY DEF StationNext, HearSync, HearByte, HearLastByte, Push, Tick, Restart, QuietNext, NghamParse

LEMMA RingPart ==
  ASSUME IInv, [StationNext]_<<vars, ringvars>>
  PROVE  [RingProofs!Next]_(RingProofs!vars)
<1>1. CASE HearLastByte
  BY <1>1, LastByteFinishes, SameCheck DEF HearLastByte, RingProofs!Next, RingProofs!RxPush
<1>2. CASE Push
  BY <1>2, SamePush DEF Push, RingProofs!Next, RingProofs!RxPush
<1>3. CASE Tick \/ Restart
  BY <1>3, SameTick, SameDecode DEF Tick, Restart, RingProofs!Next, RingProofs!Tick
<1>4. CASE UNCHANGED ringvars
  BY <1>4 DEF ringvars, RingProofs!vars, RingProofs!rxRing, RingProofs!txRing, RingProofs!rxPush,
     RingProofs!txPush, RingProofs!outputs, RingProofs!reports
<1>5. QED
  BY <1>1, <1>2, <1>3, <1>4 DEF StationNext, HearSync, HearByte

LEMMA StationInitial == StationInit => StationInv
BY InitInv, SameInit, RingParameters, RingProofs!InvInit DEF StationInit, StationInv

LEMMA StationStep ==
  ASSUME StationInv, [StationNext]_<<vars, ringvars>>
  PROVE  StationInv'
<1>1. IInv'
  BY ReceiverPart, NextInv DEF StationInv
<1>2. RingProofs!IInv'
  BY RingPart, RingParameters, RingProofs!Inductive DEF StationInv
<1>3. QED  BY <1>1, <1>2 DEF StationInv

-----------------------------------------------------------------------------
(* The steps of the link                                                   *)

(* What waits: what is in the ring, and then the packet being pushed.      *)
Pushed == IF rx_pc = "idle" THEN <<>> ELSE <<rx_p>>
Waiting == Rings!RxQueue \o Pushed
Report == IF handled.condition = "PKT_CONDITION_OK" THEN handled.pkt ELSE Noise
Overflow == rx_overflow /\ rx_pc = "idle"

LEMMA WaitingTypes ==
  ASSUME StationInv
  PROVE  /\ Rings!RxQueue \in Seq(Transmissions \cup {Noise})
         /\ Pushed \in Seq(Transmissions \cup {Noise})
<1>1. RingProofs!TypeOK /\ RingProofs!RxInv
  BY DEF StationInv, RingProofs!IInv
<1>2. Rings!RxQueue \in Seq(Transmissions \cup {Noise})
  BY <1>1, SameState, RingParameters, RingProofs!RxTakenIsDistance
<1>3. rx_pc # "idle" => rx_p \in Transmissions \cup {Noise}
  BY <1>1 DEF RingProofs!RxInv
<1>4. Pushed \in Seq(Transmissions \cup {Noise})
  <2>1. CASE rx_pc = "idle"
    BY <2>1 DEF Pushed
  <2>2. CASE rx_pc # "idle"
    <3>1. Pushed = <<rx_p>>
      BY <2>2 DEF Pushed
    <3>2. QED  BY <1>3, <2>2, <3>1
  <2>3. QED  BY <2>1, <2>2
<1>5. QED  BY <1>2, <1>4

(* The queue of the link loses its head with the ring's, and gains what    *)
(* the ring will gain.                                                     *)
LEMMA HeadAndTail ==
  ASSUME NEW S, NEW front \in Seq(S), NEW back \in Seq(S), front # <<>>
  PROVE  /\ front \o back # <<>>
         /\ Head(front \o back) = Head(front)
         /\ Tail(front \o back) = Tail(front) \o back
OBVIOUS

LEMMA AddedBehind ==
  ASSUME NEW S, NEW front \in Seq(S), NEW p \in S
  PROVE  Append(front, p) = front \o <<p>> /\ front \o <<>> = front
OBVIOUS

LEMMA LinkState ==
  /\ Link!ringvars = <<Waiting, Rings!RxServing, Report, Overflow>>
  /\ Link!ringvars' = <<Waiting', Rings!RxServing', Report', Overflow'>>
BY DEF Link!ringvars, Waiting, Pushed, Report, Overflow

LEMMA LinkReceiver ==
  ASSUME NEW t
  PROVE  /\ Link!vars = Abstract!vars /\ Link!vars' = Abstract!vars'
         /\ Abstract!Finish => Link!Finish
         /\ Abstract!Sync(t) => Link!Sync(t)
BY DEF Link!vars, Abstract!vars, Link!Finish, Abstract!Finish, Link!Sync, Abstract!Sync

(* A code word that finds the ring full is refused, any other one is put   *)
(* when its push begins.                                                   *)
LEMMA LinkLastByte ==
  ASSUME StationInv, HearLastByte
  PROVE  Link!Finish /\ (Link!Ring!Put(outcome') \/ Link!Ring!Refuse)
<1>1. Link!Finish /\ outcome' \in Transmissions \cup {Noise} /\ RingProofs!RxPushCheck(outcome')
  BY LastByteFinishes, LinkReceiver, SameCheck DEF HearLastByte, StationInv
<1>2. rx_pc = "idle" /\ Pushed = <<>>
  BY <1>1 DEF RingProofs!RxPushCheck, Pushed
<1>3. Waiting = Rings!RxQueue
  BY <1>2, WaitingTypes, AddedBehind DEF Waiting
<1>4. /\ Rings!RxQueue' = Rings!RxQueue /\ Rings!RxServing' = Rings!RxServing
      /\ Report' = Report
  BY <1>1 DEF RingProofs!RxPushCheck, RingProofs!rxRing, RingProofs!outputs, Report,
     Rings!RxQueue, Rings!Pending, Rings!RxServing, Rings!Distance, Rings!After
<1>5. Link!Ring!Taken = RingProofs!RxFifo!Taken
  BY <1>3, SameState DEF Link!Ring!Taken, RingProofs!RxFifo!Taken, Waiting, Pushed
<1>6. CASE RingProofs!NextIndex(rx_pkts_ip, RX_PKTS_SIZE) = rx_pkts_op
  <2>1. rx_overflow' = TRUE /\ rx_pc' = rx_pc /\ rx_p' = rx_p
    BY <1>1, <1>6 DEF RingProofs!RxPushCheck, RingProofs!rxPush
  <2>2. Waiting' = Waiting /\ Overflow' = TRUE
    BY <1>2, <1>4, <2>1 DEF Waiting, Pushed, Overflow
  <2>3. Link!Ring!Taken = RX_PKTS_SIZE - 1
    BY <1>5, <1>6, RingParameters, RingProofs!RxFull DEF StationInv
  <2>4. Link!Ring!Refuse
    BY <1>4, <2>2, <2>3 DEF Link!Ring!Refuse, Waiting, Pushed, Overflow, Report
  <2>5. QED  BY <1>1, <2>4
<1>7. CASE RingProofs!NextIndex(rx_pkts_ip, RX_PKTS_SIZE) # rx_pkts_op
  <2>1. rx_pc' = "copy" /\ rx_p' = outcome'
    BY <1>1, <1>7 DEF RingProofs!RxPushCheck
  <2>2. Waiting' = Rings!RxQueue \o <<outcome'>> /\ Overflow' = FALSE
    BY <1>4, <2>1 DEF Waiting, Pushed, Overflow
  <2>3. Waiting' = Append(Waiting, outcome')
    BY <1>1, <1>3, <2>2, WaitingTypes, AddedBehind
  <2>4. Link!Ring!Taken < RX_PKTS_SIZE - 1
    BY <1>5, <1>7, RingParameters, RingProofs!RxFull DEF StationInv
  <2>5. Link!Ring!Put(outcome')
    BY <1>4, <2>2, <2>3, <2>4 DEF Link!Ring!Put, Waiting, Pushed, Overflow, Report
  <2>6. QED  BY <1>1, <2>5
<1>8. QED  BY <1>6, <1>7

(* The steps of a push do not show: the packet moves from the push to the  *)
(* ring at the moment the index is stored.                                 *)
LEMMA LinkPush ==
  ASSUME StationInv, Push
  PROVE  UNCHANGED <<Link!vars, Link!ringvars>>
<1>1. UNCHANGED Link!vars
  BY DEF Push, Link!vars, vars, channel
<1>2. ASSUME RingProofs!RxPushCopyBegin \/ RingProofs!RxPushCopyEnd
      PROVE  UNCHANGED Link!ringvars
  <2>1. UNCHANGED RingProofs!RxFifo!vars
    BY <1>2, RingParameters, RingProofs!RxInternal DEF StationInv
  <2>2. Rings!RxQueue' = Rings!RxQueue /\ Rings!RxServing' = Rings!RxServing
    BY <2>1, SameState DEF RingProofs!RxFifo!vars
  <2>3. rx_pc # "idle" /\ rx_pc' # "idle" /\ rx_p' = rx_p /\ handled' = handled
    BY <1>2 DEF RingProofs!RxPushCopyBegin, RingProofs!RxPushCopyEnd, RingProofs!outputs
  <2>4. QED
    BY <2>2, <2>3, LinkState DEF Waiting, Pushed, Report, Overflow
<1>3. ASSUME RingProofs!RxPushPublish
      PROVE  UNCHANGED Link!ringvars
  <2>1. rx_p \in Transmissions \cup {Noise} /\ RingProofs!RxFifo!Put(rx_p)
    BY <1>3, RingParameters, RingProofs!RxPublishPuts DEF StationInv
  <2>2. /\ Rings!RxQueue' = Append(Rings!RxQueue, rx_p) /\ Rings!RxServing' = Rings!RxServing
        /\ handled' = handled /\ rx_overflow' = FALSE
    BY <2>1, SameState DEF RingProofs!RxFifo!Put
  <2>3. rx_pc = "publish" /\ rx_pc' = "idle"
    BY <1>3 DEF RingProofs!RxPushPublish
  <2>4. Pushed = <<rx_p>> /\ Pushed' = <<>> /\ Overflow = FALSE /\ Overflow' = FALSE
    BY <2>2, <2>3 DEF Pushed, Overflow
  <2>5. Rings!RxQueue' = Rings!RxQueue \o <<rx_p>>
    BY <2>1, <2>2, WaitingTypes, AddedBehind
  <2>6. Waiting' = Waiting
    <3>1. Waiting' = Rings!RxQueue' \o <<>> /\ Waiting = Rings!RxQueue \o <<rx_p>>
      BY <2>4 DEF Waiting
    <3>2. Rings!RxQueue' \in Seq(Transmissions \cup {Noise})
      BY <2>1, <2>2, WaitingTypes
    <3>3. QED  BY <2>5, <3>1, <3>2
  <2>7. QED
    BY <2>2, <2>4, <2>6, LinkState DEF Report
<1>4. QED
  BY <1>1, <1>2, <1>3, SamePush DEF Push

(* The main loop serves and releases; its comparisons and the decoding in  *)
(* place do not show.                                                      *)
LEMMA LinkTick ==
  ASSUME StationInv, Tick
  PROVE  /\ UNCHANGED Link!vars
         /\ Link!Ring!Serve \/ Link!Ring!Release \/ UNCHANGED Link!ringvars
<1>1. UNCHANGED Link!vars
  BY DEF Tick, Link!vars, vars, channel
<1>2. ASSUME RingProofs!TickRx \/ RingProofs!TickTx \/ RingProofs!DecodeBegin
      PROVE  UNCHANGED Link!ringvars
  <2>1. UNCHANGED RingProofs!RxFifo!vars
    BY <1>2, RingParameters, RingProofs!RxInternal DEF StationInv
  <2>2. Rings!RxQueue' = Rings!RxQueue /\ Rings!RxServing' = Rings!RxServing
    BY <2>1, SameState DEF RingProofs!RxFifo!vars
  <2>3. UNCHANGED <<rx_pc, rx_p, handled, rx_overflow>>
    BY <1>2 DEF RingProofs!TickRx, RingProofs!TickTx, RingProofs!DecodeBegin, RingProofs!rxPush,
       RingProofs!outputs, RingProofs!reports
  <2>4. QED
    BY <2>2, <2>3, LinkState DEF Waiting, Pushed, Report, Overflow
<1>3. ASSUME RingProofs!DecodeEnd
      PROVE  Link!Ring!Serve
  <2>1. RingProofs!RxFifo!Serve
    BY <1>3, RingParameters, RingProofs!RxDecodeServes DEF StationInv
  <2>2. /\ ~Rings!RxServing /\ Rings!RxServing' = TRUE /\ Rings!RxQueue # <<>>
        /\ Rings!RxQueue' = Tail(Rings!RxQueue)
        /\ handled' = RingProofs!RxOutcome[Head(Rings!RxQueue)]
    BY <2>1, SameState DEF RingProofs!RxFifo!Serve
  <2>3. UNCHANGED <<rx_pc, rx_p, rx_overflow>>
    BY <1>3 DEF RingProofs!DecodeEnd, RingProofs!rxPush, RingProofs!reports
  <2>4. Pushed' = Pushed /\ Overflow' = Overflow
    BY <2>3 DEF Pushed, Overflow
  <2>5. Waiting # <<>> /\ Head(Waiting) = Head(Rings!RxQueue) /\ Waiting' = Tail(Waiting)
    BY <2>2, <2>4, WaitingTypes, HeadAndTail DEF Waiting
  <2>6. Head(Waiting) \in Transmissions \cup {Noise}
    BY <2>2, <2>5, WaitingTypes
  <2>7. Report' = Head(Waiting)
    BY <2>2, <2>5, <2>6 DEF Report, RingProofs!RxOutcome
  <2>8. QED
    BY <2>2, <2>4, <2>5, <2>6, <2>7 DEF Link!Ring!Serve, Link!Outcomes, Waiting, Pushed, Overflow, Report
<1>4. ASSUME RingProofs!RxRelease
      PROVE  Link!Ring!Release
  <2>1. RingProofs!RxFifo!Release
    BY <1>4, RingParameters, RingProofs!RxReleaseReleases DEF StationInv
  <2>2. /\ Rings!RxServing /\ Rings!RxServing' = FALSE
        /\ Rings!RxQueue' = Rings!RxQueue /\ handled' = handled
    BY <2>1, SameState DEF RingProofs!RxFifo!Release
  <2>3. UNCHANGED <<rx_pc, rx_p, rx_overflow>>
    BY <1>4 DEF RingProofs!RxRelease, RingProofs!rxPush, RingProofs!reports
  <2>4. QED
    BY <2>2, <2>3 DEF Link!Ring!Release
<1>5. QED
  BY <1>1, <1>2, <1>3, <1>4, SameTick, SameDecode DEF Tick

(* ngham_init wipes what waits.                                            *)
LEMMA LinkRestart ==
  ASSUME StationInv, Restart
  PROVE  UNCHANGED Link!vars /\ Link!Ring!Reset
<1>1. UNCHANGED Link!vars
  BY DEF Restart, NghamInit, Link!vars, channel
<1>2. RingProofs!NghamInit
  BY SameTick DEF Restart
<1>3. RingProofs!RxFifo!Reset
  BY <1>2, RingParameters, RingProofs!RxInitResets
<1>4. /\ ~Rings!RxServing /\ Rings!RxServing' = Rings!RxServing
      /\ Rings!RxQueue' = <<>> /\ handled' = handled
  BY <1>3, SameState DEF RingProofs!RxFifo!Reset
<1>5. rx_pc = "idle" /\ UNCHANGED <<rx_pc, rx_p, rx_overflow>>
  BY <1>2 DEF RingProofs!NghamInit, RingProofs!rxPush, RingProofs!reports
<1>6. Waiting' = <<>>
  <2>1. Waiting' = <<>> \o <<>>
    BY <1>4, <1>5 DEF Waiting, Pushed
  <2>2. QED  BY <2>1
<1>7. QED
  BY <1>1, <1>4, <1>5, <1>6 DEF Link!Ring!Reset, Waiting, Pushed

LEMMA LinkInitial == StationInit => Link!LinkInit
<1> SUFFICES ASSUME StationInit PROVE Link!LinkInit
  OBVIOUS
<1>1. RingProofs!Init /\ Init
  BY SameInit DEF StationInit
<1>2. RingProofs!RxFifo!Init
  BY <1>1, RingParameters, RingProofs!RxInitial
<1>3. Rings!RxQueue = <<>> /\ Rings!RxServing = FALSE
  BY <1>2, SameState DEF RingProofs!RxFifo!Init
<1>4. /\ rx_pc = "idle" /\ rx_overflow = FALSE
      /\ handled.condition = "PKT_CONDITION_FAIL"
  BY <1>1 DEF RingProofs!Init, RingProofs!NoOutcome
<1>5. Waiting = <<>>
  <2>1. Waiting = <<>> \o <<>>
    BY <1>3, <1>4 DEF Waiting, Pushed
  <2>2. QED  BY <2>1
<1>6. Link!Ring!Init
  BY <1>3, <1>4, <1>5 DEF Link!Ring!Init, Waiting, Pushed
<1>7. Link!Init
  BY <1>1 DEF Init, Link!Init
<1>8. QED  BY <1>6, <1>7 DEF Link!LinkInit

LEMMA LinkStep ==
  ASSUME StationInv, [StationNext]_<<vars, ringvars>>
  PROVE  [Link!LinkNext]_<<Link!vars, Link!ringvars>>
<1>1. ASSUME UNCHANGED ringvars
      PROVE  UNCHANGED Link!ringvars
  BY <1>1, LinkState DEF ringvars, Waiting, Pushed, Report, Overflow, Rings!RxQueue,
     Rings!Pending, Rings!RxServing, Rings!Distance, Rings!After
<1>2. ASSUME NEW t \in Transmissions \cup {Noise}, HearSync(t)
      PROVE  Link!LinkNext
  <2>1. Link!Sync(t)
    BY <1>2 DEF HearSync, Sync, Link!Sync
  <2>2. QED
    BY <1>1, <1>2, <2>1 DEF HearSync, Link!LinkNext, Link!Outcomes
<1>3. CASE HearByte
  <2>1. IInv /\ UNCHANGED Link!ringvars
    BY <1>1, <1>3 DEF HearByte, StationInv
  <2>2. CASE ParseSizeUnknown
    BY <2>1, <2>2, UnknownSizeFinishes, LinkReceiver DEF Link!LinkNext
  <2>3. CASE ParseSizeTag \/ ParseSizeKnown \/ ParseByte
    BY <2>1, <2>3, ByteStutters, LinkReceiver
  <2>4. QED
    BY <1>3, <2>2, <2>3 DEF HearByte
<1>4. CASE HearLastByte
  BY <1>4, LinkLastByte DEF Link!LinkNext
<1>5. CASE Push
  BY <1>5, LinkPush
<1>6. CASE Tick
  BY <1>6, LinkTick DEF Link!LinkNext
<1>7. CASE Restart
  BY <1>7, LinkRestart DEF Link!LinkNext
<1>8. CASE UNCHANGED <<vars, ringvars>>
  BY <1>1, <1>8 DEF vars, channel, Link!vars
<1>9. QED
  BY <1>2, <1>3, <1>4, <1>5, <1>6, <1>7, <1>8 DEF StationNext

(* Receiver, ring and main loop together keep the promise of PacketLink:   *)
(* each reception whose size was found has its outcome reported once and   *)
(* in the order of the receptions, or was refused when SIZE-1 packets were *)
(* waiting, whatever is heard while packets are copied and decoded.        *)
THEOREM LinkRefinement == StationSpec => StationImplementsLink
<1>1. StationInv /\ [StationNext]_<<vars, ringvars>> => StationInv'
  BY StationStep
<1>2. StationInv /\ [StationNext]_<<vars, ringvars>> => [Link!LinkNext]_<<Link!vars, Link!ringvars>>
  BY LinkStep
<1>3. QED
  BY <1>1, <1>2, StationInitial, LinkInitial, PTL DEF StationSpec, StationImplementsLink, Link!LinkSpec
=============================================================================
