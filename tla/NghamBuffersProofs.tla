------------------------- MODULE NghamBuffersProofs -------------------------
(***************************************************************************)
(* The rings of NghamBuffers keep their packets intact for every size that *)
(* is a power of two and every set of packets, and each implements         *)
(* PacketFifo.                                                             *)
(***************************************************************************)
EXTENDS NghamBuffers, TLAPS

-----------------------------------------------------------------------------
(* Arithmetic of the indices                                               *)

Idx(size) == 0..size-1

LEMMA RingSizes == RX_PKTS_SIZE \in Nat \ {0} /\ TX_PKTS_SIZE \in Nat \ {0}
<1>1. \A n : IsRingSize(n) => n \in Nat \ {0}
  BY DEF IsRingSize
<1>2. QED  BY <1>1, RxSizeAssumption, TxSizeAssumption

(* NextIndex, Distance and After stay within the ring.                     *)
LEMMA IndexTypes ==
  ASSUME NEW size \in Nat \ {0}, NEW op \in Idx(size), NEW ip \in Idx(size)
  PROVE  /\ NextIndex(op, size) \in Idx(size)
         /\ Distance(op, ip, size) \in Idx(size)
         /\ \A k \in Idx(size) : After(op, k, size) \in Idx(size)
BY DEF Idx, NextIndex, Distance, After

(* A slot is in the window iff it is nearer to op than ip is.              *)
LEMMA WindowMember ==
  ASSUME NEW size \in Nat \ {0}, NEW op \in Idx(size), NEW ip \in Idx(size), NEW i \in Idx(size)
  PROVE  i \in Window(op, ip, size) <=> Distance(op, i, size) < Distance(op, ip, size)
<1>1. ASSUME NEW k \in 0..Distance(op, ip, size)-1
      PROVE  Distance(op, After(op, k, size), size) = k
  BY <1>1 DEF Idx, Distance, After
<1>2. i = After(op, Distance(op, i, size), size)
  BY DEF Idx, Distance, After
<1>3. Distance(op, i, size) \in Nat /\ Distance(op, ip, size) \in Nat
  BY DEF Idx, Distance
<1>4. ASSUME i \in Window(op, ip, size)
      PROVE  Distance(op, i, size) < Distance(op, ip, size)
  <2>1. PICK k \in 0..Distance(op, ip, size)-1 : i = After(op, k, size)
    BY <1>4 DEF Window
  <2>2. QED  BY <1>1, <1>3, <2>1
<1>5. ASSUME Distance(op, i, size) < Distance(op, ip, size)
      PROVE  i \in Window(op, ip, size)
  <2>1. Distance(op, i, size) \in 0..Distance(op, ip, size)-1
    BY <1>3, <1>5
  <2>2. QED  BY <1>2, <2>1 DEF Window
<1>6. QED  BY <1>4, <1>5

LEMMA WindowSubset ==
  ASSUME NEW size \in Nat \ {0}, NEW op \in Idx(size), NEW ip \in Idx(size)
  PROVE  Window(op, ip, size) \subseteq Idx(size)
<1> SUFFICES ASSUME NEW k \in 0..Distance(op, ip, size)-1
             PROVE  After(op, k, size) \in Idx(size)
  BY DEF Window
<1> QED  BY DEF Idx, Distance, After

(* The producer's slot is never in the window, the consumer's slot is in   *)
(* it unless the window is empty.                                          *)
LEMMA WindowEnds ==
  ASSUME NEW size \in Nat \ {0}, NEW op \in Idx(size), NEW ip \in Idx(size)
  PROVE  /\ ip \notin Window(op, ip, size)
         /\ op # ip => op \in Window(op, ip, size)
<1>1. Distance(op, ip, size) \in Nat /\ Distance(op, op, size) = 0
  BY DEF Idx, Distance
<1>2. op # ip => Distance(op, ip, size) > 0
  BY DEF Idx, Distance
<1>3. QED  BY <1>1, <1>2, WindowMember

(* Publishing adds the producer's slot to the window.                      *)
LEMMA WindowPublish ==
  ASSUME NEW size \in Nat \ {0}, NEW op \in Idx(size), NEW ip \in Idx(size),
         NextIndex(ip, size) # op
  PROVE  Window(op, NextIndex(ip, size), size) = Window(op, ip, size) \cup {ip}
<1>1. NextIndex(ip, size) \in Idx(size)
  BY IndexTypes
<1>2. ASSUME NEW i \in Idx(size)
      PROVE  Distance(op, i, size) < Distance(op, NextIndex(ip, size), size)
               <=> Distance(op, i, size) < Distance(op, ip, size) \/ i = ip
  BY DEF Idx, NextIndex, Distance
<1>3. ASSUME NEW i \in Idx(size)
      PROVE  i \in Window(op, NextIndex(ip, size), size)
               <=> i \in Window(op, ip, size) \/ i = ip
  BY <1>1, <1>2, WindowMember
<1>4. QED  BY <1>1, <1>3, WindowSubset

(* Releasing takes the consumer's slot out of it.                          *)
LEMMA WindowRelease ==
  ASSUME NEW size \in Nat \ {0}, NEW op \in Idx(size), NEW ip \in Idx(size), op # ip
  PROVE  Window(NextIndex(op, size), ip, size) = Window(op, ip, size) \ {op}
<1>1. NextIndex(op, size) \in Idx(size)
  BY IndexTypes
<1>2. ASSUME NEW i \in Idx(size)
      PROVE  Distance(NextIndex(op, size), i, size) < Distance(NextIndex(op, size), ip, size)
               <=> Distance(op, i, size) < Distance(op, ip, size) /\ i # op
  BY DEF Idx, NextIndex, Distance
<1>3. ASSUME NEW i \in Idx(size)
      PROVE  i \in Window(NextIndex(op, size), ip, size)
               <=> i \in Window(op, ip, size) \ {op}
  BY <1>1, <1>2, WindowMember
<1>4. QED  BY <1>1, <1>3, WindowSubset

-----------------------------------------------------------------------------
(* Type correctness                                                        *)

LEMMA OutcomeTypes ==
  /\ RxOutcome \in [RxPackets -> [condition : Condition, pkt : RxPackets \cup {NULL}]]
  /\ NoOutcome \in [condition : Condition, pkt : RxPackets \cup {NULL}]
  /\ TxOutcome \in [TxPackets -> TxPackets \cup {NULL}]
BY DEF RxOutcome, TxOutcome, NoOutcome, Condition

LEMMA SlotTypes ==
  ASSUME NEW P, NEW p \in P \cup {NULL}, NEW f \in {"raw", "torn", "decoded"}
  PROVE  Slot(p, f) \in Slots(P)
BY DEF Slot, Slots

LEMMA TypeInit == Init => TypeOK
<1> SUFFICES ASSUME Init PROVE TypeOK
  OBVIOUS
<1>1. Slot(NULL, "raw") \in Slots(RxPackets) /\ Slot(NULL, "raw") \in Slots(TxPackets)
  BY SlotTypes
<1>2. rx_pkts \in [0..RX_PKTS_SIZE-1 -> Slots(RxPackets)]
  BY <1>1 DEF Init
<1>3. tx_pkts \in [0..TX_PKTS_SIZE-1 -> Slots(TxPackets)]
  BY <1>1 DEF Init
<1>4. 0 \in 0..RX_PKTS_SIZE-1 /\ 0 \in 0..TX_PKTS_SIZE-1
  BY RingSizes
<1>5. QED
  BY <1>2, <1>3, <1>4, OutcomeTypes DEF Init, TypeOK, PushPc, RxPc, TxPc

LEMMA NextIndexTypes ==
  /\ \A i \in 0..RX_PKTS_SIZE-1 : NextIndex(i, RX_PKTS_SIZE) \in 0..RX_PKTS_SIZE-1
  /\ \A i \in 0..TX_PKTS_SIZE-1 : NextIndex(i, TX_PKTS_SIZE) \in 0..TX_PKTS_SIZE-1
BY RingSizes DEF NextIndex

LEMMA TypeStep == TypeOK /\ [Next]_vars => TypeOK'
<1> SUFFICES ASSUME TypeOK, [Next]_vars PROVE TypeOK'
  OBVIOUS
<1> USE DEF TypeOK
<1>1. ASSUME NEW p \in RxPackets, RxPushCheck(p) PROVE TypeOK'
  BY <1>1, NextIndexTypes, ZenonT(60) DEF RxPushCheck, rxRing, txRing, rxPush, txPush, outputs, PushPc
<1>2. CASE RxPushCopyBegin
  BY <1>2, SlotTypes DEF RxPushCopyBegin, txRing, txPush, outputs, reports, PushPc
<1>3. CASE RxPushCopyEnd
  BY <1>3, SlotTypes DEF RxPushCopyEnd, txRing, txPush, outputs, reports, PushPc
<1>4. CASE RxPushPublish
  BY <1>4 DEF RxPushPublish, txRing, txPush, outputs, PushPc
<1>5. ASSUME NEW p \in TxPackets, TxPushCheck(p) PROVE TypeOK'
  BY <1>5, NextIndexTypes DEF TxPushCheck, rxRing, txRing, rxPush, txPush, outputs, PushPc
<1>6. CASE TxPushCopyBegin
  BY <1>6, SlotTypes DEF TxPushCopyBegin, rxRing, rxPush, outputs, reports, PushPc
<1>7. CASE TxPushCopyEnd
  BY <1>7, SlotTypes DEF TxPushCopyEnd, rxRing, rxPush, outputs, reports, PushPc
<1>8. CASE TxPushPublish
  BY <1>8 DEF TxPushPublish, rxRing, rxPush, outputs, PushPc
<1>9. CASE TickRx
  BY <1>9 DEF TickRx, rxRing, txRing, rxPush, txPush, outputs, reports, RxPc
<1>10. CASE TickTx
  BY <1>10 DEF TickTx, rxRing, txRing, rxPush, txPush, outputs, reports, TxPc
<1>11. CASE DecodeBegin
  <2>1. rx_pkts' \in [0..RX_PKTS_SIZE-1 -> Slots(RxPackets)]
    BY <1>11 DEF DecodeBegin, Slots
  <2>2. QED
    BY <1>11, <2>1 DEF DecodeBegin, txRing, rxPush, txPush, outputs, reports, RxPc
<1>12. CASE DecodeEnd
  <2>1. handled' \in [condition : Condition, pkt : RxPackets \cup {NULL}]
    BY <1>12, OutcomeTypes DEF DecodeEnd
  <2>2. QED
    BY <1>12, <2>1 DEF DecodeEnd, rxRing, txRing, rxPush, txPush, reports, RxPc
<1>13. CASE RxRelease
  BY <1>13, NextIndexTypes DEF RxRelease, txRing, rxPush, txPush, outputs, reports
<1>14. CASE Encode
  <2>1. sent' \in TxPackets \cup {NULL}
    BY <1>14, OutcomeTypes DEF Encode
  <2>2. QED
    BY <1>14, <2>1 DEF Encode, rxRing, txRing, rxPush, txPush, reports, TxPc
<1>15. CASE TxRelease
  BY <1>15, NextIndexTypes DEF TxRelease, rxRing, rxPush, txPush, outputs, reports
<1>16. CASE NghamInit
  BY <1>16, RingSizes DEF NghamInit, rxPush, txPush, outputs, reports
<1>17. CASE UNCHANGED vars
  BY <1>17 DEF vars, rxRing, txRing, rxPush, txPush, outputs, reports
<1>18. QED
  BY <1>1, <1>2, <1>3, <1>4, <1>5, <1>6, <1>7, <1>8, <1>9, <1>10, <1>11, <1>12, <1>13,
     <1>14, <1>15, <1>16, <1>17 DEF Next, RxPush, TxPush, Tick

(* Every index stays in its ring and every slot keeps the form of a slot,  *)
(* for rings of any power of two and any packets.                          *)
THEOREM TypeCorrect == Spec => []TypeOK
BY TypeInit, TypeStep, PTL DEF Spec

-----------------------------------------------------------------------------
(* The ring invariant                                                      *)

(* What a push under way knows: next follows ip, and next is not op, since *)
(* op only moves away from it; what it has copied is intact.  While the    *)
(* tick serves a packet the ring is not empty.                             *)
RxInv ==
  /\ RxSlotsIntact
  /\ rx_pc # "idle" => /\ rx_p \in RxPackets
                       /\ rx_next = NextIndex(rx_pkts_ip, RX_PKTS_SIZE)
                       /\ rx_next # rx_pkts_op
  /\ rx_pc = "publish" => rx_pkts[rx_pkts_ip] = Slot(rx_p, "raw")
  /\ main_pc \in RxPc => rx_pkts_ip # rx_pkts_op

TxInv ==
  /\ TxSlotsIntact
  /\ tx_pc # "idle" => /\ tx_p \in TxAccepted
                       /\ tx_next = NextIndex(tx_pkts_ip, TX_PKTS_SIZE)
                       /\ tx_next # tx_pkts_op
  /\ tx_pc = "publish" => tx_pkts[tx_pkts_ip] = Slot(tx_p, "raw")
  /\ main_pc \in TxPc => tx_pkts_ip # tx_pkts_op

IInv == TypeOK /\ RxInv /\ TxInv

LEMMA EmptyWindow ==
  ASSUME NEW size \in Nat \ {0}
  PROVE  Window(0, 0, size) = {}
BY DEF Window, Distance

LEMMA InvInit == Init => IInv
<1> SUFFICES ASSUME Init PROVE IInv
  OBVIOUS
<1>1. RxWindow = {} /\ TxWindow = {}
  BY RingSizes, EmptyWindow DEF Init, RxWindow, TxWindow
<1>2. QED
  BY <1>1, TypeInit DEF Init, IInv, RxInv, TxInv, RxSlotsIntact, TxSlotsIntact, RxPc, TxPc

(* Facts about the two windows in a state that satisfies TypeOK.           *)
LEMMA RxWindowFacts ==
  ASSUME TypeOK
  PROVE  /\ rx_pkts_ip \notin RxWindow
         /\ rx_pkts_ip # rx_pkts_op => rx_pkts_op \in RxWindow
         /\ RxWindow \subseteq 0..RX_PKTS_SIZE-1
         /\ NextIndex(rx_pkts_ip, RX_PKTS_SIZE) # rx_pkts_op
              => Window(rx_pkts_op, NextIndex(rx_pkts_ip, RX_PKTS_SIZE), RX_PKTS_SIZE)
                   = RxWindow \cup {rx_pkts_ip}
         /\ rx_pkts_ip # rx_pkts_op
              => Window(NextIndex(rx_pkts_op, RX_PKTS_SIZE), rx_pkts_ip, RX_PKTS_SIZE)
                   = RxWindow \ {rx_pkts_op}
<1>1. rx_pkts_ip \in Idx(RX_PKTS_SIZE) /\ rx_pkts_op \in Idx(RX_PKTS_SIZE)
  BY DEF TypeOK, Idx
<1>2. RX_PKTS_SIZE \in Nat \ {0}
  BY RingSizes
<1>3. Idx(RX_PKTS_SIZE) = 0..RX_PKTS_SIZE-1
  BY DEF Idx
<1>4. QED
  BY <1>1, <1>2, <1>3, WindowEnds, WindowSubset, WindowPublish, WindowRelease DEF RxWindow

LEMMA TxWindowFacts ==
  ASSUME TypeOK
  PROVE  /\ tx_pkts_ip \notin TxWindow
         /\ tx_pkts_ip # tx_pkts_op => tx_pkts_op \in TxWindow
         /\ TxWindow \subseteq 0..TX_PKTS_SIZE-1
         /\ NextIndex(tx_pkts_ip, TX_PKTS_SIZE) # tx_pkts_op
              => Window(tx_pkts_op, NextIndex(tx_pkts_ip, TX_PKTS_SIZE), TX_PKTS_SIZE)
                   = TxWindow \cup {tx_pkts_ip}
         /\ tx_pkts_ip # tx_pkts_op
              => Window(NextIndex(tx_pkts_op, TX_PKTS_SIZE), tx_pkts_ip, TX_PKTS_SIZE)
                   = TxWindow \ {tx_pkts_op}
<1>1. tx_pkts_ip \in Idx(TX_PKTS_SIZE) /\ tx_pkts_op \in Idx(TX_PKTS_SIZE)
  BY DEF TypeOK, Idx
<1>2. TX_PKTS_SIZE \in Nat \ {0}
  BY RingSizes
<1>3. Idx(TX_PKTS_SIZE) = 0..TX_PKTS_SIZE-1
  BY DEF Idx
<1>4. QED
  BY <1>1, <1>2, <1>3, WindowEnds, WindowSubset, WindowPublish, WindowRelease DEF TxWindow

(* A step that leaves the ring and its push alone and moves the tick       *)
(* neither into nor out of serving that ring keeps the ring's invariant.   *)
LEMMA RxFrame ==
  ASSUME RxInv, UNCHANGED <<rxRing, rxPush>>,
         main_pc' \notin RxPc, main_pc \notin {"handle", "rx_release"}
  PROVE  RxInv'
BY DEF RxInv, RxSlotsIntact, RxWindow, rxRing, rxPush, RxPc

LEMMA TxFrame ==
  ASSUME TxInv, UNCHANGED <<txRing, txPush>>, main_pc' \in TxPc => main_pc \in TxPc
  PROVE  TxInv'
BY DEF TxInv, TxSlotsIntact, TxWindow, txRing, txPush

LEMMA RxStep == TypeOK /\ RxInv /\ [Next]_vars => RxInv'
<1> SUFFICES ASSUME TypeOK, RxInv, [Next]_vars PROVE RxInv'
  OBVIOUS
<1>a. UNCHANGED <<rxRing, main_pc>> => RxWindow' = RxWindow /\ (RxSlotsIntact => RxSlotsIntact')
  BY DEF rxRing, RxWindow, RxSlotsIntact
<1>1. ASSUME NEW p \in RxPackets, RxPushCheck(p) PROVE RxInv'
  BY <1>1, <1>a DEF RxPushCheck, RxInv, rxRing, rxPush
<1>2. CASE RxPushCopyBegin
  <2>1. RxWindow' = RxWindow /\ rx_pkts_ip \notin RxWindow
    BY <1>2, RxWindowFacts DEF RxPushCopyBegin, RxWindow
  <2>2. RxSlotsIntact'
    BY <1>2, <2>1, RxWindowFacts DEF RxPushCopyBegin, RxInv, RxSlotsIntact, TypeOK
  <2>3. QED
    BY <1>2, <2>2 DEF RxPushCopyBegin, RxInv
<1>3. CASE RxPushCopyEnd
  <2>1. RxWindow' = RxWindow /\ rx_pkts_ip \notin RxWindow
    BY <1>3, RxWindowFacts DEF RxPushCopyEnd, RxWindow
  <2>2. RxSlotsIntact'
    BY <1>3, <2>1, RxWindowFacts DEF RxPushCopyEnd, RxInv, RxSlotsIntact, TypeOK
  <2>3. QED
    BY <1>3, <2>2 DEF RxPushCopyEnd, RxInv, TypeOK
<1>4. CASE RxPushPublish
  <2>1. RxWindow' = RxWindow \cup {rx_pkts_ip}
    BY <1>4, RxWindowFacts DEF RxPushPublish, RxInv, RxWindow
  <2>2. /\ rx_pkts[rx_pkts_ip].pkt \in RxPackets
        /\ rx_pkts[rx_pkts_ip].form = "raw"
    BY <1>4 DEF RxPushPublish, RxInv, Slot
  <2>3. rx_pkts_ip = rx_pkts_op => main_pc \notin {"handle", "rx_release"}
    BY DEF RxInv, RxPc
  <2>4. RxSlotsIntact'
    BY <1>4, <2>1, <2>2, <2>3 DEF RxPushPublish, RxInv, RxSlotsIntact
  <2>5. QED
    BY <1>4, <2>4 DEF RxPushPublish, RxInv
<1>5. CASE \E p \in TxPackets : TxPushCheck(p)
  BY <1>5, <1>a DEF TxPushCheck, RxInv, rxRing, rxPush
<1>6. CASE TxPushCopyBegin
  BY <1>6, <1>a DEF TxPushCopyBegin, RxInv, rxRing, rxPush
<1>7. CASE TxPushCopyEnd
  BY <1>7, <1>a DEF TxPushCopyEnd, RxInv, rxRing, rxPush
<1>8. CASE TxPushPublish
  BY <1>8, <1>a DEF TxPushPublish, RxInv, rxRing, rxPush
<1>9. CASE TickRx
  BY <1>9 DEF TickRx, RxInv, RxSlotsIntact, RxWindow, rxRing, rxPush, RxPc
<1>10. CASE TickTx
  BY <1>10, RxFrame DEF TickTx, RxPc
<1>11. CASE DecodeBegin
  <2>1. RxWindow' = RxWindow
    BY <1>11 DEF DecodeBegin, RxWindow
  <2>2. rx_pkts_op \in RxWindow /\ rx_pkts_ip # rx_pkts_op
    BY <1>11, RxWindowFacts DEF DecodeBegin, RxInv, RxPc
  <2>3. RxSlotsIntact'
    <3> SUFFICES ASSUME NEW i \in RxWindow
                 PROVE  /\ rx_pkts'[i].pkt \in RxPackets
                        /\ rx_pkts'[i].form = IF i = rx_pkts_op THEN "decoded" ELSE "raw"
      BY <1>11, <2>1 DEF DecodeBegin, RxSlotsIntact
    <3>1. i \in 0..RX_PKTS_SIZE-1 /\ rx_pkts[i].pkt \in RxPackets /\ rx_pkts[i].form = "raw"
      BY <1>11, RxWindowFacts DEF DecodeBegin, RxInv, RxSlotsIntact
    <3>2. rx_pkts[i] \in Slots(RxPackets)
      BY <3>1 DEF TypeOK
    <3>3. CASE i = rx_pkts_op
      <4>1. rx_pkts'[i] = [rx_pkts[i] EXCEPT !.form = "decoded"]
        BY <1>11, <3>1, <3>3 DEF DecodeBegin, TypeOK
      <4>2. QED  BY <3>1, <3>2, <3>3, <4>1 DEF Slots
    <3>4. CASE i # rx_pkts_op
      BY <1>11, <3>1, <3>4 DEF DecodeBegin, TypeOK
    <3>5. QED  BY <3>3, <3>4
  <2>4. rx_pc = "publish" => rx_pkts'[rx_pkts_ip] = rx_pkts[rx_pkts_ip]
    BY <1>11, <2>2 DEF DecodeBegin, TypeOK
  <2>5. QED
    BY <1>11, <2>2, <2>3, <2>4 DEF DecodeBegin, RxInv, rxPush
<1>12. CASE DecodeEnd
  BY <1>12 DEF DecodeEnd, RxInv, RxSlotsIntact, RxWindow, rxRing, rxPush, RxPc
<1>13. CASE RxRelease
  <2>1. RxWindow' = RxWindow \ {rx_pkts_op}
    BY <1>13, RxWindowFacts DEF RxRelease, RxInv, RxPc, RxWindow
  <2>2. RxSlotsIntact'
    BY <1>13, <2>1 DEF RxRelease, RxInv, RxSlotsIntact
  <2>3. rx_pkts_ip # rx_pkts_op
    BY <1>13 DEF RxRelease, RxInv, RxPc
  <2>4. NextIndex(rx_pkts_ip, RX_PKTS_SIZE) # NextIndex(rx_pkts_op, RX_PKTS_SIZE)
    BY <2>3, RingSizes DEF TypeOK, NextIndex
  <2>5. QED
    BY <1>13, <2>2, <2>4 DEF RxRelease, RxInv, rxPush, RxPc
<1>14. CASE Encode
  BY <1>14, RxFrame DEF Encode, RxPc
<1>15. CASE TxRelease
  BY <1>15, RxFrame DEF TxRelease, RxPc
<1>16. CASE NghamInit
  <2>1. RxWindow' = {}
    BY <1>16, RingSizes, EmptyWindow DEF NghamInit, RxWindow
  <2>2. QED
    BY <1>16, <2>1 DEF NghamInit, RxInv, RxSlotsIntact, rxPush, RxPc
<1>17. CASE UNCHANGED vars
  BY <1>17, <1>a DEF vars, RxInv, rxRing, rxPush
<1>18. QED
  BY <1>1, <1>2, <1>3, <1>4, <1>5, <1>6, <1>7, <1>8, <1>9, <1>10, <1>11, <1>12, <1>13,
     <1>14, <1>15, <1>16, <1>17 DEF Next, RxPush, TxPush, Tick

LEMMA TxStep == TypeOK /\ TxInv /\ [Next]_vars => TxInv'
<1> SUFFICES ASSUME TypeOK, TxInv, [Next]_vars PROVE TxInv'
  OBVIOUS
<1>1. CASE \E p \in RxPackets : RxPushCheck(p)
  BY <1>1, TxFrame DEF RxPushCheck
<1>2. CASE RxPushCopyBegin
  BY <1>2, TxFrame DEF RxPushCopyBegin
<1>3. CASE RxPushCopyEnd
  BY <1>3, TxFrame DEF RxPushCopyEnd
<1>4. CASE RxPushPublish
  BY <1>4, TxFrame DEF RxPushPublish
<1>5. ASSUME NEW p \in TxPackets, TxPushCheck(p) PROVE TxInv'
  BY <1>5 DEF TxPushCheck, TxInv, TxSlotsIntact, TxWindow, TxAccepted, txRing, txPush
<1>6. CASE TxPushCopyBegin
  <2>1. TxWindow' = TxWindow /\ tx_pkts_ip \notin TxWindow
    BY <1>6, TxWindowFacts DEF TxPushCopyBegin, TxWindow
  <2>2. TxSlotsIntact'
    BY <1>6, <2>1, TxWindowFacts DEF TxPushCopyBegin, TxInv, TxSlotsIntact, TypeOK
  <2>3. QED
    BY <1>6, <2>2 DEF TxPushCopyBegin, TxInv
<1>7. CASE TxPushCopyEnd
  <2>1. TxWindow' = TxWindow /\ tx_pkts_ip \notin TxWindow
    BY <1>7, TxWindowFacts DEF TxPushCopyEnd, TxWindow
  <2>2. TxSlotsIntact'
    BY <1>7, <2>1, TxWindowFacts DEF TxPushCopyEnd, TxInv, TxSlotsIntact, TypeOK
  <2>3. QED
    BY <1>7, <2>2 DEF TxPushCopyEnd, TxInv, TypeOK
<1>8. CASE TxPushPublish
  <2>1. TxWindow' = TxWindow \cup {tx_pkts_ip}
    BY <1>8, TxWindowFacts DEF TxPushPublish, TxInv, TxWindow
  <2>2. tx_pkts[tx_pkts_ip].pkt \in TxAccepted /\ tx_pkts[tx_pkts_ip].form = "raw"
    BY <1>8 DEF TxPushPublish, TxInv, Slot
  <2>3. TxSlotsIntact'
    BY <1>8, <2>1, <2>2 DEF TxPushPublish, TxInv, TxSlotsIntact
  <2>4. QED
    BY <1>8, <2>3 DEF TxPushPublish, TxInv
<1>9. CASE TickRx
  BY <1>9, TxFrame DEF TickRx, TxPc
<1>10. CASE TickTx
  BY <1>10 DEF TickTx, TxInv, TxSlotsIntact, TxWindow, txRing, txPush, TxPc
<1>11. CASE DecodeBegin
  BY <1>11, TxFrame DEF DecodeBegin, TxPc
<1>12. CASE DecodeEnd
  BY <1>12, TxFrame DEF DecodeEnd, TxPc
<1>13. CASE RxRelease
  BY <1>13, TxFrame DEF RxRelease, TxPc
<1>14. CASE Encode
  BY <1>14 DEF Encode, TxInv, TxSlotsIntact, TxWindow, txRing, txPush, TxPc
<1>15. CASE TxRelease
  <2>1. TxWindow' = TxWindow \ {tx_pkts_op}
    BY <1>15, TxWindowFacts DEF TxRelease, TxInv, TxPc, TxWindow
  <2>2. TxSlotsIntact'
    BY <1>15, <2>1 DEF TxRelease, TxInv, TxSlotsIntact
  <2>3. tx_pkts_ip # tx_pkts_op
    BY <1>15 DEF TxRelease, TxInv, TxPc
  <2>4. NextIndex(tx_pkts_ip, TX_PKTS_SIZE) # NextIndex(tx_pkts_op, TX_PKTS_SIZE)
    BY <2>3, RingSizes DEF TypeOK, NextIndex
  <2>5. QED
    BY <1>15, <2>2, <2>4 DEF TxRelease, TxInv, txPush, TxPc
<1>16. CASE NghamInit
  <2>1. TxWindow' = {}
    BY <1>16, RingSizes, EmptyWindow DEF NghamInit, TxWindow
  <2>2. QED
    BY <1>16, <2>1 DEF NghamInit, TxInv, TxSlotsIntact, txPush, TxPc
<1>17. CASE UNCHANGED vars
  BY <1>17, TxFrame DEF vars
<1>18. QED
  BY <1>1, <1>2, <1>3, <1>4, <1>5, <1>6, <1>7, <1>8, <1>9, <1>10, <1>11, <1>12, <1>13,
     <1>14, <1>15, <1>16, <1>17 DEF Next, RxPush, TxPush, Tick

LEMMA Inductive == IInv /\ [Next]_vars => IInv'
BY TypeStep, RxStep, TxStep DEF IInv

LEMMA Invariance == Spec => []IInv
BY InvInit, Inductive, PTL DEF Spec

(* However the receive interrupt, the application and the main loop        *)
(* overlap, the packet the tick reads is complete and belongs to it alone. *)
THEOREM SlotsIntact == Spec => []NoTornSlot
<1>1. IInv => NoTornSlot
  BY RxWindowFacts, TxWindowFacts DEF IInv, RxInv, TxInv, NoTornSlot
<1>2. QED
  BY Invariance, <1>1, PTL

-----------------------------------------------------------------------------
(* Each ring implements PacketFifo: a push appends at the moment it stores *)
(* the index, a packet is served at the moment it is handled (or encoded), *)
(* and every other step stutters.                                          *)

(* The queue has one element per slot of the window, but for the slot      *)
(* already served.                                                         *)
LEMMA PendingType ==
  ASSUME NEW size \in Nat \ {0}, NEW op \in Idx(size), NEW ip \in Idx(size),
         NEW served \in {0, 1}, served = 1 => op # ip, NEW pkts, NEW P,
         \A i \in Window(op, ip, size) : pkts[i].pkt \in P
  PROVE  /\ Pending(pkts, op, ip, size, served) \in Seq(P)
         /\ Len(Pending(pkts, op, ip, size, served)) = Distance(op, ip, size) - served
<1> DEFINE n == Distance(op, ip, size)
<1>1. n \in Nat /\ n - served \in Nat
  BY DEF Idx, Distance
<1>2. \A k \in 1..n-served : k-1+served \in 0..n-1
  BY <1>1
<1>3. \A k \in 1..n-served : pkts[After(op, k-1+served, size)].pkt \in P
  BY <1>2 DEF Window
<1>4. Pending(pkts, op, ip, size, served) \in [1..n-served -> P]
  BY <1>3 DEF Pending
<1>5. QED
  BY <1>1, <1>4

(* Publishing appends, serving takes the head, releasing changes nothing.  *)
LEMMA PendingPublish ==
  ASSUME NEW size \in Nat \ {0}, NEW op \in Idx(size), NEW ip \in Idx(size),
         NEW served \in {0, 1}, served = 1 => op # ip, NEW pkts, NEW P,
         \A i \in Window(op, ip, size) : pkts[i].pkt \in P,
         pkts[ip].pkt \in P, NextIndex(ip, size) # op
  PROVE  Pending(pkts, op, NextIndex(ip, size), size, served)
           = Append(Pending(pkts, op, ip, size, served), pkts[ip].pkt)
<1> DEFINE old == Pending(pkts, op, ip, size, served)
           new == Pending(pkts, op, NextIndex(ip, size), size, served)
           n   == Distance(op, ip, size)
<1>1. Distance(op, NextIndex(ip, size), size) = n + 1 /\ n \in Nat /\ n - served \in Nat
  BY DEF Idx, Distance, NextIndex
<1>2. old \in Seq(P) /\ Len(old) = n - served
  BY PendingType
<1>3. new = [k \in 1..n+1-served |-> pkts[After(op, k-1+served, size)].pkt]
  BY <1>1 DEF Pending
<1>4. old = [k \in 1..n-served |-> pkts[After(op, k-1+served, size)].pkt]
  BY DEF Pending
<1>5. After(op, n, size) = ip
  BY DEF Idx, Distance, After
<1>6. Append(old, pkts[ip].pkt)
        = [k \in 1..n-served+1 |-> IF k = n-served+1 THEN pkts[ip].pkt ELSE old[k]]
  BY <1>1, <1>2
<1>7. \A k \in 1..n+1-served :
        new[k] = IF k = n-served+1 THEN pkts[ip].pkt ELSE old[k]
  <2> TAKE k \in 1..n+1-served
  <2>1. CASE k = n-served+1
    <3>1. k-1+served = n
      BY <1>1, <2>1
    <3>2. QED  BY <1>3, <1>5, <2>1, <3>1
  <2>2. CASE k # n-served+1
    <3>1. k \in 1..n-served
      BY <1>1, <2>2
    <3>2. QED  BY <1>3, <1>4, <2>2, <3>1
  <2>3. QED  BY <2>1, <2>2
<1>8. n+1-served = n-served+1
  BY <1>1
<1>9. QED
  BY <1>3, <1>6, <1>7, <1>8

LEMMA PendingServe ==
  ASSUME NEW size \in Nat \ {0}, NEW op \in Idx(size), NEW ip \in Idx(size), op # ip, NEW pkts, NEW P,
         \A i \in Window(op, ip, size) : pkts[i].pkt \in P
  PROVE  /\ Pending(pkts, op, ip, size, 0) # <<>>
         /\ Head(Pending(pkts, op, ip, size, 0)) = pkts[op].pkt
         /\ Tail(Pending(pkts, op, ip, size, 0)) = Pending(pkts, op, ip, size, 1)
<1> DEFINE old == Pending(pkts, op, ip, size, 0)
           new == Pending(pkts, op, ip, size, 1)
           n   == Distance(op, ip, size)
<1>1. n \in Nat \ {0} /\ After(op, 0, size) = op
  BY DEF Idx, Distance, After
<1>2. /\ old \in Seq(P) /\ Len(old) = n
      /\ new \in Seq(P) /\ Len(new) = n - 1
  <2>1. 0 \in {0, 1} /\ 1 \in {0, 1} /\ (0 = 1 => op # ip) /\ n - 0 = n
    BY <1>1
  <2>2. old \in Seq(P) /\ Len(old) = n - 0
    BY <2>1, PendingType
  <2>3. new \in Seq(P) /\ Len(new) = n - 1
    BY <2>1, PendingType
  <2>4. QED  BY <2>1, <2>2, <2>3
<1>3. \A k \in 1..n : old[k] = pkts[After(op, k-1, size)].pkt
  BY <1>1 DEF Pending
<1>4. \A k \in 1..n-1 : new[k] = pkts[After(op, k, size)].pkt
  BY <1>1 DEF Pending
<1>5. old # <<>> /\ Head(old) = pkts[op].pkt
  <2>1. 1 \in 1..n /\ 1 - 1 = 0
    BY <1>1
  <2>2. old[1] = pkts[op].pkt
    BY <1>1, <1>3, <2>1
  <2>3. old # <<>> /\ Head(old) = old[1]
    BY <1>1, <1>2
  <2>4. QED  BY <2>2, <2>3
<1>6. /\ Tail(old) \in Seq(P) /\ Len(Tail(old)) = n - 1
      /\ \A k \in 1..n-1 : Tail(old)[k] = old[k+1]
  BY <1>1, <1>2
<1>7. \A k \in 1..n-1 : Tail(old)[k] = new[k]
  BY <1>1, <1>3, <1>4, <1>6
<1>8. QED
  BY <1>2, <1>5, <1>6, <1>7

LEMMA PendingRelease ==
  ASSUME NEW size \in Nat \ {0}, NEW op \in Idx(size), NEW ip \in Idx(size), op # ip, NEW pkts
  PROVE  Pending(pkts, NextIndex(op, size), ip, size, 0) = Pending(pkts, op, ip, size, 1)
<1>1. Distance(NextIndex(op, size), ip, size) - 0 = Distance(op, ip, size) - 1
  BY DEF Idx, Distance, NextIndex
<1>2. \A k \in 1..Distance(op, ip, size)-1 :
        After(NextIndex(op, size), k-1+0, size) = After(op, k-1+1, size)
  BY DEF Idx, Distance, NextIndex, After
<1>3. QED
  BY <1>1, <1>2 DEF Pending

(* Slots outside the window do not matter.                                 *)
LEMMA PendingFrame ==
  ASSUME NEW size \in Nat \ {0}, NEW op \in Idx(size), NEW ip \in Idx(size), NEW served \in {0, 1},
         NEW old, NEW new, \A i \in Window(op, ip, size) : new[i].pkt = old[i].pkt
  PROVE  Pending(new, op, ip, size, served) = Pending(old, op, ip, size, served)
<1> DEFINE n == Distance(op, ip, size)
<1>1. n \in Nat
  BY DEF Idx, Distance
<1>2. \A k \in 1..n-served : k-1+served \in 0..n-1
  BY <1>1
<1>3. \A k \in 1..n-served :
        new[After(op, k-1+served, size)].pkt = old[After(op, k-1+served, size)].pkt
  BY <1>2 DEF Window
<1>4. QED
  BY <1>3 DEF Pending
-----------------------------------------------------------------------------
(* The RX ring                                                             *)

RxServed == IF RxServing THEN 1 ELSE 0
TxServed == IF TxServing THEN 1 ELSE 0

LEMMA RxTakenIsDistance ==
  ASSUME TypeOK, RxInv
  PROVE  /\ RxQueue \in Seq(RxPackets)
         /\ RxFifo!Taken = Distance(rx_pkts_op, rx_pkts_ip, RX_PKTS_SIZE)
<1>1. RX_PKTS_SIZE \in Nat \ {0} /\ rx_pkts_op \in Idx(RX_PKTS_SIZE) /\ rx_pkts_ip \in Idx(RX_PKTS_SIZE)
  BY RingSizes DEF TypeOK, Idx
<1>2. RxServed \in {0, 1} /\ (RxServed = 1 => rx_pkts_op # rx_pkts_ip)
  BY DEF RxServed, RxServing, RxInv, RxPc
<1>3. \A i \in Window(rx_pkts_op, rx_pkts_ip, RX_PKTS_SIZE) : rx_pkts[i].pkt \in RxPackets
  BY DEF RxInv, RxSlotsIntact, RxWindow
<1>4. /\ RxQueue \in Seq(RxPackets)
      /\ Len(RxQueue) = Distance(rx_pkts_op, rx_pkts_ip, RX_PKTS_SIZE) - RxServed
  BY <1>1, <1>2, <1>3, PendingType DEF RxQueue, RxServed
<1>5. Distance(rx_pkts_op, rx_pkts_ip, RX_PKTS_SIZE) \in Nat
  BY <1>1, IndexTypes DEF Idx
<1>6. QED
  BY <1>2, <1>4, <1>5 DEF RxFifo!Taken, RxServed

(* What the steps of the RX ring are to the queue.                         *)
LEMMA RxFacts ==
  ASSUME IInv
  PROVE  /\ RX_PKTS_SIZE \in Nat \ {0}
         /\ rx_pkts_op \in Idx(RX_PKTS_SIZE) /\ rx_pkts_ip \in Idx(RX_PKTS_SIZE)
         /\ \A i \in Window(rx_pkts_op, rx_pkts_ip, RX_PKTS_SIZE) : rx_pkts[i].pkt \in RxPackets
         /\ RxServed \in {0, 1} /\ (RxServed = 1 => rx_pkts_op # rx_pkts_ip)
         /\ RxFifo!Taken = Distance(rx_pkts_op, rx_pkts_ip, RX_PKTS_SIZE)
<1>1. RX_PKTS_SIZE \in Nat \ {0} /\ rx_pkts_op \in Idx(RX_PKTS_SIZE) /\ rx_pkts_ip \in Idx(RX_PKTS_SIZE)
  BY RingSizes DEF IInv, TypeOK, Idx
<1>2. \A i \in Window(rx_pkts_op, rx_pkts_ip, RX_PKTS_SIZE) : rx_pkts[i].pkt \in RxPackets
  BY DEF IInv, RxInv, RxSlotsIntact, RxWindow
<1>3. RxServed \in {0, 1} /\ (RxServed = 1 => rx_pkts_op # rx_pkts_ip)
  BY DEF RxServed, RxServing, IInv, RxInv, RxPc
<1>4. QED
  BY <1>1, <1>2, <1>3, RxTakenIsDistance DEF IInv

(* All places but one are taken exactly when next has come to op.          *)
LEMMA RxFull ==
  ASSUME IInv
  PROVE  IF NextIndex(rx_pkts_ip, RX_PKTS_SIZE) = rx_pkts_op
           THEN RxFifo!Taken = RX_PKTS_SIZE - 1
           ELSE RxFifo!Taken < RX_PKTS_SIZE - 1
BY RxFacts DEF Idx, NextIndex, Distance

LEMMA RxPublishPuts ==
  ASSUME IInv, RxPushPublish
  PROVE  rx_p \in RxPackets /\ RxFifo!Put(rx_p)
<1>1. rx_pkts[rx_pkts_ip].pkt = rx_p /\ rx_p \in RxPackets
  BY DEF RxPushPublish, IInv, RxInv, Slot
<1>2. rx_next = NextIndex(rx_pkts_ip, RX_PKTS_SIZE) /\ rx_next # rx_pkts_op
  BY DEF RxPushPublish, IInv, RxInv
<1>3. RxQueue' = Append(RxQueue, rx_p)
  <2>1. RxQueue' = Pending(rx_pkts, rx_pkts_op, rx_next, RX_PKTS_SIZE, RxServed)
    BY DEF RxPushPublish, RxQueue, RxServing, RxServed
  <2>2. RxQueue = Pending(rx_pkts, rx_pkts_op, rx_pkts_ip, RX_PKTS_SIZE, RxServed)
    BY DEF RxQueue, RxServed
  <2>3. QED  BY <1>1, <1>2, <2>1, <2>2, RxFacts, PendingPublish
<1>4. RxFifo!Taken < RX_PKTS_SIZE - 1
  BY <1>2, RxFull
<1>5. QED
  BY <1>1, <1>3, <1>4 DEF RxFifo!Put, RxPushPublish, RxServing, outputs

LEMMA RxDecodeServes ==
  ASSUME IInv, DecodeEnd
  PROVE  RxFifo!Serve
<1>1. rx_pkts_op # rx_pkts_ip /\ rx_pkts_op \in RxWindow
  BY RxWindowFacts DEF DecodeEnd, IInv, RxInv, RxPc
<1>2. rx_pkts[rx_pkts_op].pkt \in RxPackets /\ rx_pkts[rx_pkts_op].form = "decoded"
  BY <1>1 DEF DecodeEnd, IInv, RxInv, RxSlotsIntact
<1>3. RxQueue = Pending(rx_pkts, rx_pkts_op, rx_pkts_ip, RX_PKTS_SIZE, 0)
  BY DEF DecodeEnd, RxQueue, RxServing
<1>4. RxQueue' = Pending(rx_pkts, rx_pkts_op, rx_pkts_ip, RX_PKTS_SIZE, 1)
  BY DEF DecodeEnd, RxQueue, RxServing, rxRing
<1>5. RxQueue # <<>> /\ Head(RxQueue) = rx_pkts[rx_pkts_op].pkt /\ Tail(RxQueue) = RxQueue'
  BY <1>1, <1>3, <1>4, RxFacts, PendingServe
<1>6. handled' = RxOutcome[Head(RxQueue)]
  BY <1>2, <1>5 DEF DecodeEnd
<1>7. QED
  BY <1>5, <1>6 DEF RxFifo!Serve, DecodeEnd, RxServing, reports

LEMMA RxReleaseReleases ==
  ASSUME IInv, RxRelease
  PROVE  RxFifo!Release
<1>1. rx_pkts_op # rx_pkts_ip
  BY DEF RxRelease, IInv, RxInv, RxPc
<1>2. RxQueue = Pending(rx_pkts, rx_pkts_op, rx_pkts_ip, RX_PKTS_SIZE, 1)
  BY DEF RxRelease, RxQueue, RxServing
<1>3. RxQueue' = Pending(rx_pkts, NextIndex(rx_pkts_op, RX_PKTS_SIZE), rx_pkts_ip, RX_PKTS_SIZE, 0)
  BY DEF RxRelease, RxQueue, RxServing
<1>4. RxQueue' = RxQueue
  BY <1>1, <1>2, <1>3, RxFacts, PendingRelease
<1>5. QED
  BY <1>4 DEF RxFifo!Release, RxRelease, RxServing, outputs, reports

LEMMA RxInitResets ==
  ASSUME NghamInit
  PROVE  RxFifo!Reset
<1>1. RxQueue' = <<>>
  BY RingSizes DEF NghamInit, RxQueue, RxServing, Pending, Distance
<1>2. QED
  BY <1>1 DEF RxFifo!Reset, NghamInit, RxServing, outputs, reports

(* A memcpy into the producer's slot, the decoding in place and the tick's *)
(* comparisons do not show.                                                *)
LEMMA RxInternal ==
  ASSUME IInv, RxPushCopyBegin \/ RxPushCopyEnd \/ TickRx \/ TickTx \/ DecodeBegin
  PROVE  UNCHANGED RxFifo!vars
<1>1. \A i \in RxWindow : rx_pkts'[i].pkt = rx_pkts[i].pkt
  <2> SUFFICES ASSUME NEW i \in RxWindow PROVE rx_pkts'[i].pkt = rx_pkts[i].pkt
    OBVIOUS
  <2>1. CASE RxPushCopyBegin \/ RxPushCopyEnd
    BY <2>1, RxWindowFacts DEF RxPushCopyBegin, RxPushCopyEnd, IInv, TypeOK
  <2>2. CASE DecodeBegin
    <3>1. i \in 0..RX_PKTS_SIZE-1 /\ rx_pkts[i] \in Slots(RxPackets)
      BY RxWindowFacts DEF IInv, TypeOK
    <3>2. QED  BY <2>2, <3>1 DEF DecodeBegin, IInv, TypeOK, Slots
  <2>3. CASE TickRx \/ TickTx
    BY <2>3 DEF TickRx, TickTx, rxRing
  <2>4. QED  BY <2>1, <2>2, <2>3
<1>2. Pending(rx_pkts', rx_pkts_op, rx_pkts_ip, RX_PKTS_SIZE, RxServed) = RxQueue
  BY <1>1, RxFacts, PendingFrame DEF RxWindow, RxQueue, RxServed
<1>3. UNCHANGED <<rx_pkts_ip, rx_pkts_op, RxServed, RxServing>>
  BY DEF RxPushCopyBegin, RxPushCopyEnd, TickRx, TickTx, DecodeBegin, RxServed, RxServing, rxRing
<1>4. RxQueue' = Pending(rx_pkts', rx_pkts_op, rx_pkts_ip, RX_PKTS_SIZE, RxServed)
  BY <1>3 DEF RxQueue, RxServed
<1>5. QED
  BY <1>2, <1>3, <1>4
  DEF RxFifo!vars, RxPushCopyBegin, RxPushCopyEnd, TickRx, TickTx, DecodeBegin, outputs, reports

LEMMA RxSimulation == IInv /\ [Next]_vars => [RxFifo!Next]_(RxFifo!vars)
<1> SUFFICES ASSUME IInv, [Next]_vars PROVE [RxFifo!Next]_(RxFifo!vars)
  OBVIOUS
<1>f. ASSUME UNCHANGED <<rxRing, handled, rx_overflow>>,
             main_pc' = "rx_release" <=> main_pc = "rx_release"
      PROVE  UNCHANGED RxFifo!vars
  BY <1>f DEF RxFifo!vars, RxQueue, RxServing, rxRing
<1>1. ASSUME NEW p \in RxPackets, RxPushCheck(p) PROVE [RxFifo!Next]_(RxFifo!vars)
  <2>1. UNCHANGED <<RxQueue, RxServing, handled>>
    BY <1>1 DEF RxPushCheck, RxQueue, RxServing, rxRing, outputs
  <2>2. CASE NextIndex(rx_pkts_ip, RX_PKTS_SIZE) = rx_pkts_op
    BY <1>1, <2>1, <2>2, RxFull DEF RxFifo!Next, RxFifo!Refuse, RxPushCheck
  <2>3. CASE NextIndex(rx_pkts_ip, RX_PKTS_SIZE) # rx_pkts_op
    BY <1>1, <2>1, <2>3 DEF RxFifo!vars, RxPushCheck
  <2>4. QED  BY <2>2, <2>3
<1>2. CASE RxPushCopyBegin \/ RxPushCopyEnd \/ TickRx \/ TickTx \/ DecodeBegin
  BY <1>2, RxInternal
<1>4. CASE RxPushPublish
  BY <1>4, RxPublishPuts DEF RxFifo!Next
<1>5. CASE TxPush
  BY <1>5, <1>f DEF TxPush, TxPushCheck, TxPushCopyBegin, TxPushCopyEnd, TxPushPublish, rxRing,
     outputs, reports
<1>12. CASE DecodeEnd
  BY <1>12, RxDecodeServes DEF RxFifo!Next
<1>13. CASE RxRelease
  BY <1>13, RxReleaseReleases DEF RxFifo!Next
<1>14. CASE Encode \/ TxRelease
  BY <1>14, <1>f DEF Encode, TxRelease, outputs, reports
<1>16. CASE NghamInit
  BY <1>16, RxInitResets DEF RxFifo!Next
<1>17. CASE UNCHANGED vars
  BY <1>17, <1>f DEF vars, outputs, reports
<1>18. QED
  BY <1>1, <1>2, <1>4, <1>5, <1>12, <1>13, <1>14, <1>16, <1>17
  DEF Next, RxPush, Tick

LEMMA RxInitial == Init => RxFifo!Init
BY RingSizes DEF Init, RxFifo!Init, RxQueue, RxServing, Pending, Distance

(* The RX ring is a bounded FIFO of SIZE-1 places, for every size and all  *)
(* packets: each accepted code word is decoded once, in order, unchanged,  *)
(* and one is dropped only when SIZE-1 places are taken.                   *)
THEOREM RxRefinement == Spec => RxImplementsFifo
<1>1. Spec => RxFifo!Init /\ [][RxFifo!Next]_(RxFifo!vars)
  BY Invariance, RxInitial, RxSimulation, PTL DEF Spec
<1>2. QED
  BY <1>1 DEF RxImplementsFifo, RxFifo!Spec

-----------------------------------------------------------------------------
(* The TX ring                                                             *)

LEMMA TxTakenIsDistance ==
  ASSUME TypeOK, TxInv
  PROVE  /\ TxQueue \in Seq(TxAccepted)
         /\ TxFifo!Taken = Distance(tx_pkts_op, tx_pkts_ip, TX_PKTS_SIZE)
<1>1. TX_PKTS_SIZE \in Nat \ {0} /\ tx_pkts_op \in Idx(TX_PKTS_SIZE) /\ tx_pkts_ip \in Idx(TX_PKTS_SIZE)
  BY RingSizes DEF TypeOK, Idx
<1>2. TxServed \in {0, 1} /\ (TxServed = 1 => tx_pkts_op # tx_pkts_ip)
  BY DEF TxServed, TxServing, TxInv, TxPc
<1>3. \A i \in Window(tx_pkts_op, tx_pkts_ip, TX_PKTS_SIZE) : tx_pkts[i].pkt \in TxAccepted
  BY DEF TxInv, TxSlotsIntact, TxWindow
<1>4. /\ TxQueue \in Seq(TxAccepted)
      /\ Len(TxQueue) = Distance(tx_pkts_op, tx_pkts_ip, TX_PKTS_SIZE) - TxServed
  BY <1>1, <1>2, <1>3, PendingType DEF TxQueue, TxServed
<1>5. Distance(tx_pkts_op, tx_pkts_ip, TX_PKTS_SIZE) \in Nat
  BY <1>1, IndexTypes DEF Idx
<1>6. QED
  BY <1>2, <1>4, <1>5 DEF TxFifo!Taken, TxServed

LEMMA TxSimulation == IInv /\ [Next]_vars => [TxFifo!Next]_(TxFifo!vars)
<1> SUFFICES ASSUME IInv, [Next]_vars PROVE [TxFifo!Next]_(TxFifo!vars)
  OBVIOUS
<1>s. TX_PKTS_SIZE \in Nat \ {0} /\ tx_pkts_op \in Idx(TX_PKTS_SIZE) /\ tx_pkts_ip \in Idx(TX_PKTS_SIZE)
  BY RingSizes DEF IInv, TypeOK, Idx
<1>p. \A i \in Window(tx_pkts_op, tx_pkts_ip, TX_PKTS_SIZE) : tx_pkts[i].pkt \in TxAccepted
  BY DEF IInv, TxInv, TxSlotsIntact, TxWindow
<1>v. TxServed \in {0, 1} /\ (TxServed = 1 => tx_pkts_op # tx_pkts_ip)
  BY DEF TxServed, TxServing, IInv, TxInv, TxPc
<1>t. TxFifo!Taken = Distance(tx_pkts_op, tx_pkts_ip, TX_PKTS_SIZE)
  BY TxTakenIsDistance DEF IInv
<1>f. ASSUME UNCHANGED <<txRing, sent, tx_overflow>>,
             main_pc' = "tx_release" <=> main_pc = "tx_release"
      PROVE  UNCHANGED TxFifo!vars
  BY <1>f DEF TxFifo!vars, TxQueue, TxServing, txRing
<1>1. ASSUME NEW p \in TxPackets, TxPushCheck(p) PROVE [TxFifo!Next]_(TxFifo!vars)
  <2>1. UNCHANGED <<TxQueue, TxServing, sent>>
    BY <1>1 DEF TxPushCheck, TxQueue, TxServing, txRing, outputs
  <2>2. CASE NextIndex(tx_pkts_ip, TX_PKTS_SIZE) = tx_pkts_op
    <3>1. TxFifo!Taken = TX_PKTS_SIZE - 1
      BY <1>s, <1>t, <2>2 DEF Idx, NextIndex, Distance
    <3>2. TxFifo!Refuse
      BY <1>1, <2>1, <2>2, <3>1 DEF TxFifo!Refuse, TxPushCheck
    <3>3. QED  BY <3>2 DEF TxFifo!Next
  <2>3. CASE NextIndex(tx_pkts_ip, TX_PKTS_SIZE) # tx_pkts_op
    BY <1>1, <2>1, <2>3 DEF TxFifo!vars, TxPushCheck
  <2>4. QED  BY <2>2, <2>3
<1>2. CASE TxPushCopyBegin \/ TxPushCopyEnd
  <2>1. \A i \in TxWindow : tx_pkts'[i].pkt = tx_pkts[i].pkt
    BY <1>2, TxWindowFacts DEF TxPushCopyBegin, TxPushCopyEnd, IInv, TypeOK
  <2>2. Pending(tx_pkts', tx_pkts_op, tx_pkts_ip, TX_PKTS_SIZE, TxServed) = TxQueue
    BY <1>s, <1>v, <2>1, PendingFrame DEF TxWindow, TxQueue, TxServed
  <2>3. UNCHANGED TxFifo!vars
    BY <1>2, <2>2 DEF TxPushCopyBegin, TxPushCopyEnd, TxFifo!vars, TxQueue, TxServing, TxServed,
       outputs, reports
  <2>4. QED  BY <2>3
<1>4. CASE TxPushPublish
  <2>1. tx_pkts[tx_pkts_ip].pkt = tx_p /\ tx_p \in TxAccepted
    BY <1>4 DEF TxPushPublish, IInv, TxInv, Slot
  <2>2. tx_next = NextIndex(tx_pkts_ip, TX_PKTS_SIZE) /\ tx_next # tx_pkts_op
    BY <1>4 DEF TxPushPublish, IInv, TxInv
  <2>3. TxQueue' = Append(TxQueue, tx_p)
    <3>1. TxQueue' = Pending(tx_pkts, tx_pkts_op, tx_next, TX_PKTS_SIZE, TxServed)
      BY <1>4 DEF TxPushPublish, TxQueue, TxServing, TxServed
    <3>2. TxQueue = Pending(tx_pkts, tx_pkts_op, tx_pkts_ip, TX_PKTS_SIZE, TxServed)
      BY DEF TxQueue, TxServed
    <3>3. QED  BY <1>s, <1>p, <1>v, <2>1, <2>2, <3>1, <3>2, PendingPublish
  <2>4. TxFifo!Taken < TX_PKTS_SIZE - 1
    BY <1>s, <1>t, <2>2 DEF Idx, NextIndex, Distance
  <2>5. TxFifo!Put(tx_p)
    BY <1>4, <2>3, <2>4 DEF TxFifo!Put, TxPushPublish, TxServing, outputs
  <2>6. QED  BY <2>1, <2>5 DEF TxFifo!Next
<1>5. CASE RxPush
  BY <1>5, <1>f DEF RxPush, RxPushCheck, RxPushCopyBegin, RxPushCopyEnd, RxPushPublish, txRing,
     outputs, reports
<1>9. CASE TickRx \/ TickTx
  BY <1>9, <1>f DEF TickRx, TickTx, outputs, reports
<1>12. CASE Encode
  <2>1. tx_pkts_op # tx_pkts_ip /\ tx_pkts_op \in TxWindow
    BY <1>12, TxWindowFacts DEF Encode, IInv, TxInv, TxPc
  <2>2. tx_pkts[tx_pkts_op].pkt \in TxAccepted /\ tx_pkts[tx_pkts_op].form = "raw"
    BY <1>12, <2>1 DEF Encode, IInv, TxInv, TxSlotsIntact
  <2>3. TxQueue = Pending(tx_pkts, tx_pkts_op, tx_pkts_ip, TX_PKTS_SIZE, 0)
    BY <1>12 DEF Encode, TxQueue, TxServing
  <2>4. TxQueue' = Pending(tx_pkts, tx_pkts_op, tx_pkts_ip, TX_PKTS_SIZE, 1)
    BY <1>12 DEF Encode, TxQueue, TxServing, txRing
  <2>5. TxQueue # <<>> /\ Head(TxQueue) = tx_pkts[tx_pkts_op].pkt /\ Tail(TxQueue) = TxQueue'
    BY <1>s, <1>p, <2>1, <2>3, <2>4, PendingServe
  <2>6. sent' = TxOutcome[Head(TxQueue)]
    BY <1>12, <2>2, <2>5 DEF Encode, TxAccepted
  <2>7. TxFifo!Serve
    BY <1>12, <2>5, <2>6 DEF TxFifo!Serve, Encode, TxServing, reports
  <2>8. QED  BY <2>7 DEF TxFifo!Next
<1>13. CASE TxRelease
  <2>1. tx_pkts_op # tx_pkts_ip
    BY <1>13 DEF TxRelease, IInv, TxInv, TxPc
  <2>2. TxQueue = Pending(tx_pkts, tx_pkts_op, tx_pkts_ip, TX_PKTS_SIZE, 1)
    BY <1>13 DEF TxRelease, TxQueue, TxServing
  <2>3. TxQueue' = Pending(tx_pkts, NextIndex(tx_pkts_op, TX_PKTS_SIZE), tx_pkts_ip, TX_PKTS_SIZE, 0)
    BY <1>13 DEF TxRelease, TxQueue, TxServing
  <2>4. TxQueue' = TxQueue
    BY <1>s, <2>1, <2>2, <2>3, PendingRelease
  <2>5. TxFifo!Release
    BY <1>13, <2>4 DEF TxFifo!Release, TxRelease, TxServing, outputs, reports
  <2>6. QED  BY <2>5 DEF TxFifo!Next
<1>14. CASE DecodeBegin \/ DecodeEnd \/ RxRelease
  BY <1>14, <1>f DEF DecodeBegin, DecodeEnd, RxRelease, outputs, reports
<1>16. CASE NghamInit
  <2>1. TxQueue' = <<>>
    BY <1>16, RingSizes DEF NghamInit, TxQueue, TxServing, Pending, Distance
  <2>2. TxFifo!Reset
    BY <1>16, <2>1 DEF TxFifo!Reset, NghamInit, TxServing, outputs, reports
  <2>3. QED  BY <2>2 DEF TxFifo!Next
<1>17. CASE UNCHANGED vars
  BY <1>17, <1>f DEF vars, outputs, reports
<1>18. QED
  BY <1>1, <1>2, <1>4, <1>5, <1>9, <1>12, <1>13, <1>14, <1>16, <1>17
  DEF Next, TxPush, Tick

LEMMA TxInitial == Init => TxFifo!Init
BY RingSizes DEF Init, TxFifo!Init, TxQueue, TxServing, Pending, Distance

(* The TX ring is a bounded FIFO of SIZE-1 places, for every size and all  *)
(* packets: each accepted packet is given to ngham_encode once, in order,  *)
(* unchanged; none is longer than 220; and one is dropped only when SIZE-1 *)
(* places are taken.                                                       *)
THEOREM TxRefinement == Spec => TxImplementsFifo
<1>1. Spec => TxFifo!Init /\ [][TxFifo!Next]_(TxFifo!vars)
  BY Invariance, TxInitial, TxSimulation, PTL DEF Spec
<1>2. QED
  BY <1>1 DEF TxImplementsFifo, TxFifo!Spec

=============================================================================
