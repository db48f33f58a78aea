\* Rings of four, one at a time under stress, in every overlap; both drain.
CONSTANTS
  good = good
  bad = bad
  short = short
  full = full
  long = long
  NULL = NULL
  RX_PKTS_SIZE = 4
  TX_PKTS_SIZE = 4
  RxPackets <- MCRxPackets
  Decodable <- MCDecodable
  TxPackets <- MCTxPackets
  PlLen <- MCPlLen
SPECIFICATION MCSpec
INVARIANTS TypeOK NoTornSlot
PROPERTIES RxImplementsFifo TxImplementsFifo RxDrains TxDrainsUnlessRxBusy
VIEW MCView
