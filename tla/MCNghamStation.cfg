\* Damaged bytes anywhere, no reception given up, packets waiting to be decoded.
CONSTANTS
  a = a
  b = b
  Noise = Noise
  None = None
  Transmissions = {a, b}
  NGH_SIZES = 2
  NGH_PL_PAR_SIZE <- MCParSize
  Tolerance <- MCTolerance
  SizeOf <- MCSizeOf
  W = 5
  FalseTags <- MCFalseTags
  MaxErrors = 2
  MaxAborts = 0
  MaxInits = 1
  RX_PKTS_SIZE = 4
  TX_PKTS_SIZE = 2
  NULL = NULL
SPECIFICATION StationSpec
PROPERTIES StationImplementsLink
VIEW MCView
