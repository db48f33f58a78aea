\* Faults on the line to the host; replies that take up to three packets.
CONSTANTS
  SPP_PL_MAX = 4
  SPP_START = 4
  CrcReadings <- AnyOctet
  PKT_PL_SIZE = 6
  PackMax = 3
  Replies <- MCReplies
  Sendable <- OneCommand
  RxPackets <- MCRxPackets
  MaxDownFaults = 0
  MaxUpFaults = 2
  MaxOutput = 1
SPECIFICATION Spec
PROPERTIES HostGetsOnlyWhatWasPrinted WholePacketsGiven RepliesWhole
