\* Faults on the line to the modem.
CONSTANTS
  SPP_PL_MAX = 4
  SPP_START = 4
  CrcReadings <- AnyOctet
  PKT_PL_SIZE = 6
  PackMax = 3
  Replies <- NoReplies
  Sendable <- MCSendable
  RxPackets <- None
  MaxDownFaults = 2
  MaxUpFaults = 0
  MaxOutput = 1
SPECIFICATION Spec
PROPERTIES DeviceActsOnlyOnWhatWasSent WholePacketsActedOn
