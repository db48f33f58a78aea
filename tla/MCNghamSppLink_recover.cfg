\* Commands and replies without a start byte inside, with faults both ways.
CONSTANTS
  SPP_PL_MAX = 4
  SPP_START = 4
  CrcReadings <- PlainOctet
  PKT_PL_SIZE = 6
  PackMax = 3
  Replies <- PlainReplies
  Sendable <- OneCommand
  RxPackets <- None
  MaxDownFaults = 1
  MaxUpFaults = 1
  MaxOutput = 1
SPECIFICATION FairSpec
PROPERTIES BogusPacketsEnd LinkRecovers
