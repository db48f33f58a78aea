CONSTANTS
  NULL = NULL
  Tests <- MCTests
  BadArgs <- MCBadArgs
  DataOf <- MCDataOf
  ErrorsOf <- MCErrorsOf
  UnsignedBits = 15
  Setups <- MCSetups
  OtherPolys <- MCOtherPolys
  Frames <- MCFrames
  FrameBlocks <- MCFrameBlocks
SPECIFICATION MCSpec
INVARIANTS NothingLeaks EncodesCodewords DecodesNearest MetricsAddUp
PROPERTIES CorrectsUpToCapability ChangesOnlyWhatItReports
