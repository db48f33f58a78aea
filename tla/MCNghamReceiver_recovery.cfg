\* Receptions given up half way, and ngham_init during a reception.
CONSTANTS
  a = a
  b = b
  c = c
  Noise = Noise
  None = None
  Transmissions = {a, b, c}
  NGH_SIZES = 2
  NGH_PL_PAR_SIZE <- MCParSize
  Tolerance <- MCTolerance
  SizeOf <- MCSizeOf
  W = 8
  FalseTags = {}
  MaxErrors = 0
  MaxAborts = 2
  MaxInits = 1
SPECIFICATION FairSpec
PROPERTIES BackInStep BackInStepOrDeaf RecoveryProgresses
