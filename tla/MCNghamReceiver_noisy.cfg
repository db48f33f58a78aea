\* Damaged bytes anywhere, no reception given up.
CONSTANTS
  a = a
  b = b
  c = c
  Noise = Noise
  None = None
  Transmissions = {a, b, c}
  NGH_SIZES = 2
  NGH_PL_PAR_SIZE <- MCParSize
  Tolerance <- MCTolerance
  SizeOf <- MCSizeOf
  W = 8
  FalseTags <- MCFalseTags
  MaxErrors = 3
  MaxAborts = 0
  MaxInits = 0
SPECIFICATION Spec
INVARIANTS InStep
PROPERTIES OneOutcomePerSync CorrectableDelivered
