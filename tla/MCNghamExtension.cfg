\* Packets built and received, two of them read into one map.
CONSTANTS
  Variable = Variable
  None = None
  W = 4
  EXT_TYPES = 3
  EXT_SIZE_VARIABLE = Variable
  EXT_TYPE_SIZES <- MCSizes
  Behind <- MCBehind
  NGHAM_PL_MAX = 5
  D_SIZE = 6
  MaxList = 5
  Datas <- MCDatas
  Foreign <- MCForeign
  MaxPackets = 2
SPECIFICATION Spec
INVARIANTS TypeOK WalkStaysInside BuiltPacketsReadBack FieldsHaveTheirSize
PROPERTIES AllOrNothing
