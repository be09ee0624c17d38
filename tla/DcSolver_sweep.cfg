SPECIFICATION Spec
CONSTANTS
  MaxIter = 44
  Full = 40
  FirstSource = 8
  FirstGMin = 40
  GMinStep = 8
  Settles <- MCSometimes
  Matrix <- MCMatrix
  Analyses <- MCDCDCTR
  Requested <- MCAnyHelper
CHECK_DEADLOCK FALSE
INVARIANTS
  TypeOK
  SolvesTheCircuit
  EachHelperOnce
  FailureIsOwn
PROPERTIES
  GMinSteppingEnds
