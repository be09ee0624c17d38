SPECIFICATION Spec
CONSTANTS
  a = a
  b = b
  c = c
  u = u
  s = s
  p = p
  q = q
  g = g
  Name <- MCName
  Generated <- MCGenerated
  Property <- MCProperty
  Netlists <- MCNetlists
  UseTables <- MCUseTables
  Sweeps <- MCSweeps
  Datasets <- MCDatasets
  Runs = 2
CHECK_DEADLOCK FALSE
INVARIANTS
  TypeOK
  SolvableIsMarked
PROPERTIES
  EvaluatedInOrder
  NothingForgotten
  ChecksEnd
