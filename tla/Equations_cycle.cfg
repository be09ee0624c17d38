SPECIFICATION Spec
CONSTANTS
  a = a
  b = b
  c = c
  u = u
  s = s
  p = p
  q = q
  g = g
  Name <- MCName
  Generated <- MCGenerated
  Property <- MCProperty
  Netlists <- MCFour
  UseTables <- MCFourUses
  Sweeps <- MCNoSweep
  Datasets <- MCNoData
  Runs = 2
CHECK_DEADLOCK FALSE
INVARIANT AllEvaluated
