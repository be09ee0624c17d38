SPECIFICATION Spec
CONSTANTS
  dc = dc
  ac = ac
  tr = tr
  sw1 = sw1
  sw2 = sw2
  sw3 = sw3
  Net = Net
  DC = dc
  Plain <- MCPlain
  Sweep <- MCSweep
  Points <- MCPoints
  Files <- MCFiles
CHECK_DEADLOCK FALSE
INVARIANTS
  TypeOK
  EveryPointIsSolved
  ResultsFillTheGrid
PROPERTIES
  StartsFromItsPoint
  RunEnds
