SPECIFICATION TRSpec
CONSTANTS
  STATE_NUM = 5
  Times <- MCTimes
  FirstStep = 1
  DeltaMin = 3
  DeltaMax = 12
  MaxOrder = 3
  Calm = 2
  Raster <- MCRaster
  Estimates <- MCEstimates
  Solvable = 4
  Fragile <- MCLater
CHECK_DEADLOCK FALSE
INVARIANTS
  StepsMatchTimes
  IntegratorsMatch
  HistoryIsTrue
  SavedIsAccepted
  OnTime
PROPERTIES
  TransientEnds
