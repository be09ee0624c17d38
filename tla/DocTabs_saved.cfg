SPECIFICATION Spec
CONSTANTS
  d1 = d1
  d2 = d2
  d3 = d3
  sch = sch
  dpl = dpl
  blank = blank
  drawn = drawn
  none = none
  Doc <- MCTwoDocs
  Name <- MCName
  NoName = untitled
  Display <- MCDisplay
  Content = {blank, drawn}
  Empty = blank
  NoFile = none
  FirstFiles <- MCFirstFiles
  NoDoc = none
  Fails <- MCNoFails
  Optimises <- MCNever
SYMMETRY DocSymmetry
CHECK_DEADLOCK FALSE
INVARIANT SavedBeforeDeleting
