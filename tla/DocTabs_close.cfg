SPECIFICATION Spec
CONSTANTS
  d1 = d1
  d2 = d2
  d3 = d3
  sch = sch
  dpl = dpl
  blank = blank
  drawn = drawn
  none = none
  Doc <- MCThreeDocs
  Name <- MCName
  NoName = untitled
  Display <- MCDisplay
  Content = {blank, drawn}
  Empty = blank
  NoFile = none
  FirstFiles <- MCFirstFiles
  NoDoc = none
  Fails <- MCFails
  Optimises <- MCNever
SYMMETRY DocSymmetry
CHECK_DEADLOCK FALSE
INVARIANTS
  TypeOK
  NoTwoOfOneName
  CleanIsOnDisk
  SaveAllSaves
PROPERTY AskedBeforeDeleting
