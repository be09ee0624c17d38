SPECIFICATION Spec
CONSTANTS
  box = box
  line = line
  blank = blank
  grid1 = grid1
  grid2 = grid2
  Port = {1}
  Art <- MCOneArt
  NoArt = blank
  Frame = box
  Settings = {grid1, grid2}
  UndoSizes <- MCDepths
SYMMETRY Symmetry
INVARIANTS
  TypeOK
  LiveIsCurrent
  MarkedIsFile
  CleanIsSaved
PROPERTIES
  UndoIsTrue
