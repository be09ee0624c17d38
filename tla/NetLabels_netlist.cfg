SPECIFICATION Spec
CONSTANTS
  top = top
  left = left
  right = right
  bottom = bottom
  tail = tail
  gnd4 = gnd4
  Nodes <- MCSquare
  Wire <- MCFour
  Port1 <- MCSquareFrom
  Port2 <- MCSquareTo
  Ground <- MCGround
  Place <- MCPlace
  LabelText <- MCLabelText
  MaxLabels = 2
INVARIANTS
  TypeOK
  NamesAreNets
  VoltagesAreKept
PROPERTIES
  OneLabelIsLeft
