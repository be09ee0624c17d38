SPECIFICATION Spec
CONSTANTS
  top = top
  left = left
  right = right
  bottom = bottom
  tail = tail
  gnd4 = gnd4
  Nodes <- MCFive
  Wire <- MCWithTail
  Port1 <- MCFrom
  Port2 <- MCTo
  Ground <- MCNoGround
  Place <- MCNoPlace
  LabelText <- MCTwoNames
  MaxLabels = 2
INVARIANT EachNetOneLabel
