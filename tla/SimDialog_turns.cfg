SPECIFICATION Spec
CONSTANTS
  s1 = s1
  s2 = s2
  d1 = d1
  d2 = d2
  nosim = nosim
  Sim <- MCWindows
  NoSim = nosim
  Doc <- MCDocs
  TextDoc <- MCTextDoc
  OptDoc <- MCOptDoc
  MaxEdits = 1
  Faults <- MCUnnoticed
  Patient = TRUE
CHECK_DEADLOCK FALSE
INVARIANTS
  TypeOK
  ResultIsOwn
