CONSTANTS
  A = A
  B = B
  C = C
  None = None
  Node <- ThreeBoxes
  InitNbr <- AllHear
  Starts <- FromLine
  UnroutableMax = 2
  Limit <- RivalsLimit
  Endless = {}
  MaxNet = 1
  Timely = TRUE
SPECIFICATION Spec
PROPERTY LocksSpec
CHECK_DEADLOCK FALSE
