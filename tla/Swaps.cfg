CONSTANTS
  A = A
  B = B
  C = C
  None = None
  Node <- ThreeBoxes
  InitNbr <- AllHear
  Starts <- FromLine
  UnroutableMax = 2
  Limit <- SwapsLimit
  Endless = {}
  MaxNet = 3
  Timely = FALSE
SPECIFICATION Spec
INVARIANT TypeOK
INVARIANT OneChangeAtATime
INVARIANT NoTriangle
INVARIANT NoHalfArcsLeft
CHECK_DEADLOCK FALSE
