CONSTANTS
  A = A
  B = B
  C = C
  Blue = Blue
  Green = Green
  Red = Red
  Unset = Unset
  None = None
  Node <- Boxes
  Nbr <- Line
  Stp <- Line
  Via <- LineVia
  Parms <- Colors
  Blank = Unset
  InitParms <- AllBlue
  Repeats = 1
  Limit <- FarLimit
  Timely = TRUE
  Denials = 1
SPECIFICATION Spec
PROPERTY GoNeedsEveryLock
CHECK_DEADLOCK FALSE
