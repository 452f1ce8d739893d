CONSTANTS
  A = A
  B = B
  C = C
  Blue = Blue
  Green = Green
  Red = Red
  Unset = Unset
  None = None
  Node <- Boxes
  Nbr <- AllHear
  Stp <- Line
  Via <- LineVia
  Parms <- Colors
  Blank = Unset
  InitParms <- MiddleRed
  Repeats = 2
  Limit <- AllGoLimit
  Timely = TRUE
  Denials = 2
SPECIFICATION LiveSpec
PROPERTY AllOrNone
CHECK_DEADLOCK FALSE
