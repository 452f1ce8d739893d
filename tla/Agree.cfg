CONSTANTS
  A = A
  B = B
  C = C
  Blue = Blue
  Green = Green
  Red = Red
  Unset = Unset
  None = None
  Node <- Boxes
  Nbr <- AllHear
  Stp <- Line
  Via <- LineVia
  Parms <- Colors
  Blank = Unset
  InitParms <- AllBlue
  Repeats = 1
  Limit <- AgreeLimit
  Timely = TRUE
  Denials = 1
SPECIFICATION Spec
INVARIANT TypeOK
INVARIANT OneLock
INVARIANT Agreement
PROPERTY GoNeedsEveryLock
CHECK_DEADLOCK FALSE
