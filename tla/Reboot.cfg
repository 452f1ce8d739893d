CONSTANTS
  A = A
  B = B
  C = C
  None = None
  Node <- TwoBoxes
  InitNbr <- AllHear
  Starts <- FromFull
  UnroutableMax = 2
  Limit <- RebootLimit
  Endless = {"maint", "silence", "expire"}
  MaxNet = 2
  Timely = FALSE
SPECIFICATION LiveSpec
PROPERTY Heals
