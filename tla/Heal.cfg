CONSTANTS
  A = A
  B = B
  C = C
  None = None
  Node <- ThreeBoxes
  InitNbr <- AllHear
  Starts <- LineOrLoop
  UnroutableMax = 2
  Limit <- HealLimit
  Endless = {"maint", "expire"}
  MaxNet = 1
  Timely = FALSE
SPECIFICATION LiveSpec
PROPERTY Idle
PROPERTY RoutesSettle
PROPERTY LoopsBreak
