SPECIFICATION Spec
CONSTANTS
  a = a
  b = b
  x = x
  y = y
  None = None
  Box = {a, b}
  Client = {x, y}
  PerBox = 1
  Across = 3
  MaxFlight = 1
  Scenarios <- Many
INVARIANT TypeOK
INVARIANT EchoNeedsFault
PROPERTY OverlapEnds
PROPERTY Adopted
PROPERTY BoxesAreNoClients
CHECK_DEADLOCK FALSE
