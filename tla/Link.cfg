CONSTANTS
  a = a  b = b  c = c
  p1 = p1  p2 = p2  p3 = p3  l1 = l1  l2 = l2  l3 = l3
  Box <- Boxes
  Client = client
  Packet <- Packets
  LongPacket <- LongPackets
  W = 8
  MAX_SEQUENCE_ERROR = 2
  None = none
  Scenarios <- AllScenarios
SPECIFICATION Spec
INVARIANT TypeOK
INVARIANT InOrderOnce
INVARIANT MixtureNeedsTwoLosses
INVARIANT NothingMissing
INVARIANT TallyBounds
INVARIANT TimerCovers
PROPERTY Drains
CHECK_DEADLOCK FALSE
