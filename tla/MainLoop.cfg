SPECIFICATION Spec
CONSTANTS
  Lock = {l1}
  StpWait <- Waits
  EthWait = 3
  AckWait = 1
  PingWait = 1
  PrintWait = 1
  DisableWait = 2
  ScanWait = 2
  LockWait = 1
  Scenarios <- Few
INVARIANT TypeOK
INVARIANT AlarmCovers
INVARIANT NothingForgotten
INVARIANT NothingStops
PROPERTY Handled
PROPERTY LocksExpire
