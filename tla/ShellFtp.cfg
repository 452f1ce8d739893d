SPECIFICATION Spec
CONSTANTS
  Tries = 3
  MaxErrors = 2
  Scenarios <- Some
INVARIANT NoMixture
INVARIANT Complete
INVARIANT PrintedInOrder
INVARIANT NotDeaf
PROPERTY PutEnds
CHECK_DEADLOCK FALSE
