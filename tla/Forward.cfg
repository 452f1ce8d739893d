SPECIFICATION Spec
CONSTANTS
  p = p
  q = q
  r = r
  s = s
  None = None
  Box = {p, q, r, s}
  Frames = 2
  Modulus = 4
  Scenarios <- All
INVARIANT AtMostOnce
INVARIANT Delivered
PROPERTY CalmsDown
CHECK_DEADLOCK FALSE
