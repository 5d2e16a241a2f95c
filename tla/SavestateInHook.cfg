CONSTANTS
  a = a
  b = b
  j = j
  s = s
  other = other
  None = None
  BlRets = {a}
  JumpRets = {j}
  SwiRets = {s}
  Elsewhere = other
  CrossRecursion = {}
  MaxCalls = 1
  MaxIrqs = 0
  PresentInPlace = TRUE
SPECIFICATION MCSpec
INVARIANT NativeFollowsGuest
