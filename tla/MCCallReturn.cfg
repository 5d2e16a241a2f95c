CONSTANTS
  a = a
  b = b
  j = j
  s = s
  other = other
  None = None
  BlRets = {a, b}
  JumpRets = {j}
  SwiRets = {s}
  Elsewhere = other
  CrossRecursion = {}
  MaxCalls = 5
  MaxIrqs = 2
  PresentInPlace = FALSE
SPECIFICATION MCSpec
INVARIANTS TypeOK NativeFollowsGuest StackFollowsGuest WaitingSitesKnown
PROPERTIES ReturnsTakeTheTop InterruptedFramesKept IrqLeavesNoFrames
