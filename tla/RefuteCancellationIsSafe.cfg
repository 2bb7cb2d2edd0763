SPECIFICATION Spec
CONSTANTS
  Buf = {b1, b2}
  MaxSub = 2
  MaxHandles = 2
  NoBuf = NoBuf
  LateErrors = FALSE
INVARIANT
  CancellationIsSafe
CHECK_DEADLOCK FALSE
