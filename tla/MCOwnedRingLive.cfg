SPECIFICATION FairSpec
CONSTANTS
  Buf = {b1, b2}
  MaxSub = 2
  MaxHandles = 1
  NoBuf = NoBuf
  LateErrors = FALSE
PROPERTIES
  CompletedFutureResolves
