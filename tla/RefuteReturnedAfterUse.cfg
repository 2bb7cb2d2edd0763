SPECIFICATION Spec
CONSTANTS
  MaxOps = 3
  BlockAfter = 1
  NoOp = NoOp
INVARIANT
  ReturnedAfterUse
CHECK_DEADLOCK FALSE
