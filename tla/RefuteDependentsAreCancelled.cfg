SPECIFICATION Spec
CONSTANTS
  b1 = b1
  b2 = b2
  Batches = {b1, b2}
  Size <- TwoAndOne
  Orphan = Orphan
  NoBatch = NoBatch
INVARIANT
  DependentsAreCancelled
CHECK_DEADLOCK FALSE
