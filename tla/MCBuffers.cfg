SPECIFICATION BuffersSpec
CONSTANTS
  Thread = {t1, t2}
  Buffer = {b1, b2, b3}
  MaxCount = 3
  Wrap = 4
  Counts = {1, 2, 3, 4, 5, 6}
  MaxFree = 5
INVARIANTS
  OneOwner
  Accounting
  IndexHasOneOwner
PROPERTY
  BlockedGets
CHECK_DEADLOCK FALSE
