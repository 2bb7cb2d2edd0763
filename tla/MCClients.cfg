SPECIFICATION ClientsSpec
CONSTANTS
  Available = 4
  Room = 3
  MaxAsk = 2
  MaxReads = 2
  Size = 2
  MaxBytes = 3
  MaxOffer = 2
  Op = {o1, o2, o3}
  BlockAfter = 2
  None = None
INVARIANTS
  StreamIntact
  FlushedOnWire
  FirstInOrder
PROPERTY
  AwaitedResolves
CHECK_DEADLOCK FALSE
