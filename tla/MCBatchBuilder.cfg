SPECIFICATION ValidationSpec
CONSTANTS
  MaxOperations = 4
  Asked <- OfThree
INVARIANTS
  NoCycle
  CyclesAreFound
  OrderIsTopological
PROPERTY
  Implements
