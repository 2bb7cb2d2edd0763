SPECIFICATION Spec
CONSTANTS
  Resource = {f1, f2}
  SizeOf <- SameSize
  MaxSlots = 2
  MaxTable = 1
  MaxTables = 2
  Use = {u1, u2}
  Free = Free
  Elsewhere = Elsewhere
  RawFd = {f1, f2}
  Regular = {f1}
  m1 = m1
  m2 = m2
  Memory = {m1, m2}
  Length <- ShortAndLong
  Wrap = 4
  Offset = {0, 1, 2}
  Cursor = 2
  MaxBusy = 2
  MaxFlying = 1
  MaxAround = 1
INVARIANTS
  UseProtected
  CarriedOut
  RegistrationsStand
SYMMETRY Symmetry
CHECK_DEADLOCK FALSE
