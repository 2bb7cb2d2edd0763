SPECIFICATION Spec
CONSTANTS
  Buf = {b1, b2}
  MaxSub = 2
  MaxHandles = 2
  NoBuf = NoBuf
  LateErrors = TRUE
SYMMETRY BufSymmetry
INVARIANTS
  KernelBuffersAlive
  CompletionAccounted
  OrphanAccounted
  WakeupArmed
  HotPotato
  ResultFidelity
PROPERTIES
  OrphanReleasedAtDrain
  Implements
