SPECIFICATION BackendsSpec
CONSTANTS
  socket = socket
  pipe = pipe
  disk = disk
  Fd = {3, 4}
  File = {socket, pipe, disk}
  Regular = {disk}
  Blocking = {pipe}
  NoFile = NoFile
  MaxOps = 2
  MaxEvents = 2
  Machine <- Machines
  MaxCalls = 1
  None = None
INVARIANTS
  EventComes
  DetectionGrows
  OptimalFits
  TaskrunIsRefused
PROPERTIES
  ExecutesWhenReady
  ReadyCompletes
CHECK_DEADLOCK FALSE
