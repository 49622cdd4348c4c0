SPECIFICATION ServiceSpec
CONSTANTS
  Conns = {c1}
  MaxLines = 1
  LagCapacity = 1
  ChunkSizes = {1}
  Breaks = {1, 2, 3}
  MaxBytes = 3
  MaxReads = 2
  MaxCaptured = 1
  MaxLaunches = 2
  MaxFaults = 1
  MaxTransferFaults = 1
  MaxProgress = 1
INVARIANTS ExitToldOnce CancelKeepsOut
PROPERTIES ServedInOrder ExitToldInTheEnd PumpCatchesUp CancelLands
CHECK_DEADLOCK FALSE
