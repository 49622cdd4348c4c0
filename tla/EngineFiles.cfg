SPECIFICATION KeptSpec
CONSTANTS
  Devices = {1, 2}
  Changes <- AllChanges
  MaxClockDrift = 9
  MaxAncestryEdges = 2
  MaxAncestryWalk = 8
  Retention = 9
  InOrder = FALSE
  Overlap = FALSE
  MayFail = TRUE
  MayGoOffline = FALSE
  MayRollBack = FALSE
  MaxTime = 1
  MaxVersions = 4
  Paths = {p, q}
  Chunks = {a, b}
  Handlers = {r1, r2}
  Quota = 3
  MaxFileRequests = 4
SYMMETRY FileSymmetry
INVARIANTS NoResurrection JarMatchesRecord RefsMatchFiles CompleteIsReadable
CHECK_DEADLOCK FALSE
