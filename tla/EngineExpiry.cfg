SPECIFICATION Spec
CONSTANTS
  Devices = {1, 2}
  Changes <- AllChanges
  MaxClockDrift = 9
  MaxAncestryEdges = 8
  MaxAncestryWalk = 8
  Retention = 9
  InOrder = TRUE
  Overlap = FALSE
  MayFail = FALSE
  MayGoOffline = FALSE
  MayRollBack = FALSE
  MaxTime = 1
  MaxVersions = 4
INVARIANT Convergence
CHECK_DEADLOCK FALSE
