SPECIFICATION Spec
CONSTANTS
  Devices = {1, 2}
  Changes <- LoginLogout
  MaxClockDrift = 9
  MaxAncestryEdges = 8
  MaxAncestryWalk = 8
  Retention = 0
  InOrder = TRUE
  Overlap = FALSE
  MayFail = TRUE
  MayGoOffline = TRUE
  MayRollBack = TRUE
  MaxTime = 2
  MaxVersions = 3
INVARIANTS NoResurrection
CHECK_DEADLOCK FALSE
