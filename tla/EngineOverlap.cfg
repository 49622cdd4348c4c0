SPECIFICATION Spec
CONSTANTS
  Devices = {1, 2}
  Changes <- LoginLogout
  MaxClockDrift = 9
  MaxAncestryEdges = 8
  MaxAncestryWalk = 8
  Retention = 9
  InOrder = TRUE
  Overlap = TRUE
  MayFail = FALSE
  MayGoOffline = FALSE
  MayRollBack = FALSE
  MaxTime = 2
  MaxVersions = 3
INVARIANTS NoResurrection
CHECK_DEADLOCK FALSE
