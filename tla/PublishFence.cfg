SPECIFICATION LaneSpec
CONSTANTS
  Rotating = TRUE
  MaxChanges = 2
  MaxLinks = 2
  MaxTime = 2
  MaxFlight = 1
  MaxClockDrift = 9
  MaxRecordHistory = 1
  MaxMutations = 1
  RateWindow = 1
INVARIANT FenceMeansStored

CHECK_DEADLOCK FALSE
