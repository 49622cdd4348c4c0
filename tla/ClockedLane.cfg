SPECIFICATION PartsSpec
CONSTANTS
  Devices = {1, 2}
  MaxClockDrift = 1
  MaxWall = 3
  MaxIssued = 2
  MaxLogical = 1
  MaxBoots = 1
  Rotating = TRUE
  MaxChanges = 2
  MaxLinks = 2
  MaxTime = 2
  MaxFlight = 1
  MaxRecordHistory = 1
  MaxMutations = 1
  RateWindow = 1
INVARIANTS
  SendsAscend MergedPrecedesIssued
  WriteStaysInHand GrantBacked WaiterHasPending
CHECK_DEADLOCK FALSE
