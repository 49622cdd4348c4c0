SPECIFICATION EndsSpec
CONSTANTS
  Devices = {1, 2}
  Sockets = {s1, s2}
  EdgeAuth = FALSE
  LeaseTtls = {}
  Stamps = {1, 2}
  MaxTime = 2
  MaxPublishes = 2
  MaxClockDrift = 9
  MaxRecordHistory = 2
  MaxMutations = 1
  RateWindow = 2
  Cookies = {a, b}
  Rotating = {b}
  MaxWrites = 2
  MaxUpsets = 2
INVARIANTS
  RecordIsNewestVersion HydratedSeesRecord
  ReceivedIsKept GateMeansApplied
PROPERTIES RevokedIsCutOff OnceMeansComplete GateReopens
CHECK_DEADLOCK FALSE
