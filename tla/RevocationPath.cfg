SPECIFICATION PathSpec
CONSTANTS
  Devices = {1, 2}
  Sockets = {s1, s2}
  EdgeAuth = TRUE
  LeaseTtls = {1}
  Stamps = {0}
  MaxTime = 1
  MaxPublishes = 0
  MaxClockDrift = 9
  MaxRecordHistory = 2
  MaxMutations = 2
  RateWindow = 2
  Enrolled = {1, 2}
  Requests = {r1}
  Drains = {t1}
  MaxAttempts = 3
  MaxFaults = 2
  MaxRestarts = 1
  Nobody = nobody
INVARIANTS PresenceTruthful NoOrphanLease RevokedStaysOut DeliveredIsOut
PROPERTY RevocationTakesHold
CHECK_DEADLOCK FALSE
