SPECIFICATION OutboxSpec
CONSTANTS
  Enrolled = {d1}
  Requests = {r1, r2}
  Drains = {t1}
  MaxAttempts = 2
  MaxFaults = 1
  MaxRestarts = 1
  Nobody = Nobody
INVARIANT NothingStranded
