SPECIFICATION LinkSpec
CONSTANTS
  Devices = {1, 2}
  Changes <- LoginLogout
  MaxClockDrift = 9
  MaxAncestryEdges = 8
  MaxAncestryWalk = 8
  Retention = 9
  InOrder = TRUE
  Overlap = FALSE
  MayFail = FALSE
  MayGoOffline = FALSE
  MayRollBack = FALSE
  MaxTime = 2
  MaxVersions = 4
  Aways = {a}
  Keep = 2
  MaxOutput = 2
  MaxDials = 2
  MaxAsks = 3
  MaxSeatMoves = 1
  Travellers = {d}
  HomeMac = home
  MaxHomeSockets = 3
  MaxAwaySockets = 2
  MaxMishaps = 2
INVARIANTS
  Convergence PostLogoutChainConverges
  RepliesInStep GapReplayedIfCountTrue
  HomeIsNewest ConnsAgree
PROPERTIES AskIsAnswered AwayGetsThrough
CHECK_DEADLOCK FALSE
