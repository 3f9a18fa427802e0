\* Two hooks and two daemons, each of which may come, go, hang or be killed.
CONSTANTS
  c1 = c1
  c2 = c2
  d1 = d1
  d2 = d2
  d3 = d3
  Clients = {c1, c2}
  Daemons = {d1, d2}
  Isolated = {d2}
  PeersVerified = TRUE
  SlowPings = TRUE
  HookHasKey = TRUE
  None = None
  MaxCalls = 2
  MaxFailures = 1
SPECIFICATION FairSpec
INVARIANTS
  TypeOK
  AnsweredMeansOnce
  AtMostTwice
  LostMeansLost
  SoleRecorder
PROPERTY AppendReturns
CHECK_DEADLOCK FALSE
