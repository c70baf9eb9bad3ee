SPECIFICATION FairSpec
CONSTANTS
  Client = {a, b}
  Key = {dc2, dc5}
  Configured = {dc2}
  HasDefaultIp = {dc2}
  UseCf = TRUE
  CfFirst = TRUE
  ConnectTimeout = 1
  FailTimeout = 0
  Cooldown = 3
  MaxTime = 2
CHECK_DEADLOCK FALSE
INVARIANTS StatsAgree OneUpstream BlacklistJustified GivesUpAfterAll
PROPERTIES SetupBounded SetupEnds
