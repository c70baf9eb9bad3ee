SPECIFICATION FairSpec
CONSTANTS
  Client = {a}
  Key = {dc2}
  Configured = {dc2}
  HasDefaultIp = {dc2}
  UseCf = TRUE
  CfFirst = TRUE
  ConnectTimeout = 1
  FailTimeout = 0
  Cooldown = 3
  MaxTime = 5
CHECK_DEADLOCK FALSE
PROPERTY CooldownAhead
