SPECIFICATION ProcessFairSpec
CONSTANTS
  a = a
  b = b
  Handler = {h1, h2}
  Dc = {dc2, dc9}
  KnownDc = {dc2}
  Domain = {a, b}
  Defaults <- TwoDefaults
  Fetched <- SomeFetched
  BindMayFail = TRUE
  BindMayLast = TRUE
  WaitsForClients = TRUE
  Mine = {"mine", "older"}
  Drawn = "cli"
  New <- TwoNew
CHECK_DEADLOCK FALSE
INVARIANTS StopClosesListener EachTriedOnce SecretIsKept
PROPERTIES StopEnds StartedIsSet WorkingDomainKept
