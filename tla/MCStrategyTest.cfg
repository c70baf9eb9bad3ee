SPECIFICATION TestFairSpec
CONSTANTS
  Strategy <- TwoStrategies
  Default = "alt13"
  MaxFails = 1
  MaxCommands = 3
  MaxCrashes = 1
CHECK_DEADLOCK FALSE
INVARIANTS TypeOK RulesExact StopLeavesNothing LoadedIsFile HostsOffRespected TestRestores
PROPERTIES Recovers CommandsEnd
