SPECIFICATION Spec
CONSTANTS
  Strategy <- TwoStrategies
  Default = "alt13"
  MaxFails = 0
  MaxCommands = 1
  MaxCrashes = 0
CHECK_DEADLOCK FALSE
INVARIANT HostsConnected
