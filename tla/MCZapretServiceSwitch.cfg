SPECIFICATION Spec
CONSTANTS
  Strategy <- TwoStrategies
  Default = "alt13"
  MaxFails = 0
  MaxCommands = 2
  MaxCrashes = 0
CHECK_DEADLOCK FALSE
INVARIANT SwitchTakes
