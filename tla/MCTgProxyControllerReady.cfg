SPECIFICATION Spec
CONSTANTS
  BindMayFail = TRUE
  BindMayLast = FALSE
  WaitsForClients = FALSE
CHECK_DEADLOCK FALSE
INVARIANT ReadyMeansListening
