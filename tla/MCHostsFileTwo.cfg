SPECIFICATION Spec
CONSTANTS
  service = service
  user = user
  Proc = {service, user}
  Ops <- BothApply
  MaxOps = 3
  MaxKills = 0
  MaxEdits = 0
CHECK_DEADLOCK FALSE
INVARIANT BlockGone
