SPECIFICATION Spec
CONSTANTS
  service = service
  user = user
  Proc = {user}
  Ops <- OnlyOne
  MaxOps = 2
  MaxKills = 1
  MaxEdits = 1
CHECK_DEADLOCK FALSE
INVARIANT UserLinesKept
