SPECIFICATION Spec
CONSTANTS
  service = service
  user = user
  Proc = {service, user}
  Ops <- ApplyAndRemove
  MaxOps = 5
  MaxKills = 2
  MaxEdits = 2
CHECK_DEADLOCK FALSE
INVARIANTS EditsSurvive AllOrNothing BlockGone ApplyEffective OneLineMore
