SPECIFICATION Spec
CONSTANTS
  adm = adm
  acc = acc
  cli = cli
  r1 = r1
  r2 = r2
  Admin <- MCAdmin
  Accountant <- MCAccountant
  Client <- MCClient
  Case <- MCCase
  Owner <- MCOwner
  Start <- MCStart
  Reference <- MCReference
  Earlier <- MCEarlier
  NONE = NONE
  PageLimit = 1
  MaxMessages = 2
  MaxClicks = 3
INVARIANTS TypeOK WithinSight SentAsMeant
PROPERTY ComesToRest
CHECK_DEADLOCK FALSE
