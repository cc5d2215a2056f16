SPECIFICATION SessionSpec
CONSTANTS
  t1 = t1
  t2 = t2
  client = client
  admin = admin
  Tab <- MCTab
  Account <- MCAccount
  PortalRole = {"admin", "client"}
  RoleOf <- MCRoleOf
  ABSENT = ABSENT
  MaxMoves = 3
INVARIANT SessionTypeOK
PROPERTIES DeadTokensStayDead AppearsConfirmed CheckingEnds RedirectsEnd
CHECK_DEADLOCK FALSE
