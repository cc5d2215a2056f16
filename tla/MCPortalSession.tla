--------------------------- MODULE MCPortalSession ---------------------------
EXTENDS PortalSession

CONSTANTS t1, t2, client, admin

MCTab == {t1, t2}
MCAccount == {client, admin}
MCRoleOf == [u \in MCAccount |-> IF u = admin THEN "admin" ELSE "client"]
=============================================================================
