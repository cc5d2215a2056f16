--------------------------- MODULE MCNotifications ---------------------------
(* One call, to one user, to both or to none; u2 has no phone number; callers *)
(* name no channel, name one twice, or all three; e-mail has a provider, SMS  *)
(* has none.  Two calls share nothing but the users who read and delete.      *)
EXTENDS Notifications
CONSTANTS u1, u2, c1
ToNoneOneOrBoth == {<<>>, <<u1>>, <<u2, u1>>}
CallersLists ==
    {<<>>, <<"in_app", "email", "email">>, <<"in_app", "email", "sms">>, <<"sms", "email">>}
OnePhone == {<<u1, "email">>, <<u2, "email">>, <<u1, "sms">>}
=============================================================================
