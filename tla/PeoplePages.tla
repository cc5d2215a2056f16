---------------------------- MODULE PeoplePages ----------------------------
(***************************************************************************)
(* The pages about people and what they are told: notifications, clients,  *)
(* accountants, the profile, and the admin's log of what was done          *)
(* (src/frontend/src/components/{notifications,forms,admin},               *)
(* src/frontend/src/app/admin).  A row is a notification, an account or an *)
(* entry of the log.                                                       *)
(***************************************************************************)
EXTENDS PortalPage

-----------------------------------------------------------------------------
(* components/notifications/NotificationsPage.tsx.  The text of a           *)
(* notification is "typed" once it is read.                                 *)

Read(r) == [row |-> r, text |-> "typed", fill |-> 0]
Unread(rows) == {r \in DOMAIN rows : rows[r] # "typed"}
AllRead(rows) == [r \in DOMAIN rows |-> "typed"]

NotificationsOpen == ListOpens("notifications")
NotificationsLoad ==
    \/ ~Has("loading") /\ UserAsks(Busy(view, {"loading"}), GetList("load"))
    \/ \E q \in Answers("load") : Takes(q, ListTakenOrEmptied(q, view))
NotificationsList == IF Has("loading") THEN {} ELSE DOMAIN view.rows
\* One that is read is only followed to its page.
NotificationsOpenOne ==
    \/ \E r \in NotificationsList \cap Unread(view.rows) : UserAsks(view, Update("read", Read(r)))
    \/ \E q \in Good("read") : Takes(q, [view EXCEPT !.rows = Put(q.row, "typed")])
    \/ \E q \in Bad("read") : Fails(q, view)
NotificationsMarkAll ==
    \/ /\ ~Has("markingAll") /\ Unread(view.rows) # {}
       /\ UserAsks(Busy(view, {"markingAll"}), UpdateAll("all", "typed"))
    \/ \E q \in Good("all") : Takes(q, Free([view EXCEPT !.rows = AllRead(@)], {"markingAll"}))
    \/ \E q \in Bad("all") : Fails(q, Free(view, {"markingAll"}))

NotificationsNext == NotificationsLoad \/ NotificationsOpenOne \/ NotificationsMarkAll

-----------------------------------------------------------------------------
(* components/notifications/NotificationBell.tsx, in the top bar of every   *)
(* dashboard.  number is the count of the unread; one request stands for    *)
(* the list and the count.  The minute's timer loads as "Refresh" does, and *)
(* is counted as a click.                                                   *)

\* Fault: the count may go below zero.
OneLessAlways(n) == n - 1
OneLess(n) == IF n = 0 THEN 0 ELSE n - 1

BellOpen == Opens("bell", Busy([NothingShown EXCEPT !.number = 0], {"loading"}), First("list", NONE))
BellButton == UserDoes([view EXCEPT !.open = ~@])
BellLoad ==
    \/ UserAsks(Busy(view, {"loading"}), GetList("load"))
    \/ \E q \in Answers("load") :
          Takes(q, Free([view EXCEPT !.rows = q.got, !.number = Cardinality(Unread(q.got))], {"loading"}))
BellDropdown == IF view.open THEN DOMAIN view.rows ELSE {}
BellClick ==
    \/ \E r \in BellDropdown :
          IF r \in Unread(view.rows) THEN UserAsks(view, Update("read", Read(r)))
          ELSE UserDoes([view EXCEPT !.open = FALSE])
    \/ \E q \in Good("read") :
          Takes(q, [view EXCEPT !.rows = Put(q.row, "typed"), !.open = FALSE,
                                !.number = OneLess(@)])
    \/ \E q \in Bad("read") : Fails(q, view)
BellMarkAll ==
    \/ /\ view.open /\ ~Has("markingAll") /\ view.number # 0
       /\ UserAsks(Busy(view, {"markingAll"}), UpdateAll("all", "typed"))
    \/ \E q \in Good("all") :
          Takes(q, Free([view EXCEPT !.rows = AllRead(@), !.number = 0], {"markingAll"}))
    \/ \E q \in Bad("all") : Fails(q, Free(view, {"markingAll"}))

BellNext == BellButton \/ BellLoad \/ BellClick \/ BellMarkAll

-----------------------------------------------------------------------------
(* app/admin/clients/page.tsx and app/admin/audit-log/page.tsx.  The effect *)
(* that loads runs again for each change of the search and of the page      *)
(* number; its clean-up cancels the run before, whose answer is ignored.    *)
(* mounted numbers the runs.                                                *)

Run(v) == [v EXCEPT !.mounted = @ + 1]
OfThisRun(q) == q.life = view.mounted
ForRun(q, v) == [q EXCEPT !.life = v.mounted]
RunAsks(v) == Busy([v EXCEPT !.error = FALSE], {"loading"})
\* Fault: nothing is cancelled.
ListOfAnyRun(q) == Free([view EXCEPT !.rows = q.got, !.error = q.state = "failed"], {"loading"})
ListOfRun(q) == IF OfThisRun(q)
                THEN Free([view EXCEPT !.rows = q.got, !.error = q.state = "failed"], {"loading"})
                ELSE view
Pages == ~Has("loading") /\ ~view.error /\ view.rows # Nothing

ClientsOpen == OpensAsking("clients", Busy(NothingShown, {"loading", "timer"}), {})
ClientsRuns(v) == UserAsksAll(Busy(Run(v), {"timer"}), {})
ClientsSearch == \E query \in Query \ {view.asked} : ClientsRuns([view EXCEPT !.asked = query, !.number = 1])
ClientsPage == Pages /\ ClientsRuns([view EXCEPT !.number = 3 - @])
ClientsTimer ==
    Has("timer") /\ TimerAsks(Free(RunAsks(view), {"timer"}), {ForRun(GetFiltered("load", view.asked), view)})
ClientsTaken == \E q \in Answers("load") : Takes(q, ListOfRun(q))

ClientsNext == ClientsSearch \/ ClientsPage \/ ClientsTimer \/ ClientsTaken

AuditLogOpen == ListOpens("audit log")
AuditLogRuns(v) == UserAsks(RunAsks(Run(v)), ForRun(GetFiltered("load", v.asked), Run(v)))
AuditLogFilter == \E query \in Query \ {view.asked} : AuditLogRuns([view EXCEPT !.asked = query, !.number = 1])
AuditLogPage == Pages /\ AuditLogRuns([view EXCEPT !.number = 3 - @])
AuditLogTaken == \E q \in Answers("load") : Takes(q, ListOfRun(q))

AuditLogNext == AuditLogFilter \/ AuditLogPage \/ AuditLogTaken

-----------------------------------------------------------------------------
(* app/admin/clients/[id]/page.tsx: the account and its requests are loaded *)
(* by an effect each.  choices are the requests.                            *)

ClientOpen ==
    OpensAsking("client", Busy(NothingShown, {"loading", "requests"}),
                {First("get", FirstRow), [First("list", NONE) EXCEPT !.op = "requests"]})
ClientLoad == \E q \in Answers("load") : Takes(q, Free([view EXCEPT !.rows = q.got], {"loading"}))
ClientRequests == \E q \in Answers("requests") :
    Takes(q, Free([view EXCEPT !.choices = DOMAIN q.got], {"requests"}))

ClientNext == ClientLoad \/ ClientRequests

-----------------------------------------------------------------------------
(* app/admin/accountants/page.tsx.  at is toggling: the accountant whose    *)
(* button is off.                                                           *)

AccountantsOpen == ListOpens("accountants")
AccountantsTable == ~Has("loading") /\ view.form = NONE
AccountantsModal == \/ view.form = NONE /\ FormOpens(Blank)
                    \/ view.form # NONE /\ (Typing \/ FormCloses)
AccountantsCreate == SavesClosesReloads(view.form # NONE /\ view.form.text # "")
AccountantsToggle ==
    \/ /\ AccountantsTable
       /\ \E r \in DOMAIN view.rows \ {view.at} : UserAsks([view EXCEPT !.at = r], Patch("toggle", r))
    \/ \E q \in Good("toggle") : TakesThenAsks(q, Busy(view, {"loading"}), GetList("toggled"))
    \/ \E q \in Answers("toggled") : Takes(q, [ListTaken(q, view) EXCEPT !.at = NONE])
    \/ \E q \in Bad("toggle") : Fails(q, [view EXCEPT !.at = NONE])

AccountantsNext == LoadTaken \/ AccountantsModal \/ AccountantsCreate \/ AccountantsToggle

-----------------------------------------------------------------------------
(* app/admin/accountants/[id]/page.tsx.  One request stands for the account *)
(* and the two lists beside it, which may fail without it.                  *)

AccountantOpen == Opens("accountant", Busy(NothingShown, {"loading"}), First("get", FirstRow))
AccountantShown == ~Has("loading") /\ FirstRow \in DOMAIN view.rows
\* Fault: setLoading(false) in the try block.
AccountantTakenInTry(q, v) == IF q.state = "ok" THEN Free([v EXCEPT !.rows = q.got], {"loading"}) ELSE v
AccountantTaken(q, v) == Free(IF q.state = "ok" THEN [v EXCEPT !.rows = q.got] ELSE v, {"loading"})
AccountantLoad ==
    \/ AccountantShown /\ UserAsks(Busy(view, {"loading"}), GetRow("load", FirstRow))
    \/ \E q \in Answers("load") : Takes(q, AccountantTaken(q, view))
AccountantStatus ==
    \/ AccountantShown /\ ~Has("status") /\ UserAsks(Busy(view, {"status"}), Patch("status", FirstRow))
    \/ \E q \in Good("status") : TakesThenAsks(q, Busy(view, {"loading"}), GetRow("updated", FirstRow))
    \/ \E q \in Answers("updated") : Takes(q, Free(AccountantTaken(q, view), {"status"}))
    \/ \E q \in Bad("status") : Fails(q, Free(view, {"status"}))

AccountantNext == AccountantLoad \/ AccountantStatus

-----------------------------------------------------------------------------
(* Forms that are a page of their own: app/admin/accountants/create with    *)
(* components/admin/accountant-form.tsx, app/admin/blog/create and          *)
(* app/admin/blog/[id] with components/admin/blog-post-form.tsx.  The form  *)
(* is still there, and its button on again, after router.replace has been   *)
(* called and until the new page is there.                                  *)

EmptyForm == [row |-> NONE, text |-> "", fill |-> 0]
FormReady == view.form # NONE /\ view.form.text # ""
\* Fault: the form is emptied in the finally block.
FormSendsAndEmpties(request, sent) ==
    \/ FormReady /\ ~Has("saving") /\ UserAsks(Busy(view, {"saving"}), request)
    \/ \E q \in Good("save") : Takes(q, Free(sent, {"saving"}))
    \/ \E q \in Bad("save") : Fails(q, Free([view EXCEPT !.form = Blank], {"saving"}))
FormSends(request, sent) ==
    \/ FormReady /\ ~Has("saving") /\ UserAsks(Busy(view, {"saving"}), request)
    \/ \E q \in Good("save") : Takes(q, Free(sent, {"saving"}))
    \/ \E q \in Bad("save") : Fails(q, Free(view, {"saving"}))
Leaves == Has("leaving") /\ UserDoes(NothingShown)
Leaving == Busy(view, {"leaving"})
FormTyping == view.form # NONE /\ Typing

AccountantFormOpen == OpensAsking("accountant form", [NothingShown EXCEPT !.form = EmptyForm], {})
AccountantFormSubmit == FormSends(CreateOnce("save", view.form), Leaving)
AccountantFormNext == FormTyping \/ AccountantFormSubmit \/ Leaves

BlogCreateOpen == OpensAsking("blog create", [NothingShown EXCEPT !.form = EmptyForm], {})
BlogEditOpen == Opens("blog edit", Busy(NothingShown, {"loading"}), First("get", FirstRow))
BlogEditLoad == \E q \in Answers("load") :
    Takes(q, Free([view EXCEPT !.form = IF q.got = Nothing THEN NONE ELSE FormOf(FirstRow, q.got[FirstRow])], {"loading"}))
BlogPostSubmit ==
    FormSends(IF view.form.row = NONE THEN CreateOnce("save", view.form) ELSE Update("save", view.form), Leaving)
BlogPostNext == BlogEditLoad \/ FormTyping \/ BlogPostSubmit \/ Leaves

-----------------------------------------------------------------------------
(* components/forms/profile-form.tsx, in all three portals.  The profile is *)
(* the row of the user.  The form asks for it, but looks for it where       *)
(* neither the answer of /auth/me nor what the login has stored in the      *)
(* browser has it (getProfileFromResponse wants it under "profile", "user"  *)
(* or "data"), so it stays empty until it is typed into.  edits holds the   *)
(* passwords typed into the second form.                                    *)

ProfileInitial(text) == [row |-> FirstRow, text |-> text, fill |-> 0]
ProfileOpen ==
    Opens("profile", Busy([NothingShown EXCEPT !.form = ProfileInitial("")], {"loading"}), First("get", FirstRow))
ProfileLoad == \E q \in Answers("load") : Takes(q, Free(view, {"loading"}))
ProfileUpdateField == ~Has("loading") /\ Typing
ProfileSave ==
    \/ /\ ~Has("loading") /\ ~Has("saving") /\ view.form.text # ""
       /\ UserAsks(Busy(view, {"saving"}), Update("save", view.form))
    \/ \E q \in Good("save") : Takes(q, Free([view EXCEPT !.form.text = q.text], {"saving"}))
    \/ \E q \in Bad("save") : Fails(q, Free(view, {"saving"}))
ProfilePasswordField == /\ ~Has("loading") /\ view.edits = Nothing
                        /\ UserDoes([view EXCEPT !.edits = [r \in {FirstRow} |-> "typed"]])
ProfilePassword ==
    \/ /\ ~Has("loading") /\ ~Has("password") /\ view.edits # Nothing
       /\ UserAsks(Busy(view, {"password"}), Patch("password", FirstRow))
    \/ \E q \in Good("password") : Takes(q, Free([view EXCEPT !.edits = Nothing], {"password"}))
    \/ \E q \in Bad("password") : Fails(q, Free(view, {"password"}))

ProfileNext == ProfileLoad \/ ProfileUpdateField \/ ProfileSave \/ ProfilePasswordField \/ ProfilePassword

=============================================================================
