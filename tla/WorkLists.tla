----------------------------- MODULE WorkLists -----------------------------
(***************************************************************************)
(* The lists of cases and the dashboards of the three portals              *)
(* (src/frontend/src/app/{accountant,admin,client}).  A row stands for a   *)
(* request, an assignment or a consultation, its text for its status, and  *)
(* "typed" for the status the user chooses.                                *)
(***************************************************************************)
EXTENDS PortalPage

ChosenStatus(r) == [row |-> r, text |-> "typed", fill |-> 0]

\* setUpdating(id); await api.patch; the status is put into the list; finally setUpdating(null).
\* at is updating: the row whose select is off.
StatusPutIntoList(rows) ==
    \/ \E r \in rows \ {view.at} : UserAsks([view EXCEPT !.at = r], Update("status", ChosenStatus(r)))
    \/ \E q \in Good("status") :
          Takes(q, [view EXCEPT !.rows = Put(q.row, q.text), !.at = NONE])
    \/ \E q \in Bad("status") : Fails(q, [view EXCEPT !.at = NONE])

-----------------------------------------------------------------------------
(* app/accountant/dashboard/page.tsx.  "Refresh" leaves the loading flag    *)
(* alone, so it can be pressed again, and the list worked on, meanwhile.    *)

AccountantDashboardOpen == ListOpens("accountant dashboard")
AccountantDashboardRefresh == ~Has("loading") /\ UserAsks(view, GetList("load"))
AccountantDashboardMatching == Matching
AccountantDashboardList == IF Has("loading") THEN {} ELSE AccountantDashboardMatching
AccountantDashboardStatus == StatusPutIntoList(AccountantDashboardList)

AccountantDashboardNext == LoadTaken \/ AccountantDashboardRefresh \/ Search \/ AccountantDashboardStatus

-----------------------------------------------------------------------------
(* app/accountant/assigned-work/page.tsx *)

AssignedListOpen == ListOpens("assigned list")
AssignedListRefresh == ~Has("loading") /\ UserAsks(view, GetList("load"))
AssignedListMatching == Matching
AssignedListList == IF Has("loading") THEN {} ELSE AssignedListMatching
AssignedListStatus == StatusPutIntoList(AssignedListList)

AssignedListNext == LoadTaken \/ AssignedListRefresh \/ Search \/ AssignedListStatus

-----------------------------------------------------------------------------
(* app/accountant/consultation/page.tsx.  A failed load shows an error      *)
(* instead of the list, with a button to try again.                         *)

AccountantConsultationsOpen == ListOpens("accountant consultations")
AccountantConsultationsLoad ==
    \/ ~Has("loading") /\ UserAsks(Busy([view EXCEPT !.error = FALSE], {"loading"}), GetList("load"))
    \/ \E q \in Good("load") : Takes(q, ListTakenOrEmptied(q, view))
    \/ \E q \in Bad("load") : Takes(q, ListTakenOrEmptied(q, [view EXCEPT !.error = TRUE]))
AccountantConsultationsMatching == Matching
AccountantConsultationsList ==
    IF Has("loading") \/ view.error THEN {} ELSE AccountantConsultationsMatching
AccountantConsultationsStatus == StatusPutIntoList(AccountantConsultationsList)

AccountantConsultationsNext == AccountantConsultationsLoad \/ Search \/ AccountantConsultationsStatus

-----------------------------------------------------------------------------
(* app/admin/consultations/page.tsx.  A change of a status reloads the list *)
(* before the select is free again.                                         *)

AdminConsultationsOpen == ListOpens("admin consultations")
AdminConsultationsLoad == UserAsks(Busy(view, {"loading"}), GetList("load")) \/ LoadTaken
AdminConsultationsFiltered == Matching
AdminConsultationsList == IF Has("loading") THEN {} ELSE AdminConsultationsFiltered
AdminConsultationsStatus ==
    \/ \E r \in AdminConsultationsList \ {view.at} :
          UserAsks([view EXCEPT !.at = r], Update("status", ChosenStatus(r)))
    \/ \E q \in Good("status") : TakesThenAsks(q, Busy(view, {"loading"}), GetList("updated"))
    \/ \E q \in Answers("updated") : Takes(q, [ListTaken(q, view) EXCEPT !.at = NONE])
    \/ \E q \in Bad("status") : Fails(q, [view EXCEPT !.at = NONE])

AdminConsultationsNext == AdminConsultationsLoad \/ Search \/ AdminConsultationsStatus

-----------------------------------------------------------------------------
(* app/admin/requests/page.tsx.  What is typed is asked for by a timer,     *)
(* which the next change sets anew; a change of the page number asks at     *)
(* once, also the one the timer makes.  The list takes every answer as it   *)
(* comes, whatever it was asked for.                                        *)

AdminRequestsAsks(op) == GetFiltered(op, view.asked)
AdminRequestsOpen ==
    Opens("admin requests", Busy(NothingShown, {"loading", "timer"}), First("list", NONE))
AdminRequestsFilter == \E query \in Query \ {view.asked} :
    UserAsksAll(Busy([view EXCEPT !.asked = query], {"timer"}), {})
AdminRequestsTimer ==
    /\ Has("timer")
    /\ TimerAsks(Free(Busy([view EXCEPT !.number = 1], {"loading"}), {"timer"}),
                 {AdminRequestsAsks(op) : op \in {"load"} \cup (IF view.number = 1 THEN {} ELSE {"number"})})
AdminRequestsPage == /\ ~Has("loading")
                     /\ UserAsks(Busy([view EXCEPT !.number = 3 - @], {"loading"}), AdminRequestsAsks("number"))
AdminRequestsTaken == LoadTaken \/ \E q \in Answers("number") : Takes(q, ListTaken(q, view))

AdminRequestsNext == AdminRequestsFilter \/ AdminRequestsTimer \/ AdminRequestsPage \/ AdminRequestsTaken

-----------------------------------------------------------------------------
(* app/admin/dashboard/page.tsx.  Three requests at a time; the page is     *)
(* made of what came once all three are settled.                            *)

DashboardAsks(q) == {[q EXCEPT !.op = op] : op \in {"stats", "load", "consultations"}}
AdminDashboardOpen ==
    OpensAsking("admin dashboard", Busy(NothingShown, {"loading"}), DashboardAsks(First("list", NONE)))
AdminDashboardShown == ~Has("loading")
AdminDashboardRefresh == /\ AdminDashboardShown /\ ~Has("refreshing")
                         /\ UserAsksAll(Busy(view, {"refreshing"}), DashboardAsks(GetList("load")))
AdminDashboardTaken ==
    /\ flight # {} /\ \A q \in flight : q.state # "sent"
    /\ \E q \in Answers("load") :
         view' = Free([view EXCEPT !.rows = q.got], {"loading", "refreshing"})
    /\ flight' = {}
    /\ UNCHANGED <<page, server, ledger, clicks>>

AdminDashboardNext == AdminDashboardRefresh \/ AdminDashboardTaken

-----------------------------------------------------------------------------
(* app/client/requests/page.tsx and app/client/dashboard/page.tsx.  Two     *)
(* addresses of the same list are tried in turn; a list that did not come   *)
(* from either empties what was shown.                                      *)

TriesTheOther(op, other) == \E q \in Bad(op) : TakesThenAsks(q, view, GetList(other))
Settled(op, other) == Good(op) \cup Answers(other)

ClientRequestsOpen == ListOpens("client requests")
ClientRequestsShown == ~Has("loading")
ClientRequestsTaken(q, v) ==
    [Free(ListTakenOrEmptied(q, v), {"refreshing"}) EXCEPT !.error = q.state = "failed"]
ClientRequestsLoad ==
    \/ /\ ClientRequestsShown /\ ~Has("refreshing")
       /\ UserAsks(Busy([view EXCEPT !.error = FALSE], {"refreshing"}), GetList("load"))
    \/ TriesTheOther("load", "fallback")
    \/ \E q \in Settled("load", "fallback") : Takes(q, ClientRequestsTaken(q, view))

ClientRequestsNext == ClientRequestsLoad

ClientDashboardOpen == ListOpens("client dashboard")
ClientDashboardLoad ==
    \/ TriesTheOther("load", "fallback")
    \/ \E q \in Settled("load", "fallback") : Takes(q, ListTakenOrEmptied(q, view))

ClientDashboardNext == ClientDashboardLoad

=============================================================================
