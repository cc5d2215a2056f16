----------------------------- MODULE CasePages -----------------------------
(***************************************************************************)
(* The pages that show one case and work on it: the accountant's assigned  *)
(* work, the admin's service request and consultation.  The row of the     *)
(* page is the one its address names (FirstRow).                           *)
(***************************************************************************)
EXTENDS PortalPage

RowOpens(p) == Opens(p, Busy(NothingShown, {"loading"}), First("get", FirstRow))

\* What the page shows of the row once an answer to its load came: setX(result.data).
ShowsRow(q, v) == [v EXCEPT !.rows = q.got]

-----------------------------------------------------------------------------
(* app/accountant/assigned-work/[id]/page.tsx.  When the assignment cannot  *)
(* be had by its id, the page looks for it in the list of all.  Its         *)
(* documents are asked for once the service request is known; without them  *)
(* the page shows none.                                                     *)

AssignedWorkOpen == RowOpens("assigned work")
AssignedWorkDetail(q) == Restrict(q.got, DOMAIN q.got \cap {FirstRow})
AssignedWorkControls == ~Has("loading") /\ FirstRow \in DOMAIN view.rows

AssignedWorkFound(q, v) ==
    TakesThenAsks(q, Busy([v EXCEPT !.rows = AssignedWorkDetail(q)], {"documents"}),
                  GetList("documents"))
AssignedWorkLoad ==
    \/ AssignedWorkControls /\ UserAsks(Busy(view, {"loading"}), GetRow("load", FirstRow))
    \/ \E q \in Good("load") : AssignedWorkFound(q, view)
    \/ \E q \in Bad("load") : TakesThenAsks(q, view, GetList("fallback"))
    \/ \E q \in Good("fallback") : AssignedWorkDetail(q) # Nothing /\ AssignedWorkFound(q, view)
    \/ \E q \in Answers("fallback") :
          /\ AssignedWorkDetail(q) = Nothing
          /\ Takes(q, Free([view EXCEPT !.rows = Nothing], {"loading"}))
AssignedWorkDocuments ==
    \E q \in Answers("documents") : Takes(q, Free(view, {"documents", "loading"}))
AssignedWorkStatus ==
    \/ AssignedWorkControls /\ ~Has("status")
       /\ UserAsks(Busy(view, {"status"}), Patch("status", FirstRow))
    \/ \E q \in Good("status") : Takes(q, Free(view, {"status"}))
    \/ \E q \in Bad("status") : Fails(q, Free(view, {"status"}))

AssignedWorkNext == AssignedWorkLoad \/ AssignedWorkDocuments \/ AssignedWorkStatus

-----------------------------------------------------------------------------
(* app/admin/requests/[id]/page.tsx.  Four cards work on the request; each  *)
(* has state of its own and lives only while the request is shown.  A       *)
(* reload shows "Loading request" instead, so the cards are unmounted and   *)
(* start afresh: mounted numbers their lives, and an answer is none of the  *)
(* cards' business when it was asked for in an earlier life.                *)

RequestOpen == RowOpens("request")
RequestCards == ~Has("loading") /\ FirstRow \in DOMAIN view.rows
CardFlags == {"accountants", "status", "assigning", "uploading", "sending"}
Unmounted(v) == Free([v EXCEPT !.form = NONE, !.section = NONE], CardFlags)
Own(q) == RequestCards /\ q.life = view.mounted

\* The cards appear with the answer, unless an earlier one has brought them back already, and
\* AssignAccountantCard asks for the accountants when it appears.
RequestLoad ==
    \/ \E q \in Good("load") :
          IF RequestCards THEN Takes(q, ShowsRow(q, view))
          ELSE LET n == view.mounted + 1
                   v == [Free(ShowsRow(q, view), {"loading"}) EXCEPT !.mounted = n] IN
               TakesThenAsks(q, Busy(v, {"accountants"}), [GetList("accountants") EXCEPT !.life = n])
    \/ \E q \in Bad("load") :
          Takes(q, Free([Unmounted(view) EXCEPT !.rows = Nothing], {"loading"}))
RequestReloads(q, v) == TakesThenAsks(q, Busy(Unmounted(v), {"loading"}), GetRow("load", FirstRow))

\* setRequest(result.data), then the reload.
UpdateStatus ==
    \/ RequestCards /\ ~Has("status") /\ UserAsks(Busy(view, {"status"}), Patch("status", FirstRow))
    \/ \E q \in Good("status") : RequestReloads(q, ShowsRow(q, view))
    \/ \E q \in Bad("status") : Fails(q, IF Own(q) THEN Free(view, {"status"}) ELSE view)

UploadDocument ==
    \/ RequestCards /\ ~Has("uploading") /\ UserAsks(Busy(view, {"uploading"}), Patch("upload", FirstRow))
    \/ \E q \in Good("upload") : RequestReloads(q, view)
    \/ \E q \in Bad("upload") : Fails(q, IF Own(q) THEN Free(view, {"uploading"}) ELSE view)

AssignAccountants ==
    \E q \in Answers("accountants") :
       Takes(q, IF Own(q) THEN Free([view EXCEPT !.section = IF q.state = "ok" THEN FirstRow ELSE NONE], {"accountants"})
                ELSE view)
AssignAccountant ==
    \/ /\ RequestCards /\ ~Has("assigning") /\ ~Has("accountants") /\ view.section # NONE
       /\ UserAsks(Busy(view, {"assigning"}), Patch("assign", FirstRow))
    \/ \E q \in Good("assign") : RequestReloads(q, view)
    \/ \E q \in Bad("assign") : Fails(q, IF Own(q) THEN Free(view, {"assigning"}) ELSE view)

\* components/documents/AdminRequestClientDocumentUploadCard.tsx: a form over the page.
RequestUploadForm == \/ RequestCards /\ view.form = NONE /\ FormOpens(Blank)
                     \/ view.form # NONE /\ ~Has("sending") /\ FormCloses
RequestUploadFields == view.form # NONE /\ Typing
RequestUploadSend ==
    \/ /\ view.form # NONE /\ view.form.text # "" /\ ~Has("sending")
       /\ UserAsks(Busy(view, {"sending"}), Create("send", view.form))
    \/ \E q \in Good("send") : Takes(q, IF Own(q) THEN Free([view EXCEPT !.form = NONE], {"sending"}) ELSE view)
    \/ \E q \in Bad("send") : Fails(q, IF Own(q) THEN Free(view, {"sending"}) ELSE view)

RequestNext == \/ RequestLoad \/ UpdateStatus \/ UploadDocument \/ AssignAccountants \/ AssignAccountant
               \/ RequestUploadForm \/ RequestUploadFields \/ RequestUploadSend

-----------------------------------------------------------------------------
(* app/admin/consultations/[id]/page.tsx.  The form holds the whole         *)
(* consultation; every load, also the one after a change of the status,     *)
(* fills it in anew.  While a load runs the form is not there.              *)

ConsultationOpen == RowOpens("consultation")
ConsultationShown == ~Has("loading") /\ FirstRow \in DOMAIN view.rows
ConsultationToForm(q) == FormOf(FirstRow, q.got[FirstRow])

ConsultationTaken(q, v) ==
    Free(IF q.state = "ok" THEN [ShowsRow(q, v) EXCEPT !.form = ConsultationToForm(q)] ELSE v, {"loading"})
ConsultationLoad ==
    \/ ConsultationShown /\ UserAsks(Busy(view, {"loading"}), GetRow("load", FirstRow))
    \/ \E q \in Answers("load") : Takes(q, ConsultationTaken(q, view))
ConsultationUpdateForm == ConsultationShown /\ Typing
ConsultationSaves(what, op, q0) ==
    \/ ConsultationShown /\ ~Has(what) /\ UserAsks(Busy(view, {what}), q0)
    \/ \E q \in Good(op) : TakesThenAsks(q, Busy(view, {"loading"}), GetRow(what, FirstRow))
    \/ \E q \in Answers(what) : Takes(q, Free(ConsultationTaken(q, view), {what}))
    \/ \E q \in Bad(op) : Fails(q, Free(view, {what}))
ConsultationSaveDetails == ConsultationSaves("savingDetails", "save", Update("save", view.form))
ConsultationSaveStatus == ConsultationSaves("savingStatus", "status", Patch("status", FirstRow))
\* When it is deleted the page is left: router.replace(routes.admin.consultations).
ConsultationDelete ==
    \/ ConsultationShown /\ ~Has("deleting") /\ UserAsks(Busy(view, {"deleting"}), Delete("delete", FirstRow))
    \/ \E q \in Good("delete") : Takes(q, Free(view, {"deleting"}))
    \/ \E q \in Bad("delete") : Fails(q, Free(view, {"deleting"}))

ConsultationNext == \/ ConsultationLoad \/ ConsultationUpdateForm \/ ConsultationSaveDetails
                    \/ ConsultationSaveStatus \/ ConsultationDelete

=============================================================================
