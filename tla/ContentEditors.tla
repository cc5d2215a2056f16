--------------------------- MODULE ContentEditors ---------------------------
(***************************************************************************)
(* The admin's pages that keep the content of the public site: one list,   *)
(* loaded whole, and a form over it (src/frontend/src/app/admin).          *)
(*                                                                         *)
(* Each handler is one definition: its first disjunct is the click, with   *)
(* the checks made before the request, the others are what is done at the  *)
(* await points, in the order of the code.  *Table and *Form say when the  *)
(* markup offers the buttons of the rows and those of the form: the form   *)
(* lies over the whole page, so the rows cannot be clicked behind it.      *)
(***************************************************************************)
EXTENDS PortalPage

-----------------------------------------------------------------------------
(* components/admin/image-upload-field.tsx: the picture of a form.  The     *)
(* address the upload returns is put into whatever form is open by then.   *)

ImageUploads(form, disabled) ==
    \/ /\ form /\ ~disabled /\ ~Has("uploading")
       /\ UserAsks(Busy(view, {"uploading"}), Upload("upload", view.form))
    \/ \E q \in Answers("upload") : LET own == view.form # NONE /\ view.form.fill = q.fill
                                         v == IF own THEN Free(view, {"uploading"}) ELSE view IN
          Takes(q, IF q.state = "ok" /\ view.form # NONE THEN [v EXCEPT !.form.text = "typed"] ELSE v)

-----------------------------------------------------------------------------
(* app/admin/staff/page.tsx *)

StaffOpen == ListOpens("staff")
StaffEmpty == Blank
StaffToForm(r) == FormOf(r, view.rows[r])
StaffTable == ~Has("loading") /\ view.form = NONE
StaffForm == view.form # NONE

StaffModal == \/ view.form = NONE /\ FormOpens(StaffEmpty)
              \/ StaffTable /\ \E r \in DOMAIN view.rows : FormOpens(StaffToForm(r))
              \/ StaffForm /\ FormCloses
StaffUpdateForm == StaffForm /\ Typing
StaffSave == SavesReloadsCloses(StaffForm /\ view.form.text # "")
StaffDelete == \/ StaffTable /\ \E r \in DOMAIN view.rows : UserAsks(view, Delete("delete", r))
               \/ ReloadsAfter("delete")
\* Three buttons, one flag each; every request sends the other two as the list showed them.
StaffToggle == \/ /\ StaffTable
                  /\ \E r \in DOMAIN view.rows : UserAsks(view, Patch("toggle", r))
               \/ ReloadsAfter("toggle")

StaffNext == \/ LoadTaken \/ StaffModal \/ StaffUpdateForm \/ StaffSave \/ StaffDelete \/ StaffToggle
             \/ ImageUploads(StaffForm, Has("saving"))

-----------------------------------------------------------------------------
(* app/admin/testimonials/page.tsx *)

TestimonialsOpen == ListOpens("testimonials")
TestimonialsEmpty == Blank
TestimonialsToForm(r) == FormOf(r, view.rows[r])
TestimonialsTable == ~Has("loading") /\ view.form = NONE
TestimonialsForm == view.form # NONE

TestimonialsModal == \/ view.form = NONE /\ FormOpens(TestimonialsEmpty)
                     \/ TestimonialsTable /\ \E r \in DOMAIN view.rows : FormOpens(TestimonialsToForm(r))
                     \/ TestimonialsForm /\ FormCloses
TestimonialsUpdateForm == TestimonialsForm /\ Typing
TestimonialsSave == SavesReloadsCloses(TestimonialsForm /\ view.form.text # "")
TestimonialsDelete ==
    \/ TestimonialsTable /\ \E r \in DOMAIN view.rows : UserAsks(view, Delete("delete", r))
    \/ ReloadsAfter("delete")
TestimonialsToggle ==
    \/ /\ TestimonialsTable
       /\ \E r \in DOMAIN view.rows : UserAsks(view, Patch("toggle", r))
    \/ ReloadsAfter("toggle")

TestimonialsNext == \/ LoadTaken \/ TestimonialsModal \/ TestimonialsUpdateForm \/ TestimonialsSave
                    \/ TestimonialsDelete \/ TestimonialsToggle

-----------------------------------------------------------------------------
(* app/admin/services/page.tsx *)

ServicesOpen == ListOpens("services")
ServicesEmpty == Blank
ServicesToForm(r) == FormOf(r, view.rows[r])
ServicesTable == ~Has("loading") /\ view.form = NONE
ServicesForm == view.form # NONE

ServicesModal == \/ view.form = NONE /\ FormOpens(ServicesEmpty)
                 \/ ServicesTable /\ \E r \in DOMAIN view.rows : FormOpens(ServicesToForm(r))
                 \/ ServicesForm /\ FormCloses
ServicesUpdateForm == ServicesForm /\ Typing
ServicesSave == SavesReloadsCloses(ServicesForm /\ view.form.text # "")
ServicesDelete == \/ ServicesTable /\ \E r \in DOMAIN view.rows : UserAsks(view, Delete("delete", r))
                  \/ ReloadsAfter("delete")
ServicesToggle ==
    \/ /\ ServicesTable
       /\ \E r \in DOMAIN view.rows : UserAsks(view, Patch("toggle", r))
    \/ ReloadsAfter("toggle")

ServicesNext == \/ LoadTaken \/ ServicesModal \/ ServicesUpdateForm \/ ServicesSave
                \/ ServicesDelete \/ ServicesToggle

-----------------------------------------------------------------------------
(* app/admin/content/social-media/page.tsx.  The text of a link is its      *)
(* platform; two links to one platform are refused by what the list shows.  *)

SocialLinksOpen == ListOpens("social links")
SocialLinksEmpty == Blank
SocialLinksToForm(r) == FormOf(r, view.rows[r])
SocialLinksList == ~Has("loading") /\ view.form = NONE
SocialLinksForm == view.form # NONE
SocialLinksDuplicate == \E r \in DOMAIN view.rows \ {view.form.row} : view.rows[r] = view.form.text

SocialLinksModal == \/ view.form = NONE /\ FormOpens(SocialLinksEmpty)
                    \/ SocialLinksList /\ \E r \in DOMAIN view.rows : FormOpens(SocialLinksToForm(r))
                    \/ SocialLinksForm /\ FormCloses
SocialLinksPlatform == SocialLinksForm /\ Typing
SocialLinksSave ==
    SavesReloadsCloses(SocialLinksForm /\ view.form.text # "" /\ ~SocialLinksDuplicate)
SocialLinksDelete == \/ SocialLinksList /\ \E r \in DOMAIN view.rows : UserAsks(view, Delete("delete", r))
                     \/ ReloadsAfter("delete")
SocialLinksToggle == \/ SocialLinksList /\ \E r \in DOMAIN view.rows : UserAsks(view, Patch("toggle", r))
                     \/ ReloadsAfter("toggle")

SocialLinksNext == \/ LoadTaken \/ SocialLinksModal \/ SocialLinksPlatform \/ SocialLinksSave
                   \/ SocialLinksDelete \/ SocialLinksToggle

-----------------------------------------------------------------------------
(* app/admin/tax-credential-systems/page.tsx, with                          *)
(* components/tax-credentials/SystemForm.tsx                                *)

TaxSystemsOpen == ListOpens("tax systems")
SystemFormInitial(r) == IF r = NONE THEN Blank ELSE FormOf(r, view.rows[r])
TaxSystemsList == ~Has("loading") /\ view.form = NONE
SystemFormShown == view.form # NONE
SystemFormValid == view.form.text # ""

TaxSystemsModal ==
    \/ view.form = NONE /\ FormOpens(SystemFormInitial(NONE))
    \/ TaxSystemsList /\ \E r \in DOMAIN view.rows : FormOpens(SystemFormInitial(r))
    \/ SystemFormShown /\ FormCloses
SystemFormUpdateField == SystemFormShown /\ Typing
TaxSystemsSave == SavesClosesReloads(SystemFormShown /\ SystemFormValid)
TaxSystemsToggle == \/ TaxSystemsList /\ \E r \in DOMAIN view.rows : UserAsks(view, Patch("toggle", r))
                    \/ ReloadsAfter("toggle")
TaxSystemsDelete == \/ TaxSystemsList /\ \E r \in DOMAIN view.rows : UserAsks(view, Delete("delete", r))
                    \/ ReloadsAfter("delete")
TaxSystemsRefresh == \/ view.form = NONE /\ UserAsks(Busy(view, {"loading"}), GetList("load"))
                     \/ LoadTaken

TaxSystemsNext == \/ TaxSystemsModal \/ SystemFormUpdateField \/ TaxSystemsSave
                  \/ TaxSystemsToggle \/ TaxSystemsDelete \/ TaxSystemsRefresh

-----------------------------------------------------------------------------
(* app/admin/blog/page.tsx.  at is updatingStatus: the post whose publish   *)
(* button is off.  Every answer to such a button sets it to null, whichever *)
(* post it was for.                                                         *)

BlogOpen == ListOpens("blog")
BlogFromPost(r) == IF r = NONE THEN Blank ELSE FormOf(r, view.rows[r])
BlogTable == ~Has("loading") /\ view.form = NONE
BlogForm == view.form # NONE

BlogModal == \/ view.form = NONE /\ FormOpens(BlogFromPost(NONE))
             \/ BlogTable /\ \E r \in DOMAIN view.rows : FormOpens(BlogFromPost(r))
             \/ BlogForm /\ FormCloses
BlogUpdateField == BlogForm /\ Typing
BlogSave == SavesClosesReloads(BlogForm /\ view.form.text # "")
BlogTogglePublish ==
    \/ /\ BlogTable
       /\ \E r \in DOMAIN view.rows \ {view.at} : UserAsks([view EXCEPT !.at = r], Patch("toggle", r))
    \/ \E q \in Good("toggle") : TakesThenAsks(q, Busy(view, {"loading"}), GetList("toggled"))
    \/ \E q \in Answers("toggled") : Takes(q, [ListTaken(q, view) EXCEPT !.at = NONE])
    \/ \E q \in Bad("toggle") : Fails(q, [view EXCEPT !.at = NONE])
BlogDelete == \/ BlogTable /\ \E r \in DOMAIN view.rows : UserAsks(view, Delete("delete", r))
              \/ ReloadsAfter("delete")

BlogNext == \/ LoadTaken \/ BlogModal \/ BlogUpdateField \/ BlogSave \/ BlogTogglePublish \/ BlogDelete
            \/ ImageUploads(BlogForm, Has("saving"))

-----------------------------------------------------------------------------
(* app/admin/statistics/page.tsx.  Every row is a form of its own; edits    *)
(* holds what was typed and not yet saved.  at is the row whose Save says   *)
(* "Saving...".  What was saved is put into the list without a reload.      *)

StatisticsOpen == ListOpens("statistics")
StatisticsCards == ~Has("loading")
StatisticsGet(r) == IF r \in DOMAIN view.edits THEN view.edits[r] ELSE view.rows[r]
StatisticsHasChanges(r) == r \in DOMAIN view.edits
\* Fault: the text of another card is sent.
StatisticsPayloadOfOther(r) == [row |-> r, text |-> StatisticsGet(CHOOSE e \in DOMAIN view.rows : e # r), fill |-> 0]
StatisticsPayload(r) == [row |-> r, text |-> StatisticsGet(r), fill |-> 0]

StatisticsUpdate == /\ StatisticsCards
                    /\ \E r \in DOMAIN view.rows \ DOMAIN view.edits :
                         UserDoes([view EXCEPT !.edits = [e \in DOMAIN @ \cup {r} |-> "typed"]])
StatisticsSave ==
    \/ /\ StatisticsCards
       /\ \E r \in DOMAIN view.rows \ {view.at} :
            /\ StatisticsHasChanges(r)
            /\ UserAsks([view EXCEPT !.at = r], Update("save", StatisticsPayload(r)))
    \/ \E q \in Good("save") :
          Takes(q, [view EXCEPT !.rows = Put(q.row, q.text),
                                !.edits = Restrict(@, DOMAIN @ \ {q.row}),
                                !.at = NONE])
    \/ \E q \in Bad("save") : Fails(q, [view EXCEPT !.at = NONE])

StatisticsNext == LoadTaken \/ StatisticsUpdate \/ StatisticsSave

-----------------------------------------------------------------------------
(* app/admin/content/page.tsx.  The sections are fixed; a section is at the *)
(* server once it was saved.  edits is contentMap, the text of every        *)
(* section as loaded and typed over; rows is itemMap; section is the one    *)
(* that is open.  A load replaces contentMap whole.  Each click on Save is  *)
(* a filling of its own: the key of the section keeps a second row away.    *)

ContentOpen == Opens("content", Busy([NothingShown EXCEPT !.section = FirstRow], {"loading"}), First("list", NONE))
ContentData == IF view.section \in DOMAIN view.edits THEN view.edits[view.section] ELSE ""
ContentPayload == FormOf(view.section, ContentData)
ContentTaken(q, v) == IF q.state = "ok" THEN [ListTaken(q, v) EXCEPT !.edits = q.got] ELSE ListTaken(q, v)

ContentSection == \E r \in Row \ {view.section} : UserDoes([view EXCEPT !.section = r])
ContentFields == ~Has("loading")
ContentUpdateField ==
    /\ ContentFields /\ ContentData # "typed"
    /\ UserDoes([view EXCEPT !.edits = [r \in DOMAIN @ \cup {view.section} |-> IF r = view.section THEN "typed" ELSE @[r]]])
ContentLoad == \/ UserAsks(Busy(view, {"loading"}), GetList("load"))
               \/ \E q \in Answers("load") : Takes(q, ContentTaken(q, view))
ContentSave ==
    \/ /\ ~Has("saving")
       /\ UserAsks(Busy(view, {"saving"}),
                   IF view.section \in DOMAIN view.rows THEN Update("save", ContentPayload)
                   ELSE [Create("save", ContentPayload) EXCEPT !.row = view.section])
    \/ \E q \in Good("save") : TakesThenAsks(q, Busy(view, {"loading"}), GetList("saved"))
    \/ \E q \in Answers("saved") : Takes(q, Free(ContentTaken(q, view), {"saving"}))
    \/ \E q \in Bad("save") : Fails(q, Free(view, {"saving"}))

ContentNext == ContentLoad \/ ContentSection \/ ContentUpdateField \/ ContentSave

=============================================================================
