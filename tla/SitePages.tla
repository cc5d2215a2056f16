----------------------------- MODULE SitePages -----------------------------
(***************************************************************************)
(* The public site, and the form by which a client claims a request made   *)
(* before the account (src/frontend/src/app, components/{forms,website,    *)
(* layout}).  A visitor's form makes one new row.  What the site shows is  *)
(* built into it until the server's content has come; a built-in text is   *)
(* the empty one.                                                          *)
(***************************************************************************)
EXTENDS PeoplePages

-----------------------------------------------------------------------------
(* app/request-service/page.tsx.  open says that the page shows the         *)
(* reference number instead of the form.                                    *)

RequestServiceOpen == OpensAsking("request service", [NothingShown EXCEPT !.form = EmptyForm], {})
RequestServiceUpdate == ~view.open /\ Typing
\* Fault: the button stays on while the request is sent.
RequestServiceSubmitAnyTime == ~view.open /\ FormReady
\* A client whose token is gone is told so before anything is sent.
RequestServiceSubmit == ~view.open /\ FormReady /\ ~Has("saving")
RequestServiceSends ==
    \/ RequestServiceSubmit /\ UserAsks(Busy(view, {"saving"}), Create("save", view.form))
    \/ \E q \in Good("save") : Takes(q, Free([view EXCEPT !.open = TRUE], {"saving"}))
    \/ \E q \in Bad("save") : Fails(q, Free(view, {"saving"}))
RequestServiceReset == view.open /\ UserDoes([view EXCEPT !.open = FALSE, !.form = Blank])

RequestServiceNext == RequestServiceUpdate \/ RequestServiceSends \/ RequestServiceReset

-----------------------------------------------------------------------------
(* app/book-consultation/page.tsx *)

BookConsultationOpen == OpensAsking("book consultation", [NothingShown EXCEPT !.form = EmptyForm], {})
BookConsultationUpdate == ~view.open /\ Typing
BookConsultationSubmit ==
    \/ /\ ~view.open /\ FormReady /\ ~Has("saving")
       /\ UserAsks(Busy(view, {"saving"}), Create("save", view.form))
    \/ \E q \in Good("save") : Takes(q, Free([view EXCEPT !.open = TRUE], {"saving"}))
    \/ \E q \in Bad("save") : Fails(q, Free(view, {"saving"}))
BookConsultationReset == view.open /\ UserDoes([view EXCEPT !.open = FALSE, !.form = Blank])

BookConsultationNext == BookConsultationUpdate \/ BookConsultationSubmit \/ BookConsultationReset

-----------------------------------------------------------------------------
(* app/contact/page.tsx.  When the message has been sent the fields are     *)
(* emptied, whatever was typed meanwhile.                                   *)

ContactOpen == Opens("contact", [NothingShown EXCEPT !.form = EmptyForm], First("list", NONE))
ContactContent == \E q \in Answers("load") : Takes(q, [view EXCEPT !.rows = q.got])
ContactFields == Typing
ContactSubmit == FormSends(Create("save", view.form), [view EXCEPT !.form = Blank])

ContactNext == ContactContent \/ ContactFields \/ ContactSubmit

-----------------------------------------------------------------------------
(* components/forms/register-form.tsx: a good answer empties the form and   *)
(* sets the timer that leads to the login.  The address is the key.         *)

RegisterOpen == OpensAsking("register", [NothingShown EXCEPT !.form = EmptyForm], {})
RegisterSubmit == FormSends(CreateOnce("save", view.form), [Leaving EXCEPT !.form = Blank])
RegisterNext == FormTyping \/ RegisterSubmit \/ Leaves

-----------------------------------------------------------------------------
(* app/client/requests/link/page.tsx *)

LinkRequestOpen == OpensAsking("link request", [NothingShown EXCEPT !.form = EmptyForm], {})
LinkRequestSubmit == FormSends(Patch("save", FirstRow), Leaving)
LinkRequestNext == FormTyping \/ LinkRequestSubmit \/ Leaves

-----------------------------------------------------------------------------
(* The lists of the site.  Its services are permanent: what the admin has   *)
(* edited is put over the built-in text.  Its other lists are replaced by   *)
(* what comes, when anything comes, and are built-in again when the request *)
(* fails.                                                                   *)

BuiltIn == [r \in {FirstRow} |-> ""]
Merged(got) == [r \in {FirstRow} \cup DOMAIN got |-> IF r \in DOMAIN got THEN got[r] ELSE ""]
Site(p) == Opens(p, [NothingShown EXCEPT !.rows = BuiltIn], First("list", NONE))
SiteTaken(q) == IF q.state = "ok" /\ q.got # Nothing THEN q.got
                ELSE IF q.state = "ok" THEN view.rows ELSE BuiltIn
SiteShows(q, rows) == q \in Answers("load") /\ Takes(q, [view EXCEPT !.rows = rows])
ServicesMerged(q) == Merged(q.got)
SocialLinksTaken(q) == q.got
ContentTakenOr(q) == IF q.got = Nothing THEN BuiltIn ELSE q.got

SiteServicesOpen == Site("site services")
SiteServicesNext == \E q \in flight : SiteShows(q, ServicesMerged(q))
ServicePreviewOpen == Site("service preview")
ServicePreviewNext == \E q \in flight : SiteShows(q, ServicesMerged(q))
SiteStaffOpen == Site("site staff")
SiteStaffNext == \E q \in flight : SiteShows(q, SiteTaken(q))
StaffPreviewOpen == Site("staff preview")
StaffPreviewNext == \E q \in flight : SiteShows(q, SiteTaken(q))
SiteBlogOpen == Site("site blog")
SiteBlogNext == \E q \in flight : SiteShows(q, SiteTaken(q))
BlogPreviewOpen == Site("blog preview")
BlogPreviewNext == \E q \in flight : SiteShows(q, SiteTaken(q))
FloatingStatsOpen == Site("floating stats")
FloatingStatsNext == \E q \in flight : SiteShows(q, SiteTaken(q))
SiteTestimonialsOpen == Site("site testimonials")
SiteTestimonialsNext == \E q \in flight : SiteShows(q, SiteTaken(q))
SiteSocialLinksOpen == ListOpens("site social links")
SiteSocialLinksNext == \E q \in Answers("load") : Takes(q, Free([view EXCEPT !.rows = SocialLinksTaken(q)], {"loading"}))
FooterOpen == Site("footer")
FooterNext == \E q \in flight : SiteShows(q, ContentTakenOr(q))
AboutOpen == Site("about")
AboutNext == \E q \in flight : SiteShows(q, ContentTakenOr(q))
HeroOpen == Site("hero")
\* The pictures go round on a timer of their own.
HeroNext == (\E q \in flight : SiteShows(q, ContentTakenOr(q))) \/ UserDoes([view EXCEPT !.number = 3 - @])

-----------------------------------------------------------------------------
(* The pages for one service, member of the staff, blog post, and for one   *)
(* request of a client.  The address names the row (section); when it       *)
(* changes, the effect's clean-up cancels the request under way.  Of the    *)
(* public ones the first row is built in.                                   *)

Item(r, builtIn) == Busy([NothingShown EXCEPT !.section = r, !.rows = builtIn], {"loading"})
BuiltInFor == [r \in Row |-> IF r = FirstRow THEN BuiltIn ELSE Nothing]
NoneBuiltIn == [r \in Row |-> Nothing]
ItemOpens(p, builtIn) == Opens(p, Item(FirstRow, builtIn[FirstRow]), First("get", FirstRow))
ItemGoes(builtIn) ==
    \E r \in Row \ {view.section} :
       LET v == [Item(r, builtIn[r]) EXCEPT !.mounted = view.mounted + 1]
       IN  UserAsks(v, ForRun(GetRow("load", r), v))
ItemTaken(q, rows) ==
    /\ q \in Answers("load")
    /\ Takes(q, IF OfThisRun(q) THEN Free([view EXCEPT !.rows = rows], {"loading"}) ELSE view)
OrBuiltIn(q) == IF q.state = "ok" THEN q.got ELSE BuiltInFor[view.section]
OnlyAnswer(q) == q.got

ServiceDetailOpen == ItemOpens("service detail", BuiltInFor)
ServiceDetailNext == ItemGoes(BuiltInFor) \/ \E q \in flight : ItemTaken(q, OrBuiltIn(q))
StaffDetailOpen == ItemOpens("staff detail", BuiltInFor)
StaffDetailNext == ItemGoes(BuiltInFor) \/ \E q \in flight : ItemTaken(q, OrBuiltIn(q))
BlogDetailOpen == ItemOpens("blog detail", BuiltInFor)
BlogDetailNext == ItemGoes(BuiltInFor) \/ \E q \in flight : ItemTaken(q, OrBuiltIn(q))
ClientRequestOpen == ItemOpens("client request", NoneBuiltIn)
ClientRequestNext == ItemGoes(NoneBuiltIn) \/ \E q \in flight : ItemTaken(q, OnlyAnswer(q))

=============================================================================
