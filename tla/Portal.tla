------------------------------- MODULE Portal -------------------------------
(***************************************************************************)
(* Every page of the site that talks to the server: which page is open is  *)
(* chosen at first and kept.  What the pages promise, whichever it is, is  *)
(* stated here.                                                            *)
(***************************************************************************)
EXTENDS ContentEditors, CasePages, WorkLists, CaseFiles, SitePages

Init ==
    \/ StaffOpen \/ TestimonialsOpen \/ ServicesOpen \/ SocialLinksOpen
    \/ TaxSystemsOpen \/ BlogOpen \/ StatisticsOpen \/ ContentOpen
    \/ AssignedWorkOpen \/ RequestOpen \/ ConsultationOpen \/ AccountantDashboardOpen
    \/ AssignedListOpen \/ AccountantConsultationsOpen \/ AdminConsultationsOpen \/ AdminRequestsOpen
    \/ AdminDashboardOpen \/ ClientRequestsOpen \/ ClientDashboardOpen \/ PortalDocumentsOpen
    \/ AdminDocumentsOpen \/ ClientCredentialsOpen \/ AdminCredentialsOpen \/ AccountantCredentialsOpen
    \/ CredentialsCardOpen \/ NotificationsOpen \/ BellOpen \/ ClientsOpen
    \/ AuditLogOpen \/ ClientOpen \/ AccountantsOpen \/ AccountantOpen
    \/ AccountantFormOpen \/ BlogCreateOpen \/ BlogEditOpen \/ ProfileOpen
    \/ RequestServiceOpen \/ BookConsultationOpen \/ ContactOpen \/ RegisterOpen
    \/ LinkRequestOpen \/ SiteServicesOpen \/ ServicePreviewOpen \/ SiteStaffOpen
    \/ StaffPreviewOpen \/ SiteBlogOpen \/ BlogPreviewOpen \/ FloatingStatsOpen
    \/ SiteTestimonialsOpen \/ SiteSocialLinksOpen \/ FooterOpen \/ AboutOpen
    \/ HeroOpen \/ ServiceDetailOpen \/ StaffDetailOpen \/ BlogDetailOpen
    \/ ClientRequestOpen

PageNext ==
    \/ page = "staff" /\ StaffNext
    \/ page = "testimonials" /\ TestimonialsNext
    \/ page = "services" /\ ServicesNext
    \/ page = "social links" /\ SocialLinksNext
    \/ page = "tax systems" /\ TaxSystemsNext
    \/ page = "blog" /\ BlogNext
    \/ page = "statistics" /\ StatisticsNext
    \/ page = "content" /\ ContentNext
    \/ page = "assigned work" /\ AssignedWorkNext
    \/ page = "request" /\ RequestNext
    \/ page = "consultation" /\ ConsultationNext
    \/ page = "accountant dashboard" /\ AccountantDashboardNext
    \/ page = "assigned list" /\ AssignedListNext
    \/ page = "accountant consultations" /\ AccountantConsultationsNext
    \/ page = "admin consultations" /\ AdminConsultationsNext
    \/ page = "admin requests" /\ AdminRequestsNext
    \/ page = "admin dashboard" /\ AdminDashboardNext
    \/ page = "client requests" /\ ClientRequestsNext
    \/ page = "client dashboard" /\ ClientDashboardNext
    \/ page = "portal documents" /\ PortalDocumentsNext
    \/ page = "admin documents" /\ AdminDocumentsNext
    \/ page = "client credentials" /\ ClientCredentialsNext
    \/ page = "admin credentials" /\ AdminCredentialsNext
    \/ page = "accountant credentials" /\ AccountantCredentialsNext
    \/ page = "credentials card" /\ CredentialsCardNext
    \/ page = "notifications" /\ NotificationsNext
    \/ page = "bell" /\ BellNext
    \/ page = "clients" /\ ClientsNext
    \/ page = "audit log" /\ AuditLogNext
    \/ page = "client" /\ ClientNext
    \/ page = "accountants" /\ AccountantsNext
    \/ page = "accountant" /\ AccountantNext
    \/ page = "accountant form" /\ AccountantFormNext
    \/ page = "blog create" /\ BlogPostNext
    \/ page = "blog edit" /\ BlogPostNext
    \/ page = "profile" /\ ProfileNext
    \/ page = "request service" /\ RequestServiceNext
    \/ page = "book consultation" /\ BookConsultationNext
    \/ page = "contact" /\ ContactNext
    \/ page = "register" /\ RegisterNext
    \/ page = "link request" /\ LinkRequestNext
    \/ page = "site services" /\ SiteServicesNext
    \/ page = "service preview" /\ ServicePreviewNext
    \/ page = "site staff" /\ SiteStaffNext
    \/ page = "staff preview" /\ StaffPreviewNext
    \/ page = "site blog" /\ SiteBlogNext
    \/ page = "blog preview" /\ BlogPreviewNext
    \/ page = "floating stats" /\ FloatingStatsNext
    \/ page = "site testimonials" /\ SiteTestimonialsNext
    \/ page = "site social links" /\ SiteSocialLinksNext
    \/ page = "footer" /\ FooterNext
    \/ page = "about" /\ AboutNext
    \/ page = "hero" /\ HeroNext
    \/ page = "service detail" /\ ServiceDetailNext
    \/ page = "staff detail" /\ StaffDetailNext
    \/ page = "blog detail" /\ BlogDetailNext
    \/ page = "client request" /\ ClientRequestNext

Next == World \/ PageNext

Spec == Init /\ [][Next]_vars

-----------------------------------------------------------------------------
(* Types. *)

PageName ==
    {"staff", "testimonials", "services", "social links", "tax systems", "blog", "statistics",
     "content", "assigned work", "request", "consultation", "accountant dashboard",
     "assigned list", "accountant consultations", "admin consultations", "admin requests",
     "admin dashboard", "client requests", "client dashboard", "portal documents",
     "admin documents", "client credentials", "admin credentials", "accountant credentials",
     "credentials card", "notifications", "bell", "clients", "audit log", "client", "accountants",
     "accountant", "accountant form", "blog create", "blog edit", "profile", "request service",
     "book consultation", "contact", "register", "link request", "site services",
     "service preview", "site staff", "staff preview", "site blog", "blog preview",
     "floating stats", "site testimonials", "site social links", "footer", "about", "hero",
     "service detail", "staff detail", "blog detail", "client request"}
\* The loading, saving and button states of the pages, and the requests by what they are for.
Flag == {"loading", "refreshing", "timer", "saving", "savingDetails", "savingStatus", "sending", "uploading", "deleting",
         "assigning", "status", "password", "markingAll", "documents", "accountants", "clients", "requests", "leaving"}
OpName == {"load", "fallback", "number", "documents", "stats", "consultations", "accountants", "requests", "clients",
           "saved", "toggled", "updated", "uploaded", "savingDetails", "savingStatus", "reveal", "download",
           "save", "send", "upload", "status", "assign", "toggle", "delete", "password", "read", "all"}

Form == [row : Row \cup {NONE}, text : Text, fill : Nat]
Secrets == UNION {[S -> Text \cup {"waiting"}] : S \in SUBSET Row}
View == [rows : Shown, busy : SUBSET Flag, form : Form \cup {NONE}, edits : Shown,
         at : Row \cup {NONE}, section : Row \cup {NONE}, asked : Query, number : Nat,
         error : BOOLEAN, choices : SUBSET Row, secrets : Secrets, open : BOOLEAN, mounted : Nat]
Asked == [no : Nat \ {0}, op : OpName, verb : Verb, row : Row \cup {NONE}, text : Text, query : Query,
          fill : Nat, life : Nat, state : {"sent", "ok", "failed"}, got : Shown]

\* Counts of what was not read yet do not go below zero, lists hold rows, and answers are of
\* the form the handlers read.
TypeOK == /\ page \in PageName /\ view \in View
          /\ \A q \in flight : q \in Asked
          /\ server \in Shelf
          /\ ledger \in [made : SUBSET Nat, twice : BOOLEAN]
          /\ clicks \in 0..MaxClicks

-----------------------------------------------------------------------------
(* What the pages promise. *)

\* Once every request is answered and no timer is about to ask, whatever the answers were and in
\* whatever order they came, nothing on the page still says that it is loading or saving and no
\* button is still off: only a navigation may be under way.
QuietWhenAnswered ==
    flight = {} /\ ~Has("timer") =>
        /\ view.busy \subseteq {"leaving"} /\ view.at = NONE
        /\ \A r \in DOMAIN view.secrets : view.secrets[r] # "waiting"

\* One filling of a form makes one row at the server, however often the button is clicked,
\* unless the user was told that it had failed.
OneRowPerFill == ~ledger.twice

\* No handler puts the text of one row into another: what the server has of a row, and what
\* the page shows of it, was its own, or was typed, or comes from somebody else.
TextsFor(r) == {r, "typed", "elsewhere", ""}
RowsKeepTheirText ==
    /\ \A r \in Row : server[r] \in TextsFor(r) \cup {NONE}
    /\ \A r \in DOMAIN view.rows : view.rows[r] \in TextsFor(r)
    /\ \A r \in DOMAIN view.edits : view.edits[r] \in TextsFor(r)
    /\ view.form # NONE /\ view.form.row # NONE => view.form.text \in TextsFor(view.form.row)
    /\ \A r \in DOMAIN view.secrets : view.secrets[r] \in TextsFor(r) \cup {"waiting"}

\* When a write fails, what the user has typed stays where it was.
FailureKeepsTheForm ==
    [][\A q \in flight \ flight' :
          q.state = "failed" /\ q.verb \in Writes => view'.form = view.form /\ view'.edits = view.edits]_vars

\* On the pages whose effect cancels the request before, what is shown is what the search or
\* the address of the page asks for, as soon as the page does not say that it is loading.
ListIsForItsQuery ==
    /\ page \in {"clients", "audit log"} /\ view.busy \cap {"loading", "timer"} = {}
         => DOMAIN view.rows \subseteq Found(view.asked)
    /\ page \in {"service detail", "staff detail", "blog detail", "client request"} /\ ~Has("loading")
         => DOMAIN view.rows \subseteq {view.section}

=============================================================================
