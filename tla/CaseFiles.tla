----------------------------- MODULE CaseFiles -----------------------------
(***************************************************************************)
(* The pages for the documents of cases, for stored logins to tax portals  *)
(* and for notifications, of all three portals                             *)
(* (src/frontend/src/components/{documents,tax-credentials,notifications}  *)
(* and the pages that show them).  What a document or login is called is   *)
(* its text; a password that is shown is in secrets, under its row.        *)
(***************************************************************************)
EXTENDS PortalPage

-----------------------------------------------------------------------------
(* components/documents/PortalDocumentsPage.tsx.  One request stands for    *)
(* the list of the cases and the lists of their documents, which are asked  *)
(* for one after the other.  load depends on the selected case: each        *)
(* selection starts another load, also the one that a load makes itself     *)
(* when none was selected as it began (row NONE).  section is the selected  *)
(* case, choices those the select offers, form the description of the next  *)
(* upload.                                                                  *)

DocumentsAsks(op, selected) == [GetList(op) EXCEPT !.row = selected]
PortalDocumentsOpen ==
    Opens("portal documents", Busy([NothingShown EXCEPT !.form = [row |-> NONE, text |-> "", fill |-> 0]], {"loading"}),
          First("list", NONE))

\* loadRequests: a client's list that fails is skipped, an accountant's fails the whole load.
\* A load that began without a selection selects the first case.
DocumentsSelected(q, v, first) ==
    IF first = v.section THEN Takes(q, v)
    ELSE TakesThenAsks(q, Busy([v EXCEPT !.section = first], {"loading"}), DocumentsAsks("load", first))
LoadsDocuments(op, flags) ==
    \/ \E q \in Answers(op) :
          LET v == [Free(view, flags) EXCEPT !.rows = q.got, !.choices = DOMAIN q.got \ SparePool]
          IN  IF q.row = NONE /\ v.choices # {} THEN \E first \in v.choices : DocumentsSelected(q, v, first)
              ELSE Takes(q, v)
    \/ \E q \in Bad(op) : Takes(q, Free(view, flags))
PortalDocumentsLoad ==
    \/ ~Has("loading") /\ UserAsks(Busy(view, {"loading"}), DocumentsAsks("load", view.section))
    \/ LoadsDocuments("load", {"loading"})
PortalDocumentsSelect ==
    \E r \in (view.choices \cup {NONE}) \ {view.section} :
       UserAsks(Busy([view EXCEPT !.section = r], {"loading"}), DocumentsAsks("load", r))
PortalDocumentsDescribe == Typing
PortalDocumentsUpload ==
    \/ view.section # NONE /\ ~Has("uploading") /\ UserAsks(Busy(view, {"uploading"}), Create("upload", view.form))
    \/ \E q \in Good("upload") :
          TakesThenAsks(q, Busy([view EXCEPT !.form = Blank], {"loading"}), DocumentsAsks("uploaded", FirstRow))
    \/ LoadsDocuments("uploaded", {"loading", "uploading"})
    \/ \E q \in Bad("upload") : Fails(q, Free(view, {"uploading"}))

\* The file is fetched with the stored token; nothing on the page waits for it.
Downloads(rows) == \/ \E r \in rows : UserAsks(view, GetRow("download", r))
                   \/ \E q \in Answers("download") : Takes(q, view)
PortalDocumentsMatching == Matching
PortalDocumentsFolders == IF Has("loading") THEN {} ELSE PortalDocumentsMatching
PortalDocumentsDownload == Downloads(PortalDocumentsFolders)

PortalDocumentsNext == \/ PortalDocumentsLoad \/ PortalDocumentsSelect \/ PortalDocumentsDescribe
                       \/ PortalDocumentsUpload \/ PortalDocumentsDownload \/ Search

-----------------------------------------------------------------------------
(* app/admin/documents/page.tsx with components/documents/                  *)
(* DocumentFolderList.tsx.  Each change of a filter or of the page number   *)
(* asks at once; every answer is taken as it comes.                         *)

AdminDocumentsAsks == GetFiltered("load", view.asked)
AdminDocumentsOpen == Opens("admin documents", Busy(NothingShown, {"loading"}), First("list", NONE))
AdminDocumentsLoad ==
    \/ ~Has("loading") /\ UserAsks(Busy([view EXCEPT !.error = FALSE], {"loading"}), AdminDocumentsAsks)
    \/ \E q \in Answers("load") : Takes(q, [ListTakenOrEmptied(q, view) EXCEPT !.error = @ \/ q.state = "failed"])
AdminDocumentsFilter == \E query \in Query \ {view.asked} :
    UserAsks(Busy([view EXCEPT !.asked = query, !.error = FALSE], {"loading"}), GetFiltered("load", query))
DocumentFolders == IF Has("loading") \/ view.error THEN {} ELSE DOMAIN view.rows
DocumentDownload == Downloads(DocumentFolders)
DocumentDelete ==
    \/ \E r \in DocumentFolders : UserAsks(view, Delete("delete", r))
    \/ \E q \in Good("delete") : TakesThenAsks(q, Busy([view EXCEPT !.error = FALSE], {"loading"}), AdminDocumentsAsks)
    \/ \E q \in Bad("delete") : Fails(q, view)

AdminDocumentsNext == AdminDocumentsLoad \/ AdminDocumentsFilter \/ DocumentDownload \/ DocumentDelete

-----------------------------------------------------------------------------
(* components/tax-credentials/RevealPasswordButton.tsx.  Each card has one, *)
(* with a password of its own; it is off while it waits.  A card that is    *)
(* not there any more has nothing to show the answer on.                    *)

RevealButton(rows) ==
    \/ \E r \in rows \ DOMAIN view.secrets :
          UserAsks([view EXCEPT !.secrets = [e \in DOMAIN @ \cup {r} |-> IF e = r THEN "waiting" ELSE @[e]]], GetRow("reveal", r))
    \/ \E q \in Answers("reveal") :
          LET shown == q.state = "ok" /\ q.row \in DOMAIN q.got IN
          Takes(q, IF q.row \notin DOMAIN view.secrets THEN view
                   ELSE IF shown THEN [view EXCEPT !.secrets[q.row] = q.got[q.row]]
                   ELSE [view EXCEPT !.secrets = Restrict(@, DOMAIN @ \ {q.row})])
    \/ \E r \in rows \cap DOMAIN view.secrets :
          view.secrets[r] # "waiting" /\ UserDoes([view EXCEPT !.secrets = Restrict(@, DOMAIN @ \ {r})])

-----------------------------------------------------------------------------
(* app/client/tax-credentials/page.tsx with CredentialForm.tsx and          *)
(* CredentialCard.tsx.  One request stands for the two lists of a load.     *)

ClientCredentialsOpen == ListOpens("client credentials")
CredentialFormInitial(r) == IF r = NONE THEN Blank ELSE FormOf(r, view.rows[r])
CredentialFormField == view.form # NONE /\ Typing
CredentialFormValid == view.form # NONE /\ view.form.text # ""
ClientCredentialsRefresh == \/ view.form = NONE /\ UserAsks(Busy(view, {"loading"}), GetList("load"))
                            \/ LoadTaken
ClientCredentialsCards == IF Has("loading") \/ view.form # NONE THEN {} ELSE DOMAIN view.rows
ClientCredentialsModal ==
    \/ view.form = NONE /\ FormOpens(CredentialFormInitial(NONE))
    \/ \E r \in ClientCredentialsCards : FormOpens(CredentialFormInitial(r))
    \/ view.form # NONE /\ FormCloses
ClientCredentialsSave == SavesClosesReloads(CredentialFormValid)
ClientCredentialsDelete == \/ \E r \in ClientCredentialsCards : UserAsks(view, Delete("delete", r))
                           \/ ReloadsAfter("delete")
CredentialCardReveal == RevealButton(ClientCredentialsCards)

ClientCredentialsNext ==
    \/ ClientCredentialsRefresh \/ ClientCredentialsModal \/ CredentialFormField \/ ClientCredentialsSave
    \/ ClientCredentialsDelete \/ CredentialCardReveal

-----------------------------------------------------------------------------
(* app/admin/tax-credentials/page.tsx.  load depends on the client that is  *)
(* typed in: each letter asks at once.                                      *)

AdminCredentialsOpen == ListOpens("admin credentials")
AdminCredentialsLoad == UserAsks(Busy(view, {"loading"}), GetFiltered("load", view.asked)) \/ LoadTaken
AdminCredentialsClient == \E query \in Query \ {view.asked} :
    UserAsks(Busy([view EXCEPT !.asked = query], {"loading"}), GetFiltered("load", query))
AdminCredentialsShown == IF Has("loading") THEN {} ELSE DOMAIN view.rows
\* load of the moment of the click: it asks for the client that was typed in then.
AdminCredentialsReload(op) ==
    \/ \E q \in Good(op) : TakesThenAsks(q, Busy(view, {"loading"}), GetFiltered("load", q.query))
    \/ \E q \in Bad(op) : Fails(q, view)
AdminCredentialsToggle ==
    \/ \E r \in AdminCredentialsShown : UserAsks(view, [Patch("toggle", r) EXCEPT !.query = view.asked])
    \/ AdminCredentialsReload("toggle")
AdminCredentialsDelete ==
    \/ \E r \in AdminCredentialsShown : UserAsks(view, [Delete("delete", r) EXCEPT !.query = view.asked])
    \/ AdminCredentialsReload("delete")

AdminCredentialsNext == \/ AdminCredentialsLoad \/ AdminCredentialsClient \/ AdminCredentialsToggle
                        \/ AdminCredentialsDelete \/ RevealButton(AdminCredentialsShown)

-----------------------------------------------------------------------------
(* app/accountant/tax-credentials/page.tsx.  Each client has one login, of  *)
(* the same name.  loadClients depends on the selected client, so that      *)
(* every selection asks for the clients as well, and a load that began      *)
(* without one selects the first.  section is the selected client, choices  *)
(* those the select offers, at revealingId.                                 *)

ClientsAsks(selected) == [GetList("clients") EXCEPT !.row = selected]
AccountantCredentialsOpen == Opens("accountant credentials", Busy(NothingShown, {"clients"}),
                                   [First("list", NONE) EXCEPT !.op = "clients"])
\* setRevealedPasswords({}) and setSelectedClientId, or only the latter; loadCredentials("")
\* asks for nothing.
CredentialsSelect(v, client) ==
    IF client = NONE THEN [v EXCEPT !.section = NONE, !.rows = Nothing]
    ELSE Busy([v EXCEPT !.section = client], {"loading"})
CredentialsFor(client) == IF client = NONE THEN {} ELSE {ListOf("load", client)}
AccountantCredentialsClients ==
    \E q \in Answers("clients") :
       LET v == Free(IF q.state = "ok" THEN [view EXCEPT !.choices = DOMAIN q.got] ELSE view, {"clients"}) IN
       IF q.row # NONE \/ q.got = Nothing THEN Takes(q, v)
       ELSE \E client \in DOMAIN q.got :
               IF client = view.section THEN Takes(q, v)
               ELSE TakesThenAsksAll(q, Busy(CredentialsSelect(v, client), {"clients"}),
                                     {ClientsAsks(client)} \cup CredentialsFor(client))
AccountantCredentialsSelect ==
    /\ ~Has("clients")
    /\ \E client \in (view.choices \cup {NONE}) \ {view.section} :
         UserAsksAll(Busy(CredentialsSelect([view EXCEPT !.secrets = Nothing], client), {"clients"}),
                     {ClientsAsks(client)} \cup CredentialsFor(client))
AccountantCredentialsLoad ==
    \/ /\ ~Has("loading") /\ view.section # NONE
       /\ UserAsks(Busy(view, {"loading"}), ListOf("load", view.section))
    \/ \E q \in Answers("load") : Takes(q, Free([view EXCEPT !.rows = q.got], {"loading"}))
AccountantCredentialsCards ==
    IF view.busy \cap {"clients", "loading"} # {} \/ view.section = NONE THEN {} ELSE Matching
AccountantCredentialsReveal ==
    \/ \E r \in AccountantCredentialsCards \cap DOMAIN view.secrets :
          UserDoes([view EXCEPT !.secrets = Restrict(@, DOMAIN @ \ {r})])
    \/ \E r \in AccountantCredentialsCards \ (DOMAIN view.secrets \cup {view.at}) :
          UserAsks([view EXCEPT !.at = r], GetRow("reveal", r))
    \/ \E q \in Good("reveal") :
          Takes(q, [view EXCEPT !.secrets = [r \in DOMAIN @ \cup DOMAIN q.got |-> IF r = q.row THEN q.got[r] ELSE @[r]],
                                !.at = NONE])
    \/ \E q \in Bad("reveal") : Takes(q, [view EXCEPT !.at = NONE])

AccountantCredentialsNext == \/ AccountantCredentialsClients \/ AccountantCredentialsSelect
                             \/ AccountantCredentialsLoad \/ AccountantCredentialsReveal \/ Search

-----------------------------------------------------------------------------
(* components/tax-credentials/AccountantClientCredentialsCard.tsx, the card *)
(* on the page of an assignment: one password is shown at a time.  at is    *)
(* isRevealing.                                                             *)

CredentialsCardOpen == ListOpens("credentials card")
CredentialsCardLoad ==
    \/ /\ ~Has("loading")
       /\ UserAsks(Busy([view EXCEPT !.error = FALSE, !.secrets = Nothing], {"loading"}), GetList("load"))
    \/ \E q \in Answers("load") :
          Takes(q, Free([view EXCEPT !.rows = q.got, !.error = @ \/ q.state = "failed"], {"loading"}))
CredentialsCardShown == IF Has("loading") \/ view.error THEN {} ELSE DOMAIN view.rows
CredentialsCardReveal ==
    \/ \E r \in CredentialsCardShown \ (DOMAIN view.secrets \cup {view.at}) :
          UserAsks([view EXCEPT !.at = r, !.secrets = Nothing], GetRow("reveal", r))
    \/ \E q \in Good("reveal") : Takes(q, [view EXCEPT !.secrets = q.got, !.at = NONE])
    \/ \E q \in Bad("reveal") : Takes(q, [view EXCEPT !.at = NONE])
    \/ /\ CredentialsCardShown \cap DOMAIN view.secrets # {}
       /\ UserDoes([view EXCEPT !.secrets = Nothing])

CredentialsCardNext == CredentialsCardLoad \/ CredentialsCardReveal

=============================================================================
