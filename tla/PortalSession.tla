---------------------------- MODULE PortalSession ----------------------------
(***************************************************************************)
(* Who is signed in, as one browser sees it (src/frontend/src/lib/api.ts,  *)
(* lib/auth.ts, providers/auth-provider.tsx, the dashboard layout and the  *)
(* forms and buttons to log in and out).                                   *)
(*                                                                         *)
(* The tokens are in the browser's local storage, which all its tabs       *)
(* share; a request takes the token that is there when it is sent.  Who    *)
(* the user is, every tab holds for itself, and twice: the layout of the   *)
(* whole site has an AuthProvider (root), mounted once for each full load, *)
(* and each dashboard has one of its own (nested), mounted whenever a      *)
(* dashboard of another role, or one at all, is entered.  Both take the    *)
(* stored user and ask the server whether he still is one.  An answer is   *)
(* taken whenever it comes.                                                *)
(*                                                                         *)
(* A path is "public", "login" or the role whose dashboard lies behind it. *)
(* The refresh token is stored with the other, and never used.             *)
(***************************************************************************)
EXTENDS Naturals, Sequences, FiniteSets

CONSTANTS Tab, Account, PortalRole,
          RoleOf,     \* [Account -> PortalRole]
          ABSENT,     \* nobody, no layout, no path
          MaxMoves    \* bound: what the users of the browser do

ASSUME SessionAssumption ==
    /\ RoleOf \in [Account -> PortalRole] /\ MaxMoves \in Nat
    /\ ABSENT \notin Account /\ ABSENT \notin PortalRole
    /\ "public" \notin PortalRole /\ "login" \notin PortalRole /\ ABSENT \notin {"public", "login"}
    /\ ABSENT \notin [user : Account \cup {ABSENT}, loading : BOOLEAN]

VARIABLES tabs,      \* what each tab shows and knows
          storage,   \* the stored token, 0 when there is none; the user is stored with it
          requests,  \* requests whose answer was not taken yet
          tokens,    \* the account of each token the server has issued
          valid,     \* the tokens it still accepts
          dead,      \* the tokens this browser gave up by logging out, or was refused
          moves

sessionVars == <<tabs, storage, requests, tokens, valid, dead, moves>>

Path == {"public", "login"} \cup PortalRole
Dashboard(p) == p \in PortalRole
Token == 1..Len(tokens)
AccountOf(k) == IF k = 0 THEN ABSENT ELSE tokens[k]
Stored == AccountOf(storage)

-----------------------------------------------------------------------------
(* lib/api.ts *)

\* createHeaders: the token is read when the request is sent.
SessionRequest(t, kind) == [tab |-> t, kind |-> kind, token |-> storage, account |-> ABSENT, next |-> ABSENT]

\* tokenStorage.clear(), when the user logs out or the API answers with 401.
Clear(gone) == storage' = 0 /\ dead' = dead \cup (gone \ {0})

\* Fault: a refusal leaves the token where it is.
KeepsRefused(q, status) ==
    UNCHANGED storage /\ dead' = IF status = 401 THEN dead \cup ({q.token} \ {0}) ELSE dead

\* request(): what a failure does to the storage, before it is thrown.
Throws(q, status) == IF status = 401 THEN Clear({q.token}) ELSE UNCHANGED <<storage, dead>>

-----------------------------------------------------------------------------
(* providers/auth-provider.tsx *)

\* A provider when it is mounted, and the request its loadSession sends.
Fresh(stored) == [user |-> stored, loading |-> stored # ABSENT]
Me(t, kind) == IF storage = 0 THEN {} ELSE {SessionRequest(t, kind)}

\* A provider or a login form that is unmounted leaves its request behind.  Several left
\* behind that are alike are kept as one.
Left(kind) == CASE kind = "nested" -> "gone" [] kind = "login" -> "left" [] OTHER -> kind
Abandoned(t) == {IF q.tab = t THEN [q EXCEPT !.kind = Left(@)] ELSE q : q \in requests}

\* Fault: the layout of the dashboard stays around the page that comes next.
KeepsLayout(tab, p, next, stored) == [tab EXCEPT !.path = p, !.next = next, !.submitting = FALSE]

\* The tab goes to another path, without a full load.  Only a dashboard of another role is
\* mounted anew.
At(tab, p, next, stored) ==
    [path |-> p, next |-> next, root |-> tab.root, submitting |-> FALSE,
     nested |-> IF Dashboard(p) THEN Fresh(stored) ELSE ABSENT]
Goes(t, p, next) ==
    /\ tabs' = [tabs EXCEPT ![t] = At(@, p, next, Stored)]
    /\ requests' = Abandoned(t) \cup (IF Dashboard(p) THEN Me(t, "nested") ELSE {})

Provider(t, which) == IF which = "root" THEN tabs[t].root ELSE tabs[t].nested
Settle(t, which, account) ==
    tabs' = IF which = "root" THEN [tabs EXCEPT ![t].root = [user |-> account, loading |-> FALSE]]
            ELSE [tabs EXCEPT ![t].nested = [user |-> account, loading |-> FALSE]]

\* refreshUser, and setIsLoading(false) after it.  The catch takes every failure for a session
\* that has ended: a refusal as well as a server that cannot be reached.
Confirmed(q) ==
    /\ q.token \in valid
    /\ IF q.kind = "gone" THEN UNCHANGED tabs ELSE Settle(q.tab, q.kind, AccountOf(q.token))
    /\ UNCHANGED <<storage, dead>>

\* Fault: without the server's word the stored user is good enough.
TrustsStored(q) ==
    /\ UNCHANGED <<storage, dead>>
    /\ IF q.kind = "gone" THEN UNCHANGED tabs ELSE Settle(q.tab, q.kind, Provider(q.tab, q.kind).user)

NotConfirmed(q) ==
    /\ Clear(IF q.token \in valid THEN {} ELSE {q.token})
    /\ IF q.kind = "gone" THEN UNCHANGED tabs ELSE Settle(q.tab, q.kind, ABSENT)

\* Fault: the flag is only cleared when the user was confirmed.
RefreshUserNoFinally(t, which) ==
    \E q \in requests :
       /\ q.tab = t /\ q.kind = which
       /\ Confirmed(q) \/ (Clear({}) /\ UNCHANGED tabs)
       /\ requests' = requests \ {q}
       /\ UNCHANGED <<tokens, valid, moves>>

RefreshUser(t, which) ==
    \E q \in requests :
       /\ q.tab = t /\ q.kind = which
       /\ Confirmed(q) \/ NotConfirmed(q)
       /\ requests' \in {requests \ {q}} \cup (IF which = "gone" THEN {requests} ELSE {})
       /\ UNCHANGED <<tokens, valid, moves>>

\* The effect that keeps a tab where its user belongs.  DashboardShell asks for the login page
\* on the same conditions, a moment earlier: the provider's request replaces its own.
Belongs(user, p) == user # ABSENT /\ RoleOf[user] = p
Misplaced(t, which) ==
    /\ Dashboard(tabs[t].path) /\ ~Provider(t, which).loading
    /\ ~Belongs(Provider(t, which).user, tabs[t].path)

\* Fault: only a user of another role is sent away.
RedirectUsersOnly(t, which) ==
    /\ Misplaced(t, which) /\ Provider(t, which).user # ABSENT
    /\ Goes(t, RoleOf[Provider(t, which).user], ABSENT)
    /\ UNCHANGED <<storage, tokens, valid, dead, moves>>

Redirect(t, which) ==
    LET user == Provider(t, which).user IN
    /\ Misplaced(t, which)
    /\ IF user = ABSENT THEN Goes(t, "login", tabs[t].path) ELSE Goes(t, RoleOf[user], ABSENT)
    /\ UNCHANGED <<storage, tokens, valid, dead, moves>>

\* components/layout/dashboard-layout.tsx: the dashboard and its pages are shown.
DashboardShown(t) ==
    /\ Dashboard(tabs[t].path) /\ ~tabs[t].nested.loading
    /\ Belongs(tabs[t].nested.user, tabs[t].path)

-----------------------------------------------------------------------------
(* What the people at the browser do. *)

Moves == moves < MaxMoves /\ moves' = moves + 1

\* A link, or the browser's back button.
Follows(t) ==
    /\ Moves
    /\ \E p \in Path \ {tabs[t].path} : Goes(t, p, ABSENT)
    /\ UNCHANGED <<storage, tokens, valid, dead>>

\* A full load: nothing the tab knew or waited for is left.
Loads(t) ==
    /\ Moves
    /\ \E p \in Path :
         /\ tabs' = [tabs EXCEPT ![t] = [path |-> p, next |-> ABSENT, root |-> Fresh(Stored), submitting |-> FALSE,
                                         nested |-> IF Dashboard(p) THEN Fresh(Stored) ELSE ABSENT]]
         /\ requests' = {q \in requests : q.tab # t} \cup Me(t, "root") \cup (IF Dashboard(p) THEN Me(t, "nested") ELSE {})
    /\ UNCHANGED <<storage, tokens, valid, dead>>

\* The buttons to log out: the one in the sidebar of a dashboard, and the one in the bar of the
\* public pages, which the provider of the whole site shows there.  The sidebar goes to the
\* login page; the provider's effect, which finds nobody at a dashboard, goes there as well,
\* with the dashboard as next; either may replace the other.
LogoutOfDashboard(t) ==
    /\ DashboardShown(t)
    /\ \E next \in {ABSENT, tabs[t].path} :
          tabs' = [tabs EXCEPT ![t] = At([@ EXCEPT !.nested.user = ABSENT], "login", next, ABSENT)]
LogoutOfSite(t) ==
    /\ tabs[t].path = "public" /\ ~tabs[t].root.loading /\ tabs[t].root.user # ABSENT
    /\ tabs' = [tabs EXCEPT ![t] = At([@ EXCEPT !.root.user = ABSENT], "login", ABSENT, ABSENT)]

\* logout() of a provider.  The other provider of the tab keeps its user.
Logout(t) ==
    /\ Moves
    /\ LogoutOfDashboard(t) \/ LogoutOfSite(t)
    /\ requests' = Abandoned(t)
    /\ Clear({storage})
    /\ UNCHANGED <<tokens, valid>>

\* components/forms/login-form.tsx: onSubmit.  It lives in the provider of the whole site.
Login(t) ==
    /\ Moves
    /\ tabs[t].path = "login" /\ ~tabs[t].submitting
    /\ \E u \in Account : requests' = requests \cup {[SessionRequest(t, "login") EXCEPT !.account = u, !.next = tabs[t].next]}
    /\ tabs' = [tabs EXCEPT ![t].submitting = TRUE]
    /\ UNCHANGED <<storage, tokens, valid, dead>>

\* setAuth, setUser, router.replace(next || the dashboard of the role); also when the form was
\* left in the meantime.
LoggedIn(q) ==
    LET t == q.tab  new == Len(tokens) + 1
        p == IF q.next # ABSENT THEN q.next ELSE RoleOf[q.account]
        tab == [tabs[t] EXCEPT !.root.user = q.account] IN
    /\ tokens' = Append(tokens, q.account) /\ valid' = valid \cup {new}
    /\ storage' = new /\ UNCHANGED dead
    /\ IF p = tab.path THEN tabs' = [tabs EXCEPT ![t] = tab] /\ requests' = requests \ {q}
       ELSE /\ tabs' = [tabs EXCEPT ![t] = At(tab, p, ABSENT, q.account)]
            /\ requests' = (Abandoned(t) \ {[q EXCEPT !.kind = "left"]})
                           \cup {[q EXCEPT !.kind = "nested", !.token = new, !.account = ABSENT, !.next = ABSENT]}
NotLoggedIn(q) ==
    /\ \E status \in {401, 500} : Throws([q EXCEPT !.token = 0], status)
    /\ tabs' = [tabs EXCEPT ![q.tab].submitting = @ /\ q.kind = "left"]
    /\ requests' = requests \ {q}
    /\ UNCHANGED <<tokens, valid>>
LoginAnswered(t) ==
    \E q \in requests : /\ q.tab = t /\ q.kind \in {"login", "left"}
                        /\ LoggedIn(q) \/ NotLoggedIn(q)
                        /\ UNCHANGED moves

\* A page of a dashboard asks for something, or saves it.
Works(t) ==
    /\ Moves
    /\ DashboardShown(t) /\ requests' = requests \cup {SessionRequest(t, "work")}
    /\ UNCHANGED <<tabs, storage, tokens, valid, dead>>

\* A wrong current password in the form that changes it is answered 401 as well.
WorkAnswered(t) ==
    \E q \in requests :
       /\ q.tab = t /\ q.kind = "work" /\ requests' = requests \ {q}
       /\ \/ q.token \in valid /\ UNCHANGED <<storage, dead>>
          \/ \E status \in IF q.token \in valid THEN {401, 500} ELSE {401} : Throws(q, status)
       /\ UNCHANGED <<tabs, tokens, valid, moves>>

\* A token expires.  (A deactivated account keeps its token till then: module Accounts.)
Ends == \E k \in valid : /\ valid' = valid \ {k}
                         /\ UNCHANGED <<tabs, storage, requests, tokens, dead, moves>>

-----------------------------------------------------------------------------
Opened == [path |-> "login", next |-> ABSENT, root |-> [user |-> ABSENT, loading |-> FALSE],
           nested |-> ABSENT, submitting |-> FALSE]

SessionInit == /\ tabs = [t \in Tab |-> Opened]
               /\ storage = 0 /\ requests = {} /\ tokens = <<>> /\ valid = {} /\ dead = {} /\ moves = 0

SessionNext == \/ \E t \in Tab : \/ Follows(t) \/ Loads(t) \/ Logout(t) \/ Login(t) \/ Works(t)
                                 \/ LoginAnswered(t) \/ WorkAnswered(t)
                                 \/ \E which \in {"root", "nested", "gone"} : RefreshUser(t, which)
                                 \/ \E which \in {"root", "nested"} : Redirect(t, which)
               \/ Ends

\* Every request is answered in the end, if only by the browser that gives it up, and React
\* runs its effects.
Fairness == \A t \in Tab : \A which \in {"root", "nested"} :
               WF_sessionVars(RefreshUser(t, which)) /\ WF_sessionVars(Redirect(t, which))

SessionSpec == SessionInit /\ [][SessionNext]_sessionVars /\ Fairness

-----------------------------------------------------------------------------
(* Properties. *)

Provided == [user : Account \cup {ABSENT}, loading : BOOLEAN]
TabState == [path : Path, next : PortalRole \cup {ABSENT}, root : Provided, nested : Provided \cup {ABSENT},
             submitting : BOOLEAN]
Waiting == {q \in [tab : Tab, kind : {"root", "nested", "gone", "login", "left", "work"}, token : Token \cup {0},
                   account : Account \cup {ABSENT}, next : PortalRole \cup {ABSENT}] :
               q.kind \in {"login", "left"} => q.account \in Account}

\* A tab has a provider of a dashboard exactly when it is at one, and every token is one that
\* the server has issued.
SessionTypeOK ==
    /\ tabs \in [Tab -> TabState]
    /\ \A t \in Tab : tabs[t].nested = ABSENT <=> ~Dashboard(tabs[t].path)
    /\ tokens \in Seq(Account) /\ valid \subseteq Token /\ dead \subseteq Token /\ storage \in Token \cup {0}
    /\ requests \subseteq Waiting
    /\ moves \in 0..MaxMoves

\* A token that was given up by logging out, or that the API has refused, is not sent again by
\* any tab, whatever answers come late and whoever logs in meanwhile.
Sent == {q \in requests' \ requests : q.kind \notin {"gone", "left"}}
DeadTokensStayDead == [][\A q \in Sent : q.token \notin dead]_sessionVars

\* A dashboard appears in a tab only when the server has just confirmed to the provider of
\* that very dashboard, for a token it accepts, a user of its role: what the browser has
\* stored of a user, and what was answered to another provider, is not enough.
AppearsConfirmed ==
    [][\A t \in Tab : DashboardShown(t)' /\ ~DashboardShown(t) =>
          \E q \in requests : /\ q.tab = t /\ q.kind = "nested" /\ q.token \in valid
                              /\ RoleOf[tokens[q.token]] = tabs'[t].path]_sessionVars

\* "Checking access" does not stay on the screen.
CheckingEnds ==
    \A t \in Tab : tabs[t].nested # ABSENT /\ tabs[t].nested.loading
                     ~> tabs[t].nested = ABSENT \/ ~tabs[t].nested.loading

\* As long as the accounts that log in with this browser have one role, a tab that is sent
\* from page to page comes to rest: at a dashboard that is shown, at the login page, or at a
\* public one.  (With two roles the two providers of a tab may send it to and fro for ever.)
OneRole == \A k, l \in Token : RoleOf[tokens[k]] = RoleOf[tokens[l]]
RedirectsEnd == []OneRole => \A t \in Tab : []<>(Dashboard(tabs[t].path) => DashboardShown(t))

=============================================================================
