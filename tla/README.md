# Kivu Advisory: a TLA+ verification project

This directory specifies the Kivu Advisory platform in TLA+: the services of its
back end that have something to get wrong, and every page of its front end that
talks to them. It model-checks them on small instances with TLC and proves the
most important properties with TLAPS for instances of every size.

The platform is a Go back end (`src/backend`), a PostgreSQL schema
(`src/backend/db/migrations`) and a Next.js front end (`src/frontend`). Visitors
file service requests, register and become clients; admins assign the requests
to accountants; documents, messages, consultations, tax portal logins and
notifications pass between the three. The repository has no tests, and its
`README.md` and `docs/*.md` are empty files: the specifications are written from
the code, and what it is *meant* to do is taken from its comments, its error
texts and what the pages of the front end tell their users.

Contents: [the system](#1-the-system), [how it is modelled](#2-how-it-is-modelled),
[the modules](#3-the-modules), [the runs](#4-the-runs),
[disagreements](#5-where-code-and-its-own-words-disagree),
[the proofs](#6-the-proofs), [not modelled](#7-not-modelled),
[where to go on](#8-where-to-go-on).

## 1. The system

### 1.1 How it runs

`cmd/server/main.go` loads the configuration, opens a pgx pool, builds the router
and serves HTTP until a signal; there is one process, one goroutine for each
request, no worker, no queue, no cache and no lock. All shared state is in
PostgreSQL, in a file storage (a directory or an R2 bucket) and in the token
signing key and the credential encryption key of the process.

Three facts decide what can go wrong in the back end:

- **No transactions.** `internal/database/transaction.go` defines `WithTx` and no
  service calls it. Every repository method is one SQL statement that commits by
  itself; a service method that calls several is a sequence of atomic steps with
  any other call in between, and may end after each of them (the request context
  is cancelled, the database fails, the process stops).
- **Check, then act.** Services read a row, compare its owner in Go, and then
  write by id alone. What was checked need not hold when the write happens; only
  the constraints of the schema are evaluated with the write.
- **Everything in the request.** E-mail and SMS are sent inside the request that
  causes them, with its context, and what fails is logged or recorded, never
  retried.

And three in the front end, whose pages are React components in a browser tab:

- **No order of answers.** A page sends a request without waiting for the one before,
  and takes each answer when it comes. Few effects cancel the request they replace.
- **Flags instead of locks.** What may not be clicked twice is switched off by a flag in
  the page's state, set before the request and cleared in a handler of its answer; a
  handler that forgets a case leaves the page at its spinner.
- **Shared storage, separate memories.** The tokens lie in the local storage, which all
  tabs share; who the user is, every tab holds for itself, and a dashboard even twice
  (one `AuthProvider` in `app/layout.tsx`, one in `DashboardLayout`).

### 1.2 Components

| component | state | operations that change it | hard behaviour |
|---|---|---|---|
| assignments (`internal/assignment`) | table `assignments` | create, edit, status by admin, status by the assignee, delete; cascade from requests | the partial unique index on active work, CASE expressions for the times, check-then-act by accountants, notices after the commit |
| registration and login (`auth`, `user`, `client`) | `users`, `clients` | register (4 statements), login (2), create accountant, profile upsert | two registrations of one address, a registration that stops half-way |
| service requests (`servicerequest`) | `service_requests` | file as visitor, client or admin, claim by reference, claim by address, edit, status, delete | claims that race, requests nobody can reach |
| accounts, passwords, tokens (`auth`, `user`, `accountant`, `middleware`) | `users`, signed tokens held by browsers | login, refresh, authenticate a request, change password, (de)activate, bootstrap | claims outlive the row they were made from; slow calls act on old rows |
| documents (`document`) | `documents`, the file storage | upload (5 steps), read, list, download, edit, archive | two stores without a common transaction; the two reads of a permission check |
| tax portal logins (`taxcredential`) | `tax_credential_systems`, `client_tax_credentials`, the key | systems, create, edit, delete, show, list, reveal | the reveal is six steps; concurrent edits; another key after a restart |
| notifications (`notification`) | `notifications`, `notification_deliveries` | NotifyUser and its fan-outs, read, read all, delete | providers that answer late or never; a loop that stops half-way |
| messages (`message`, `components/forms/message-form.tsx`) | `messages`, the state of each chat window | create, list, mark read, delete; load, select, send, upload in the window | rules by role and visibility; the right is checked a statement before it is used; answers that come while the user goes on |
| consultations (`consultation`) | `consultations` | book, edit, status by admin and by accountant, delete | whole-row edits, check-then-act by accountants |
| blog (`blog`) | `blog_posts` | create, edit, status, delete | announces on a status read before the write |
| public content (`staff`, `servicecatalog`, `testimonial`, `statistic`, `sociallink`, `content`) | one table each | create, edit, show/hide, delete | none: single statements |
| media (`media`) | the public storage | upload an image | none: one write, no row |
| audit log (`auditlog`) | `audit_logs` | append, best effort | none |
| dashboard (`dashboard`) | none | none | none |
| session of the portal (`frontend/src/lib`, `providers`, `components/layout`) | local storage, two providers a tab | log in, log out, load, navigate, any request | answers that arrive after a logout or another login; redirects of two providers |
| pages of the portal and the site (`frontend/src/app`, `components`) | React state of each page | load, search, create, edit, switch, delete, upload, reveal | answers in any order, lost, or to a form that was closed since; flags that stay set |

`PROJECT.json` lists every one with its sources and status.

### 1.3 How they interact

- `auth.RegisterClient` calls `user`, then `client.CreateForUser`, then
  `servicerequest.ClaimVisitorRequestsByEmail`; `auth.Login` calls `user` and
  `client.CreateForUser` (module Onboarding).
- `document` and `taxcredential` read `service_requests` and `assignments` to
  decide who may see what (modules Documents and TaxCredentials hold the owner and
  the team of a case as they are read there; Onboarding and Assignments are where
  they change).
- `assignment`, `document`, `consultation`, `servicerequest`, `taxcredential` and
  `blog` call `notification.NotifyUser` or a fan-out and drop its error
  (module Notifications).
- Deleting a service request deletes its assignments and documents, deleting a
  system its logins, deleting a notification its deliveries: `ON DELETE CASCADE`,
  part of the action that deletes.
- A chat window uploads a document through `document` and then sends a message that
  names it; its load asks `message` case by case (module Conversations).
- Every page goes through `lib/api.ts`, which adds the stored token to each request and
  clears the storage on an answer 401 to any of them: this is how a page meets the session
  (module PortalSession). What a page does with the other answers is in the page modules.
- The browser holds the tokens; `middleware.RequireAuth` compares them with
  nothing but the clock and the signing key (module Accounts).

### 1.4 What makes each component correct

The properties of section 4 state it for the modelled components. For the others: a
consultation keeps the accountant the last admin gave it and only that one sets its
status; the first publication of a post is announced once; what a visitor is shown is
what admins have published. Section 7 says why these have no module.

## 2. How it is modelled

- One repository method is one step. A service method with several is a **call in flight**:
  `calls[c]` holds where it is and what it has read. `Abort` and `Return` end a call after
  any statement; what it wrote stays.
- A statement that a constraint or a `WHERE` refuses changes nothing: it is the step that is
  not taken.
- Rows that were deleted keep a state of their own ("deleted", "gone", "cascaded"), so that
  a property can say that nothing comes back. Ids are generated by the database and used
  once.
- **History variables** (`insiders`, `shown`, `readers`, `answered`, `worked`, `held`,
  `activeAt`, `heldAt`, `linked`, `told`, `acted`, `meant`, `dead`, `ledger`) record what
  was once so. No guard of an action reads one. They exist because most rights here are
  checked on a state that has passed: "nobody sees what they have no right to" is false for
  the present moment, by design, and the true statement is about a moment before.
- Names, texts, phone numbers, prices, paging and times of day are left out unless a
  property is about them. Addresses are in normal form: every write and comparison trims and
  lower-cases them. Passwords are *not*, and Accounts models why.
- In the front end one **turn of the event loop** is a step: a click, a timer, or an answer
  taken by the handler that awaits it, up to the handler's next `await`. A request is a
  record in `flight` (or `calls`); the server does what it asks at a moment of its own, may
  refuse it, cannot be reached, or does it and its answer is lost.
- A definition whose comment begins with "Fault:" is not part of a specification: `Next`
  does not use it. It stands beside the definition it differs from and is what a plausible
  bug there would look like; with it in place, the property named in `PROJECT.json`
  ("mutants") is violated, so none of the properties holds merely by the shape of the model.

## 3. The modules

`X.tla` is a component, `MCX.tla` with its `.cfg` files the instance TLC checks,
`XProofs.tla` the theorems (CasesProofs has those about Assignments and Conversations,
AccountsProofs those about Accounts and PortalSession, PortalProofs and PortalRowsProofs
those about the pages). Every definition that stands for code is listed with
its lines in `PROJECT.json` ("map").

### Assignments
`assignments[a]` is a row of the table (life, request, accountant, status, and
whether the two times are set); `liveRequests` the requests it refers to; `handlers` what
the calls that run hold. (The constants and the specification are called `Assignee`,
`Handler` and `AssignmentsSpec`, since one module proves things about both this and
Conversations.) The admin's
actions (`CreateAdmin`, `UpdateAdmin`, `UpdateStatusAdmin`, `DeleteAdmin`) are one
statement each; `CreateAdmin` leaves a call that still has to notify the accountant
(`NotifyAccountant`). An accountant's status change is `CheckAssignee` (read, compare)
and `UpdateStatusAccountant` (write by id). `IndexAdmits` is the partial unique index,
`SetStatus` the CASE expressions of the UPDATE, `RequestDeleted` the cascade. Notes,
priority and due date are left out: no guard reads them.

### Onboarding
`accounts`, `profiles` and `requests` are the three tables, by address;
`sessions` who holds a token. A registration is `RegisterCheckEmail`,
`RegisterInsertUser`, `RegisterCreateProfile`, `RegisterClaimRequests`, a login
`LoginAuthenticate`, `LoginEnsureProfile`: the errors that the code returns end the
call, those it logs let it go on. `CreateForUser` is the upsert with its default
country, which is why the country is the one column of a profile that is kept: Rwanda,
another one, or blank, which a client's own edit may store (`UpdateMyProfile`) and the
upsert never does.
Requests are filed by three routes, claimed in two ways, edited and deleted.

### Notifications and DeliveryLedger
`DeliveryLedger` is the abstract specification: what an admin who reads
`notification_deliveries` may rely on. One record for each channel, opened before
anything is sent, one open at a time, settled at most once, gone with the
notification. `Notifications` is the code: a call with its list of recipients and its
list of channels (`NormalizeChannels` applied), the row of the notification
(`CreateNotice`), the record (`InsertDelivery`), the request to the provider (`Send`),
its answer (`ReadAnswer`) or none in 15 seconds (`Timeout`), the update of the record
(`Mark`). `ProviderDecides` is the provider, which may do so after the call has given
up. Recipients read and delete meanwhile (`UserStep`), with the cascade. `LedgerKept`
says that it implements `DeliveryLedger` under the mapping `posted`, `ledger`.

### Documents
`rows[f]` and `files[f]` are the table and the storage, both named by the storage key.
An upload is `StartUpload` (the access check), `SaveFile` or `SaveBreaksOff`, `Insert`
(which may commit and still return an error), `CleanUp` or `AnswerUpload`; a reader's
call is `ReadRow`, `LetIn`, `Return`. The case (owner, team, existence) changes in
between. `Placed` is how an upload's visibility is normalised by role, `Admits` and
`Entitled` the two halves of `canViewDocument`. `Told` is the notice to the client, which
goes out for every upload of an admin whose type is `final_deliverable`; is_final implies the
type and the visibility "client", but an admin may choose the type alone, with any visibility.

### TaxCredentials
`creds[d]` is a row with its box (the password sealed with a key) and who revealed it
last; `team` the assignments that are not cancelled; `key` the key the process was
started with. A client's edit and deletion read and compare the row and then write
(`StartWrite`, `UpdateClientCredential`, `DeleteClientCredential`); a read is
`FindCredentialByID`, for an accountant `Admit`, then `ShowDetail`, or
`MarkCredentialRevealed` and `AnswerReveal`. A list checks the right first and reads
the rows afterwards (`StartList`, `ShowListed`). `Restart(k)` ends all calls and takes
another key.

### Accounts
`users[u]` has role, is_active and password; `issued` the token pairs; `now` the clock.
A login reads the row (`Authenticate`) and signs later (`GenerateTokenPair`), a refresh
checks the token, reads the row and signs (`VerifyRefreshToken`, `RefreshToken`,
`GenerateTokenPair`), a change of password compares and writes
(`CheckCurrentPassword`, `UpdatePassword`). `RequireAuth` looks at claims and clock
only. A password is its text and whether it has blanks around it, because login trims
and registration does not. An answer later than the server's write timeout
(`cmd/server/main.go:41`) reaches nobody, which is the guard of `GenerateTokenPair`.

### Conversations
`messages` is the table, `window[u]` the state of user `u`'s chat window, `calls` what it
waits for. A load is `LoadCases` (the user's cases, resolved from the assignments for an
accountant), then for case after case `LoadChecked` and `LoadListed` (two statements of the
API), and `LoadDelivered`. `Send` and `FileUpload` start calls that go through `Uploaded`,
`CreateChecked`, `Inserted` and end with `Sent` or `NotSent`. What the window asks for a
document (`DocumentVisibility`) is not what is stored (`StoredVisibility`, as `Placed` in
Documents): the server heeds it for an admin only. `LoadDelivered` takes the thread that was
open when the load began, and the effect after it opens the case whose reference number the
address names (`Reference`). `MarkRead` is the endpoint
that no page uses. `Reassign` puts accountants on cases and takes them off in between.
`List` is the query with its page limit: it answers the *oldest* 100 rows
(`ORDER BY created_at ASC`), so that of a longer case no window shows what came last; and a
message that was sent while a load was on its way is replaced by it and vanishes from the
window until the next load. Nothing in the repository promises otherwise, and no property
does.

### PortalSession
`storage` is the stored token, `tabs[t]` the path and the two providers of a tab, `requests`
the requests that wait, each with the token that was stored when it was sent. `Loads`
mounts everything anew, other navigation keeps the root's provider. An answer of `/auth/me`
is taken by the provider that asked (`RefreshUser`), or by nobody, when that one is
unmounted (`gone`), and clears the storage all the same. The effects of the layouts are the
redirects. A logout from a dashboard asks for the login page twice, once with and once without
the way back (`next`), and either may win (`LogoutOfDashboard`).

### PortalPage, the page modules and Portal
`PortalPage` has what all pages share: the rows of the server (`server`, a row is abstracted
to its text, at first its own name, so that a text tells where it came from), the requests
(`flight`), the state of the one page that is open (`view`: rows, form, edits, flags), and
the two ways most pages save and reload. The handlers of 57 pages and parts are in
`ContentEditors`, `CasePages`, `WorkLists`, `CaseFiles`, `PeoplePages` and `SitePages`; a
definition begins with its page's name. `Portal` chooses a page, keeps it open, and states
what all of them promise. The pages differ in what matters here: in what is off while
something is on its way, in whether a flag is cleared before or after a reload, in whether a
failed load keeps the list, and in the few effects that cancel the request before.

Onboarding and Accounts look at the same two services. Onboarding has the order of the
statements and the tables they fill; Accounts has time, passwords and tokens. Together
they would multiply their states without a property that needs both.

## 4. The runs

All bounds are constants of the `.cfg` files. Sets of model values are symmetric
where the property is a safety property; no run with a liveness property uses
symmetry. Deadlock is checked in the runs of the back end; in `portal`, `session` and
`conversations` a state in which all is answered and the user has used up his clicks is
where a behaviour may stop, and what must not be stuck there is a property
(`QuietWhenAnswered`, `CheckingEnds`, `RedirectsEnd`, `ComesToRest`).

| run | distinct states | instance |
|---|---|---|
| `assignments` | 328 517 | 2 requests, 2 accountants, 2 rows, 2 calls |
| `onboarding` | 705 184 | 2 addresses, 2 requests, 2 calls |
| `notifications` | 10 067 | 1 call to none, one or two users, 3 channels |
| `documents` | 1 127 529 | 1 request, 1 upload, 1 person of each role, 2 calls |
| `tax_credentials` | 741 094 | 2 clients, 1 accountant, 1 system, 1 credential, 2 keys, 2 calls |
| `accounts` | 646 639 | 1 user, 2 passwords with and without blanks, 2 calls, times 0..2 |
| `conversations` | 216 739 | 1 user of each role, 2 cases, 1 earlier message, 3 clicks, pages of 1 |
| `session` | 165 574 | 2 tabs, a client and an admin, 3 moves |
| `portal` | 1 708 301 | each of 57 pages, 3 rows (1 still free), 2 clicks and all that follows |

**assignments.** `OneActivePerRequest`: at most one unfinished assignment for each
request, also through statuses that reopen a finished one. `TimestampsMatchStatus`: the
times computed from the previous row agree with the status. *Bounds:* two rows for one
request are what the index forbids, two requests let a row move and one accountant's write
hit another's row. Both properties speak of at most two rows.

**onboarding.** `OneRegistrationPerEmail`, `OwnershipGrounded` (owners have profiles,
profiles accounts, wherever a registration stopped), `RequesterReachable` (a request that
nobody owns keeps an address or a phone), `RegistrationLinksEarlyRequests` (a registration
that ran to its end has linked what was filed before it). *Bounds:* two calls are a race for
one address or a login beside a registration; a second address gives a claim somebody to
take a request from.

**notifications.** `LedgerTruthful` (a record never claims more than the provider
did), `PendingHasItsCall` (a record stays pending only if its own call was cut off),
`SuccessMeansServed` (no error means every recipient on every channel), `LedgerKept`
(refinement of DeliveryLedger), `CallsReturn` (liveness). *Bounds:* two recipients show
that an error drops the ones after; the lists of channels are empty, repeated, complete
and in another order; one channel has a provider, one has none, one user has no phone.
A second call would share nothing with the first but the users who read and delete; the
theorems hold for any number.

**documents.** `AnsweredUploadsStay` (an upload that was answered with success keeps its
row and its file), `ReadersWereEntitled` (whoever reads was of the
case and the document open to his role, each at some time up to the answer; whoever is told
of a deliverable has been on its case, but it need never have been open to him).
*Bounds:* no property relates two documents or two cases, except that keys differ,
which the theorems cover; two calls are an upload and a reader, or two readers, and the
admin's statements need none.

**tax_credentials.** `RevealsRecorded` (a password is only answered after its row says
so), `ShownWasStored` (username and password that are answered together were stored
together), `OnlyEntitled`, `LoginsHaveTheirSystem`. *Bounds:* two calls are a reveal and an edit, or two edits; `EditLimit` = 2 (constraint `FewEdits`)
stops after a credential has said two different things, enough for an answer that mixes
them: an edit of the username alone leaves the password of the creation. The second
client is the one the accountant works for while the row belongs to the first. With one
credential TLC sees only the half of `LoginsHaveTheirSystem` that is about deleted
systems, and there is no admin among the readers (an admin is admitted without a
check); theorems `LoginsKeepTheirSystem` and `EntitledOnly` have both.

**accounts.** `AcceptedWereActive`: a request is let in for an account that was active less
than `CallLimit + AccessTTL` before. `LoginsUseAHeldPassword`: what was given for a password
was given within `CallLimit` of its being the stored one. *Bounds:* `CallLimit` = 1,
`AccessTTL` = 1, `RefreshTTL` = 2 and `LastTime` = 2 let a call straddle a tick, a token
end, and a refresh outlive its access token; `PairLimit` = 2 (constraint `FewPairs`) stops
after two pairs were issued: one that a call renews and the renewed one. Users do not
interact. The actual values (30 s, 60 min, 7 days) have the same order; the theorems hold
for any.

**conversations.** `WithinSight`: nobody is shown, or marks as read, a message that is not
for his role or of a case he had no part in while the call ran. `SentAsMeant`: a message has
the case and the audience that were chosen when it was sent, whatever is chosen while its
requests run, and the document sent with it is open to exactly those of the case whom the
message is for, except that an accountant's is never open to the client. The two halves of the
platform call the same audience by two names ("conversation", "client"), and who may open a
document (`OpenTo`) and who sees a message (`Sees`) are rules of two services. `ComesToRest` (liveness): a window does
not stay at loading, sending or uploading. *Bounds:* one case has an owner, one is a guest's;
the windows of the three roles open at their own place (a case, "direct", none), one of them
at an address that names a reference number; the earlier
message is an admin's note on the client's case; `PageLimit` = 1 makes a list leave something
out; three clicks are a load, a message and a reassignment, or an upload with two changes
of what is chosen. Two windows of one role do not meet but in the table.

**session.** `DeadTokensStayDead`: a token that was given up by a logout, or refused, is never
sent again by any tab. `AppearsConfirmed`: a dashboard appears only in the step in which the
server confirms to its own provider a user of its role; stored data and answers to others
are not enough. `CheckingEnds` and `RedirectsEnd` (liveness): "Checking access" does not stay,
and a tab comes to rest. `RedirectsEnd` assumes that the accounts that log in with the browser
have one role: without that TLC finds a tab that its two providers, one holding an admin and
one a client, send to and fro for ever. *Bounds:* two tabs are one that logs out under the
other; two accounts of two roles are a login as somebody else; three moves are a login, a
logout and a second login, with every order of the answers.

**portal.** `QuietWhenAnswered`: when all is answered, nothing on the page is loading, saving or
switched off. `OneRowPerFill`: one filling of a form makes one row however often it is sent,
unless the user was told that it had failed. `RowsKeepTheirText`: no handler puts what was
typed for one row into another. `FailureKeepsTheForm`: the step that takes the
failure of a write leaves what was typed (uploads are not among these writes).
`ListIsForItsQuery`: on the pages whose effect cancels the request before, the list is the one
the search asks for. *Bounds:* a page does not meet another but at the server, so one is open
at a time and `Elsewhere` stands for all others; three rows are two that are there and one to
create; two clicks are two requests at once, each with the reloads that follow it, which no
click is counted for. A search has two values, one that finds everything and one that finds
one row. `TypeOK` includes that the count of the bell does not go below zero.

Four things the models of the pages show and no property forbids, since the code does not
say otherwise: the lists of requests, documents and logins take answers in any order, so a
search may end with the list of an earlier one (`app/admin/requests/page.tsx:50`); the address
of an uploaded picture is put into whatever form is open when it comes
(`components/admin/image-upload-field.tsx:143`); a form writes all columns as they were
when it was opened, over what others wrote meanwhile; and the profile form of the
portals never shows the stored profile, since it does not find it in the answer
(`components/forms/profile-form.tsx:53`); it is empty until the user types, and `ProfileLoad`
only ends the loading.

**Fairness.** `notifications`: weak fairness of each call's own steps (`FairSpec`).
`net/http` runs each request in its goroutine, pgx statements return or fail, and a
request to a provider ends by the 15 seconds of its `http.Client` (`resend_sender.go:30`,
`twilio_sender.go`), which is the action `Timeout`. Nothing is assumed of providers
(`ProviderDecides` is not fair), callers, recipients or failures: `CallsReturn` holds
although the provider may never answer. `conversations`: weak fairness of the steps of the
calls, since a `fetch` is answered or fails and the window's handler runs then; users are
not fair. `session`: weak fairness of the answers and of the effects of the providers, which
React runs after each change; users are not fair, and the server may answer either way.
`portal` has no liveness property: `QuietWhenAnswered` says the same of the states in which
nothing is left to be answered, without fairness. The other modules have none: what has to
happen there depends on people.

## 5. Where code and its own words disagree

Three runs each check one statement of the repository that the code does not keep. The
models of these runs are those of section 3.

| run | statement | what the code does |
|---|---|---|
| `assignee_writes` | "you do not have permission to update this assignment" (`assignment/service.go:217`) | the accountant is compared on a row read before; the UPDATE names the id alone, so after a reassignment in between a former assignee's status lands on the new one's work |
| `stored_profile` | "CreateForUser should ideally handle duplicate user_id safely" (`auth/service.go:86`) | the upsert takes every non-blank offered value, and login offers the country "Rwanda": each login overwrites the stored country |
| `accounts_registered` | "Your client account was created successfully. You can now log in." (`register-form.tsx:82`) | login trims the password, registration does not: with a blank at an end, login is never possible |

Five more follow from the models in the same way and have no run of their own. Two are about
the audience of a document: an admin's deliverable may be kept from the client
(`document/service.go:391`), who is told all the same "Please log in to your client dashboard to
view or download it" (`document/notification.go:186`); and an accountant who sends a document with
a message for everybody in the case asks for the visibility "client" (`message-form.tsx:545`), but
the server stores every document of an accountant as "staff" (`document/service.go:386`), so the
client sees the message and not the document it names. The other three are
`requests/link/page.tsx:272` ("Same email: your request should appear automatically"; the claim
is the last statement of a registration, and a later login repairs the profile, never the
claim), `auth/service.go:82` ("login will create the missing client profile"; its error is
logged and the token issued), and `admin/accountants/[id]/page.tsx:619` ("Deactivating this
account should prevent the accountant from accessing the accountant dashboard"; access ends
with the token, and `AcceptedWereActive` is the bound that does hold).

## 6. The proofs

Eight modules, 16 498 obligations, all discharged. Every invariant that a passing run
checks, and every action property, is a theorem for any values of the constants, with the
assumptions the modules name: NULL or NONE is none of the values it is compared with, the
roles are disjoint, times are natural numbers, lists of recipients and channels are
sequences, messages that are there at first are as their senders meant them, the pages have
finitely many rows, of which at least one is still free. (That one is a bound of the model:
a table of the database is never full.) TLC evaluates the assumptions in every run. Seven
more facts that no run checks are proved beside them: `NoDangling`, `HistoryNeverRewritten`
(assignments), `OwnershipIsStable` (onboarding), `EverythingRecorded` (notifications),
`StayPut` (documents), `RowsStayPut` (logins) and `OnlyAccountantsOut` (accounts).

- **CasesProofs**, who works on a case and what is said in it. Of Assignments:
  `AssignmentsTypeCorrect`, then `Safe`, the conjunction of the three
  invariants, which is inductive with the types. `TableSteps` reduces `AssignmentsNext` to six
  kinds of change of the table; `IndexKept` shows that the index, consulted on every
  write, keeps the entries unique. `HistoryKept` follows by cases.
  Of Conversations: `Inv` = `Rows` (the tables), `CallsOK` (what each call may count on:
  `mine` is at least what the rights are now and is established once the check is behind; a
  message a call names is as it was; what a load has got was given to its user) and
  `WindowsOK` (what is shown was sent from here or given). `Quiet` serves the steps that leave
  the tables alone; `Grows` those that add to them, for which `CallKept` and `WindowsKept` carry
  calls and windows over. `NumberTyped` (a number is free as long as calls are finitely many)
  and `NewestIn` (a set of messages has a newest) are about the operators.
- **OnboardingProofs.** The invariants are not inductive: that a claim is made for an
  existing profile depends on where the call is. `Safe` = `Accounts` (profiles belong to
  clients, whoever is linked has an account), `CallsInFlight` (`Progress`: what a call
  at each statement may count on), `Rows` (`RowGood` for each request). `Grows`, that
  accounts keep their role and profiles stay, carries `Progress` and `RowGood` over the
  steps of other calls.
- **NotificationsProofs.** `Inductive` says of every call what does not exist yet
  (`AheadOK`), what is open (`OpenOK`), what lies behind it (`BehindOK`) and who a
  pending record belongs to (`PendingOK`). `Elsewhere` is what any step may do to a call
  that is not its own. `LedgerStep` maps every step to a step of DeliveryLedger or a
  stutter, with the invariant for the guards (that no other record of the notification
  is pending is `PendingOK`); `LedgerImplemented` is the refinement.
- **DocumentsProofs.** `Safe` = `CallOK` (what an upload or a reader's call holds is of a
  row that was so), `KeysApart` (no two uploads have one key: without it one upload's
  clean-up could delete another's file), `FileOK`, `ReaderOK`, `CaseOK`.
- **TaxCredentialsProofs.** `Safe` = the teams are among those who worked, `CallOK` (a call
  that was admitted holds the client, username and password of a moment of its row, one
  that is past the record finds it), `RowOK`, `AnswerOK`, `Apart` (one login for a client and a
  system). `Grows` says that the histories and the fixed columns are kept.
- **AccountsProofs.** `Good` = `UserOK` (the histories have the present), `CallOK` (what a
  call read was so since it started), `PairOK` (what a pair claims was so less than a call
  before it was signed), and `AcceptedWereActive` itself. `Grows` makes each of the three
  stable. `OnlyAccountantsOut` has its own invariant and its own case analysis (`LockStep`).
  Of PortalSession: `SessionTypeCorrect` is not inductive alone: that an answer finds the
  provider it is for needs that a provider of a dashboard with a request in flight is still
  mounted, and leaving a dashboard renames its requests (`Abandoned`). `DeadStayDead` follows from
  the invariant that the stored token is not dead, since a request takes the stored one.
  `AppearsOnlyConfirmed` is a case analysis: of all steps only `Confirmed` ends the check of a
  provider with a user.
- **PortalProofs.** Four invariants and the action property of all pages, from `IInv`, which
  is inductive:
  - `Data`, types sharp enough for the texts: every row, form, edit and password on the page
    and every row in a request or an answer has a text that its row may have (`TextsFor`), an
    answer for one row is about that row, a request that only reads carries no text. This is
    what `TextsStayWithTheirRows` needs, and the reason why it is no weaker;
  - `ViewOn(page)`, what a page's form, flags and rows may look like: the forms that are
    always there, the rows that only one row's page has, what is shown when no load runs;
  - `HeldAll`: every flag that is raised has a request in flight whose answer lowers it
    (`Holders`), and so have a row that is marked and a password that is waited for. When
    nothing is in flight no flag is up, which is `NothingHangs`. The invariant of the run says
    this of the end only; step by step it is which answer is good for which flag, and on the
    pages whose effect cancels the run before, that an answer of an older life is not;
  - `RunsFit`, for those pages: a request of the present life asks for what the page is about
    now. `OutdatedIsNotShown` is this and `ViewOn`.

  A turn of the event loop has one of a few forms (something is done, asked, taken, taken and
  asked; `DoesStep` to `FailsStep`), and for each a lemma reduces `IInv'` to a statement about
  the one view and the one request that changed (`StillHeld`; `Alike` for the many views that
  differ in flags alone). Each page is one lemma, each handler one step of it; what other users
  and the server do is `WorldKeeps`, what a page is when opened `InitFits`. `FailedWritesLoseNothing`
  comes from the same lemmas: they carry `Kept` along with `IInv'`.
- **PortalRowsProofs.** `OneFillingOneRow`: however often the user clicks, and whatever is lost
  on the way, what was typed once makes one row at most. `OneRow` is inductive beside `IInv`.
  Three arguments are in it, because the code has three ways of seeing to it. `Filling`, on the
  pages with a button: a filling is sent by at most one request, none is made before its
  request is served, the button is off while that request or the reload after it is on its way,
  and a form that was sent is not offered with the button on: it is gone or its receipt is
  shown instead. (On the card of a request this is tied to the life of the card, which takes
  its form away with it.) `Keyed`, on the three pages where the form stays after a failure and
  may be sent again (an accountant's account, a registration, a post): all that is sent has one
  key, and once a row has it the database refuses any other. `Edits`, on the page of a post:
  nothing it sends makes a row. The steps are four: those that neither send nor answer
  (`CalmStep`), that send (`SendStep`), that end the waiting (`EndStep`), that mount the card
  anew (`RemountStep`).

Only model-checked: the liveness properties `CallsReturn`, `CheckingEnds`, `RedirectsEnd` and
`ComesToRest` (fairness and ENABLED are not within the prover's reach), and the three
violations of section 5, which are single behaviours.

## 7. Not modelled

- **Consultations** (back end). Booking, the admin's whole-row edit, the status by two roles.
  The accountant is compared on a row read before and the UPDATE names the id alone: what that
  leads to is shown for assignments (`assignee_writes`). No constraint relates two
  consultations, and nothing in the code says what an edit must keep. Its pages are modelled.
- **Blog** (back end). A post is announced on the status that was read before the write, so
  two calls that publish at once announce twice. The code promises nothing against it; the
  fan-out is in Notifications, the pages in ContentEditors, PeoplePages and SitePages.
- **Public content** (back end): one table each, single statements. PortalPage has what the
  pages depend on.
- The status of a service request: `UpdateStatus` accepts any status at any time and no
  guard reads it.
- `NotifyExternalContact` (`delivery_service.go:40`), which sends without any record; the
  notices of assignments and documents to the admin, whose recipient is looked up once
  when the process starts (`router.go:162-181`).
- Refresh tokens are neither rotated nor revoked (`auth/service.go:164`), and the front end
  never uses them; a file of an upload that failed may stay without a row
  (`local_storage.go:148`). Both are in the models, and the code promises nothing of them.
- The strength of passwords, signatures and encryption: a token is what was signed, a box
  opens with its key.
- Uploads of images, audit log, dashboard, configuration, migrations, validators, the mail
  stub: no state, or a single statement with nothing to interleave with.
- In the front end: what is drawn (labels, colours, counts, menus, downloads in a new window,
  the clipboard), parts without state, and components that no page imports
  (`request-detail-card`, `accountant-assignment-detail`, `accountant-assignments-table`,
  `client-documents`, `client-messages`, `accountants-table`, `public-services-list`,
  `dashboard-topbar`). Two pages open at once, and a page left while it waits (React ignores the
  answer), but for the parts of a page that are unmounted while the page stays.
- The isolation level: each statement is atomic and sees what was committed. A single
  statement of PostgreSQL under READ COMMITTED that waits for a row re-evaluates its
  `WHERE`, which gives the same result as running after the other.

## 8. Where to go on

1. A module that joins Assignments and Onboarding to the cases that Documents, TaxCredentials
   and Conversations read, shown to refine what those assume of owner and team.
2. The back end of the blog against an abstract specification (a post is announced once, when
   it is first shown), which it does not implement, and `NotifyExternalContact` in Notifications.
3. Proofs: that the joined module refines what Documents, TaxCredentials and Conversations
   assume of a case.
