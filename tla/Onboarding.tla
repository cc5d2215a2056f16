------------------------------ MODULE Onboarding ------------------------------
(***************************************************************************)
(* How a visitor becomes a client, and who owns a service request: the     *)
(* tables users, clients and service_requests and the services auth, user, *)
(* client and servicerequest that write them.                              *)
(*                                                                         *)
(* A user is named by the e-mail address (UNIQUE, never edited, accounts   *)
(* are never deleted), a client profile by its user (user_id is UNIQUE and *)
(* no route deletes a profile).  Registration and login are several SQL    *)
(* statements without a transaction: they are calls in flight that may     *)
(* stop after each of them.  Whatever else is one statement is one step.   *)
(* Of a profile only the country is kept, of the other data of a request   *)
(* only what decides who may own it.  Addresses are in normal form: every  *)
(* write and every comparison trims and lower-cases them.                  *)
(***************************************************************************)
CONSTANTS
    Email,          \* addresses people register and file requests with
    Request,        \* service request ids (and reference numbers)
    Call,           \* register and login requests being served
    NONE            \* SQL NULL

\* A client's own edit may leave the country blank, which is "".
Countries == {"Rwanda", "elsewhere", ""}

ASSUME NoneIsNoValue == NONE \notin Email \cup Countries

VARIABLES
    accounts,       \* accounts[e]: the role of e's user, "none" before it exists
    profiles,       \* profiles[e]: the country of e's client profile, NONE without one
    requests,       \* requests[r]: the row, or NoRequest
    sessions,       \* clients who hold a valid access token
    linked,         \* history: addresses whose registration ran to its end
    calls           \* where each call in flight is, and for whom

vars == <<accounts, profiles, requests, sessions, linked, calls>>

Roles == {"none", "client", "staff"}
NoRequest == [exists |-> FALSE, owner |-> NONE, email |-> NONE,
              phone |-> FALSE, early |-> FALSE]

\* early is history: a visitor filed the row before its address had an account.
StoredRequest ==
    [exists : {TRUE}, owner : Email \cup {NONE}, email : Email \cup {NONE},
     phone : BOOLEAN, early : BOOLEAN]
RequestRow == StoredRequest \cup {NoRequest}

Idle == [at |-> "idle", email |-> NONE]
CallState == {Idle} \cup
    [at : {"insert_user", "create_profile", "claim_requests", "ensure_profile"},
     email : Email]

TypeOK ==
    /\ accounts \in [Email -> Roles]
    /\ profiles \in [Email -> Countries \cup {NONE}]
    /\ requests \in [Request -> RequestRow]
    /\ sessions \subseteq Email
    /\ linked \subseteq Email
    /\ calls \in [Call -> CallState]

Init ==
    /\ accounts = [e \in Email |-> "none"]
    /\ profiles = [e \in Email |-> NONE]
    /\ requests = [r \in Request |-> NoRequest]
    /\ sessions = {}
    /\ linked = {}
    /\ calls = [c \in Call |-> Idle]

EmailExists(e) == accounts[e] # "none"
HasProfile(e) == profiles[e] # NONE

\* INSERT INTO clients ... ON CONFLICT (user_id) DO UPDATE: whatever country
\* is stored, a country offered that is not blank replaces it.
Upserted(offered, stored) == IF offered # "" THEN offered ELSE stored

\* CreateForUser offers the country "Rwanda".
CreateForUser(e) == profiles' = [profiles EXCEPT ![e] = Upserted("Rwanda", @)]

Goto(c, at) == calls' = [calls EXCEPT ![c].at = at]
Finish(c) == calls' = [calls EXCEPT ![c] = Idle]

-----------------------------------------------------------------------------
(* Registration and login.                                                 *)

RegisterCheckEmail(c, e) ==
    /\ calls[c] = Idle
    /\ ~ EmailExists(e)
    /\ calls' = [calls EXCEPT ![c] = [at |-> "insert_user", email |-> e]]
    /\ UNCHANGED <<accounts, profiles, requests, sessions, linked>>

\* Faults: no UNIQUE index; requests claimed before the profile is created.
RegisterInsertUnchecked(c) ==
    /\ calls[c].at = "insert_user"
    /\ accounts' = [accounts EXCEPT ![calls[c].email] = "client"]
    /\ Goto(c, "create_profile")
    /\ UNCHANGED <<profiles, requests, sessions, linked>>

RegisterClaimFirst(c) ==
    /\ calls[c].at = "insert_user"
    /\ ~ EmailExists(calls[c].email)
    /\ accounts' = [accounts EXCEPT ![calls[c].email] = "client"]
    /\ Goto(c, "claim_requests")
    /\ UNCHANGED <<profiles, requests, sessions, linked>>

\* Whoever checked at the same time may have inserted first.
RegisterInsertUser(c) ==
    LET e == calls[c].email IN
    /\ calls[c].at = "insert_user"
    /\ IF EmailExists(e)
         THEN Finish(c) /\ UNCHANGED accounts
         ELSE Goto(c, "create_profile") /\ accounts' = [accounts EXCEPT ![e] = "client"]
    /\ UNCHANGED <<profiles, requests, sessions, linked>>

RegisterCreateProfile(c) ==
    /\ calls[c].at = "create_profile"
    /\ CreateForUser(calls[c].email)
    /\ Goto(c, "claim_requests")
    /\ UNCHANGED <<accounts, requests, sessions, linked>>

\* ClaimVisitorRequestsByEmail: one UPDATE of the rows nobody owns.
Unclaimed(r) == requests[r].exists /\ requests[r].owner = NONE

ClaimByEmail(e) ==
    requests' = [r \in Request |->
        IF Unclaimed(r) /\ requests[r].email = e
          THEN [requests[r] EXCEPT !.owner = e] ELSE requests[r]]

\* Fault: an error of the claim is only logged, as login does it.
RegisterClaimBestEffort(c) ==
    LET e == calls[c].email IN
    /\ calls[c].at = "claim_requests"
    /\ ClaimByEmail(e) \/ UNCHANGED requests
    /\ sessions' = sessions \cup {e}
    /\ linked' = linked \cup {e}
    /\ Finish(c)
    /\ UNCHANGED <<accounts, profiles>>

RegisterClaimRequests(c) ==
    LET e == calls[c].email IN
    /\ calls[c].at = "claim_requests"
    /\ ClaimByEmail(e)
    /\ sessions' = sessions \cup {e}
    /\ linked' = linked \cup {e}
    /\ Finish(c)
    /\ UNCHANGED <<accounts, profiles>>

LoginAuthenticate(c, e) ==
    /\ calls[c] = Idle
    /\ accounts[e] = "client"
    /\ calls' = [calls EXCEPT ![c] = [at |-> "ensure_profile", email |-> e]]
    /\ UNCHANGED <<accounts, profiles, requests, sessions, linked>>

\* An error of CreateForUser is logged; the token is issued all the same.
LoginEnsureProfile(c) ==
    LET e == calls[c].email IN
    /\ calls[c].at = "ensure_profile"
    /\ CreateForUser(e) \/ UNCHANGED profiles
    /\ sessions' = sessions \cup {e}
    /\ Finish(c)
    /\ UNCHANGED <<accounts, requests, linked>>

\* A statement fails, the browser disconnects or the server stops: what has
\* been committed stays.
Abort(c) ==
    /\ calls[c] # Idle
    /\ Finish(c)
    /\ UNCHANGED <<accounts, profiles, requests, sessions, linked>>

SessionEnds(e) ==
    /\ e \in sessions
    /\ sessions' = sessions \ {e}
    /\ UNCHANGED <<accounts, profiles, requests, linked, calls>>

\* An admin creates an accountant (EmailExists, then INSERT).
CreateAccountant(e) ==
    /\ ~ EmailExists(e)
    /\ accounts' = [accounts EXCEPT ![e] = "staff"]
    /\ UNCHANGED <<profiles, requests, sessions, linked, calls>>

-----------------------------------------------------------------------------
(* Service requests and the profile.                                       *)

\* Validate of the input and service_requests_requester_check.
Contact(owner, email, phone) == owner # NONE \/ email # NONE \/ phone

InsertRequest(r, owner, email, phone, early) ==
    /\ ~ requests[r].exists
    /\ Contact(owner, email, phone)
    /\ requests' = [requests EXCEPT ![r] =
          [exists |-> TRUE, owner |-> owner, email |-> email,
           phone |-> phone, early |-> early]]
    /\ UNCHANGED <<accounts, profiles, sessions, linked, calls>>

CreateVisitorRequest(r, email, phone) ==
    InsertRequest(r, NONE, email, phone, email # NONE /\ ~ EmailExists(email))

\* currentClientID fails without a profile.
CreateClientRequest(e, r, email, phone) ==
    /\ e \in sessions /\ HasProfile(e)
    /\ InsertRequest(r, e, email, phone, FALSE)

CreateAdminRequest(r, owner, email, phone) ==
    /\ owner # NONE => HasProfile(owner)
    /\ InsertRequest(r, owner, email, phone, FALSE)

\* The reference number with the address or the phone number of the request.
Verified(r, email, phone) ==
    \/ email # NONE /\ email = requests[r].email
    \/ phone /\ requests[r].phone

ClaimByReference(e, r, email, phone) ==
    /\ e \in sessions /\ HasProfile(e)
    /\ Unclaimed(r)
    /\ Verified(r, email, phone)
    /\ requests' = [requests EXCEPT ![r].owner = e]
    /\ UNCHANGED <<accounts, profiles, sessions, linked, calls>>

\* Fault: no service_requests_requester_check.
UpdateAdminUnchecked(r, email, phone) ==
    /\ requests[r].exists
    /\ requests' = [requests EXCEPT ![r].email = email, ![r].phone = phone,
                                    ![r].early = @ /\ email = requests[r].email]
    /\ UNCHANGED <<accounts, profiles, sessions, linked, calls>>

\* The admin's form overwrites the contact data and leaves the owner alone.
UpdateAdmin(r, email, phone) ==
    /\ requests[r].exists
    /\ Contact(requests[r].owner, email, phone)
    /\ requests' = [requests EXCEPT
          ![r].email = email, ![r].phone = phone,
          ![r].early = @ /\ email = requests[r].email]
    /\ UNCHANGED <<accounts, profiles, sessions, linked, calls>>

\* Fault: the row is only marked as deleted.
DeleteAdminSoft(r) ==
    /\ requests[r].exists
    /\ requests' = [requests EXCEPT ![r].exists = FALSE]
    /\ UNCHANGED <<accounts, profiles, sessions, linked, calls>>

DeleteAdmin(r) ==
    /\ requests[r].exists
    /\ requests' = [requests EXCEPT ![r] = NoRequest]
    /\ UNCHANGED <<accounts, profiles, sessions, linked, calls>>

\* The UPDATE stores the country as the form gives it: nothing requires one,
\* and the upsert's default does not apply.
UpdateMyProfile(e, country) ==
    /\ e \in sessions /\ HasProfile(e)
    /\ profiles' = [profiles EXCEPT ![e] = country]
    /\ UNCHANGED <<accounts, requests, sessions, linked, calls>>

-----------------------------------------------------------------------------
CallNext(c) ==
    \/ \E e \in Email : RegisterCheckEmail(c, e) \/ LoginAuthenticate(c, e)
    \/ RegisterInsertUser(c)
    \/ RegisterCreateProfile(c)
    \/ RegisterClaimRequests(c)
    \/ LoginEnsureProfile(c)
    \/ Abort(c)

RequestNext(r) ==
    \/ DeleteAdmin(r)
    \/ \E email \in Email \cup {NONE}, phone \in BOOLEAN :
          \/ CreateVisitorRequest(r, email, phone)
          \/ \E e \in Email : CreateClientRequest(e, r, email, phone)
          \/ \E e \in Email \cup {NONE} : CreateAdminRequest(r, e, email, phone)
          \/ \E e \in Email : ClaimByReference(e, r, email, phone)
          \/ UpdateAdmin(r, email, phone)

UserNext(e) ==
    \/ CreateAccountant(e)
    \/ SessionEnds(e)
    \/ \E country \in Countries : UpdateMyProfile(e, country)

Next ==
    \/ \E c \in Call : CallNext(c)
    \/ \E r \in Request : RequestNext(r)
    \/ \E e \in Email : UserNext(e)

Spec == Init /\ [][Next]_vars

-----------------------------------------------------------------------------
(* Properties.                                                             *)

\* Two people who register the same address at the same time, or an admin who
\* creates an accountant meanwhile, do not both get the account: the role an
\* address was given is never replaced, and only one registration goes on
\* after the INSERT (user/service.go:77 checks, the UNIQUE index decides).
OneRegistrationPerEmail ==
    \A c, d \in Call :
        /\ calls[c].at \in {"create_profile", "claim_requests"}
        /\ calls[d].at \in {"create_profile", "claim_requests"}
        /\ calls[c].email = calls[d].email
        => c = d

\* A request that has an owner belongs to a client with an account and a
\* profile, and a profile to a client account, whatever step a registration
\* stopped at.
OwnershipGrounded ==
    /\ \A r \in Request : requests[r].owner # NONE => HasProfile(requests[r].owner)
    /\ \A e \in Email : HasProfile(e) => accounts[e] = "client"

\* A request nobody owns can still be answered and claimed: it keeps an
\* address or a phone number through every edit of it.
RequesterReachable ==
    \A r \in Request : requests[r].exists =>
        Contact(requests[r].owner, requests[r].email, requests[r].phone)

\* Claims race with each other and with registrations, and the first one
\* wins: no later call takes a request away from its owner.
OwnershipStable ==
    [][\A r \in Request :
          requests[r].owner # NONE /\ requests'[r].exists
              => requests'[r].owner = requests[r].owner]_vars

\* Whoever completed a registration owns what they had filed as a visitor
\* under the same address, unless somebody had claimed it with its reference.
RegistrationLinksEarlyRequests ==
    \A e \in linked, r \in Request :
        requests[r].early /\ requests[r].email = e => requests[r].owner # NONE

\* Login creates a missing profile and is safe on an existing one
\* (auth/service.go:85): only the client's own edit changes a stored profile.
StoredProfileKept ==
    [][\A e \in Email : HasProfile(e) /\ profiles'[e] # profiles[e]
          => \E country \in Countries : UpdateMyProfile(e, country)]_vars
=============================================================================
