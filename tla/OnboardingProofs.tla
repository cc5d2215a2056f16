--------------------------- MODULE OnboardingProofs ---------------------------
(***************************************************************************)
(* Proofs about registration and the ownership of service requests, for    *)
(* any number of addresses, requests and concurrent calls.                 *)
(***************************************************************************)
EXTENDS Onboarding, TLAPS

\* A step disturbs few of the variables; the invariant is split accordingly.
Accounts ==
    /\ accounts \in [Email -> Roles]
    /\ profiles \in [Email -> Countries \cup {NONE}]
    /\ \A e \in Email : HasProfile(e) => accounts[e] = "client"
    /\ linked \subseteq Email
    /\ \A e \in linked : accounts[e] = "client"
    /\ sessions \subseteq Email

\* What a registration or login in flight may count on.
Progress(call) ==
    /\ call \in CallState
    /\ call.at \in {"create_profile", "claim_requests", "ensure_profile"}
          => accounts[call.email] = "client"
    /\ call.at = "claim_requests" => HasProfile(call.email)

CallsInFlight ==
    /\ calls \in [Call -> CallState]
    /\ \A c \in Call : Progress(calls[c])
    /\ OneRegistrationPerEmail

\* What holds of every row of service_requests.
RowGood(row) ==
    /\ row \in RequestRow
    /\ row.owner # NONE => HasProfile(row.owner)
    /\ row.exists => Contact(row.owner, row.email, row.phone)
    /\ row.early /\ row.email \in linked => row.owner # NONE

Rows ==
    /\ requests \in [Request -> RequestRow]
    /\ \A r \in Request : RowGood(requests[r])

Safe == Accounts /\ CallsInFlight /\ Rows

\* Accounts and profiles only ever grow.
Grows ==
    /\ \A e \in Email : EmailExists(e) => accounts'[e] = accounts[e]
    /\ \A e \in Email : HasProfile(e) => HasProfile(e)'

LEMMA InitSafe == ASSUME Init PROVE Safe
<1> USE DEF Init
<1>1. Accounts
  BY DEF Accounts, Roles, HasProfile
<1>2. Idle \in CallState /\ Progress(Idle)
  BY DEF CallState, Progress, Idle
<1>3. CallsInFlight
  BY <1>2 DEF CallsInFlight, OneRegistrationPerEmail, Idle
<1>4. NoRequest \in RequestRow /\ RowGood(NoRequest)
  BY DEF RequestRow, RowGood, NoRequest
<1>5. Rows
  BY <1>4 DEF Rows
<1> QED
  BY <1>1, <1>3, <1>5 DEF Safe

\* The columns of a row.
LEMMA RowColumns ==
    ASSUME NEW row \in RequestRow
    PROVE  /\ row.owner \in Email \cup {NONE}
           /\ row.email \in Email \cup {NONE}
           /\ row.phone \in BOOLEAN
           /\ row.early \in BOOLEAN
           /\ row.exists \in BOOLEAN
           /\ row.exists => row \in StoredRequest
           /\ row.early => row.exists
<1>1. CASE row = NoRequest
  BY <1>1 DEF NoRequest
<1>2. CASE row \in StoredRequest
  BY <1>2 DEF StoredRequest
<1> QED
  BY <1>1, <1>2 DEF RequestRow

\* A call that moves on leaves the others where they are.
LEMMA CallMoves ==
    ASSUME Safe, Accounts', Grows, NEW c \in Call, NEW new \in CallState,
           calls' = [calls EXCEPT ![c] = new],
           Progress(new)',
           \/ new.at \notin {"create_profile", "claim_requests"}
           \/ calls[c].at = "create_profile" /\ new.email = calls[c].email
           \/ ~ EmailExists(new.email)
    PROVE  CallsInFlight'
<1>1. calls' \in [Call -> CallState]
  BY DEF Safe, CallsInFlight
<1>2. ASSUME NEW d \in Call \ {c} PROVE calls'[d] = calls[d]
  BY <1>2 DEF Safe, CallsInFlight
<1>3. calls'[c] = new
  BY DEF Safe, CallsInFlight
<1>4. ASSUME NEW d \in Call \ {c} PROVE Progress(calls[d])'
  <2>1. Progress(calls[d]) /\ calls'[d] = calls[d] /\ calls[d] \in CallState
    BY <1>2 DEF Safe, CallsInFlight
  <2>2. calls[d].at # "idle" => calls[d].email \in Email
    BY <2>1 DEF CallState, Idle
  <2> QED
    BY <2>1, <2>2 DEF Progress, Grows, EmailExists
<1>5. \A d \in Call : Progress(calls[d])'
  BY <1>3, <1>4 DEF Progress
<1>6. ASSUME NEW d \in Call \ {c},
             calls[d].at \in {"create_profile", "claim_requests"},
             new.at \in {"create_profile", "claim_requests"},
             calls[d].email = new.email
      PROVE  FALSE
  <2>1. EmailExists(new.email)
    BY <1>6 DEF Safe, CallsInFlight, Progress, EmailExists
  <2>2. calls[c].at = "create_profile" /\ new.email = calls[c].email
    BY <2>1, <1>6
  <2> QED
    BY <2>2, <1>6 DEF Safe, CallsInFlight, OneRegistrationPerEmail
<1>7. OneRegistrationPerEmail'
  BY <1>2, <1>3, <1>6 DEF Safe, CallsInFlight, OneRegistrationPerEmail
<1> QED
  BY <1>1, <1>5, <1>7 DEF CallsInFlight

\* Calls that stay where they are.
LEMMA CallsStay ==
    ASSUME Safe, Grows, UNCHANGED calls
    PROVE  CallsInFlight'
<1>1. ASSUME NEW d \in Call PROVE Progress(calls[d])'
  <2>1. Progress(calls[d]) /\ calls'[d] = calls[d] /\ calls[d] \in CallState
    BY DEF Safe, CallsInFlight
  <2>2. calls[d].at # "idle" => calls[d].email \in Email
    BY <2>1 DEF CallState, Idle
  <2> QED
    BY <2>1, <2>2 DEF Progress, Grows, EmailExists
<1> QED
  BY <1>1 DEF Safe, CallsInFlight, OneRegistrationPerEmail

\* Rows that stay as they are, while no further address is linked.
LEMMA RowsStay ==
    ASSUME Safe, Grows, UNCHANGED <<requests, linked>>
    PROVE  Rows'
<1>1. ASSUME NEW r \in Request PROVE RowGood(requests[r])'
  <2>1. RowGood(requests[r]) /\ requests'[r] = requests[r]
    BY DEF Safe, Rows
  <2>2. requests[r].owner # NONE => requests[r].owner \in Email
    <3>1. requests[r] \in RequestRow
      BY <2>1 DEF RowGood
    <3> QED
      BY <3>1, RowColumns
  <2> QED
    BY <2>1, <2>2 DEF RowGood, Grows
<1> QED
  BY <1>1 DEF Safe, Rows

\* One row is replaced by a good one.
LEMMA RowReplaced ==
    ASSUME Safe, UNCHANGED <<accounts, profiles, linked>>,
           NEW r \in Request, NEW row, RowGood(row),
           requests' = [requests EXCEPT ![r] = row]
    PROVE  Rows'
<1>1. row \in RequestRow
  BY DEF RowGood
<1>2. requests' \in [Request -> RequestRow]
  BY <1>1 DEF Safe, Rows
<1>3. ASSUME NEW q \in Request PROVE RowGood(requests[q])'
  <2>1. requests'[q] = row \/ requests'[q] = requests[q]
    BY DEF Safe, Rows
  <2>2. RowGood(requests'[q])
    BY <2>1 DEF Safe, Rows
  <2> QED
    BY <2>2 DEF RowGood, HasProfile
<1> QED
  BY <1>2, <1>3 DEF Rows

-----------------------------------------------------------------------------

\* Creating or refreshing the profile of a client account.
LEMMA ProfileStored ==
    ASSUME Safe, NEW e \in Email, accounts[e] = "client",
           CreateForUser(e), UNCHANGED <<accounts, linked>>,
           sessions' \subseteq Email
    PROVE  Accounts' /\ Grows /\ HasProfile(e)'
<1>1. "Rwanda" \in Countries /\ NONE # "Rwanda"
  BY NoneIsNoValue DEF Countries
<1>2. profiles' = [profiles EXCEPT ![e] = "Rwanda"]
  BY <1>1 DEF CreateForUser, Upserted
<1>3. profiles \in [Email -> Countries \cup {NONE}]
  BY DEF Safe, Accounts
<1>4. HasProfile(e)' /\ \A f \in Email \ {e} : profiles'[f] = profiles[f]
  BY <1>1, <1>2, <1>3 DEF HasProfile
<1>5. profiles' \in [Email -> Countries \cup {NONE}]
  BY <1>1, <1>2, <1>3
<1> QED
  BY <1>4, <1>5 DEF Safe, Accounts, HasProfile, Grows, EmailExists

\* A new account, of either kind.
LEMMA AccountCreated ==
    ASSUME Safe, NEW e \in Email, ~ EmailExists(e), NEW role \in {"client", "staff"},
           accounts' = [accounts EXCEPT ![e] = role],
           UNCHANGED <<profiles, linked, sessions>>
    PROVE  Accounts' /\ Grows /\ accounts'[e] = role
<1>1. accounts[e] = "none"
  BY DEF EmailExists
<1>2. /\ accounts' \in [Email -> Roles]
      /\ accounts'[e] = role
      /\ \A f \in Email \ {e} : accounts'[f] = accounts[f]
  BY DEF Safe, Accounts, Roles
<1> QED
  BY <1>1, <1>2 DEF Safe, Accounts, Grows, HasProfile, EmailExists

\* Nothing about the accounts changes but the sessions.
LEMMA AccountsStay ==
    ASSUME Safe, UNCHANGED <<accounts, profiles, linked>>, sessions' \subseteq Email
    PROVE  Accounts' /\ Grows
  BY DEF Safe, Accounts, Grows, HasProfile, EmailExists

\* Where a call may be, and that Idle counts on nothing.
LEMMA CallPlaces ==
    ASSUME Safe, NEW c \in Call
    PROVE  /\ calls[c] \in CallState
           /\ calls[c] # Idle => calls[c].email \in Email
           /\ calls[c].at \in {"insert_user", "create_profile", "claim_requests",
                               "ensure_profile"} => calls[c] # Idle
           /\ Progress(calls[c])
  BY DEF Safe, CallsInFlight, CallState, Idle

LEMMA CallEnds ==
    ASSUME Safe, Accounts', Grows, NEW c \in Call, Finish(c)
    PROVE  CallsInFlight'
<1>1. Idle \in CallState /\ Progress(Idle)' /\ Idle.at = "idle"
  BY DEF CallState, Progress, Idle
<1> QED
  BY <1>1, CallMoves DEF Finish

LEMMA CallGoes ==
    ASSUME Safe, NEW c \in Call, calls[c] # Idle,
           NEW at \in {"create_profile", "claim_requests"}, Goto(c, at)
    PROVE  /\ [at |-> at, email |-> calls[c].email] \in CallState
           /\ calls' = [calls EXCEPT ![c] = [at |-> at, email |-> calls[c].email]]
<1>1. calls[c] \in [at : {"insert_user", "create_profile", "claim_requests",
                          "ensure_profile"}, email : Email]
  BY CallPlaces DEF CallState
<1>2. [calls[c] EXCEPT !.at = at] = [at |-> at, email |-> calls[c].email]
  BY <1>1
<1> QED
  BY <1>1, <1>2 DEF Goto, CallState

-----------------------------------------------------------------------------
(* The invariant is inductive: one lemma per group of actions.             *)

LEMMA CallStepSafe ==
    ASSUME Safe, NEW c \in Call, CallNext(c)
    PROVE  Safe' /\ Grows
<1>1. ASSUME NEW e \in Email, RegisterCheckEmail(c, e)
      PROVE  Safe' /\ Grows
  <2>1. Accounts' /\ Grows
    BY <1>1, AccountsStay DEF RegisterCheckEmail, Safe, Accounts
  <2>2. Rows'
    BY <1>1, <2>1, RowsStay DEF RegisterCheckEmail
  <2> DEFINE new == [at |-> "insert_user", email |-> e]
  <2>3. new \in CallState /\ Progress(new)'
    BY DEF CallState, Progress
  <2>4. CallsInFlight'
    BY <1>1, <2>1, <2>3, CallMoves DEF RegisterCheckEmail
  <2> QED
    BY <2>1, <2>2, <2>4 DEF Safe
<1>2. CASE RegisterInsertUser(c)
  <2>0. PICK e \in Email : e = calls[c].email
    BY <1>2, CallPlaces DEF RegisterInsertUser
  <2>1. calls[c] # Idle
    BY <1>2, CallPlaces DEF RegisterInsertUser
  <2>2. CASE EmailExists(e)
    <3>1. Accounts' /\ Grows
      BY <1>2, <2>0, <2>2, AccountsStay DEF RegisterInsertUser, Safe, Accounts
    <3>2. CallsInFlight'
      BY <1>2, <2>0, <2>2, <3>1, CallEnds DEF RegisterInsertUser
    <3>3. Rows'
      BY <1>2, <3>1, RowsStay DEF RegisterInsertUser
    <3> QED
      BY <3>1, <3>2, <3>3 DEF Safe
  <2>3. CASE ~ EmailExists(e)
    <3>1. accounts' = [accounts EXCEPT ![e] = "client"] /\ Goto(c, "create_profile")
      BY <1>2, <2>0, <2>3 DEF RegisterInsertUser
    <3>2. Accounts' /\ Grows /\ accounts'[e] = "client"
      BY <1>2, <2>1, <2>3, <3>1, AccountCreated DEF RegisterInsertUser
    <3> DEFINE new == [at |-> "create_profile", email |-> e]
    <3>3. new \in CallState /\ calls' = [calls EXCEPT ![c] = new]
      BY <2>0, <2>1, <3>1, CallGoes
    <3>4. Progress(new)'
      BY <3>2, <3>3 DEF Progress
    <3>5. CallsInFlight'
      BY <2>3, <3>2, <3>3, <3>4, CallMoves
    <3>6. Rows'
      BY <1>2, <3>2, RowsStay DEF RegisterInsertUser
    <3> QED
      BY <3>2, <3>5, <3>6 DEF Safe
  <2> QED
    BY <2>2, <2>3
<1>3. CASE RegisterCreateProfile(c)
  <2>0. PICK e \in Email : e = calls[c].email
    BY <1>3, CallPlaces DEF RegisterCreateProfile
  <2>1. calls[c] # Idle /\ accounts[e] = "client"
    BY <1>3, <2>0, CallPlaces DEF RegisterCreateProfile, Progress
  <2>2. Accounts' /\ Grows /\ HasProfile(e)'
    <3>1. CreateForUser(e) /\ UNCHANGED <<accounts, linked, sessions>>
      BY <1>3, <2>0 DEF RegisterCreateProfile
    <3>2. sessions' \subseteq Email
      BY <3>1 DEF Safe, Accounts
    <3> QED
      BY <2>1, <3>1, <3>2, ProfileStored
  <2> DEFINE new == [at |-> "claim_requests", email |-> e]
  <2>3. new \in CallState /\ calls' = [calls EXCEPT ![c] = new]
    BY <1>3, <2>0, <2>1, CallGoes DEF RegisterCreateProfile
  <2>4. Progress(new)'
    BY <1>3, <2>1, <2>2, <2>3 DEF Progress, RegisterCreateProfile
  <2>5. CallsInFlight'
    <3>1. calls[c].at = "create_profile" /\ new.email = calls[c].email
      BY <1>3, <2>0 DEF RegisterCreateProfile
    <3> HIDE DEF new
    <3> QED
      BY <2>2, <2>3, <2>4, <3>1, CallMoves
  <2>6. Rows'
    BY <1>3, <2>2, RowsStay DEF RegisterCreateProfile
  <2> QED
    BY <2>2, <2>5, <2>6 DEF Safe
<1>4. CASE RegisterClaimRequests(c)
  <2>0. PICK e \in Email : e = calls[c].email
    BY <1>4, CallPlaces DEF RegisterClaimRequests
  <2>1. accounts[e] = "client" /\ HasProfile(e)
    BY <1>4, <2>0, CallPlaces DEF RegisterClaimRequests, Progress
  <2>2. Accounts' /\ Grows
    BY <1>4, <2>0, <2>1 DEF RegisterClaimRequests, Safe, Accounts, Grows, HasProfile,
                      EmailExists
  <2>3. CallsInFlight'
    BY <1>4, <2>2, CallEnds DEF RegisterClaimRequests
  <2>4. ASSUME NEW r \in Request
        PROVE  RowGood(requests[r])' /\ requests'[r] \in RequestRow
    <3>1. RowGood(requests[r]) /\ requests[r] \in RequestRow
      BY DEF Safe, Rows, RowGood
    <3>2. CASE Unclaimed(r) /\ requests[r].email = e
      <4>1. requests'[r] = [requests[r] EXCEPT !.owner = e]
        BY <1>4, <2>0, <3>2 DEF RegisterClaimRequests, ClaimByEmail
      <4>2. requests[r] \in StoredRequest
        BY <3>1, <3>2, RowColumns DEF Unclaimed
      <4>3. requests'[r] \in RequestRow /\ requests'[r].owner = e
        BY <4>1, <4>2, <2>1 DEF RequestRow, StoredRequest
      <4> QED
        BY <4>3, <2>1, <2>2, NoneIsNoValue DEF RowGood, Grows, Contact
    <3>3. CASE ~ (Unclaimed(r) /\ requests[r].email = e)
      <4>1. requests'[r] = requests[r]
        BY <1>4, <2>0, <3>3 DEF RegisterClaimRequests, ClaimByEmail
      <4>2. requests[r].early /\ requests[r].email = e => requests[r].owner # NONE
        BY <3>1, <3>3, RowColumns DEF Unclaimed
      <4> QED
        BY <1>4, <2>0, <3>1, <4>1, <4>2, <2>2, RowColumns
           DEF RowGood, Grows, RegisterClaimRequests
    <3> QED
      BY <3>2, <3>3
  <2>5. requests' \in [Request -> RequestRow]
    BY <1>4, <2>4 DEF RegisterClaimRequests, ClaimByEmail
  <2> QED
    BY <2>2, <2>3, <2>4, <2>5 DEF Safe, Rows
<1>5. ASSUME NEW e \in Email, LoginAuthenticate(c, e)
      PROVE  Safe' /\ Grows
  <2>1. Accounts' /\ Grows
    BY <1>5, AccountsStay DEF LoginAuthenticate, Safe, Accounts
  <2>2. Rows'
    BY <1>5, <2>1, RowsStay DEF LoginAuthenticate
  <2> DEFINE new == [at |-> "ensure_profile", email |-> e]
  <2>3. new \in CallState /\ Progress(new)'
    BY <1>5 DEF CallState, Progress, LoginAuthenticate
  <2>4. CallsInFlight'
    BY <1>5, <2>1, <2>3, CallMoves DEF LoginAuthenticate
  <2> QED
    BY <2>1, <2>2, <2>4 DEF Safe
<1>6. CASE LoginEnsureProfile(c)
  <2>0. PICK e \in Email : e = calls[c].email
    BY <1>6, CallPlaces DEF LoginEnsureProfile
  <2>1. accounts[e] = "client"
    BY <1>6, <2>0, CallPlaces DEF LoginEnsureProfile, Progress
  <2>2. sessions' \subseteq Email
    BY <1>6, <2>0 DEF LoginEnsureProfile, Safe, Accounts
  <2>3. Accounts' /\ Grows
    BY <1>6, <2>0, <2>1, <2>2, ProfileStored, AccountsStay DEF LoginEnsureProfile
  <2>4. CallsInFlight'
    BY <1>6, <2>3, CallEnds DEF LoginEnsureProfile
  <2>5. Rows'
    BY <1>6, <2>3, RowsStay DEF LoginEnsureProfile
  <2> QED
    BY <2>3, <2>4, <2>5 DEF Safe
<1>7. CASE Abort(c)
  <2>1. Accounts' /\ Grows
    BY <1>7, AccountsStay DEF Abort, Safe, Accounts
  <2>2. CallsInFlight'
    BY <1>7, <2>1, CallEnds DEF Abort
  <2>3. Rows'
    BY <1>7, <2>1, RowsStay DEF Abort
  <2> QED
    BY <2>1, <2>2, <2>3 DEF Safe
<1> QED
  BY <1>1, <1>2, <1>3, <1>4, <1>5, <1>6, <1>7 DEF CallNext

\* A new or edited row that is good.
LEMMA NewRowGood ==
    ASSUME Safe, NEW owner \in Email \cup {NONE}, NEW email \in Email \cup {NONE},
           NEW phone \in BOOLEAN, NEW early \in BOOLEAN,
           owner # NONE => HasProfile(owner),
           Contact(owner, email, phone),
           early /\ email \in linked => owner # NONE
    PROVE  RowGood([exists |-> TRUE, owner |-> owner, email |-> email,
                    phone |-> phone, early |-> early])
  BY DEF RowGood, RequestRow, StoredRequest

LEMMA InsertSafe ==
    ASSUME Safe, NEW r \in Request,
           NEW owner \in Email \cup {NONE}, NEW email \in Email \cup {NONE},
           NEW phone \in BOOLEAN, NEW early \in BOOLEAN,
           owner # NONE => HasProfile(owner),
           early => ~ EmailExists(email) /\ email # NONE,
           InsertRequest(r, owner, email, phone, early)
    PROVE  Safe' /\ Grows
<1>1. Accounts' /\ Grows
  BY AccountsStay DEF InsertRequest, Safe, Accounts
<1>2. CallsInFlight'
  BY <1>1, CallsStay DEF InsertRequest
<1>3. early /\ email \in linked => owner # NONE
  BY DEF Safe, Accounts, EmailExists
<1> DEFINE row == [exists |-> TRUE, owner |-> owner, email |-> email,
                   phone |-> phone, early |-> early]
<1>4. RowGood(row)
  BY <1>3, NewRowGood DEF InsertRequest
<1>5. requests' = [requests EXCEPT ![r] = row]
  BY DEF InsertRequest
<1>6. Rows'
  <2> HIDE DEF row
  <2> QED
    BY <1>4, <1>5, RowReplaced DEF InsertRequest
<1> QED
  BY <1>1, <1>2, <1>6 DEF Safe

\* The row of a request that is there.
LEMMA StoredRow ==
    ASSUME Safe, NEW r \in Request, requests[r].exists
    PROVE  /\ requests[r] \in StoredRequest
           /\ RowGood(requests[r])
  BY RowColumns DEF Safe, Rows, RowGood

LEMMA RequestStepSafe ==
    ASSUME Safe, NEW r \in Request, RequestNext(r)
    PROVE  Safe' /\ Grows
<1>1. CASE DeleteAdmin(r)
  <2>1. Accounts' /\ Grows
    BY <1>1, AccountsStay DEF DeleteAdmin, Safe, Accounts
  <2>2. CallsInFlight'
    BY <1>1, <2>1, CallsStay DEF DeleteAdmin
  <2>3. RowGood(NoRequest)
    BY DEF RowGood, RequestRow, NoRequest
  <2>4. Rows'
    BY <1>1, <2>3, RowReplaced DEF DeleteAdmin
  <2> QED
    BY <2>1, <2>2, <2>4 DEF Safe
<1>2. ASSUME NEW email \in Email \cup {NONE}, NEW phone \in BOOLEAN,
             CreateVisitorRequest(r, email, phone)
      PROVE  Safe' /\ Grows
  <2>1. PICK early \in BOOLEAN : early <=> email # NONE /\ ~ EmailExists(email)
    OBVIOUS
  <2>2. InsertRequest(r, NONE, email, phone, early)
    BY <1>2, <2>1 DEF CreateVisitorRequest, InsertRequest
  <2> QED
    BY <2>1, <2>2, InsertSafe
<1>3. ASSUME NEW email \in Email \cup {NONE}, NEW phone \in BOOLEAN, NEW e \in Email,
             CreateClientRequest(e, r, email, phone)
      PROVE  Safe' /\ Grows
  BY <1>3, InsertSafe DEF CreateClientRequest
<1>4. ASSUME NEW email \in Email \cup {NONE}, NEW phone \in BOOLEAN,
             NEW e \in Email \cup {NONE}, CreateAdminRequest(r, e, email, phone)
      PROVE  Safe' /\ Grows
  BY <1>4, InsertSafe DEF CreateAdminRequest
<1>5. ASSUME NEW email \in Email \cup {NONE}, NEW phone \in BOOLEAN, NEW e \in Email,
             ClaimByReference(e, r, email, phone)
      PROVE  Safe' /\ Grows
  <2>1. Accounts' /\ Grows
    BY <1>5, AccountsStay DEF ClaimByReference, Safe, Accounts
  <2>2. CallsInFlight'
    BY <1>5, <2>1, CallsStay DEF ClaimByReference
  <2>3. requests[r] \in StoredRequest
    BY <1>5, StoredRow DEF ClaimByReference, Unclaimed
  <2> DEFINE row == [requests[r] EXCEPT !.owner = e]
  <2>4. row \in StoredRequest /\ row.owner = e
    BY <2>3 DEF StoredRequest
  <2>5. RowGood(row)
    BY <1>5, <2>4, NoneIsNoValue DEF RowGood, RequestRow, Contact, ClaimByReference
  <2>6. requests' = [requests EXCEPT ![r] = row]
    BY <1>5 DEF ClaimByReference
  <2>7. PICK new : new = row
    OBVIOUS
  <2>8. Rows'
    <3> HIDE DEF row
    <3> QED
      BY <1>5, <2>5, <2>6, <2>7, RowReplaced DEF ClaimByReference
  <2> QED
    BY <2>1, <2>2, <2>8 DEF Safe
<1>6. ASSUME NEW email \in Email \cup {NONE}, NEW phone \in BOOLEAN,
             UpdateAdmin(r, email, phone)
      PROVE  Safe' /\ Grows
  <2>1. Accounts' /\ Grows
    BY <1>6, AccountsStay DEF UpdateAdmin, Safe, Accounts
  <2>2. CallsInFlight'
    BY <1>6, <2>1, CallsStay DEF UpdateAdmin
  <2>3. requests[r] \in StoredRequest /\ RowGood(requests[r])
    BY <1>6, StoredRow DEF UpdateAdmin
  <2>4. PICK owner \in Email \cup {NONE} : owner = requests[r].owner
    BY <2>3 DEF StoredRequest
  <2>5. PICK early \in BOOLEAN :
           early = (requests[r].early /\ email = requests[r].email)
    OBVIOUS
  <2> DEFINE row == [requests[r] EXCEPT !.email = email, !.phone = phone,
                                        !.early = early]
  <2>6. RowGood(row)
    <3>1. /\ row \in StoredRequest
          /\ row.exists /\ row.owner = owner /\ row.email = email
          /\ row.phone = phone /\ row.early = early
      BY <2>3, <2>4 DEF StoredRequest
    <3>2. owner # NONE => HasProfile(owner)
      BY <2>3, <2>4 DEF RowGood
    <3>3. Contact(owner, email, phone)
      BY <1>6, <2>4 DEF UpdateAdmin
    <3>4. early /\ email \in linked => owner # NONE
      BY <2>3, <2>4, <2>5 DEF RowGood
    <3> HIDE DEF row
    <3> QED
      BY <3>1, <3>2, <3>3, <3>4 DEF RowGood, RequestRow
  <2>7. requests' = [requests EXCEPT ![r] = row]
    <3>1. requests' = [requests EXCEPT ![r].email = email, ![r].phone = phone,
                                       ![r].early = early]
      BY <1>6, <2>5, Zenon DEF UpdateAdmin
    <3> QED
      BY <3>1
  <2>8. Rows'
    <3> HIDE DEF row
    <3> QED
      BY <1>6, <2>6, <2>7, RowReplaced DEF UpdateAdmin
  <2> QED
    BY <2>1, <2>2, <2>8 DEF Safe
<1> QED
  BY <1>1, <1>2, <1>3, <1>4, <1>5, <1>6 DEF RequestNext

LEMMA UserStepSafe ==
    ASSUME Safe, NEW e \in Email, UserNext(e)
    PROVE  Safe' /\ Grows
<1>1. CASE CreateAccountant(e)
  BY <1>1, AccountCreated, CallsStay, RowsStay DEF CreateAccountant, Safe
<1>2. CASE SessionEnds(e)
  <2>1. Accounts' /\ Grows
    BY <1>2, AccountsStay DEF SessionEnds, Safe, Accounts
  <2> QED
    BY <1>2, <2>1, CallsStay, RowsStay DEF SessionEnds, Safe
<1>3. ASSUME NEW country \in Countries, UpdateMyProfile(e, country)
      PROVE  Safe' /\ Grows
  <2>1. Accounts' /\ Grows
    BY <1>3, NoneIsNoValue DEF UpdateMyProfile, Safe, Accounts, HasProfile, Grows,
                               EmailExists
  <2> QED
    BY <1>3, <2>1, CallsStay, RowsStay DEF UpdateMyProfile, Safe
<1> QED
  BY <1>1, <1>2, <1>3 DEF UserNext

LEMMA StepSafe ==
    ASSUME Safe, [Next]_vars
    PROVE  Safe'
<1>1. CASE UNCHANGED vars
  <2>1. Accounts' /\ Grows
    BY <1>1, AccountsStay DEF vars, Safe, Accounts
  <2> QED
    BY <1>1, <2>1, CallsStay, RowsStay DEF vars, Safe
<1>2. CASE Next
  BY <1>2, CallStepSafe, RequestStepSafe, UserStepSafe DEF Next
<1> QED
  BY <1>1, <1>2

LEMMA AlwaysSafe == Spec => []Safe
  BY InitSafe, StepSafe, PTL DEF Spec

-----------------------------------------------------------------------------

\* The variables keep their types.
THEOREM TypeCorrect == Spec => []TypeOK
<1>1. Safe => TypeOK
  BY DEF Safe, Accounts, CallsInFlight, Rows, TypeOK
<1> QED
  BY <1>1, AlwaysSafe, PTL

\* However many registrations of one address run at the same time, one at most
\* goes on after the INSERT (user/service.go:77, user/repository.go:55).
THEOREM OneRegistration == Spec => []OneRegistrationPerEmail
<1>1. Safe => OneRegistrationPerEmail
  BY DEF Safe, CallsInFlight
<1> QED
  BY <1>1, AlwaysSafe, PTL

\* Every owner is a client with an account and a profile
\* (auth/service.go:115-131 and the foreign keys of migrations 2 and 4).
THEOREM OwnersAreClients == Spec => []OwnershipGrounded
<1>1. Safe => OwnershipGrounded
  BY DEF Safe, Accounts, Rows, RowGood, OwnershipGrounded
<1> QED
  BY <1>1, AlwaysSafe, PTL

\* A request without an owner keeps a way to reach its requester
\* (service_requests_requester_check against UpdateAdmin).
THEOREM RequestersReachable == Spec => []RequesterReachable
<1>1. Safe => RequesterReachable
  BY DEF Safe, Rows, RowGood, RequesterReachable
<1> QED
  BY <1>1, AlwaysSafe, PTL

\* A completed registration leaves no request of its address behind
\* (auth/service.go:127-133).
THEOREM RegistrationLinks == Spec => []RegistrationLinksEarlyRequests
<1>1. Safe => RegistrationLinksEarlyRequests
  BY DEF Safe, Rows, RowGood, RegistrationLinksEarlyRequests
<1> QED
  BY <1>1, AlwaysSafe, PTL

\* No step takes a request away from its owner, whatever claims are racing
\* (the guards client_id IS NULL of servicerequest/repository.go:182 and 580).
THEOREM OwnershipIsStable == Spec => OwnershipStable
<1>1. ASSUME Safe, [Next]_vars, NEW r \in Request,
             requests[r].owner # NONE, requests'[r].exists
      PROVE  requests'[r].owner = requests[r].owner
  <2>1. requests[r] \in StoredRequest /\ requests \in [Request -> RequestRow]
    BY <1>1, RowColumns, StoredRow DEF Safe, Rows, RowGood, RequestRow, NoRequest
  <2>2. requests[r].exists
    BY <2>1 DEF StoredRequest
  <2>3. ASSUME NEW c \in Call, RegisterClaimRequests(c)
        PROVE  requests'[r] = requests[r]
    BY <1>1, <2>3 DEF RegisterClaimRequests, ClaimByEmail, Unclaimed
  <2>4. ASSUME NEW c \in Call, CallNext(c)
        PROVE  requests'[r] = requests[r]
    BY <2>3, <2>4 DEF CallNext, RegisterCheckEmail, LoginAuthenticate,
          RegisterInsertUser, RegisterCreateProfile, LoginEnsureProfile, Abort
  <2>5. ASSUME NEW q \in Request, NEW owner, NEW email, NEW phone, NEW early,
               InsertRequest(q, owner, email, phone, early)
        PROVE  requests'[r] = requests[r]
    <3>1. q # r
      BY <2>2, <2>5 DEF InsertRequest
    <3> QED
      BY <2>1, <2>5, <3>1 DEF InsertRequest
  <2>6. ASSUME NEW q \in Request, NEW e \in Email, NEW email, NEW phone,
               ClaimByReference(e, q, email, phone)
        PROVE  requests'[r] = requests[r]
    <3>1. q # r
      BY <1>1, <2>6 DEF ClaimByReference, Unclaimed
    <3> QED
      BY <2>1, <2>6, <3>1 DEF ClaimByReference
  <2>7. ASSUME NEW q \in Request, NEW email, NEW phone, UpdateAdmin(q, email, phone)
        PROVE  requests'[r].owner = requests[r].owner
    BY <2>1, <2>7 DEF UpdateAdmin, StoredRequest
  <2>8. ASSUME NEW q \in Request, DeleteAdmin(q)
        PROVE  requests'[r] = requests[r]
    <3>1. q # r
      BY <1>1, <2>1, <2>8 DEF DeleteAdmin, NoRequest
    <3> QED
      BY <2>1, <2>8, <3>1 DEF DeleteAdmin
  <2>9. ASSUME NEW q \in Request, RequestNext(q)
        PROVE  requests'[r].owner = requests[r].owner
    BY <2>5, <2>6, <2>7, <2>8, <2>9 DEF RequestNext, CreateVisitorRequest,
          CreateClientRequest, CreateAdminRequest
  <2>10. ASSUME NEW e \in Email, UserNext(e)
         PROVE  requests'[r] = requests[r]
    BY <2>10 DEF UserNext, CreateAccountant, SessionEnds, UpdateMyProfile
  <2> QED
    BY <1>1, <2>4, <2>9, <2>10 DEF Next, vars
<1>2. Safe /\ [Next]_vars =>
        [\A r \in Request :
            requests[r].owner # NONE /\ requests'[r].exists
                => requests'[r].owner = requests[r].owner]_vars
  BY <1>1
<1> QED
  BY <1>2, AlwaysSafe, PTL DEF Spec, OwnershipStable
=============================================================================
