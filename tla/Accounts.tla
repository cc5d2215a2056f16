------------------------------ MODULE Accounts ------------------------------
(***************************************************************************)
(* Accounts, passwords and tokens: the table users, the calls that log in, *)
(* refresh, register and change a password, and the bearer tokens that     *)
(* every other request is let in with.                                     *)
(*                                                                         *)
(* A login, a refresh and a change of password read the row in one         *)
(* statement and act on it later; in between the admin may deactivate the  *)
(* account and another call may change the password.  A token is checked   *)
(* against its own claims and the clock, never against the table.          *)
(*                                                                         *)
(* A user stands for the id and the address.  A password is its text       *)
(* without the blanks around it, and whether it has some.  The two tokens  *)
(* of a pair are signed together and are one record; which of them a       *)
(* request carries decides how long it is good for.  Time passes in ticks; *)
(* an answer later than the server's write timeout reaches nobody.         *)
(* Profile fields, last_login_at and the audit log are left out.  The      *)
(* order of the statements of a registration is in module Onboarding.      *)
(***************************************************************************)
EXTENDS Integers

CONSTANTS
    User,        \* users, by address
    Text,        \* passwords without the blanks around them
    Call,        \* HTTP requests being served
    AccessTTL,   \* JWT_ACCESS_TOKEN_TTL_MINUTES
    RefreshTTL,  \* JWT_REFRESH_TOKEN_TTL_DAYS
    CallLimit,   \* the server's write timeout
    LastTime,    \* the bound on the clock
    NONE         \* no password: a pair that was not given for one

ASSUME TimesAreNumbers ==
    AccessTTL \in Nat /\ RefreshTTL \in Nat /\ CallLimit \in Nat /\ LastTime \in Nat

ASSUME NoneIsNoText == NONE \notin Text

VARIABLES
    now,       \* the clock
    users,     \* users[u]: the row
    issued,    \* the token pairs that were handed out
    calls,     \* what the calls in flight hold
    answer,    \* the last request that RequireAuth let in
    activeAt,  \* <<u, t>>: u was active at t
    heldAt     \* <<u, x, t>>: x was the stored password of u at t

vars == <<now, users, issued, calls, answer, activeAt, heldAt>>

Time == 0 .. LastTime
Role == {"admin", "accountant", "client"}
Password == [text : Text, padded : BOOLEAN]

NoUser == [role |-> "none"]
Row == {NoUser} \cup [role : Role, active : BOOLEAN, password : Password]

\* The claims of the two tokens of a pair, and the password it was given for.
Pair == [user : User, active : BOOLEAN, at : Time, with : Text \cup {NONE}]

Idle == [at |-> "idle"]
CallState ==
    {Idle}
    \cup [at : {"admitted"}, user : User, active : BOOLEAN, since : Time,
          with : Text \cup {NONE}]
    \cup [at : {"refreshing", "proved"}, user : User, since : Time]

NoAnswer == [user |-> NONE]
Answer == {NoAnswer} \cup [user : User, at : Time]

TypeOK ==
    /\ now \in Time
    /\ users \in [User -> Row]
    /\ issued \subseteq Pair
    /\ calls \in [Call -> CallState]
    /\ answer \in Answer
    /\ activeAt \subseteq User \X Time
    /\ heldAt \subseteq User \X Text \X Time

Init ==
    /\ now = 0
    /\ users = [u \in User |-> NoUser]
    /\ issued = {}
    /\ calls = [c \in Call |-> Idle]
    /\ answer = NoAnswer
    /\ activeAt = {}
    /\ heldAt = {}

-----------------------------------------------------------------------------
(* Passwords and tokens.                                                   *)

\* strings.TrimSpace
Trim(p) == [p EXCEPT !.padded = FALSE]

\* Login trims what was typed; what was stored was not trimmed.
LogsIn(u, p) == users[u].password = Trim(p)

\* What a stored password lets in.
Holds(u, p, t) == IF p.padded THEN {} ELSE {<<u, p.text, t>>}

Known(u) == users[u] # NoUser

AccessValid(k) == now < k.at + AccessTTL
RefreshValid(k) == now < k.at + RefreshTTL

Start(c, call) == calls[c] = Idle /\ calls' = [calls EXCEPT ![c] = call]
Finish(c) == calls' = [calls EXCEPT ![c] = Idle]

-----------------------------------------------------------------------------
(* Accounts.                                                               *)

\* Fault: the role is stored as it is spelled.
CreateUserRaw(u, role, p) ==
    /\ ~Known(u)
    /\ users' = [users EXCEPT ![u] =
          [role |-> IF role = "admin" THEN "Admin" ELSE role,
           active |-> TRUE, password |-> p]]
    /\ activeAt' = activeAt \cup {<<u, now>>}
    /\ heldAt' = heldAt \cup Holds(u, p, now)

\* EmailExists and Create; the address is UNIQUE.
CreateUser(u, role, p) ==
    /\ ~Known(u)
    /\ users' = [users EXCEPT ![u] = [role |-> role, active |-> TRUE, password |-> p]]
    /\ activeAt' = activeAt \cup {<<u, now>>}
    /\ heldAt' = heldAt \cup Holds(u, p, now)

RegisterClient(c, u, p) ==
    /\ CreateUser(u, "client", p)
    /\ Start(c, [at |-> "admitted", user |-> u, active |-> TRUE, since |-> now,
                 with |-> NONE])
    /\ UNCHANGED <<now, issued, answer>>

CreateAccountant(u, p) ==
    /\ CreateUser(u, "accountant", p)
    /\ UNCHANGED <<now, issued, calls, answer>>

\* The process starts, and its calls are gone; an address in the configuration
\* that nobody has becomes an admin.
BootstrapAdmin(u, p) ==
    /\ CreateUser(u, "admin", Trim(p))
    /\ calls' = [c \in Call |-> Idle]
    /\ UNCHANGED <<now, issued, answer>>

Restart ==
    /\ calls' = [c \in Call |-> Idle]
    /\ UNCHANGED <<now, users, issued, answer, activeAt, heldAt>>

SetActive(u, active) ==
    /\ users[u].role = "accountant"
    /\ users' = [users EXCEPT ![u].active = active]
    /\ activeAt' = IF active THEN activeAt \cup {<<u, now>>} ELSE activeAt
    /\ UNCHANGED <<now, issued, calls, answer, heldAt>>

-----------------------------------------------------------------------------
(* Login, refresh and the tokens.                                          *)

Authenticate(c, u, p) ==
    /\ Known(u)
    /\ users[u].active
    /\ LogsIn(u, p)
    /\ Start(c, [at |-> "admitted", user |-> u, active |-> users[u].active,
                 since |-> now, with |-> p.text])
    /\ UNCHANGED <<now, users, issued, answer, activeAt, heldAt>>

VerifyRefreshToken(c, k) ==
    /\ RefreshValid(k)
    /\ Start(c, [at |-> "refreshing", user |-> k.user, since |-> now])
    /\ UNCHANGED <<now, users, issued, answer, activeAt, heldAt>>

\* GetFullByID; the claims of the old token are not used.
RefreshToken(c) ==
    /\ calls[c].at = "refreshing"
    /\ users[calls[c].user].active
    /\ calls' = [calls EXCEPT ![c] =
          [at |-> "admitted", user |-> calls[c].user,
           active |-> users[calls[c].user].active, since |-> calls[c].since,
           with |-> NONE]]
    /\ UNCHANGED <<now, users, issued, answer, activeAt, heldAt>>

\* Fault: no write timeout.
GenerateTokenPairLate(c) ==
    /\ calls[c].at = "admitted"
    /\ issued' = issued \cup {[user |-> calls[c].user, active |-> calls[c].active,
                               at |-> now, with |-> calls[c].with]}
    /\ Finish(c)
    /\ UNCHANGED <<now, users, answer, activeAt, heldAt>>

GenerateTokenPair(c) ==
    /\ calls[c].at = "admitted"
    /\ now <= calls[c].since + CallLimit
    /\ issued' = issued \cup {[user |-> calls[c].user, active |-> calls[c].active,
                               at |-> now, with |-> calls[c].with]}
    /\ Finish(c)
    /\ UNCHANGED <<now, users, answer, activeAt, heldAt>>

\* Fault: a refresh token is taken for an access token.
RequireAuthAnyUse(k) ==
    /\ AccessValid(k) \/ RefreshValid(k)
    /\ k.active
    /\ answer' = [user |-> k.user, at |-> now]
    /\ UNCHANGED <<now, users, issued, calls, activeAt, heldAt>>

\* Any request with an access token: only its claims are looked at.
RequireAuth(k) ==
    /\ AccessValid(k)
    /\ k.active
    /\ answer' = [user |-> k.user, at |-> now]
    /\ UNCHANGED <<now, users, issued, calls, activeAt, heldAt>>

\* ChangePassword: the current password is compared as it was typed ...
CheckCurrentPassword(c, k, current) ==
    /\ AccessValid(k)
    /\ k.active
    /\ users[k.user].password = current
    /\ Start(c, [at |-> "proved", user |-> k.user, since |-> now])
    /\ UNCHANGED <<now, users, issued, answer, activeAt, heldAt>>

\* ... and the new one is written later, whatever is stored by then.
UpdatePassword(c, p) ==
    /\ calls[c].at = "proved"
    /\ users' = [users EXCEPT ![calls[c].user].password = p]
    /\ heldAt' = heldAt \cup Holds(calls[c].user, p, now)
    /\ Finish(c)
    /\ UNCHANGED <<now, issued, answer, activeAt>>

\* Refused, failed or cut off.
Return(c) ==
    /\ calls[c] # Idle
    /\ Finish(c)
    /\ UNCHANGED <<now, users, issued, answer, activeAt, heldAt>>

Tick ==
    /\ now < LastTime
    /\ now' = now + 1
    /\ activeAt' = activeAt
          \cup {<<u, now + 1>> : u \in {v \in User : Known(v) /\ users[v].active}}
    /\ heldAt' = heldAt
          \cup UNION {Holds(u, users[u].password, now + 1) : u \in {v \in User : Known(v)}}
    /\ UNCHANGED <<users, issued, calls, answer>>

-----------------------------------------------------------------------------
AccountNext(u) ==
    \/ \E c \in Call, p \in Password : RegisterClient(c, u, p) \/ Authenticate(c, u, p)
    \/ \E p \in Password : CreateAccountant(u, p) \/ BootstrapAdmin(u, p)
    \/ \E active \in BOOLEAN : SetActive(u, active)

PairNext(k) ==
    \/ RequireAuth(k)
    \/ \E c \in Call : VerifyRefreshToken(c, k)
    \/ \E c \in Call, p \in Password : CheckCurrentPassword(c, k, p)

CallNext(c) ==
    \/ RefreshToken(c)
    \/ GenerateTokenPair(c)
    \/ \E p \in Password : UpdatePassword(c, p)
    \/ Return(c)

Next ==
    \/ \E u \in User : AccountNext(u)
    \/ \E k \in issued : PairNext(k)
    \/ \E c \in Call : CallNext(c)
    \/ Restart
    \/ Tick

Spec == Init /\ [][Next]_vars

-----------------------------------------------------------------------------
(* Properties.                                                             *)

\* A request is let in for an account that was active less than the life of an
\* access token and of a call before: a deactivated accountant cannot renew what
\* they have, not even with a refresh or a login that was already running.
AcceptedWereActive ==
    answer # NoAnswer =>
        \E t \in Time : /\ <<answer.user, t>> \in activeAt
                        /\ t <= answer.at
                        /\ answer.at < t + CallLimit + AccessTTL

\* A pair that was given for a password was given while it was the stored one, or
\* within a call of that: a password that was changed opens nothing new.
LoginsUseAHeldPassword ==
    \A k \in issued : k.with # NONE =>
        \E t \in Time : /\ <<k.user, k.with, t>> \in heldAt
                        /\ t <= k.at
                        /\ k.at <= t + CallLimit

\* Only accountants are ever locked out: an admin or a client always finds their
\* account active, so there is always somebody who can undo a deactivation.
OnlyAccountantsLockedOut ==
    \A u \in User : users[u].role \in {"admin", "client"} => users[u].active

\* The page after a registration: "Your client account was created successfully.
\* You can now log in."
RegisteredCanLogIn ==
    \A u \in User : users[u].role = "client" => LogsIn(u, users[u].password)
=============================================================================
