--------------------------- MODULE AccountsProofs ---------------------------
(***************************************************************************)
(* Proofs about who may use the site.  At the server: accounts and tokens, *)
(* for any number of users, passwords and concurrent calls, any lives of   *)
(* the tokens and any write timeout.  In the browser: the session of the   *)
(* portal, for any number of tabs and accounts and any roles: no dead      *)
(* token is sent again, and a dashboard only appears when the server has   *)
(* confirmed its user.                                                     *)
(***************************************************************************)
EXTENDS Accounts, PortalSession, TLAPS

Rows == [role : Role, active : BOOLEAN, password : Password]
Admitted == [at : {"admitted"}, user : User, active : BOOLEAN, since : Time,
             with : Text \cup {NONE}]
Proving == [at : {"refreshing", "proved"}, user : User, since : Time]

\* Between two moments, u was active, and x was the password of u.
WasActive(u, from, to) ==
    \E t \in Time : <<u, t>> \in activeAt /\ from <= t /\ t <= to
WasHeld(u, x, from, to) ==
    \E t \in Time : <<u, x, t>> \in heldAt /\ from <= t /\ t <= to

UserOK(u) ==
    Known(u) =>
        /\ users[u].active => <<u, now>> \in activeAt
        /\ ~users[u].password.padded => <<u, users[u].password.text, now>> \in heldAt

\* What a call has read was so at some moment since it started.
CallOK(c) ==
    LET k == calls[c] IN
    /\ k.at # "idle" => Known(k.user) /\ k.since <= now
    /\ k.at = "admitted" =>
          /\ WasActive(k.user, k.since, now)
          /\ k.with # NONE => WasHeld(k.user, k.with, k.since, now)

PairOK(k) ==
    /\ Known(k.user)
    /\ k.at <= now
    /\ WasActive(k.user, k.at - CallLimit, k.at)
    /\ k.with # NONE => WasHeld(k.user, k.with, k.at - CallLimit, k.at)

Good ==
    /\ \A u \in User : UserOK(u)
    /\ \A c \in Call : CallOK(c)
    /\ \A k \in issued : PairOK(k)
    /\ AcceptedWereActive

\* What a step never takes back.
Grows ==
    /\ now <= now'
    /\ activeAt \subseteq activeAt'
    /\ heldAt \subseteq heldAt'
    /\ \A u \in User : Known(u) => Known(u)'

-----------------------------------------------------------------------------
(* Types.                                                                  *)

LEMMA TimeIsInt == Time \subseteq Nat /\ \A t \in Time : t <= LastTime
  BY TimesAreNumbers DEF Time

LEMMA UserKinds ==
    ASSUME TypeOK, NEW u \in User
    PROVE  Known(u) <=> users[u] \in Rows
  BY DEF TypeOK, Row, Rows, Known, NoUser, Role

LEMMA CallKinds ==
    ASSUME TypeOK, NEW c \in Call
    PROVE  /\ calls[c].at = "admitted" => calls[c] \in Admitted
           /\ calls[c].at \in {"refreshing", "proved"} => calls[c] \in Proving
           /\ calls[c].at = "idle" => calls[c] = Idle
           /\ calls[c].at \in {"idle", "admitted", "refreshing", "proved"}
  BY DEF TypeOK, CallState, Admitted, Proving, Idle

LEMMA Kinds ==
    /\ Idle \in CallState /\ Admitted \subseteq CallState /\ Proving \subseteq CallState
    /\ Rows \subseteq Row
  BY DEF CallState, Admitted, Proving, Rows, Row

LEMMA PairFields ==
    ASSUME NEW k \in Pair
    PROVE  k.user \in User /\ k.at \in Time /\ k.at \in Int
  <1>1. k.user \in User /\ k.at \in Time
    BY DEF Pair
  <1>2. \A t \in Time : t \in Int
    BY TimeIsInt
  <1> QED
    BY <1>1, <1>2

LEMMA HoldsType ==
    ASSUME NEW u \in User, NEW p \in Password, NEW t \in Time
    PROVE  /\ Holds(u, p, t) \subseteq User \X Text \X Time
           /\ ~p.padded => <<u, p.text, t>> \in Holds(u, p, t)
  BY DEF Holds, Password

LEMMA TrimType ==
    ASSUME NEW p \in Password
    PROVE  Trim(p) \in Password /\ ~Trim(p).padded /\ Trim(p).text = p.text
  BY DEF Trim, Password

LEMMA InitType == Init => TypeOK
  BY TimesAreNumbers DEF Init, TypeOK, Row, CallState, Idle, Answer, Time

LEMMA CreateType ==
    ASSUME TypeOK, NEW u \in User, NEW role \in Role, NEW p \in Password,
           CreateUser(u, role, p)
    PROVE  /\ users' \in [User -> Row]
           /\ activeAt' \subseteq User \X Time
           /\ heldAt' \subseteq User \X Text \X Time
           /\ users'[u] = [role |-> role, active |-> TRUE, password |-> p]
           /\ activeAt \subseteq activeAt' /\ heldAt \subseteq heldAt'
           /\ Known(u)'
           /\ \A v \in User : v # u => users'[v] = users[v]
           /\ \A v \in User : Known(v) => Known(v)'
  <1>1. PICK row \in Rows : row = [role |-> role, active |-> TRUE, password |-> p]
    BY DEF Rows
  <1>2. users' = [users EXCEPT ![u] = row] /\ row \in Row
    BY <1>1, Kinds DEF CreateUser
  <1>3. users' \in [User -> Row] /\ users'[u] = row
        /\ \A v \in User : v # u => users'[v] = users[v]
    BY <1>2 DEF TypeOK
  <1>4. activeAt' \subseteq User \X Time
    BY DEF CreateUser, TypeOK
  <1>5. heldAt' \subseteq User \X Text \X Time
    BY HoldsType DEF CreateUser, TypeOK
  <1>6. Known(u)'
    BY <1>1, <1>3 DEF Known, NoUser, Role
  <1>7. activeAt \subseteq activeAt' /\ heldAt \subseteq heldAt'
    BY DEF CreateUser
  <1>8. \A v \in User : Known(v) => Known(v)'
    BY <1>3, <1>6 DEF Known
  <1> QED
    BY <1>1, <1>3, <1>4, <1>5, <1>6, <1>7, <1>8

LEMMA StartType ==
    ASSUME TypeOK, NEW c \in Call, NEW k \in CallState, Start(c, k)
    PROVE  /\ calls' \in [Call -> CallState]
           /\ calls'[c] = k
           /\ \A b \in Call : b # c => calls'[b] = calls[b]
  BY DEF TypeOK, Start

LEMMA FinishType ==
    ASSUME TypeOK, NEW c \in Call, Finish(c)
    PROVE  /\ calls' \in [Call -> CallState]
           /\ calls'[c] = Idle
           /\ \A b \in Call : b # c => calls'[b] = calls[b]
  BY Kinds DEF TypeOK, Finish

\* A step that changes one row.
LEMMA RowType ==
    ASSUME TypeOK, NEW u \in User, NEW row \in Rows, users' = [users EXCEPT ![u] = row]
    PROVE  /\ users' \in [User -> Row]
           /\ users'[u] = row
           /\ \A v \in User : v # u => users'[v] = users[v]
           /\ \A v \in User : Known(v) => Known(v)'
           /\ Known(u)'
  <1>1. row # NoUser
    BY DEF Rows, NoUser, Role
  <1> QED
    BY <1>1, Kinds DEF TypeOK, Known

LEMMA SetActiveRow ==
    ASSUME TypeOK, NEW u \in User, NEW b \in BOOLEAN, SetActive(u, b)
    PROVE  \E row \in Rows : /\ Known(u)
                             /\ users[u].role = "accountant"
                             /\ users' = [users EXCEPT ![u] = row]
                             /\ row.role = users[u].role
                             /\ row.active = b
                             /\ row.password = users[u].password
  <1>1. Known(u)
    BY DEF SetActive, Known, NoUser
  <1>2. users[u] \in Rows
    BY <1>1, UserKinds
  <1>3. PICK row \in Rows : row = [users[u] EXCEPT !.active = b]
    BY <1>2 DEF Rows
  <1>4. /\ row.role = users[u].role /\ row.active = b
        /\ row.password = users[u].password
    BY <1>2, <1>3 DEF Rows
  <1> QED
    BY <1>1, <1>3, <1>4 DEF SetActive

LEMMA PasswordRow ==
    ASSUME TypeOK, NEW c \in Call, NEW p \in Password, CallOK(c), UpdatePassword(c, p)
    PROVE  \E u \in User : \E row \in Rows :
              /\ u = calls[c].user
              /\ Known(u)
              /\ users' = [users EXCEPT ![u] = row]
              /\ heldAt' = heldAt \cup Holds(u, p, now)
              /\ row.role = users[u].role
              /\ row.active = users[u].active
              /\ row.password = p
  <1>1. PICK u \in User : u = calls[c].user
    BY CallKinds DEF UpdatePassword, Proving
  <1>2. Known(u)
    BY <1>1 DEF CallOK, UpdatePassword
  <1>3. users[u] \in Rows
    BY <1>2, UserKinds
  <1>4. PICK row \in Rows : row = [users[u] EXCEPT !.password = p]
    BY <1>3 DEF Rows
  <1>5. /\ row.role = users[u].role /\ row.active = users[u].active
        /\ row.password = p
    BY <1>3, <1>4 DEF Rows
  <1> QED
    BY <1>1, <1>2, <1>4, <1>5 DEF UpdatePassword

\* What CreateUser alone keeps.
Created ==
    /\ users' \in [User -> Row]
    /\ activeAt' \subseteq User \X Time /\ activeAt \subseteq activeAt'
    /\ heldAt' \subseteq User \X Text \X Time /\ heldAt \subseteq heldAt'
    /\ \A v \in User : Known(v) => Known(v)'

LEMMA CreateCreates ==
    ASSUME TypeOK, NEW u \in User, NEW role \in Role, NEW p \in Password,
           CreateUser(u, role, p)
    PROVE  Created
  BY CreateType DEF Created

-----------------------------------------------------------------------------
(* Every step keeps the types, and only adds to the past.                  *)

Stays == TypeOK' /\ Grows

LEMMA AccountStays ==
    ASSUME TypeOK, NEW u \in User, AccountNext(u)
    PROVE  Stays
  <1>1. ASSUME NEW c \in Call, NEW p \in Password, RegisterClient(c, u, p) PROVE Stays
    <2>1. CreateUser(u, "client", p) /\ "client" \in Role
      BY <1>1 DEF RegisterClient, Role
    <2>2. PICK k \in CallState : k = [at |-> "admitted", user |-> u, active |-> TRUE,
                                      since |-> now, with |-> NONE]
      BY Kinds DEF Admitted, TypeOK
    <2>3. Start(c, k)
      BY <1>1, <2>2 DEF RegisterClient
    <2>4. calls' \in [Call -> CallState]
      BY <2>3, StartType
    <2>5. UNCHANGED <<now, issued, answer>>
      BY <1>1 DEF RegisterClient
    <2> QED
      BY <2>1, <2>4, <2>5, CreateCreates, TimeIsInt DEF Created, Stays, TypeOK, Grows
  <1>2. ASSUME NEW p \in Password, CreateAccountant(u, p) PROVE Stays
    <2>1. CreateUser(u, "accountant", p) /\ "accountant" \in Role
      BY <1>2 DEF CreateAccountant, Role
    <2>2. UNCHANGED <<now, issued, calls, answer>>
      BY <1>2 DEF CreateAccountant
    <2> QED
      BY <2>1, <2>2, CreateCreates, TimeIsInt DEF Created, Stays, TypeOK, Grows
  <1>3. ASSUME NEW p \in Password, BootstrapAdmin(u, p) PROVE Stays
    <2>1. PICK q \in Password : q = Trim(p)
      BY TrimType
    <2>2. CreateUser(u, "admin", q) /\ "admin" \in Role
      BY <1>3, <2>1 DEF BootstrapAdmin, Role
    <2>3. UNCHANGED <<now, issued, answer>> /\ calls' = [c \in Call |-> Idle]
      BY <1>3 DEF BootstrapAdmin
    <2>4. calls' \in [Call -> CallState]
      BY <2>3, Kinds
    <2> QED
      BY <2>2, <2>3, <2>4, CreateCreates, TimeIsInt DEF Created, Stays, TypeOK, Grows
  <1>4. ASSUME NEW b \in BOOLEAN, SetActive(u, b) PROVE Stays
    <2>1. PICK row \in Rows : users' = [users EXCEPT ![u] = row]
      BY <1>4, SetActiveRow
    <2>2. users' \in [User -> Row] /\ \A v \in User : Known(v) => Known(v)'
      BY <2>1, RowType
    <2>3. UNCHANGED <<now, issued, calls, answer, heldAt>>
      BY <1>4 DEF SetActive
    <2>4. activeAt' \subseteq User \X Time /\ activeAt \subseteq activeAt'
      BY <1>4 DEF SetActive, TypeOK
    <2> QED
      BY <2>2, <2>3, <2>4, TimeIsInt DEF Stays, TypeOK, Grows
  <1>5. ASSUME NEW c \in Call, NEW p \in Password, Authenticate(c, u, p) PROVE Stays
    <2>1. users[u] \in Rows
      BY <1>5, UserKinds DEF Authenticate
    <2>2. PICK k \in CallState : k = [at |-> "admitted", user |-> u,
              active |-> users[u].active, since |-> now, with |-> p.text]
      BY <2>1, Kinds DEF Rows, Admitted, TypeOK, Password
    <2>3. Start(c, k) /\ UNCHANGED <<now, users, issued, answer, activeAt, heldAt>>
      BY <1>5, <2>2 DEF Authenticate
    <2> QED
      BY <2>3, StartType, TimeIsInt DEF Stays, TypeOK, Grows, Known
  <1> QED
    BY <1>1, <1>2, <1>3, <1>4, <1>5 DEF AccountNext

LEMMA PairStays ==
    ASSUME TypeOK, NEW k \in issued, PairNext(k)
    PROVE  Stays
  <1>1. CASE RequireAuth(k)
    <2>1. k.user \in User
      BY DEF TypeOK, Pair
    <2>2. answer' \in Answer
      BY <1>1, <2>1 DEF RequireAuth, Answer, TypeOK
    <2> QED
      BY <1>1, <2>2, TimeIsInt DEF RequireAuth, Stays, TypeOK, Grows, Known
  <1>2. ASSUME NEW c \in Call,
               VerifyRefreshToken(c, k)
               \/ \E p \in Password : CheckCurrentPassword(c, k, p)
        PROVE  Stays
    <2>1. PICK at \in {"refreshing", "proved"} :
              Start(c, [at |-> at, user |-> k.user, since |-> now])
      BY <1>2 DEF VerifyRefreshToken, CheckCurrentPassword
    <2>2. [at |-> at, user |-> k.user, since |-> now] \in CallState
      BY Kinds DEF Proving, TypeOK, Pair
    <2>3. UNCHANGED <<now, users, issued, answer, activeAt, heldAt>>
      BY <1>2 DEF VerifyRefreshToken, CheckCurrentPassword
    <2>4. calls' \in [Call -> CallState]
      BY <2>1, <2>2, StartType
    <2> QED
      BY <2>3, <2>4, TimeIsInt DEF Stays, TypeOK, Grows, Known
  <1> QED
    BY <1>1, <1>2 DEF PairNext

LEMMA CallStays ==
    ASSUME TypeOK, NEW c \in Call, CallOK(c), CallNext(c)
    PROVE  Stays
  <1>1. CASE RefreshToken(c)
    <2>1. calls[c] \in Proving
      BY <1>1, CallKinds DEF RefreshToken
    <2>2. PICK u \in User, s \in Time : u = calls[c].user /\ s = calls[c].since
      BY <2>1 DEF Proving
    <2>3. users[u] \in Rows
      BY <1>1, <2>2, UserKinds DEF CallOK, RefreshToken
    <2>4. PICK k \in CallState : k = [at |-> "admitted", user |-> u,
              active |-> users[u].active, since |-> s, with |-> NONE]
      BY <2>3, Kinds DEF Rows, Admitted
    <2>5. calls' \in [Call -> CallState]
      BY <1>1, <2>2, <2>4 DEF RefreshToken, TypeOK
    <2> QED
      BY <1>1, <2>5, TimeIsInt DEF RefreshToken, Stays, TypeOK, Grows, Known
  <1>2. CASE GenerateTokenPair(c)
    <2>1. calls[c] \in Admitted
      BY <1>2, CallKinds DEF GenerateTokenPair
    <2>2. issued' \subseteq Pair
      BY <1>2, <2>1 DEF GenerateTokenPair, Pair, Admitted, TypeOK
    <2> QED
      BY <1>2, <2>2, FinishType, TimeIsInt DEF GenerateTokenPair, Stays, TypeOK, Grows, Known
  <1>3. ASSUME NEW p \in Password, UpdatePassword(c, p) PROVE Stays
    <2>1. PICK u \in User, row \in Rows :
              /\ users' = [users EXCEPT ![u] = row]
              /\ heldAt' = heldAt \cup Holds(u, p, now)
      BY <1>3, PasswordRow
    <2>2. users' \in [User -> Row] /\ \A v \in User : Known(v) => Known(v)'
      BY <2>1, RowType
    <2>3. heldAt' \subseteq User \X Text \X Time /\ heldAt \subseteq heldAt'
      BY <2>1, HoldsType DEF TypeOK
    <2>4. Finish(c) /\ UNCHANGED <<now, issued, answer, activeAt>>
      BY <1>3 DEF UpdatePassword
    <2> QED
      BY <2>2, <2>3, <2>4, FinishType, TimeIsInt DEF Stays, TypeOK, Grows
  <1>4. CASE Return(c)
    BY <1>4, FinishType, TimeIsInt DEF Return, Stays, TypeOK, Grows, Known
  <1> QED
    BY <1>1, <1>2, <1>3, <1>4 DEF CallNext

LEMMA TickStays ==
    ASSUME TypeOK, Tick
    PROVE  /\ Stays
           /\ \A u \in User : Known(u) /\ users[u].active => <<u, now + 1>> \in activeAt'
           /\ \A u \in User : Known(u) /\ ~users[u].password.padded
                 => <<u, users[u].password.text, now + 1>> \in heldAt'
  <1>1. now' = now + 1 /\ now' \in Time /\ now <= now'
    BY TimesAreNumbers DEF Tick, TypeOK, Time
  <1>2. activeAt' \subseteq User \X Time
    BY <1>1 DEF Tick, TypeOK
  <1> DEFINE new == UNION {Holds(u, users[u].password, now + 1) :
                           u \in {v \in User : Known(v)}}
  <1>3. ASSUME NEW u \in User, Known(u)
        PROVE  /\ Holds(u, users[u].password, now + 1) \subseteq User \X Text \X Time
               /\ ~users[u].password.padded =>
                     <<u, users[u].password.text, now + 1>>
                       \in Holds(u, users[u].password, now + 1)
    <2>1. users[u].password \in Password
      BY <1>3, UserKinds DEF Rows
    <2> QED
      BY <1>1, <2>1, HoldsType
  <1>4. heldAt' = heldAt \cup new
    BY DEF Tick
  <1>5. new \subseteq User \X Text \X Time
    BY <1>3
  <1>6. heldAt' \subseteq User \X Text \X Time
    BY <1>4, <1>5 DEF TypeOK
  <1>7. UNCHANGED <<users, issued, calls, answer>>
    BY DEF Tick
  <1>8. Stays
    BY <1>1, <1>2, <1>4, <1>6, <1>7 DEF Stays, TypeOK, Grows, Tick, Known
  <1>9. \A u \in User : Known(u) /\ users[u].active => <<u, now + 1>> \in activeAt'
    BY DEF Tick
  <1>10. \A u \in User : Known(u) /\ ~users[u].password.padded
            => <<u, users[u].password.text, now + 1>> \in heldAt'
    BY <1>3, <1>4
  <1> QED
    BY <1>8, <1>9, <1>10

LEMMA StepStays == TypeOK /\ Good /\ [Next]_vars => Stays
  <1> SUFFICES ASSUME TypeOK, Good, [Next]_vars PROVE Stays
    OBVIOUS
  <1>1. CASE Restart
    BY <1>1, Kinds, TimeIsInt DEF Restart, Stays, TypeOK, Grows, Known
  <1>2. CASE UNCHANGED vars
    BY <1>2, TimeIsInt DEF vars, Stays, TypeOK, Grows, Known
  <1> QED
    BY <1>1, <1>2, AccountStays, PairStays, CallStays, TickStays DEF Next, Good

-----------------------------------------------------------------------------
(* What stays true of what a step leaves alone.                            *)

LEMMA CallKept ==
    ASSUME TypeOK, Stays, NEW c \in Call, CallOK(c), calls'[c] = calls[c]
    PROVE  CallOK(c)'
  <1>1. now \in Int /\ now' \in Int /\ now <= now' /\ \A t \in Time : t \in Int
    BY TimeIsInt DEF TypeOK, Stays, Grows
  <1>2. CASE calls[c].at = "idle"
    BY <1>2 DEF CallOK
  <1>3. CASE calls[c].at = "admitted"
    <2>1. PICK u \in User, s \in Time : u = calls[c].user /\ s = calls[c].since
      BY <1>3, CallKinds DEF Admitted
    <2>2. Known(u) /\ s <= now
      BY <1>3, <2>1 DEF CallOK
    <2>3. Known(u)' /\ s <= now'
      BY <1>1, <2>1, <2>2 DEF Stays, Grows
    <2>4. PICK t \in Time : <<u, t>> \in activeAt /\ s <= t /\ t <= now
      BY <1>3, <2>1 DEF CallOK, WasActive
    <2>5. <<u, t>> \in activeAt' /\ t <= now'
      BY <1>1, <2>4 DEF Stays, Grows
    <2>6. WasActive(u, s, now)'
      BY <2>4, <2>5 DEF WasActive
    <2>7. ASSUME calls[c].with # NONE PROVE WasHeld(u, calls[c].with, s, now)'
      <3>1. PICK r \in Time : <<u, calls[c].with, r>> \in heldAt /\ s <= r /\ r <= now
        BY <1>3, <2>1, <2>7 DEF CallOK, WasHeld
      <3>2. <<u, calls[c].with, r>> \in heldAt' /\ r <= now'
        BY <1>1, <3>1 DEF Stays, Grows
      <3>3. <<u, calls'[c].with, r>> \in heldAt'
        BY <3>2
      <3> QED
        BY <3>1, <3>2 DEF WasHeld
    <2> QED
      BY <1>3, <2>1, <2>3, <2>6, <2>7 DEF CallOK, WasHeld
  <1>4. CASE calls[c].at \in {"refreshing", "proved"}
    <2>1. PICK u \in User, s \in Time : u = calls[c].user /\ s = calls[c].since
      BY <1>4, CallKinds DEF Proving
    <2>2. Known(u) /\ s <= now
      BY <1>4, <2>1 DEF CallOK
    <2>3. Known(u)' /\ s <= now'
      BY <1>1, <2>1, <2>2 DEF Stays, Grows
    <2> QED
      BY <1>4, <2>1, <2>3 DEF CallOK
  <1> QED
    BY <1>2, <1>3, <1>4, CallKinds

LEMMA IdleOK ==
    ASSUME NEW c \in Call, calls'[c] = Idle
    PROVE  CallOK(c)'
  BY DEF CallOK, Idle

LEMMA OthersKept ==
    ASSUME TypeOK, Stays, Good, NEW c \in Call, CallOK(c)',
           \A b \in Call : b # c => calls'[b] = calls[b]
    PROVE  \A b \in Call : CallOK(b)'
  BY CallKept DEF Good

LEMMA FinishedOK ==
    ASSUME TypeOK, Stays, Good, NEW c \in Call, Finish(c)
    PROVE  \A b \in Call : CallOK(b)'
  BY FinishType, IdleOK, OthersKept

LEMMA CallsKept ==
    ASSUME TypeOK, Stays, Good, calls' = calls \/ calls' = [c \in Call |-> Idle]
    PROVE  \A c \in Call : CallOK(c)'
  BY CallKept, IdleOK DEF Good

LEMMA PairKept ==
    ASSUME TypeOK, Stays, NEW k \in Pair, PairOK(k)
    PROVE  PairOK(k)'
  <1>1. now \in Int /\ now' \in Int /\ now <= now'
    BY TimeIsInt DEF TypeOK, Stays, Grows
  <1>2. k.user \in User /\ k.at \in Int
    BY PairFields
  <1> QED
    BY <1>1, <1>2 DEF PairOK, Stays, Grows, WasActive, WasHeld

LEMMA PairsKept ==
    ASSUME TypeOK, Stays, Good, issued' = issued
    PROVE  \A k \in issued' : PairOK(k)'
  BY PairKept DEF Good, TypeOK

LEMMA AnswerKept ==
    ASSUME TypeOK, Stays, AcceptedWereActive, answer' = answer
    PROVE  AcceptedWereActive'
  BY DEF AcceptedWereActive, Stays, Grows

LEMMA UserKept ==
    ASSUME TypeOK, Stays, NEW u \in User, UserOK(u), users'[u] = users[u], now' = now
    PROVE  UserOK(u)'
  BY DEF UserOK, Stays, Grows, Known

LEMMA UsersKept ==
    ASSUME TypeOK, Stays, Good, users' = users, now' = now
    PROVE  \A u \in User : UserOK(u)'
  BY UserKept DEF Good

\* A new account.
LEMMA CreatedOK ==
    ASSUME TypeOK, Stays, Good, NEW u \in User, NEW role \in Role, NEW p \in Password,
           CreateUser(u, role, p), now' = now
    PROVE  \A v \in User : UserOK(v)'
  <1>1. ASSUME NEW v \in User, v # u PROVE UserOK(v)'
    BY <1>1, CreateType, UserKept DEF Good
  <1>2. users'[u] = [role |-> role, active |-> TRUE, password |-> p]
    BY CreateType
  <1>3. <<u, now>> \in activeAt'
    BY DEF CreateUser
  <1>4. ~p.padded => <<u, p.text, now>> \in heldAt'
    BY HoldsType DEF CreateUser, TypeOK
  <1>5. UserOK(u)'
    BY <1>2, <1>3, <1>4 DEF UserOK
  <1> QED
    BY <1>1, <1>5

\* Nothing but the calls and the clock's facts about the users moves.
LEMMA OnlyCallsGood ==
    ASSUME TypeOK, Stays, Good, UNCHANGED <<issued, answer>>,
           \A u \in User : UserOK(u)', \A c \in Call : CallOK(c)'
    PROVE  Good'
  BY PairsKept, AnswerKept DEF Good

-----------------------------------------------------------------------------
(* Good is inductive.                                                      *)

LEMMA InitGood == Init => Good
  BY DEF Init, Good, UserOK, CallOK, AcceptedWereActive, Known, Idle

LEMMA ActiveNow ==
    ASSUME TypeOK, NEW u \in User, UserOK(u), Known(u), users[u].active
    PROVE  WasActive(u, now, now)
  BY TimeIsInt DEF UserOK, WasActive, TypeOK

LEMMA AccountGood ==
    ASSUME TypeOK, Stays, Good, NEW u \in User, AccountNext(u)
    PROVE  Good'
  <1>1. ASSUME NEW c \in Call, NEW p \in Password, RegisterClient(c, u, p) PROVE Good'
    <2>1. CreateUser(u, "client", p) /\ "client" \in Role
      BY <1>1 DEF RegisterClient, Role
    <2>2. UNCHANGED <<now, issued, answer>>
      BY <1>1 DEF RegisterClient
    <2>3. PICK k \in CallState : k = [at |-> "admitted", user |-> u, active |-> TRUE,
                                      since |-> now, with |-> NONE]
      BY Kinds DEF Admitted, TypeOK
    <2>4. calls'[c] = k /\ \A b \in Call : b # c => calls'[b] = calls[b]
      BY <1>1, <2>3, StartType DEF RegisterClient
    <2>5. Known(u)'
      BY <2>1, CreateType
    <2>6. now \in Time /\ now <= now
      BY TimeIsInt DEF TypeOK
    <2>7. <<u, now>> \in activeAt'
      BY <2>1 DEF CreateUser
    <2>8. WasActive(u, now, now)'
      BY <2>2, <2>7, <2>6 DEF WasActive
    <2>9. CallOK(c)'
      BY <2>2, <2>3, <2>4, <2>5, <2>8, <2>6 DEF CallOK
    <2> QED
      BY <2>1, <2>2, <2>4, <2>9, CreatedOK, OthersKept, OnlyCallsGood
  <1>2. ASSUME NEW p \in Password, CreateAccountant(u, p) PROVE Good'
    <2>1. CreateUser(u, "accountant", p) /\ "accountant" \in Role
      BY <1>2 DEF CreateAccountant, Role
    <2>2. UNCHANGED <<now, issued, calls, answer>>
      BY <1>2 DEF CreateAccountant
    <2> QED
      BY <2>1, <2>2, CreatedOK, CallsKept, OnlyCallsGood
  <1>3. ASSUME NEW p \in Password, BootstrapAdmin(u, p) PROVE Good'
    <2>1. PICK q \in Password : q = Trim(p)
      BY TrimType
    <2>2. CreateUser(u, "admin", q) /\ "admin" \in Role
      BY <1>3, <2>1 DEF BootstrapAdmin, Role
    <2>3. UNCHANGED <<now, issued, answer>> /\ calls' = [c \in Call |-> Idle]
      BY <1>3 DEF BootstrapAdmin
    <2> QED
      BY <2>2, <2>3, CreatedOK, CallsKept, OnlyCallsGood
  <1>4. ASSUME NEW b \in BOOLEAN, SetActive(u, b) PROVE Good'
    <2>1. PICK row \in Rows : /\ Known(u)
                              /\ users' = [users EXCEPT ![u] = row]
                              /\ row.active = b
                              /\ row.password = users[u].password
      BY <1>4, SetActiveRow
    <2>2. users'[u] = row /\ \A v \in User : v # u => users'[v] = users[v]
      BY <2>1, RowType
    <2>3. UNCHANGED <<now, issued, calls, answer, heldAt>>
      BY <1>4 DEF SetActive
    <2>4. b => <<u, now>> \in activeAt'
      BY <1>4 DEF SetActive
    <2>5. UserOK(u)'
      BY <2>1, <2>2, <2>3, <2>4 DEF Good, UserOK
    <2>6. \A v \in User : UserOK(v)'
      BY <2>2, <2>3, <2>5, UserKept DEF Good
    <2> QED
      BY <2>3, <2>6, CallsKept, OnlyCallsGood
  <1>5. ASSUME NEW c \in Call, NEW p \in Password, Authenticate(c, u, p) PROVE Good'
    <2>1. Known(u) /\ users[u].active /\ users[u].password = Trim(p) /\ UserOK(u)
      BY <1>5 DEF Authenticate, LogsIn, Good
    <2>2. users[u] \in Rows
      BY <2>1, UserKinds
    <2>3. PICK k \in CallState : k = [at |-> "admitted", user |-> u,
              active |-> users[u].active, since |-> now, with |-> p.text]
      BY <2>2, Kinds DEF Rows, Admitted, TypeOK, Password
    <2>4. UNCHANGED <<now, users, issued, answer, activeAt, heldAt>> /\ Start(c, k)
      BY <1>5, <2>3 DEF Authenticate
    <2>5. calls'[c] = k /\ \A b \in Call : b # c => calls'[b] = calls[b]
      BY <2>4, StartType
    <2>6. <<u, now>> \in activeAt /\ <<u, p.text, now>> \in heldAt /\ now <= now
      BY <2>1, TrimType, TimeIsInt DEF UserOK, TypeOK
    <2>7. WasActive(u, now, now)' /\ WasHeld(u, p.text, now, now)'
      BY <2>4, <2>6 DEF WasActive, WasHeld, TypeOK
    <2>8. CallOK(c)'
      BY <2>1, <2>3, <2>4, <2>5, <2>6, <2>7 DEF CallOK, Known
    <2> QED
      BY <2>4, <2>5, <2>8, UsersKept, OthersKept, OnlyCallsGood
  <1> QED
    BY <1>1, <1>2, <1>3, <1>4, <1>5 DEF AccountNext

LEMMA PairGood ==
    ASSUME TypeOK, Stays, Good, NEW k \in issued, PairNext(k)
    PROVE  Good'
  <1>1. k \in Pair /\ PairOK(k)
    BY DEF TypeOK, Good
  <1>2. k.user \in User /\ k.at \in Int /\ k.at <= now /\ now \in Time /\ now \in Int
    BY <1>1, TimeIsInt, PairFields DEF PairOK, TypeOK
  <1>3. CASE RequireAuth(k)
    <2>1. /\ answer' = [user |-> k.user, at |-> now]
          /\ now < k.at + AccessTTL
          /\ UNCHANGED <<now, users, issued, calls, activeAt, heldAt>>
      BY <1>3 DEF RequireAuth, AccessValid
    <2>2. PICK t \in Time : /\ <<k.user, t>> \in activeAt
                            /\ k.at - CallLimit <= t /\ t <= k.at
      BY <1>1 DEF PairOK, WasActive
    <2>3. t <= now /\ now < t + CallLimit + AccessTTL
      BY <1>2, <2>1, <2>2, TimesAreNumbers, TimeIsInt
    <2>4. AcceptedWereActive'
      BY <2>1, <2>2, <2>3 DEF AcceptedWereActive
    <2> QED
      BY <2>1, <2>4, UsersKept, CallsKept, PairsKept DEF Good
  <1>4. ASSUME NEW c \in Call,
               VerifyRefreshToken(c, k)
               \/ \E p \in Password : CheckCurrentPassword(c, k, p)
        PROVE  Good'
    <2>1. PICK at \in {"refreshing", "proved"} :
              Start(c, [at |-> at, user |-> k.user, since |-> now])
      BY <1>4 DEF VerifyRefreshToken, CheckCurrentPassword
    <2>2. [at |-> at, user |-> k.user, since |-> now] \in CallState
      BY <1>2, Kinds DEF Proving
    <2>3. UNCHANGED <<now, users, issued, answer, activeAt, heldAt>>
      BY <1>4 DEF VerifyRefreshToken, CheckCurrentPassword
    <2>4. /\ calls'[c] = [at |-> at, user |-> k.user, since |-> now]
          /\ \A b \in Call : b # c => calls'[b] = calls[b]
      BY <2>1, <2>2, StartType
    <2>5. Known(k.user) /\ now <= now
      BY <1>1, <1>2 DEF PairOK
    <2>6. CallOK(c)'
      BY <2>3, <2>4, <2>5 DEF CallOK, Known
    <2> QED
      BY <2>3, <2>4, <2>6, UsersKept, OthersKept, OnlyCallsGood
  <1> QED
    BY <1>3, <1>4 DEF PairNext

LEMMA CallGood ==
    ASSUME TypeOK, Stays, Good, NEW c \in Call, CallNext(c)
    PROVE  Good'
  <1>1. CASE RefreshToken(c)
    <2>1. calls[c] \in Proving /\ CallOK(c)
      BY <1>1, CallKinds DEF RefreshToken, Good
    <2>2. PICK u \in User, s \in Time : u = calls[c].user /\ s = calls[c].since
      BY <2>1 DEF Proving
    <2>3. Known(u) /\ users[u].active /\ s <= now /\ UserOK(u)
      BY <1>1, <2>1, <2>2 DEF CallOK, RefreshToken, Good
    <2>4. UNCHANGED <<now, users, issued, answer, activeAt, heldAt>>
      BY <1>1 DEF RefreshToken
    <2>5. /\ calls'[c] = [at |-> "admitted", user |-> u, active |-> users[u].active,
                          since |-> s, with |-> NONE]
          /\ \A b \in Call : b # c => calls'[b] = calls[b]
      BY <1>1, <2>2 DEF RefreshToken, TypeOK
    <2>6. <<u, now>> \in activeAt /\ now <= now /\ now \in Time
      BY <2>3, TimeIsInt DEF UserOK, TypeOK
    <2>7. WasActive(u, s, now)'
      BY <2>3, <2>4, <2>6 DEF WasActive
    <2>8. CallOK(c)'
      BY <2>3, <2>4, <2>5, <2>7 DEF CallOK, Known
    <2> QED
      BY <2>4, <2>5, <2>8, UsersKept, OthersKept, OnlyCallsGood
  <1>2. CASE GenerateTokenPair(c)
    <2>1. calls[c] \in Admitted /\ CallOK(c)
      BY <1>2, CallKinds DEF GenerateTokenPair, Good
    <2>2. PICK u \in User, s \in Time, w \in Text \cup {NONE}, b \in BOOLEAN :
              /\ u = calls[c].user /\ s = calls[c].since
              /\ w = calls[c].with /\ b = calls[c].active
      BY <2>1 DEF Admitted
    <2>3. PICK k \in Pair : k = [user |-> u, active |-> b, at |-> now, with |-> w]
      BY DEF Pair, TypeOK
    <2>4. issued' = issued \cup {k} /\ now <= s + CallLimit
      BY <1>2, <2>2, <2>3 DEF GenerateTokenPair
    <2>5. UNCHANGED <<now, users, answer, activeAt, heldAt>> /\ Finish(c)
      BY <1>2 DEF GenerateTokenPair
    <2>6. Known(u) /\ now <= now /\ now \in Int
      BY <2>1, <2>2, TimeIsInt DEF CallOK, Admitted, TypeOK
    <2>7. PICK t \in Time : <<u, t>> \in activeAt /\ s <= t /\ t <= now
      BY <2>1, <2>2 DEF CallOK, WasActive, Admitted
    <2>8. now - CallLimit <= t
      BY <2>4, <2>6, <2>7, TimesAreNumbers, TimeIsInt
    <2>9. WasActive(u, now - CallLimit, now)
      BY <2>7, <2>8 DEF WasActive
    <2>10. ASSUME w # NONE PROVE WasHeld(u, w, now - CallLimit, now)
      <3>1. PICK r \in Time : <<u, w, r>> \in heldAt /\ s <= r /\ r <= now
        BY <2>1, <2>2, <2>10 DEF CallOK, WasHeld, Admitted
      <3>2. now - CallLimit <= r
        BY <2>4, <2>6, <3>1, TimesAreNumbers, TimeIsInt
      <3> QED
        BY <3>1, <3>2 DEF WasHeld
    <2>11. PairOK(k)
      BY <2>3, <2>6, <2>9, <2>10 DEF PairOK
    <2>12. \A j \in issued' : j \in Pair /\ PairOK(j)
      BY <2>4, <2>11 DEF Good, TypeOK
    <2>13. \A j \in issued' : PairOK(j)'
      BY <2>12, PairKept
    <2> QED
      BY <2>5, <2>13, UsersKept, FinishedOK, AnswerKept DEF Good
  <1>3. ASSUME NEW p \in Password, UpdatePassword(c, p) PROVE Good'
    <2>1. CallOK(c)
      BY DEF Good
    <2>2. PICK u \in User, row \in Rows :
              /\ Known(u)
              /\ users' = [users EXCEPT ![u] = row]
              /\ heldAt' = heldAt \cup Holds(u, p, now)
              /\ row.active = users[u].active
              /\ row.password = p
      BY <1>3, <2>1, PasswordRow
    <2>3. users'[u] = row /\ \A v \in User : v # u => users'[v] = users[v]
      BY <2>2, RowType
    <2>4. UNCHANGED <<now, issued, answer, activeAt>> /\ Finish(c)
      BY <1>3 DEF UpdatePassword
    <2>5. ~p.padded => <<u, p.text, now>> \in heldAt'
      BY <2>2, HoldsType DEF TypeOK
    <2>6. UserOK(u)'
      BY <2>2, <2>3, <2>4, <2>5 DEF Good, UserOK
    <2>7. \A v \in User : UserOK(v)'
      BY <2>3, <2>4, <2>6, UserKept DEF Good
    <2> QED
      BY <2>4, <2>7, FinishedOK, OnlyCallsGood
  <1>4. CASE Return(c)
    <2>1. UNCHANGED <<now, users, issued, answer, activeAt, heldAt>> /\ Finish(c)
      BY <1>4 DEF Return
    <2> QED
      BY <2>1, UsersKept, FinishedOK, OnlyCallsGood
  <1> QED
    BY <1>1, <1>2, <1>3, <1>4 DEF CallNext

LEMMA StepGood == TypeOK /\ Good /\ [Next]_vars => Good'
  <1> SUFFICES ASSUME TypeOK, Good, [Next]_vars PROVE Good'
    OBVIOUS
  <1>1. Stays
    BY StepStays
  <1>2. CASE Tick
    <2>1. UNCHANGED <<users, issued, calls, answer>> /\ now' = now + 1
      BY <1>2 DEF Tick
    <2>2. \A u \in User : UserOK(u)'
      BY <1>2, <2>1, TickStays DEF UserOK, Known
    <2> QED
      BY <1>1, <2>1, <2>2, CallsKept, OnlyCallsGood
  <1>3. CASE Restart
    BY <1>1, <1>3, UsersKept, CallsKept, OnlyCallsGood DEF Restart
  <1>4. CASE UNCHANGED vars
    BY <1>1, <1>4, UsersKept, CallsKept, OnlyCallsGood DEF vars
  <1> QED
    BY <1>1, <1>2, <1>3, <1>4, AccountGood, PairGood, CallGood DEF Next

LEMMA SpecGood == Spec => [](TypeOK /\ Good)
  <1>1. Init => TypeOK /\ Good
    BY InitType, InitGood
  <1>2. TypeOK /\ Good /\ [Next]_vars => (TypeOK /\ Good)'
    BY StepStays, StepGood DEF Stays
  <1> QED
    BY <1>1, <1>2, PTL DEF Spec

\* The variables keep their types; every row has a role of the CHECK constraint.
THEOREM TypeCorrect == Spec => []TypeOK
  BY SpecGood, PTL

\* Whatever the order of logins, refreshes and deactivations, an account that is
\* let in was active less than a call and the life of an access token before.
THEOREM AcceptedActive == Spec => []AcceptedWereActive
  <1>1. Good => AcceptedWereActive
    BY DEF Good
  <1> QED
    BY <1>1, SpecGood, PTL

\* A password that was changed opens no session that starts later than a call after.
THEOREM LoginsHeldPassword == Spec => []LoginsUseAHeldPassword
  <1>1. TypeOK /\ Good => LoginsUseAHeldPassword
    <2> SUFFICES ASSUME TypeOK, Good, NEW k \in issued, k.with # NONE
                 PROVE  \E t \in Time : /\ <<k.user, k.with, t>> \in heldAt
                                        /\ t <= k.at
                                        /\ k.at <= t + CallLimit
      BY DEF LoginsUseAHeldPassword
    <2>1. k.at \in Int
      BY PairFields DEF TypeOK
    <2>2. PICK t \in Time : /\ <<k.user, k.with, t>> \in heldAt
                            /\ k.at - CallLimit <= t /\ t <= k.at
      BY DEF Good, PairOK, WasHeld
    <2>3. k.at <= t + CallLimit
      BY <2>1, <2>2, TimesAreNumbers, TimeIsInt
    <2> QED
      BY <2>2, <2>3
  <1> QED
    BY <1>1, SpecGood, PTL

-----------------------------------------------------------------------------
(* Who can be locked out.                                                  *)

LEMMA LockStep ==
    TypeOK /\ Good /\ OnlyAccountantsLockedOut /\ [Next]_vars
    => OnlyAccountantsLockedOut'
  <1> SUFFICES ASSUME TypeOK, Good, OnlyAccountantsLockedOut, [Next]_vars,
                      NEW v \in User, users'[v].role \in {"admin", "client"}
               PROVE  users'[v].active
    BY DEF OnlyAccountantsLockedOut
  <1>1. CASE users'[v] = users[v]
    BY <1>1 DEF OnlyAccountantsLockedOut
  <1>2. ASSUME NEW u \in User, NEW role \in Role, NEW p \in Password,
               CreateUser(u, role, p)
        PROVE  users'[v].active
    <2>1. /\ users'[u] = [role |-> role, active |-> TRUE, password |-> p]
          /\ v # u => users'[v] = users[v]
      BY <1>2, CreateType
    <2>2. CASE v = u
      BY <2>1, <2>2
    <2> QED
      BY <1>1, <2>1, <2>2
  <1>3. ASSUME NEW u \in User, NEW b \in BOOLEAN, SetActive(u, b)
        PROVE  users'[v].active
    <2>1. PICK row \in Rows : /\ users[u].role = "accountant"
                              /\ users' = [users EXCEPT ![u] = row]
                              /\ row.role = users[u].role
      BY <1>3, SetActiveRow
    <2>2. users'[u] = row /\ (v # u => users'[v] = users[v])
      BY <2>1, RowType
    <2> QED
      BY <1>1, <2>1, <2>2
  <1>4. ASSUME NEW c \in Call, NEW p \in Password, UpdatePassword(c, p)
        PROVE  users'[v].active
    <2>1. PICK u \in User, row \in Rows :
              /\ users' = [users EXCEPT ![u] = row]
              /\ row.role = users[u].role
              /\ row.active = users[u].active
      BY <1>4, PasswordRow DEF Good
    <2>2. users'[u] = row /\ (v # u => users'[v] = users[v])
      BY <2>1, RowType
    <2> QED
      BY <1>1, <2>1, <2>2 DEF OnlyAccountantsLockedOut
  <1>5. ASSUME NEW u \in User, AccountNext(u) PROVE users'[v].active
    <2>1. ASSUME NEW p \in Password,
                 CreateAccountant(u, p) \/ BootstrapAdmin(u, p)
                 \/ \E c \in Call : RegisterClient(c, u, p)
          PROVE  users'[v].active
      <3>1. PICK q \in Password : q = Trim(p)
        BY TrimType
      <3> QED
        BY <1>2, <2>1, <3>1
           DEF CreateAccountant, BootstrapAdmin, RegisterClient, Role
    <2>2. ASSUME NEW p \in Password, NEW c \in Call, Authenticate(c, u, p)
          PROVE  users'[v].active
      BY <1>1, <2>2 DEF Authenticate
    <2> QED
      BY <1>3, <1>5, <2>1, <2>2 DEF AccountNext
  <1>6. ASSUME NEW k \in issued, PairNext(k) PROVE users'[v].active
    BY <1>1, <1>6 DEF PairNext, RequireAuth, VerifyRefreshToken, CheckCurrentPassword
  <1>7. ASSUME NEW c \in Call, CallNext(c) PROVE users'[v].active
    BY <1>1, <1>4, <1>7 DEF CallNext, RefreshToken, GenerateTokenPair, Return
  <1> QED
    BY <1>1, <1>5, <1>6, <1>7 DEF Next, Restart, Tick, vars

\* An admin or a client is never inactive, so a deactivation can be undone.
THEOREM OnlyAccountantsOut == Spec => []OnlyAccountantsLockedOut
  <1>1. Init => OnlyAccountantsLockedOut
    BY DEF Init, OnlyAccountantsLockedOut, NoUser
  <1> QED
    BY <1>1, LockStep, SpecGood, PTL DEF Spec

-----------------------------------------------------------------------------
(* The session in the browser.                                             *)

USE SessionAssumption

-----------------------------------------------------------------------------
(* The parts of the state. *)

TokensTyped ==
    /\ tokens \in Seq(Account) /\ valid \subseteq Token /\ dead \subseteq Token
    /\ storage \in Token \cup {0}

WellFormed(tab) == tab \in TabState /\ (tab.nested = ABSENT <=> ~Dashboard(tab.path))
TabsTyped == tabs \in [Tab -> TabState] /\ \A t \in Tab : WellFormed(tabs[t])

\* A dashboard is shown in a tab in this state.
ShownIn(tab) ==
    /\ Dashboard(tab.path) /\ ~tab.nested.loading
    /\ Belongs(tab.nested.user, tab.path)

\* The provider of a dashboard that waits for an answer is still there.
Mounted == \A q \in requests : q.kind = "nested" => Dashboard(tabs[q.tab].path)

Parts == TokensTyped /\ TabsTyped /\ requests \subseteq Waiting /\ Mounted /\ moves \in 0..MaxMoves

LEMMA TypeParts == Parts => SessionTypeOK
  BY DEF SessionTypeOK, Parts, TokensTyped, TabsTyped, WellFormed

\* Every new request of this step carries the stored token or one that was just issued.
SendsLiving == \A q \in Sent : q.token \notin dead

AppearsIn(t) ==
    DashboardShown(t)' /\ ~DashboardShown(t) =>
        \E q \in requests : /\ q.tab = t /\ q.kind = "nested" /\ q.token \in valid
                            /\ RoleOf[tokens[q.token]] = tabs'[t].path

-----------------------------------------------------------------------------
(* Data. *)

LEMMA StoredTyped ==
    ASSUME TokensTyped
    PROVE  Stored \in Account \cup {ABSENT}
  BY DEF TokensTyped, Stored, AccountOf, Token

LEMMA FreshTyped ==
    ASSUME NEW stored \in Account \cup {ABSENT}
    PROVE  /\ Fresh(stored) \in Provided /\ Fresh(stored) # ABSENT
           /\ Fresh(stored).loading \/ Fresh(stored).user = ABSENT
<1>1. Fresh(stored) \in [user : Account \cup {ABSENT}, loading : BOOLEAN]
  BY DEF Fresh
<1>2. Fresh(stored) # ABSENT
  BY <1>1 DEF SessionAssumption
<1> QED
  BY <1>1, <1>2 DEF Fresh, Provided

LEMMA RequestTyped ==
    ASSUME TokensTyped, NEW t \in Tab, NEW kind \in {"root", "nested", "work"}
    PROVE  /\ SessionRequest(t, kind) \in Waiting /\ SessionRequest(t, kind).token = storage
           /\ Me(t, kind) \subseteq Waiting
           /\ \A q \in Me(t, kind) : q.token = storage /\ q.tab = t /\ q.kind = kind
  BY DEF TokensTyped, SessionRequest, Me, Waiting

\* What is left behind was there before, or nobody waits for it any more.
LEMMA AbandonedTyped ==
    ASSUME requests \subseteq Waiting, NEW t \in Tab
    PROVE  /\ Abandoned(t) \subseteq Waiting
           /\ \A q \in Abandoned(t) : q \in requests \/ q.kind \in {"gone", "left"}
           /\ \A q \in Abandoned(t) : q.kind = "nested" => q.tab # t
<1> SUFFICES ASSUME NEW q \in requests
             PROVE  LET d == IF q.tab = t THEN [q EXCEPT !.kind = Left(@)] ELSE q IN
                    /\ d \in Waiting /\ (d \in requests \/ d.kind \in {"gone", "left"})
                    /\ (d.kind = "nested" => d.tab # t)
  BY DEF Abandoned
<1>1. q \in Waiting
  OBVIOUS
<1>2. CASE q.kind \in {"nested", "login"}
  <2> DEFINE d == [q EXCEPT !.kind = Left(@)]
  <2>1. d \in Waiting /\ d.kind \in {"gone", "left"} /\ d.kind # "nested"
    BY <1>1, <1>2 DEF Waiting, Left
  <2> QED
    BY <1>1, <2>1
<1>3. CASE q.kind \notin {"nested", "login"}
  <2>1. Left(q.kind) = q.kind
    BY <1>3 DEF Left
  <2>2. [q EXCEPT !.kind = Left(@)] = q
    BY <1>1, <2>1 DEF Waiting
  <2>3. (q.kind = "nested") = FALSE
    BY <1>3
  <2> QED
    BY <1>1, <2>2, <2>3
<1> QED
  BY <1>2, <1>3

-----------------------------------------------------------------------------
(* Tabs. *)

\* A tab that goes elsewhere shows no dashboard at first.
LEMMA AtTyped ==
    ASSUME NEW tab \in TabState, NEW p \in Path, NEW next \in PortalRole \cup {ABSENT},
           NEW stored \in Account \cup {ABSENT}
    PROVE  WellFormed(At(tab, p, next, stored)) /\ ~ShownIn(At(tab, p, next, stored))
<1> DEFINE x == At(tab, p, next, stored)
<1>1. /\ x \in [path : Path, next : PortalRole \cup {ABSENT}, root : Provided, nested : Provided \cup {ABSENT},
                submitting : BOOLEAN]
      /\ x.nested = ABSENT <=> ~Dashboard(x.path)
  BY FreshTyped DEF At, TabState
<1>2. ~ShownIn(x)
  BY FreshTyped DEF At, ShownIn, Belongs
<1> QED
  BY <1>1, <1>2 DEF WellFormed, TabState

\* One tab changes.
LEMMA TabChanges ==
    ASSUME TabsTyped, NEW t \in Tab, NEW x, WellFormed(x), ShownIn(x) => ShownIn(tabs[t]),
           tabs' = [tabs EXCEPT ![t] = x]
    PROVE  TabsTyped' /\ \A u \in Tab : AppearsIn(u)
<1>1. tabs' \in [Tab -> TabState] /\ \A u \in Tab : tabs'[u] = IF u = t THEN x ELSE tabs[u]
  BY DEF TabsTyped, WellFormed
<1>2. \A u \in Tab : WellFormed(tabs'[u])
  BY <1>1 DEF TabsTyped
<1>3. \A u \in Tab : ShownIn(tabs'[u]) => ShownIn(tabs[u])
  BY <1>1
<1>4. TabsTyped'
  BY <1>1, <1>2 DEF TabsTyped, WellFormed, Dashboard, Path, TabState, Provided
<1>5. \A u \in Tab : AppearsIn(u)
  BY <1>3 DEF AppearsIn, DashboardShown, ShownIn, Dashboard, Belongs
<1> QED
  BY <1>4, <1>5

LEMMA TabsStay ==
    ASSUME TabsTyped, UNCHANGED tabs
    PROVE  TabsTyped' /\ \A u \in Tab : AppearsIn(u)
  BY DEF TabsTyped, WellFormed, Dashboard, Path, TabState, Provided, AppearsIn, DashboardShown, Belongs

LEMMA MountedKept ==
    ASSUME Mounted, requests \subseteq Waiting, \A u \in Tab : tabs'[u].path = tabs[u].path,
           \A q \in requests' : q.kind = "nested" => q \in requests
    PROVE  Mounted'
  BY DEF Mounted, Waiting, Dashboard

LEMMA MountedMoves ==
    ASSUME Mounted, TabsTyped, requests \subseteq Waiting, NEW t \in Tab, NEW x, tabs' = [tabs EXCEPT ![t] = x],
           \A q \in requests' : q.kind = "nested" =>
                                (q \in requests /\ q.tab # t) \/ (q.tab = t /\ Dashboard(x.path))
    PROVE  Mounted'
<1>1. \A u \in Tab : tabs'[u] = IF u = t THEN x ELSE tabs[u]
  BY DEF TabsTyped
<1> QED
  BY <1>1 DEF Mounted, Waiting, Dashboard

-----------------------------------------------------------------------------
(* Tokens and requests. *)

LEMMA TokensStay ==
    ASSUME TokensTyped, UNCHANGED <<storage, tokens, valid, dead>>
    PROVE  TokensTyped' /\ Waiting' = Waiting /\ (storage \notin dead => storage' \notin dead')
  BY DEF TokensTyped, Token, Waiting

LEMMA TokensCleared ==
    ASSUME TokensTyped, NEW gone \in SUBSET (Token \cup {0}), Clear(gone), UNCHANGED <<tokens, valid>>
    PROVE  TokensTyped' /\ Waiting' = Waiting /\ storage' \notin dead'
  BY DEF TokensTyped, Token, Waiting, Clear

\* A token that is issued is not dead.
LEMMA TokenIssued ==
    ASSUME TokensTyped, NEW account \in Account, tokens' = Append(tokens, account),
           valid' = valid \cup {Len(tokens) + 1}, storage' = Len(tokens) + 1, UNCHANGED dead
    PROVE  /\ TokensTyped' /\ Waiting \subseteq Waiting' /\ storage' \notin dead'
           /\ Len(tokens) + 1 \in Token'
<1>1. tokens' \in Seq(Account) /\ Len(tokens') = Len(tokens) + 1 /\ Len(tokens) \in Nat
  BY DEF TokensTyped
<1>2. Token \subseteq Token' /\ Len(tokens) + 1 \in Token' /\ Len(tokens) + 1 \notin Token
  BY <1>1 DEF Token
<1>3. TokensTyped'
  BY <1>1, <1>2 DEF TokensTyped
<1>4. Waiting \subseteq Waiting'
  BY <1>2 DEF Waiting
<1> QED
  BY <1>2, <1>3, <1>4 DEF TokensTyped

LEMMA RequestsLive ==
    ASSUME TokensTyped, storage \notin dead,
           \A q \in requests' : \/ q \in requests \/ q.kind \in {"gone", "left"}
                                \/ q.token = storage \/ q.token = Len(tokens) + 1
    PROVE  SendsLiving
<1>1. Len(tokens) + 1 \notin dead
  BY DEF TokensTyped, Token
<1> QED
  BY <1>1 DEF SendsLiving, Sent

-----------------------------------------------------------------------------
(* Steps. *)

StepOK ==
    /\ Parts'
    /\ storage \notin dead => storage' \notin dead' /\ SendsLiving
    /\ \A t \in Tab : AppearsIn(t)

\* A step that leaves the tokens alone, or clears the stored one.
LEMMA StepFromParts ==
    ASSUME Parts, TokensTyped', storage \notin dead => storage' \notin dead',
           TabsTyped', \A t \in Tab : AppearsIn(t), requests' \subseteq Waiting',
           \A q \in requests' : \/ q \in requests \/ q.kind \in {"gone", "left"}
                                \/ q.token = storage \/ q.token = Len(tokens) + 1,
           Mounted', moves' \in 0..MaxMoves
    PROVE  StepOK
  BY RequestsLive DEF StepOK, Parts

LEMMA MovesTyped ==
    ASSUME Parts, Moves
    PROVE  moves' \in 0..MaxMoves
  BY DEF Parts, Moves, SessionAssumption

LEMMA GoesStep ==
    ASSUME Parts, NEW t \in Tab, NEW p \in Path, NEW next \in PortalRole \cup {ABSENT}, Goes(t, p, next),
           UNCHANGED <<storage, tokens, valid, dead>>, moves' \in 0..MaxMoves
    PROVE  StepOK
<1>0. TokensTyped /\ TabsTyped /\ requests \subseteq Waiting /\ Stored \in Account \cup {ABSENT} /\ tabs[t] \in TabState
  BY StoredTyped DEF Parts, TabsTyped, WellFormed
<1>1. TabsTyped' /\ \A u \in Tab : AppearsIn(u)
  <2>1. tabs' = [tabs EXCEPT ![t] = At(tabs[t], p, next, Stored)]
    BY <1>0, Zenon DEF Goes
  <2>2. WellFormed(At(tabs[t], p, next, Stored)) /\ ~ShownIn(At(tabs[t], p, next, Stored))
    BY <1>0, AtTyped
  <2> QED
    BY <1>0, <2>1, <2>2, TabChanges
<1>2. /\ requests' \subseteq Waiting
      /\ \A q \in requests' : q \in requests \/ q.kind \in {"gone", "left"} \/ q.token = storage
      /\ \A q \in requests' : q.kind = "nested" => (q \in requests /\ q.tab # t) \/ (q.tab = t /\ Dashboard(p))
  <2>1. requests' = Abandoned(t) \cup (IF Dashboard(p) THEN Me(t, "nested") ELSE {})
    BY DEF Goes
  <2> QED
    BY <1>0, <2>1, AbandonedTyped, RequestTyped
<1>3. Mounted'
  <2> DEFINE x == At(tabs[t], p, next, Stored)
  <2>1. tabs' = [tabs EXCEPT ![t] = x]
    BY <1>0, Zenon DEF Goes
  <2>2. x.path = p
    BY DEF At
  <2> HIDE DEF x
  <2> QED
    BY <1>0, <1>2, <2>1, <2>2, MountedMoves DEF Parts
<1> QED
  BY <1>0, <1>1, <1>2, <1>3, TokensStay, StepFromParts

LEMMA FollowsStep ==
    ASSUME Parts, NEW t \in Tab, Follows(t)
    PROVE  StepOK
<1>1. PICK p \in Path : Goes(t, p, ABSENT)
  BY DEF Follows
<1> QED
  BY <1>1, GoesStep, MovesTyped DEF Follows

LEMMA RedirectStep ==
    ASSUME Parts, NEW t \in Tab, NEW which \in {"root", "nested"}, Redirect(t, which)
    PROVE  StepOK
<1> DEFINE user == Provider(t, which).user
<1>1. WellFormed(tabs[t]) /\ moves \in 0..MaxMoves
  BY DEF Parts, TabsTyped
<1>2. Dashboard(tabs[t].path) /\ tabs[t].path \in PortalRole
  BY DEF Redirect, Misplaced, Dashboard
<1>3. Provider(t, which) \in Provided
  BY <1>1, <1>2 DEF WellFormed, TabState, Provider
<1>4. user = ABSENT \/ RoleOf[user] \in PortalRole
  BY <1>3 DEF Provided, SessionAssumption
<1>5. /\ IF user = ABSENT THEN Goes(t, "login", tabs[t].path) ELSE Goes(t, RoleOf[user], ABSENT)
      /\ UNCHANGED <<storage, tokens, valid, dead, moves>>
  BY DEF Redirect
<1> HIDE DEF user
<1>6. CASE user = ABSENT
  BY <1>1, <1>2, <1>5, <1>6, GoesStep DEF Path
<1>7. CASE user # ABSENT
  BY <1>1, <1>4, <1>5, <1>7, GoesStep DEF Path
<1> QED
  BY <1>6, <1>7

LEMMA LoadsStep ==
    ASSUME Parts, NEW t \in Tab, Loads(t)
    PROVE  StepOK
<1>0. TokensTyped /\ TabsTyped /\ requests \subseteq Waiting /\ Stored \in Account \cup {ABSENT}
  BY StoredTyped DEF Parts
<1>1. PICK p \in Path :
         /\ tabs' = [tabs EXCEPT ![t] = [path |-> p, next |-> ABSENT, root |-> Fresh(Stored), submitting |-> FALSE,
                                           nested |-> IF Dashboard(p) THEN Fresh(Stored) ELSE ABSENT]]
         /\ requests' = {q \in requests : q.tab # t} \cup Me(t, "root") \cup (IF Dashboard(p) THEN Me(t, "nested") ELSE {})
  BY DEF Loads
<1> DEFINE x == [path |-> p, next |-> ABSENT, root |-> Fresh(Stored), submitting |-> FALSE,
                 nested |-> IF Dashboard(p) THEN Fresh(Stored) ELSE ABSENT]
<1>2. WellFormed(x) /\ ~ShownIn(x) /\ x.path = p
  BY <1>0, FreshTyped DEF WellFormed, TabState, ShownIn, Belongs
<1> HIDE DEF x
<1>3. TabsTyped' /\ \A u \in Tab : AppearsIn(u)
  <2>1. tabs' = [tabs EXCEPT ![t] = x]
    BY <1>1 DEF x
  <2> QED
    BY <1>0, <1>2, <2>1, TabChanges
<1>4. /\ requests' \subseteq Waiting
      /\ \A q \in requests' : q \in requests \/ q.token = storage
      /\ \A q \in requests' : q.kind = "nested" => (q \in requests /\ q.tab # t) \/ (q.tab = t /\ Dashboard(p))
  BY <1>0, <1>1, RequestTyped
<1>5. Mounted'
  <2>1. tabs' = [tabs EXCEPT ![t] = x]
    BY <1>1 DEF x
  <2> QED
    BY <1>0, <1>2, <1>4, <2>1, MountedMoves DEF Parts
<1> QED
  BY <1>0, <1>3, <1>4, <1>5, TokensStay, StepFromParts, MovesTyped DEF Loads

LEMMA LogoutStep ==
    ASSUME Parts, NEW t \in Tab, Logout(t)
    PROVE  StepOK
<1>0. TokensTyped /\ TabsTyped /\ requests \subseteq Waiting /\ WellFormed(tabs[t]) /\ storage \in Token \cup {0}
  BY DEF Parts, TabsTyped, TokensTyped
<1>1. PICK tab \in TabState, next \in PortalRole \cup {ABSENT} : tabs' = [tabs EXCEPT ![t] = At(tab, "login", next, ABSENT)]
  <2>1. CASE LogoutOfDashboard(t)
    <3>1. tabs[t].nested \in Provided
      BY <1>0, <2>1 DEF LogoutOfDashboard, DashboardShown, WellFormed, TabState
    <3>2. [tabs[t] EXCEPT !.nested.user = ABSENT] \in TabState
      BY <1>0, <3>1 DEF WellFormed, TabState, Provided
    <3>3. PICK next \in {ABSENT, tabs[t].path} :
             tabs' = [tabs EXCEPT ![t] = At([tabs[t] EXCEPT !.nested.user = ABSENT], "login", next, ABSENT)]
      BY <2>1, Zenon DEF LogoutOfDashboard
    <3>4. next \in PortalRole \cup {ABSENT}
      BY <2>1, <3>3 DEF LogoutOfDashboard, DashboardShown, Dashboard
    <3> QED
      BY <3>2, <3>3, <3>4
  <2>2. CASE LogoutOfSite(t)
    <3>1. [tabs[t] EXCEPT !.root.user = ABSENT] \in TabState
      BY <1>0 DEF WellFormed, TabState, Provided
    <3>2. tabs' = [tabs EXCEPT ![t] = At([tabs[t] EXCEPT !.root.user = ABSENT], "login", ABSENT, ABSENT)]
      BY <2>2, Zenon DEF LogoutOfSite
    <3> QED
      BY <3>1, <3>2
  <2> QED
    BY <2>1, <2>2 DEF Logout
<1>2. WellFormed(At(tab, "login", next, ABSENT)) /\ ~ShownIn(At(tab, "login", next, ABSENT))
  BY AtTyped DEF Path
<1>3. TabsTyped' /\ \A u \in Tab : AppearsIn(u)
  BY <1>0, <1>1, <1>2, TabChanges
<1>4. TokensTyped' /\ Waiting' = Waiting /\ storage' \notin dead'
  BY <1>0, TokensCleared DEF Logout
<1>5. /\ requests' \subseteq Waiting
      /\ \A q \in requests' : q \in requests \/ q.kind \in {"gone", "left"}
      /\ \A q \in requests' : q.kind = "nested" => q \in requests /\ q.tab # t
  BY <1>0, AbandonedTyped DEF Logout
<1>6. Mounted'
  BY <1>0, <1>1, <1>5, MountedMoves DEF Parts
<1> QED
  BY <1>3, <1>4, <1>5, <1>6, StepFromParts, MovesTyped DEF Logout

LEMMA LoginStep ==
    ASSUME Parts, NEW t \in Tab, Login(t)
    PROVE  StepOK
<1>0. TokensTyped /\ TabsTyped /\ requests \subseteq Waiting /\ WellFormed(tabs[t])
  BY DEF Parts, TabsTyped
<1>1. TabsTyped' /\ \A u \in Tab : AppearsIn(u)
  <2>1. /\ WellFormed([tabs[t] EXCEPT !.submitting = TRUE])
        /\ ShownIn([tabs[t] EXCEPT !.submitting = TRUE]) => ShownIn(tabs[t])
    BY <1>0 DEF WellFormed, TabState, ShownIn
  <2>2. tabs' = [tabs EXCEPT ![t] = [tabs[t] EXCEPT !.submitting = TRUE]]
    BY <1>0 DEF Login, TabsTyped
  <2> QED
    BY <1>0, <2>1, <2>2, TabChanges
<1>2. /\ requests' \subseteq Waiting
      /\ \A q \in requests' : q \in requests \/ q.token = storage
  <2>1. PICK u \in Account : requests' = requests \cup {[SessionRequest(t, "login") EXCEPT !.account = u, !.next = tabs[t].next]}
    BY DEF Login
  <2>2. tabs[t].next \in PortalRole \cup {ABSENT}
    BY <1>0 DEF WellFormed, TabState
  <2>3. /\ [SessionRequest(t, "login") EXCEPT !.account = u, !.next = tabs[t].next] \in Waiting
        /\ [SessionRequest(t, "login") EXCEPT !.account = u, !.next = tabs[t].next].token = storage
    BY <1>0, <2>2 DEF SessionRequest, Waiting, TokensTyped
  <2> QED
    BY <1>0, <2>1, <2>3
<1>3. Mounted'
  <2>1. \A u \in Tab : tabs'[u].path = tabs[u].path
    BY <1>0 DEF Login, TabsTyped, TabState
  <2>2. \A q \in requests' : q.kind = "nested" => q \in requests
    <3>1. PICK u \in Account : requests' = requests \cup {[SessionRequest(t, "login") EXCEPT !.account = u, !.next = tabs[t].next]}
      BY DEF Login
    <3>2. [SessionRequest(t, "login") EXCEPT !.account = u, !.next = tabs[t].next].kind = "login"
      BY DEF SessionRequest
    <3> QED
      BY <3>1, <3>2
  <2> QED
    BY <1>0, <2>1, <2>2, MountedKept DEF Parts
<1> QED
  BY <1>0, <1>1, <1>2, <1>3, TokensStay, StepFromParts, MovesTyped DEF Login

LEMMA WorksStep ==
    ASSUME Parts, NEW t \in Tab, Works(t)
    PROVE  StepOK
<1>0. TokensTyped /\ TabsTyped /\ requests \subseteq Waiting
  BY DEF Parts
<1>1. requests' \subseteq Waiting /\ \A q \in requests' : q \in requests \/ q.token = storage
  BY <1>0, RequestTyped DEF Works
<1>2. Mounted'
  <2>1. \A q \in requests' : q.kind = "nested" => q \in requests
    BY DEF Works, SessionRequest
  <2> QED
    BY <1>0, <2>1, MountedKept DEF Works, Parts
<1> QED
  BY <1>0, <1>1, <1>2, TabsStay, TokensStay, StepFromParts, MovesTyped DEF Works

LEMMA WorkAnsweredStep ==
    ASSUME Parts, NEW t \in Tab, WorkAnswered(t)
    PROVE  StepOK
<1>0. TokensTyped /\ TabsTyped /\ requests \subseteq Waiting /\ moves \in 0..MaxMoves
  BY DEF Parts
<1>1. PICK q \in requests :
         /\ requests' = requests \ {q}
         /\ \/ UNCHANGED <<storage, dead>>
            \/ \E status \in {401, 500} : Throws(q, status)
         /\ UNCHANGED <<tabs, tokens, valid, moves>>
  BY DEF WorkAnswered
<1>2. TokensTyped' /\ Waiting' = Waiting /\ (storage \notin dead => storage' \notin dead')
  <2>1. {q.token} \in SUBSET (Token \cup {0})
    BY <1>0 DEF Waiting
  <2> QED
    BY <1>0, <1>1, <2>1, TokensStay, TokensCleared DEF Throws
<1>3. Mounted'
  BY <1>0, <1>1, MountedKept DEF Parts
<1> QED
  BY <1>0, <1>1, <1>2, <1>3, TabsStay, StepFromParts

LEMMA RefreshUserStep ==
    ASSUME Parts, NEW t \in Tab, NEW which \in {"root", "nested", "gone"}, RefreshUser(t, which)
    PROVE  StepOK
<1>0. TokensTyped /\ TabsTyped /\ requests \subseteq Waiting /\ moves \in 0..MaxMoves /\ WellFormed(tabs[t])
  BY DEF Parts, TabsTyped
<1>1. PICK q \in requests :
         /\ q.tab = t /\ q.kind = which
         /\ Confirmed(q) \/ NotConfirmed(q)
         /\ requests' \subseteq requests
         /\ UNCHANGED <<tokens, valid, moves>>
  BY DEF RefreshUser
<1>2. TokensTyped' /\ Waiting' = Waiting /\ (storage \notin dead => storage' \notin dead')
  <2>1. (IF q.token \in valid THEN {} ELSE {q.token}) \in SUBSET (Token \cup {0})
    BY <1>0 DEF Waiting
  <2> QED
    BY <1>0, <1>1, <2>1, TokensStay, TokensCleared DEF Confirmed, NotConfirmed
<1>3. ASSUME NEW account \in Account \cup {ABSENT}, Settle(t, which, account), which # "gone",
             \/ account = ABSENT
             \/ q.token \in valid /\ account = tokens[q.token]
      PROVE  TabsTyped' /\ (\A u \in Tab : AppearsIn(u)) /\ \A u \in Tab : tabs'[u].path = tabs[u].path
  <2> DEFINE p == [user |-> account, loading |-> FALSE]
  <2>1. p \in Provided /\ p # ABSENT /\ p.user = account
    <3>1. p \in [user : Account \cup {ABSENT}, loading : BOOLEAN]
      OBVIOUS
    <3> QED
      BY <3>1 DEF SessionAssumption, Provided
  <2> HIDE DEF p
  <2>2. CASE which = "root"
    <3>1. /\ WellFormed([tabs[t] EXCEPT !.root = p])
          /\ ShownIn([tabs[t] EXCEPT !.root = p]) => ShownIn(tabs[t])
          /\ [tabs[t] EXCEPT !.root = p].path = tabs[t].path
      BY <1>0, <2>1 DEF WellFormed, TabState, ShownIn
    <3>2. tabs' = [tabs EXCEPT ![t] = [tabs[t] EXCEPT !.root = p]]
      BY <1>0, <1>3, <2>2 DEF Settle, TabsTyped, p
    <3>3. \A u \in Tab : tabs'[u].path = tabs[u].path
      BY <1>0, <3>1, <3>2 DEF TabsTyped
    <3> QED
      BY <1>0, <3>1, <3>2, <3>3, TabChanges
  <2>3. CASE which = "nested"
    <3>0. Dashboard(tabs[t].path)
      BY <1>1, <2>3 DEF Parts, Mounted
    <3>1. tabs' = [tabs EXCEPT ![t] = [tabs[t] EXCEPT !.nested = p]]
      BY <1>0, <1>3, <2>3 DEF Settle, TabsTyped, p
    <3>2. /\ WellFormed([tabs[t] EXCEPT !.nested = p])
          /\ [tabs[t] EXCEPT !.nested = p].path = tabs[t].path
          /\ [tabs[t] EXCEPT !.nested = p].nested = p
      BY <1>0, <2>1, <3>0 DEF WellFormed, TabState
    <3>3. \A u \in Tab : tabs'[u] = IF u = t THEN [tabs[t] EXCEPT !.nested = p] ELSE tabs[u]
      BY <1>0, <3>1 DEF TabsTyped
    <3>4. tabs' \in [Tab -> TabState] /\ \A u \in Tab : WellFormed(tabs'[u])
      BY <1>0, <3>1, <3>2, <3>3 DEF TabsTyped, WellFormed
    <3>5. TabsTyped'
      BY <3>4 DEF TabsTyped, WellFormed, Dashboard, Path, TabState, Provided
    <3>6. ASSUME NEW u \in Tab PROVE AppearsIn(u)
      <4>1. CASE u # t
        BY <3>3, <4>1 DEF AppearsIn, DashboardShown, Dashboard, Belongs
      <4>2. CASE u = t
        <5> SUFFICES ASSUME DashboardShown(t)', ~DashboardShown(t)
                     PROVE  /\ q.tab = t /\ q.kind = "nested" /\ q.token \in valid
                            /\ RoleOf[tokens[q.token]] = tabs'[t].path
          BY <4>2 DEF AppearsIn
        <5>1. account # ABSENT /\ RoleOf[account] = tabs'[t].path
          BY <2>1, <3>2, <3>3 DEF DashboardShown, Belongs
        <5> QED
          BY <1>1, <1>3, <2>3, <5>1
      <4> QED
        BY <4>1, <4>2
    <3>7. \A u \in Tab : tabs'[u].path = tabs[u].path
      BY <3>2, <3>3
    <3> QED
      BY <3>5, <3>6, <3>7
  <2> QED
    BY <1>3, <2>2, <2>3
<1>4. TabsTyped' /\ (\A u \in Tab : AppearsIn(u)) /\ \A u \in Tab : tabs'[u].path = tabs[u].path
  <2>1. CASE which = "gone"
    <3>1. UNCHANGED tabs
      BY <1>1, <2>1 DEF Confirmed, NotConfirmed
    <3> QED
      BY <1>0, <3>1, TabsStay
  <2>2. CASE which # "gone" /\ Confirmed(q)
    <3>1. q.token \in valid /\ q.token \in 1..Len(tokens) /\ q.token # 0 /\ tokens[q.token] \in Account
      <4>1. q.token \in valid /\ q.token \in 1..Len(tokens)
        BY <1>0, <2>2 DEF Confirmed, TokensTyped, Token
      <4>2. tokens \in Seq(Account)
        BY <1>0 DEF TokensTyped
      <4> QED
        BY <4>1, <4>2
    <3>2. Settle(t, which, tokens[q.token])
      BY <1>1, <2>2, <3>1 DEF Confirmed, AccountOf
    <3> QED
      BY <1>3, <2>2, <3>1, <3>2
  <2>3. CASE which # "gone" /\ NotConfirmed(q)
    <3>1. Settle(t, which, ABSENT)
      BY <1>1, <2>3 DEF NotConfirmed
    <3> QED
      BY <1>3, <2>3, <3>1
  <2> QED
    BY <1>1, <2>1, <2>2, <2>3
<1>5. Mounted'
  BY <1>0, <1>1, <1>4, MountedKept DEF Parts
<1> QED
  BY <1>0, <1>1, <1>2, <1>4, <1>5, StepFromParts

LEMMA LoggedInStep ==
    ASSUME Parts, NEW q \in requests, q.kind \in {"login", "left"}, LoggedIn(q), UNCHANGED moves
    PROVE  StepOK
<1> DEFINE t == q.tab
           p == IF q.next # ABSENT THEN q.next ELSE RoleOf[q.account]
           tab == [tabs[t] EXCEPT !.root.user = q.account]
           n == [q EXCEPT !.kind = "nested", !.token = Len(tokens) + 1, !.account = ABSENT, !.next = ABSENT]
<1>0. /\ TokensTyped /\ TabsTyped /\ requests \subseteq Waiting /\ moves \in 0..MaxMoves
      /\ q \in Waiting /\ q.account \in Account /\ t \in Tab /\ WellFormed(tabs[t])
  BY DEF Parts, TabsTyped, Waiting
<1>1. p \in PortalRole
  BY <1>0 DEF Waiting, SessionAssumption
<1>2. TokensTyped' /\ Waiting \subseteq Waiting' /\ storage' \notin dead' /\ Len(tokens) + 1 \in Token'
  <2>1. /\ tokens' = Append(tokens, q.account) /\ valid' = valid \cup {Len(tokens) + 1}
        /\ storage' = Len(tokens) + 1 /\ UNCHANGED dead
    BY DEF LoggedIn
  <2> QED
    BY <1>0, <2>1, TokenIssued
<1>3. /\ WellFormed(tab) /\ (ShownIn(tab) => ShownIn(tabs[t])) /\ tab \in TabState /\ tab.path = tabs[t].path
  BY <1>0 DEF WellFormed, TabState, Provided, ShownIn
<1>4. CASE /\ p = tab.path
           /\ tabs' = [tabs EXCEPT ![t] = tab] /\ requests' = requests \ {q}
  <2> HIDE DEF tab
  <2>1. TabsTyped' /\ \A u \in Tab : AppearsIn(u)
    BY <1>0, <1>3, <1>4, TabChanges
  <2>2. \A u \in Tab : tabs'[u].path = tabs[u].path
    BY <1>0, <1>3, <1>4 DEF TabsTyped
  <2>3. Mounted'
    BY <1>0, <1>4, <2>2, MountedKept DEF Parts
  <2> QED
    BY <1>0, <1>2, <1>4, <2>1, <2>3, StepFromParts
<1>5. CASE /\ tabs' = [tabs EXCEPT ![t] = At(tab, p, ABSENT, q.account)]
           /\ requests' = (Abandoned(t) \ {[q EXCEPT !.kind = "left"]}) \cup {n}
  <2> DEFINE x == At(tab, p, ABSENT, q.account)
  <2> HIDE DEF tab
  <2>1. WellFormed(x) /\ ~ShownIn(x)
    BY <1>0, <1>1, <1>3, AtTyped DEF Path
  <2>2. x.path = p
    BY DEF At
  <2>3. n \in Waiting' /\ n.kind = "nested" /\ n.tab = t /\ n.token = Len(tokens) + 1
    BY <1>0, <1>2 DEF Waiting
  <2> HIDE DEF x, n
  <2>4. tabs' = [tabs EXCEPT ![t] = x]
    BY <1>5 DEF x
  <2>5. TabsTyped' /\ \A u \in Tab : AppearsIn(u)
    BY <1>0, <2>1, <2>4, TabChanges
  <2>6. /\ Abandoned(t) \subseteq Waiting
        /\ \A r \in Abandoned(t) : r \in requests \/ r.kind \in {"gone", "left"}
        /\ \A r \in Abandoned(t) : r.kind = "nested" => r.tab # t
    BY <1>0, AbandonedTyped
  <2>7. /\ requests' \subseteq Waiting'
        /\ \A r \in requests' : r \in requests \/ r.kind \in {"gone", "left"} \/ r.token = Len(tokens) + 1
        /\ \A r \in requests' : r.kind = "nested" => (r \in requests /\ r.tab # t) \/ (r.tab = t /\ Dashboard(p))
    BY <1>1, <1>2, <1>5, <2>3, <2>6 DEF Dashboard
  <2>8. Mounted'
    <3>1. /\ t \in Tab /\ tabs' = [tabs EXCEPT ![t] = x]
          /\ \A r \in requests' : r.kind = "nested" => (r \in requests /\ r.tab # t) \/ (r.tab = t /\ Dashboard(x.path))
      BY <1>0, <2>2, <2>4, <2>7
    <3> HIDE DEF t
    <3> QED
      BY <1>0, <3>1, MountedMoves DEF Parts
  <2> QED
    BY <1>0, <1>2, <2>5, <2>7, <2>8, StepFromParts
<1> QED
  BY <1>4, <1>5 DEF LoggedIn

LEMMA NotLoggedInStep ==
    ASSUME Parts, NEW q \in requests, NotLoggedIn(q), UNCHANGED moves
    PROVE  StepOK
<1> DEFINE t == q.tab
           x == [tabs[t] EXCEPT !.submitting = @ /\ q.kind = "left"]
<1>0. /\ TokensTyped /\ TabsTyped /\ requests \subseteq Waiting /\ moves \in 0..MaxMoves
      /\ t \in Tab /\ WellFormed(tabs[t])
  BY DEF Parts, TabsTyped, Waiting
<1>1. TokensTyped' /\ Waiting' = Waiting /\ (storage \notin dead => storage' \notin dead')
  <2>1. PICK status \in {401, 500} : Throws([q EXCEPT !.token = 0], status) /\ UNCHANGED <<tokens, valid>>
    BY DEF NotLoggedIn
  <2>2. q.token \in Token \cup {0} /\ [q EXCEPT !.token = 0].token = 0
    BY <1>0 DEF Waiting
  <2>3. Clear({0}) \/ UNCHANGED <<storage, dead>>
    BY <2>1, <2>2 DEF Throws
  <2>4. {0} \in SUBSET (Token \cup {0})
    OBVIOUS
  <2> QED
    BY <1>0, <2>1, <2>3, <2>4, TokensStay, TokensCleared
<1>2. /\ WellFormed(x) /\ (ShownIn(x) => ShownIn(tabs[t])) /\ x.path = tabs[t].path
  BY <1>0 DEF WellFormed, TabState, ShownIn
<1>3. tabs' = [tabs EXCEPT ![t] = x] /\ requests' = requests \ {q}
  BY <1>0 DEF NotLoggedIn, TabsTyped
<1> HIDE DEF x
<1>4. TabsTyped' /\ \A u \in Tab : AppearsIn(u)
  BY <1>0, <1>2, <1>3, TabChanges
<1>5. \A u \in Tab : tabs'[u].path = tabs[u].path
  BY <1>0, <1>2, <1>3 DEF TabsTyped
<1>6. Mounted'
  BY <1>0, <1>3, <1>5, MountedKept DEF Parts
<1> QED
  BY <1>0, <1>1, <1>3, <1>4, <1>6, StepFromParts

LEMMA EndsStep ==
    ASSUME Parts, Ends
    PROVE  StepOK
<1>0. TokensTyped /\ TabsTyped /\ requests \subseteq Waiting /\ moves \in 0..MaxMoves
  BY DEF Parts
<1>1. PICK k \in valid : valid' = valid \ {k} /\ UNCHANGED <<tabs, storage, requests, tokens, dead, moves>>
  BY DEF Ends
<1>2. TokensTyped' /\ Waiting' = Waiting
  BY <1>0, <1>1 DEF TokensTyped, Token, Waiting
<1>3. Mounted'
  BY <1>0, <1>1, MountedKept DEF Parts
<1> QED
  BY <1>0, <1>1, <1>2, <1>3, TabsStay, StepFromParts

LEMMA NextStep ==
    ASSUME Parts, [SessionNext]_sessionVars
    PROVE  StepOK
<1>1. CASE UNCHANGED sessionVars
  <2>0. TokensTyped /\ TabsTyped /\ requests \subseteq Waiting /\ moves \in 0..MaxMoves
    BY DEF Parts
  <2>1. Mounted'
    BY <1>1, <2>0, MountedKept DEF Parts, sessionVars
  <2> QED
    BY <1>1, <2>0, <2>1, TokensStay, TabsStay, StepFromParts DEF sessionVars
<1>2. ASSUME NEW t \in Tab, LoginAnswered(t) PROVE StepOK
  BY <1>2, LoggedInStep, NotLoggedInStep DEF LoginAnswered
<1>3. CASE SessionNext
  BY <1>2, <1>3, FollowsStep, LoadsStep, LogoutStep, LoginStep, WorksStep, WorkAnsweredStep, RefreshUserStep,
     RedirectStep, EndsStep DEF SessionNext
<1> QED
  BY <1>1, <1>3

-----------------------------------------------------------------------------
(* Theorems. *)

\* The stored token is not one that was given up or refused.
IInv == Parts /\ storage \notin dead

LEMMA InitIInv == SessionInit => IInv
<1> SUFFICES ASSUME SessionInit PROVE IInv
  OBVIOUS
<1>1. Opened \in TabState /\ WellFormed(Opened)
  BY DEF Opened, TabState, Provided, WellFormed, Path, Dashboard, SessionAssumption
<1>2. TabsTyped
  BY <1>1 DEF SessionInit, TabsTyped
<1>3. TokensTyped /\ requests \subseteq Waiting /\ Mounted /\ moves \in 0..MaxMoves
  BY DEF SessionInit, TokensTyped, Token, Mounted, SessionAssumption
<1> QED
  BY <1>2, <1>3 DEF SessionInit, IInv, Parts

LEMMA Inductive == IInv /\ [SessionNext]_sessionVars => IInv'
  BY NextStep DEF IInv, StepOK

LEMMA Invariance == SessionSpec => []IInv
  BY InitIInv, Inductive, PTL DEF SessionSpec

\* Tabs, requests and tokens stay well formed: a tab has the provider of a dashboard exactly when
\* it is at one, and every token a request carries was issued by the server.
THEOREM SessionTypeCorrect == SessionSpec => []SessionTypeOK
<1>1. IInv => SessionTypeOK
  BY TypeParts DEF IInv
<1> QED
  BY <1>1, Invariance, PTL

\* tokenStorage.clear and the 401 of request(): what was given up or refused is never sent again,
\* in any of the tabs, however late the answers come and whoever logs in meanwhile.
THEOREM DeadStayDead == SessionSpec => DeadTokensStayDead
<1>1. IInv /\ [SessionNext]_sessionVars => [\A q \in Sent : q.token \notin dead]_sessionVars
  BY NextStep DEF IInv, StepOK, SendsLiving
<1> QED
  BY <1>1, Invariance, PTL DEF SessionSpec, DeadTokensStayDead

\* AuthProvider and DashboardShell: a dashboard appears only with the server's word, given to the
\* provider of this dashboard, that its user has the role it is for.
THEOREM AppearsOnlyConfirmed == SessionSpec => AppearsConfirmed
<1> DEFINE A == \A t \in Tab : DashboardShown(t)' /\ ~DashboardShown(t) =>
                   \E q \in requests : /\ q.tab = t /\ q.kind = "nested" /\ q.token \in valid
                                       /\ RoleOf[tokens[q.token]] = tabs'[t].path
<1>1. IInv /\ [SessionNext]_sessionVars => [A]_sessionVars
  BY NextStep DEF IInv, StepOK, AppearsIn
<1> QED
  BY <1>1, Invariance, PTL DEF SessionSpec, AppearsConfirmed

=============================================================================
