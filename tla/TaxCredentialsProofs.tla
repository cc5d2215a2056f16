------------------------ MODULE TaxCredentialsProofs ------------------------
(***************************************************************************)
(* Proofs about the stored logins, for any number of users, systems,       *)
(* credentials, keys and concurrent calls.                                 *)
(***************************************************************************)
EXTENDS TaxCredentials, TLAPS

Known(d) == creds[d].life # "none"

Rows == [life : {"stored", "deleted"}, client : Client, system : System,
         username : Username, password : Box, revealedBy : Person \cup {NONE}]
Reads == [at : {"read", "admitted", "marked"}, by : Person, reveal : BOOLEAN,
          id : Credential, item : Item]
Lists == [at : {"listing"}, by : Accountant, client : Client]
Writes == [at : {"editing", "deleting"}, by : Client, id : Credential]

\* What a call in flight may count on, however old what it read is.
CallOK(c) ==
    LET k == calls[c] IN
    /\ k.at \in {"read", "admitted", "marked"} =>
          /\ Known(k.id)
          /\ k.item.client = creds[k.id].client
          /\ <<k.item.username, k.item.password.text>> \in held[k.id]
    /\ k.at \in {"admitted", "marked"} => MayKnow(k.by, k.item.client)
    /\ k.at = "marked" => creds[k.id].revealedBy # NONE
    /\ k.at = "listing" => MayKnow(k.by, k.client)
    /\ k.at \in {"editing", "deleting"} =>
          Known(k.id) /\ creds[k.id].client = k.by

RowOK(d) ==
    Known(d) =>
        /\ <<creds[d].username, creds[d].password.text>> \in held[d]
        /\ creds[d].revealedBy # NONE => MayKnow(creds[d].revealedBy, creds[d].client)
        /\ Stored(d) => systems[creds[d].system] \in Live

AnswerOK ==
    answer.to # NONE =>
        /\ Known(answer.id)
        /\ MayKnow(answer.to, creds[answer.id].client)
        /\ answer.text # NONE =>
              /\ creds[answer.id].revealedBy # NONE
              /\ <<answer.username, answer.text>> \in held[answer.id]

Apart ==
    \A d, e \in Credential : Stored(d) /\ Stored(e) /\ d # e =>
        creds[d].client # creds[e].client \/ creds[d].system # creds[e].system

Safe ==
    /\ team \subseteq worked
    /\ \A c \in Call : CallOK(c)
    /\ \A d \in Credential : RowOK(d)
    /\ AnswerOK
    /\ Apart

\* What the table, the history and the assignments never lose.
Kept(d) ==
    /\ held[d] \subseteq held'[d]
    /\ Known(d) => /\ Known(d)'
                   /\ creds'[d].client = creds[d].client
                   /\ creds'[d].system = creds[d].system
                   /\ creds[d].revealedBy # NONE => creds'[d].revealedBy # NONE
                   /\ Stored(d)' => Stored(d)

Grows == worked \subseteq worked' /\ \A d \in Credential : Kept(d)

-----------------------------------------------------------------------------
(* Types.                                                                  *)

LEMMA RowKinds ==
    ASSUME TypeOK, NEW d \in Credential
    PROVE  /\ Known(d) => creds[d] \in Rows
           /\ ~Known(d) => creds[d] = NoCredential
           /\ Stored(d) => Known(d)
  BY DEF TypeOK, Row, Rows, Known, Stored, NoCredential

LEMMA CallKinds ==
    ASSUME TypeOK, NEW c \in Call
    PROVE  /\ calls[c].at \in {"read", "admitted", "marked"} => calls[c] \in Reads
           /\ calls[c].at = "listing" => calls[c] \in Lists
           /\ calls[c].at \in {"editing", "deleting"} => calls[c] \in Writes
           /\ calls[c].at = "idle" => calls[c] = Idle
           /\ calls[c].at \in {"idle", "read", "admitted", "marked", "listing",
                               "editing", "deleting"}
  BY DEF TypeOK, CallState, Reads, Lists, Writes, Idle

LEMMA CallStateCases ==
    /\ Idle \in CallState
    /\ Reads \subseteq CallState /\ Lists \subseteq CallState /\ Writes \subseteq CallState
    /\ Rows \subseteq Row
  BY DEF CallState, Reads, Lists, Writes, Rows, Row

LEMMA ItemType ==
    ASSUME TypeOK, NEW d \in Credential, Known(d)
    PROVE  ItemOf(d) \in Item
  <1>1. creds[d] \in Rows
    BY RowKinds
  <1> QED
    BY <1>1 DEF ItemOf, Item, Rows

LEMMA SealedType ==
    ASSUME TypeOK, NEW p \in Password
    PROVE  Sealed(p) \in Box /\ Sealed(p).text = p
  BY DEF TypeOK, Sealed, Box

LEMMA NewPasswordType ==
    ASSUME TypeOK, NEW d \in Credential, Known(d), NEW p \in Password \cup {NONE}
    PROVE  NewPassword(d, p) \in Box
  <1>1. creds[d].password \in Box
    BY RowKinds DEF Rows
  <1>2. CASE p = NONE
    BY <1>1, <1>2 DEF NewPassword
  <1>3. CASE p # NONE
    BY <1>3, SealedType DEF NewPassword
  <1> QED
    BY <1>2, <1>3

LEMMA InitType == Init => TypeOK
  BY DEF Init, TypeOK, CallState, Idle, Row, NoCredential, Answer, NoAnswer, Live

LEMMA TypeSystems ==
    ASSUME TypeOK, NEW s \in System, SystemNext(s)
    PROVE  TypeOK'
  <1>1. ASSUME NEW st \in Live, CreateAdminSystem(s, st) PROVE TypeOK'
    BY <1>1 DEF TypeOK, CreateAdminSystem, Live
  <1>2. ASSUME NEW st \in Live, UpdateAdminSystem(s, st) PROVE TypeOK'
    BY <1>2 DEF TypeOK, UpdateAdminSystem, Live
  <1>3. CASE DeleteAdminSystem(s)
    <2>1. \A d \in Credential : creds'[d] \in Row
      <3> SUFFICES ASSUME NEW d \in Credential PROVE creds'[d] \in Row
        OBVIOUS
      <3>1. CASE Stored(d)
        <4>1. creds[d] \in Rows
          BY <3>1, RowKinds
        <4>2. [creds[d] EXCEPT !.life = "deleted"] \in Rows
          BY <4>1 DEF Rows
        <4> QED
          BY <1>3, <4>1, <4>2, CallStateCases DEF DeleteAdminSystem, TypeOK
      <3>2. CASE ~Stored(d)
        BY <1>3, <3>2 DEF DeleteAdminSystem, TypeOK
      <3> QED
        BY <3>1, <3>2
    <2>2. creds' \in [Credential -> Row]
      BY <1>3, <2>1 DEF DeleteAdminSystem
    <2> QED
      BY <1>3, <2>2 DEF TypeOK, DeleteAdminSystem, Live
  <1> QED
    BY <1>1, <1>2, <1>3 DEF SystemNext

LEMMA TypeTeam ==
    ASSUME TypeOK, TeamNext
    PROVE  TypeOK'
  BY DEF TypeOK, TeamNext, Assign, Unassign

LEMMA TypeRow ==
    ASSUME TypeOK, NEW d \in Credential, RowNext(d)
    PROVE  TypeOK'
  <1>1. ASSUME NEW cl \in Client, NEW s \in System, NEW u \in Username,
               NEW p \in Password, CreateClientCredential(d, cl, s, u, p)
        PROVE  TypeOK'
    <2> DEFINE row == [life |-> "stored", client |-> cl, system |-> s,
                       username |-> u, password |-> Sealed(p), revealedBy |-> NONE]
    <2>1. row \in Row
      BY SealedType, CallStateCases DEF Rows
    <2>2. creds' = [creds EXCEPT ![d] = row]
      BY <1>1 DEF CreateClientCredential
    <2>3. creds' \in [Credential -> Row]
      BY <2>1, <2>2 DEF TypeOK
    <2>4. held' \in [Credential -> SUBSET (Username \X Password)]
      BY <1>1 DEF CreateClientCredential, TypeOK
    <2> QED
      BY <1>1, <2>3, <2>4 DEF TypeOK, CreateClientCredential
  <1>2. CASE DeleteAdminCredential(d)
    <2>1. creds[d] \in Rows
      BY <1>2, RowKinds DEF DeleteAdminCredential
    <2>2. [creds[d] EXCEPT !.life = "deleted"] \in Row
      BY <2>1, CallStateCases DEF Rows
    <2> QED
      BY <1>2, <2>2 DEF TypeOK, DeleteAdminCredential
  <1> QED
    BY <1>1, <1>2 DEF RowNext

LEMMA TypeCall ==
    ASSUME TypeOK, NEW c \in Call, NEW k \in CallState, calls' = [calls EXCEPT ![c] = k]
    PROVE  calls' \in [Call -> CallState]
  BY DEF TypeOK

\* A call goes on with what it holds.
LEMMA TypeGoTo ==
    ASSUME TypeOK, NEW c \in Call, NEW at \in {"read", "admitted", "marked"},
           calls[c].at \in {"read", "admitted", "marked"}, GoTo(c, at)
    PROVE  /\ calls' \in [Call -> CallState]
           /\ calls' = [calls EXCEPT ![c] = calls'[c]]
           /\ calls'[c] \in Reads
           /\ calls'[c] = [calls[c] EXCEPT !.at = at]
  <1>1. calls[c] \in Reads
    BY CallKinds
  <1>2. [calls[c] EXCEPT !.at = at] \in Reads
    BY <1>1 DEF Reads
  <1>3. calls' = [calls EXCEPT ![c] = [calls[c] EXCEPT !.at = at]]
    BY DEF GoTo
  <1> QED
    BY <1>2, <1>3, CallStateCases DEF TypeOK

LEMMA TypeFinish ==
    ASSUME TypeOK, NEW c \in Call, Finish(c)
    PROVE  calls' \in [Call -> CallState] /\ calls'[c] = Idle
  BY CallStateCases DEF TypeOK, Finish

LEMMA TypeWrite ==
    ASSUME TypeOK, NEW c \in Call, WriteNext(c)
    PROVE  TypeOK'
  <1>1. ASSUME NEW cl \in Client, NEW d \in Credential,
               NEW at \in {"editing", "deleting"}, StartWrite(c, cl, d, at)
        PROVE  TypeOK'
    <2>1. [at |-> at, by |-> cl, id |-> d] \in CallState
      BY CallStateCases DEF Writes
    <2> QED
      BY <1>1, <2>1 DEF TypeOK, StartWrite
  <1>2. ASSUME NEW u \in Username, NEW p \in Password \cup {NONE},
               UpdateClientCredential(c, u, p)
        PROVE  TypeOK'
    <2> DEFINE d == calls[c].id
    <2>1. d \in Credential
      BY <1>2, CallKinds DEF UpdateClientCredential, Writes
    <2>2. creds[d] \in Rows /\ Known(d)
      BY <1>2, <2>1, RowKinds DEF UpdateClientCredential
    <2>3. PICK b \in Box : b = NewPassword(d, p)
      BY <2>1, <2>2, NewPasswordType
    <2>4. [creds[d] EXCEPT !.life = "stored", !.username = u, !.password = b] \in Row
      BY <2>2, CallStateCases DEF Rows
    <2>5. creds' \in [Credential -> Row]
      BY <1>2, <2>1, <2>3, <2>4 DEF UpdateClientCredential, Written, TypeOK
    <2>6. b.text \in Password
      BY DEF Box
    <2>7. held' \in [Credential -> SUBSET (Username \X Password)]
      BY <1>2, <2>1, <2>3, <2>6 DEF UpdateClientCredential, Written, TypeOK
    <2> QED
      BY <1>2, <2>5, <2>7, TypeFinish DEF TypeOK, UpdateClientCredential
  <1>3. CASE DeleteClientCredential(c)
    <2>1. calls[c].id \in Credential
      BY <1>3, CallKinds DEF DeleteClientCredential, Writes
    <2>2. creds[calls[c].id] \in Rows
      BY <1>3, <2>1, RowKinds DEF DeleteClientCredential
    <2>3. [creds[calls[c].id] EXCEPT !.life = "deleted"] \in Row
      BY <2>2, CallStateCases DEF Rows
    <2> QED
      BY <1>3, <2>1, <2>3, TypeFinish DEF TypeOK, DeleteClientCredential
  <1> QED
    BY <1>1, <1>2, <1>3 DEF WriteNext

LEMMA TypeRead ==
    ASSUME TypeOK, NEW c \in Call, ReadNext(c)
    PROVE  TypeOK'
  <1>1. ASSUME NEW p \in Person, NEW d \in Credential, NEW reveal \in BOOLEAN,
               FindCredentialByID(c, p, d, reveal)
        PROVE  TypeOK'
    <2> DEFINE k == [at |-> IF p \in Accountant THEN "read" ELSE "admitted", by |-> p,
                     reveal |-> reveal, id |-> d, item |-> ItemOf(d)]
    <2>1. ItemOf(d) \in Item
      BY <1>1, RowKinds, ItemType DEF FindCredentialByID
    <2>2. k \in CallState
      BY <2>1, CallStateCases DEF Reads
    <2> QED
      BY <1>1, <2>2 DEF TypeOK, FindCredentialByID
  <1>2. CASE Admit(c)
    BY <1>2, TypeGoTo DEF TypeOK, Admit
  <1>3. CASE ShowDetail(c)
    <2>1. calls[c] \in Reads
      BY <1>3, CallKinds DEF ShowDetail
    <2>2. answer' \in Answer
      BY <1>3, <2>1 DEF ShowDetail, Show, Answer, Reads
    <2> QED
      BY <1>3, <2>2, TypeFinish DEF TypeOK, ShowDetail
  <1>4. CASE MarkCredentialRevealed(c)
    <2>1. calls[c] \in Reads
      BY <1>4, CallKinds DEF MarkCredentialRevealed
    <2>2. calls[c].id \in Credential /\ calls[c].by \in Person
      BY <2>1 DEF Reads
    <2>3. creds[calls[c].id] \in Rows
      BY <1>4, <2>2, RowKinds DEF MarkCredentialRevealed
    <2>4. [creds[calls[c].id] EXCEPT !.revealedBy = calls[c].by] \in Row
      BY <2>2, <2>3, CallStateCases DEF Rows
    <2>5. creds' \in [Credential -> Row]
      BY <1>4, <2>2, <2>4 DEF MarkCredentialRevealed, Recorded, TypeOK
    <2> QED
      BY <1>4, <2>5, TypeGoTo DEF TypeOK, MarkCredentialRevealed
  <1>5. CASE AnswerReveal(c)
    <2>1. calls[c] \in Reads
      BY <1>5, CallKinds DEF AnswerReveal
    <2>2. /\ calls[c].id \in Credential /\ calls[c].by \in Person
          /\ calls[c].item.username \in Username
          /\ calls[c].item.password.text \in Password
      BY <2>1 DEF Reads, Item, Box
    <2>3. answer' \in Answer
      BY <1>5, <2>2 DEF AnswerReveal, Show, Answer
    <2> QED
      BY <1>5, <2>3, TypeFinish DEF TypeOK, AnswerReveal
  <1>6. ASSUME NEW u \in Accountant, NEW cl \in Client, StartList(c, u, cl)
        PROVE  TypeOK'
    <2>1. [at |-> "listing", by |-> u, client |-> cl] \in CallState
      BY CallStateCases DEF Lists
    <2> QED
      BY <1>6, <2>1 DEF TypeOK, StartList
  <1>7. ASSUME NEW d \in Credential, ShowListed(c, d) PROVE TypeOK'
    <2>1. calls[c].by \in Person
      BY <1>7, CallKinds DEF ShowListed, Lists, Person
    <2>2. answer' \in Answer
      BY <1>7, <2>1 DEF ShowListed, Show, Answer
    <2> QED
      BY <1>7, <2>2 DEF TypeOK, ShowListed
  <1>8. CASE Return(c)
    BY <1>8, TypeFinish DEF TypeOK, Return
  <1> QED
    BY <1>1, <1>2, <1>3, <1>4, <1>5, <1>6, <1>7, <1>8 DEF ReadNext

LEMMA TypeStep == TypeOK /\ [Next]_vars => TypeOK'
  <1> SUFFICES ASSUME TypeOK, [Next]_vars PROVE TypeOK'
    OBVIOUS
  <1>1. ASSUME NEW k \in Key, Restart(k) PROVE TypeOK'
    BY <1>1, CallStateCases DEF TypeOK, Restart
  <1>2. CASE UNCHANGED vars
    BY <1>2 DEF TypeOK, vars
  <1> QED
    BY <1>1, <1>2, TypeSystems, TypeTeam, TypeRow, TypeWrite, TypeRead DEF Next

\* The variables keep their types: no row is stored with a blank password, and
\* every call holds what its next statement needs.
THEOREM TypeCorrect == Spec => []TypeOK
  BY InitType, TypeStep, PTL DEF Spec

-----------------------------------------------------------------------------
(* What grows.                                                             *)

\* A statement that writes one row keeps whose it is.
LEMMA OneRowGrows ==
    ASSUME TypeOK, NEW d \in Credential, NEW row \in Rows,
           creds' = [creds EXCEPT ![d] = row],
           Known(d) => /\ row.client = creds[d].client
                       /\ row.system = creds[d].system
                       /\ creds[d].revealedBy # NONE => row.revealedBy # NONE
                       /\ row.life = "stored" => Stored(d),
           \A e \in Credential : held[e] \subseteq held'[e],
           worked \subseteq worked'
    PROVE  Grows
  <1>1. \A e \in Credential : creds'[e] = IF e = d THEN row ELSE creds[e]
    BY DEF TypeOK
  <1>2. row.life # "none"
    BY DEF Rows
  <1> QED
    BY <1>1, <1>2 DEF Grows, Kept, Known, Stored

LEMMA NoRowGrows ==
    ASSUME creds' = creds, held' = held, worked \subseteq worked'
    PROVE  Grows
  BY DEF Grows, Kept, Known, Stored

LEMMA SystemGrows ==
    ASSUME TypeOK, NEW s \in System, SystemNext(s)
    PROVE  Grows
  <1>1. CASE DeleteAdminSystem(s)
    <2> SUFFICES ASSUME NEW d \in Credential PROVE Kept(d)
      BY <1>1 DEF Grows, DeleteAdminSystem
    <2>1. CASE Stored(d)
      <3>1. creds[d] \in Rows
        BY <2>1, RowKinds
      <3>2. creds'[d] \in {creds[d], [creds[d] EXCEPT !.life = "deleted"]}
        BY <1>1 DEF DeleteAdminSystem
      <3> QED
        BY <1>1, <2>1, <3>1, <3>2 DEF Kept, Known, Stored, Rows, DeleteAdminSystem
    <2>2. CASE ~Stored(d)
      BY <1>1, <2>2 DEF Kept, Known, Stored, DeleteAdminSystem
    <2> QED
      BY <2>1, <2>2
  <1> QED
    BY <1>1, NoRowGrows DEF SystemNext, CreateAdminSystem, UpdateAdminSystem

LEMMA RowGrows ==
    ASSUME TypeOK, NEW d \in Credential, RowNext(d)
    PROVE  Grows
  <1>1. ASSUME NEW cl \in Client, NEW s \in System, NEW u \in Username,
               NEW p \in Password, CreateClientCredential(d, cl, s, u, p)
        PROVE  Grows
    <2>1. PICK row \in Rows : row =
              [life |-> "stored", client |-> cl, system |-> s, username |-> u,
               password |-> Sealed(p), revealedBy |-> NONE]
      BY SealedType DEF Rows
    <2>2. ~Known(d)
      BY <1>1 DEF CreateClientCredential, Known, NoCredential
    <2>3. \A e \in Credential : held[e] \subseteq held'[e]
      BY <1>1 DEF CreateClientCredential, TypeOK
    <2>4. creds' = [creds EXCEPT ![d] = row] /\ worked' = worked
      BY <1>1, <2>1 DEF CreateClientCredential
    <2> QED
      BY <2>2, <2>3, <2>4, OneRowGrows
  <1>2. CASE DeleteAdminCredential(d)
    <2>1. creds[d] \in Rows
      BY <1>2, RowKinds DEF DeleteAdminCredential
    <2>2. PICK row \in Rows : row = [creds[d] EXCEPT !.life = "deleted"]
      BY <2>1 DEF Rows
    <2>3. /\ creds' = [creds EXCEPT ![d] = row]
          /\ \A e \in Credential : held[e] \subseteq held'[e]
          /\ worked' = worked
      BY <1>2, <2>2 DEF DeleteAdminCredential
    <2>4. Known(d) => /\ row.client = creds[d].client
                      /\ row.system = creds[d].system
                      /\ creds[d].revealedBy # NONE => row.revealedBy # NONE
                      /\ row.life = "stored" => Stored(d)
      BY <2>1, <2>2 DEF Rows
    <2> QED
      BY <2>3, <2>4, OneRowGrows
  <1> QED
    BY <1>1, <1>2 DEF RowNext

\* The row after an edit.
LEMMA EditedRow ==
    ASSUME TypeOK, NEW c \in Call, NEW u \in Username, NEW p \in Password \cup {NONE},
           UpdateClientCredential(c, u, p)
    PROVE  \E d \in Credential : \E row \in Rows :
              /\ d = calls[c].id
              /\ Stored(d)
              /\ creds' = [creds EXCEPT ![d] = row]
              /\ held' = [held EXCEPT ![d] = @ \cup {<<row.username, row.password.text>>}]
              /\ row.client = creds[d].client
              /\ row.system = creds[d].system
              /\ row.revealedBy = creds[d].revealedBy
              /\ row.life = "stored"
  <1>1. PICK d \in Credential : d = calls[c].id
    BY CallKinds DEF UpdateClientCredential, Writes
  <1>2. creds[d] \in Rows /\ Stored(d) /\ Known(d)
    BY <1>1, RowKinds DEF UpdateClientCredential
  <1>3. PICK b \in Box : b = NewPassword(d, p)
    BY <1>2, NewPasswordType
  <1>4. PICK row \in Rows :
           row = [creds[d] EXCEPT !.life = "stored", !.username = u, !.password = b]
    BY <1>2 DEF Rows
  <1>5. /\ row.username = u /\ row.password = b /\ row.life = "stored"
        /\ row.client = creds[d].client /\ row.system = creds[d].system
        /\ row.revealedBy = creds[d].revealedBy
    BY <1>2, <1>4 DEF Rows
  <1>6. /\ creds' = [creds EXCEPT ![d] = row]
        /\ held' = [held EXCEPT ![d] = @ \cup {<<u, b.text>>}]
    BY <1>1, <1>3, <1>4 DEF UpdateClientCredential, Written
  <1> QED
    BY <1>1, <1>2, <1>5, <1>6

LEMMA WriteGrows ==
    ASSUME TypeOK, NEW c \in Call, WriteNext(c)
    PROVE  Grows
  <1>1. ASSUME NEW cl \in Client, NEW d \in Credential,
               NEW at \in {"editing", "deleting"}, StartWrite(c, cl, d, at)
        PROVE  Grows
    BY <1>1, NoRowGrows DEF StartWrite
  <1>2. ASSUME NEW u \in Username, NEW p \in Password \cup {NONE},
               UpdateClientCredential(c, u, p)
        PROVE  Grows
    <2>1. PICK d \in Credential, row \in Rows :
              /\ Stored(d)
              /\ creds' = [creds EXCEPT ![d] = row]
              /\ held' = [held EXCEPT ![d] = @ \cup {<<row.username, row.password.text>>}]
              /\ row.client = creds[d].client
              /\ row.system = creds[d].system
              /\ row.revealedBy = creds[d].revealedBy
      BY <1>2, EditedRow
    <2>2. \A e \in Credential : held[e] \subseteq held'[e]
      BY <2>1 DEF TypeOK
    <2>3. worked' = worked
      BY <1>2 DEF UpdateClientCredential
    <2> QED
      BY <2>1, <2>2, <2>3, OneRowGrows
  <1>3. CASE DeleteClientCredential(c)
    <2>1. PICK d \in Credential : d = calls[c].id
      BY <1>3, CallKinds DEF DeleteClientCredential, Writes
    <2>2. creds[d] \in Rows
      BY <1>3, <2>1, RowKinds DEF DeleteClientCredential
    <2>3. PICK row \in Rows : row = [creds[d] EXCEPT !.life = "deleted"]
      BY <2>2 DEF Rows
    <2>4. /\ creds' = [creds EXCEPT ![d] = row]
          /\ \A e \in Credential : held[e] \subseteq held'[e]
          /\ worked' = worked
      BY <1>3, <2>1, <2>3 DEF DeleteClientCredential
    <2>5. Known(d) => /\ row.client = creds[d].client
                      /\ row.system = creds[d].system
                      /\ creds[d].revealedBy # NONE => row.revealedBy # NONE
                      /\ row.life = "stored" => Stored(d)
      BY <2>2, <2>3 DEF Rows
    <2> QED
      BY <2>4, <2>5, OneRowGrows
  <1> QED
    BY <1>1, <1>2, <1>3 DEF WriteNext

\* The row after a reveal was recorded.
LEMMA RecordedRow ==
    ASSUME TypeOK, NEW c \in Call, MarkCredentialRevealed(c)
    PROVE  \E d \in Credential : \E row \in Rows :
              /\ d = calls[c].id
              /\ Stored(d)
              /\ creds' = [creds EXCEPT ![d] = row]
              /\ row.client = creds[d].client
              /\ row.system = creds[d].system
              /\ row.username = creds[d].username
              /\ row.password = creds[d].password
              /\ row.revealedBy = calls[c].by
              /\ row.revealedBy # NONE
              /\ row.life = "stored"
  <1>1. calls[c] \in Reads
    BY CallKinds DEF MarkCredentialRevealed
  <1>2. PICK d \in Credential, p \in Person : d = calls[c].id /\ p = calls[c].by
    BY <1>1 DEF Reads
  <1>3. creds[d] \in Rows /\ Stored(d)
    BY <1>2, RowKinds DEF MarkCredentialRevealed
  <1>4. PICK row \in Rows : row = [creds[d] EXCEPT !.revealedBy = p]
    BY <1>3 DEF Rows
  <1>5. /\ row.client = creds[d].client /\ row.system = creds[d].system
        /\ row.username = creds[d].username /\ row.password = creds[d].password
        /\ row.revealedBy = p /\ row.life = "stored"
    BY <1>3, <1>4 DEF Rows, Stored
  <1>6. creds' = [creds EXCEPT ![d] = row]
    BY <1>2, <1>4 DEF MarkCredentialRevealed, Recorded
  <1>7. p # NONE
    BY CredentialNone
  <1> QED
    BY <1>2, <1>3, <1>5, <1>6, <1>7

LEMMA ReadGrows ==
    ASSUME TypeOK, NEW c \in Call, ReadNext(c)
    PROVE  Grows
  <1>1. CASE MarkCredentialRevealed(c)
    <2>1. PICK d \in Credential, row \in Rows :
              /\ Stored(d)
              /\ creds' = [creds EXCEPT ![d] = row]
              /\ row.client = creds[d].client
              /\ row.system = creds[d].system
              /\ row.revealedBy # NONE
      BY <1>1, RecordedRow
    <2> QED
      BY <1>1, <2>1, OneRowGrows DEF MarkCredentialRevealed
  <1> QED
    BY <1>1, NoRowGrows DEF ReadNext, FindCredentialByID, Admit, ShowDetail,
       AnswerReveal, StartList, ShowListed, Return

LEMMA StepGrows == TypeOK /\ [Next]_vars => Grows
  <1> SUFFICES ASSUME TypeOK, [Next]_vars PROVE Grows
    OBVIOUS
  <1>1. CASE TeamNext
    BY <1>1, NoRowGrows DEF TeamNext, Assign, Unassign
  <1>2. ASSUME NEW k \in Key, Restart(k) PROVE Grows
    BY <1>2, NoRowGrows DEF Restart
  <1>3. CASE UNCHANGED vars
    BY <1>3, NoRowGrows DEF vars
  <1> QED
    BY <1>1, <1>2, <1>3, SystemGrows, RowGrows, WriteGrows, ReadGrows DEF Next

-----------------------------------------------------------------------------
(* What stays true of what a step leaves alone.                            *)

LEMMA CallTypes ==
    ASSUME TypeOK, NEW c \in Call
    PROVE  /\ calls[c].at \in {"read", "admitted", "marked"} =>
                 /\ calls[c].id \in Credential
                 /\ calls[c].by \in Person
                 /\ calls[c].item \in Item
           /\ calls[c].at \in {"editing", "deleting"} =>
                 calls[c].id \in Credential /\ calls[c].by \in Client
           /\ calls[c].at = "listing" => calls[c].by \in Accountant
  BY CallKinds DEF Reads, Writes, Lists

LEMMA CallStays ==
    ASSUME TypeOK, Grows, NEW c \in Call, CallOK(c), calls'[c] = calls[c]
    PROVE  CallOK(c)'
  <1>1. CASE calls[c].at \in {"read", "admitted", "marked"}
    <2>1. PICK d \in Credential : d = calls[c].id
      BY <1>1, CallTypes
    <2>2. Kept(d)
      BY DEF Grows
    <2> QED
      BY <1>1, <2>1, <2>2 DEF CallOK, Grows, Kept, MayKnow, Known
  <1>2. CASE calls[c].at \in {"editing", "deleting"}
    <2>1. PICK d \in Credential : d = calls[c].id
      BY <1>2, CallTypes
    <2>2. Kept(d)
      BY DEF Grows
    <2> QED
      BY <1>2, <2>1, <2>2 DEF CallOK, Kept, Known
  <1>3. CASE calls[c].at = "listing"
    BY <1>3 DEF CallOK, Grows, MayKnow
  <1>4. CASE calls[c].at = "idle"
    BY <1>4 DEF CallOK
  <1> QED
    BY <1>1, <1>2, <1>3, <1>4, CallKinds

LEMMA IdleOK ==
    ASSUME NEW c \in Call, calls'[c] = Idle
    PROVE  CallOK(c)'
  BY DEF CallOK, Idle

\* Only the call c moves.
LEMMA OthersStay ==
    ASSUME TypeOK, Grows, Safe, NEW c \in Call,
           \A b \in Call : b # c => calls'[b] = calls[b],
           CallOK(c)'
    PROVE  \A b \in Call : CallOK(b)'
  BY CallStays DEF Safe

LEMMA FinishedOK ==
    ASSUME TypeOK, Grows, Safe, NEW c \in Call, Finish(c)
    PROVE  \A b \in Call : CallOK(b)'
  <1>1. calls'[c] = Idle /\ \A b \in Call : b # c => calls'[b] = calls[b]
    BY DEF Finish, TypeOK
  <1> QED
    BY <1>1, IdleOK, OthersStay

LEMMA AnswerStays ==
    ASSUME TypeOK, Grows, AnswerOK, answer' = answer
    PROVE  AnswerOK'
  <1>1. CASE answer.to = NONE
    BY <1>1 DEF AnswerOK
  <1>2. CASE answer.to # NONE
    <2>1. PICK d \in Credential : d = answer.id
      BY <1>2 DEF TypeOK, Answer, NoAnswer
    <2>2. Kept(d)
      BY DEF Grows
    <2> QED
      BY <1>2, <2>1, <2>2 DEF AnswerOK, Grows, Kept, MayKnow, Known
  <1> QED
    BY <1>1, <1>2

LEMMA RowStays ==
    ASSUME TypeOK, Grows, NEW d \in Credential, RowOK(d), creds'[d] = creds[d],
           \A s \in System : systems[s] \in Live => systems'[s] \in Live
    PROVE  RowOK(d)'
  <1>1. CASE Known(d)
    <2>1. PICK s \in System : s = creds[d].system
      BY <1>1, RowKinds DEF Rows
    <2> QED
      BY <1>1, <2>1 DEF RowOK, Grows, Kept, MayKnow, Known, Stored
  <1>2. CASE ~Known(d)
    BY <1>2 DEF RowOK, Known
  <1> QED
    BY <1>1, <1>2

LEMMA ApartStays ==
    ASSUME TypeOK, Grows, Apart, \A d \in Credential : Stored(d)' => Stored(d)
    PROVE  Apart'
  <1> SUFFICES ASSUME NEW d \in Credential, NEW e \in Credential,
                      Stored(d)', Stored(e)', d # e
               PROVE  creds'[d].client # creds'[e].client
                      \/ creds'[d].system # creds'[e].system
    BY DEF Apart
  <1>1. Stored(d) /\ Stored(e) /\ Known(d) /\ Known(e)
    BY RowKinds
  <1>2. /\ creds'[d].client = creds[d].client /\ creds'[d].system = creds[d].system
        /\ creds'[e].client = creds[e].client /\ creds'[e].system = creds[e].system
    BY <1>1 DEF Grows, Kept
  <1> QED
    BY <1>1, <1>2 DEF Apart

\* A step that leaves the table alone.
LEMMA NoRowSafe ==
    ASSUME TypeOK, Grows, Safe, creds' = creds, held' = held,
           \A s \in System : systems[s] \in Live => systems'[s] \in Live,
           team' \subseteq worked', AnswerOK', \A c \in Call : CallOK(c)'
    PROVE  Safe'
  <1>1. \A d \in Credential : RowOK(d)'
    BY RowStays DEF Safe
  <1>2. Apart'
    BY ApartStays DEF Safe, Stored
  <1> QED
    BY <1>1, <1>2 DEF Safe

\* A step that writes one row and answers nobody.
LEMMA OneRowSafe ==
    ASSUME TypeOK, Grows, Safe, NEW d \in Credential, NEW row,
           creds' = [creds EXCEPT ![d] = row], RowOK(d)', Apart',
           UNCHANGED <<systems, team, worked, answer>>,
           \A c \in Call : CallOK(c)'
    PROVE  Safe'
  <1>1. \A e \in Credential : e # d => creds'[e] = creds[e]
    BY DEF TypeOK
  <1>2. \A e \in Credential : RowOK(e)'
    BY <1>1, RowStays DEF Safe
  <1>3. AnswerOK'
    BY AnswerStays DEF Safe
  <1> QED
    BY <1>2, <1>3 DEF Safe

LEMMA CallsStay ==
    ASSUME TypeOK, Grows, Safe, calls' = calls
    PROVE  \A c \in Call : CallOK(c)'
  BY CallStays DEF Safe

-----------------------------------------------------------------------------
(* Safe is inductive.                                                      *)

LEMMA InitSafe == Init => Safe
  BY DEF Init, Safe, CallOK, RowOK, AnswerOK, Apart, Idle, NoAnswer, NoCredential,
         Known, Stored

LEMMA SafeSystems ==
    ASSUME TypeOK, Grows, Safe, NEW s \in System, SystemNext(s)
    PROVE  Safe'
  <1>1. ASSUME NEW st \in Live, CreateAdminSystem(s, st) \/ UpdateAdminSystem(s, st)
        PROVE  Safe'
    <2>1. /\ systems' = [systems EXCEPT ![s] = st]
          /\ UNCHANGED <<creds, team, calls, answer, worked, held>>
      BY <1>1 DEF CreateAdminSystem, UpdateAdminSystem
    <2>2. \A t \in System : systems[t] \in Live => systems'[t] \in Live
      BY <2>1 DEF TypeOK
    <2>3. AnswerOK' /\ \A c \in Call : CallOK(c)'
      BY <2>1, AnswerStays, CallsStay DEF Safe
    <2> QED
      BY <2>1, <2>2, <2>3, NoRowSafe DEF Safe
  <1>2. CASE DeleteAdminSystem(s)
    <2>1. ASSUME NEW d \in Credential PROVE RowOK(d)' /\ (Stored(d)' => Stored(d))
      <3>1. CASE Stored(d) /\ creds[d].system = s
        <4>1. creds[d] \in Rows /\ Known(d)
          BY <3>1, RowKinds
        <4>2. creds'[d] = [creds[d] EXCEPT !.life = "deleted"]
          BY <1>2, <3>1 DEF DeleteAdminSystem
        <4>3. held' = held /\ worked' = worked
          BY <1>2 DEF DeleteAdminSystem
        <4>4. RowOK(d)
          BY DEF Safe
        <4> QED
          BY <3>1, <4>1, <4>2, <4>3, <4>4 DEF RowOK, Rows, Stored, Known, MayKnow
      <3>2. CASE ~(Stored(d) /\ creds[d].system = s)
        <4>1. creds'[d] = creds[d] /\ held' = held /\ worked' = worked
          BY <1>2, <3>2 DEF DeleteAdminSystem
        <4>2. Stored(d) => creds[d].system \in System /\ Known(d)
          BY RowKinds DEF Rows
        <4>3. Stored(d) => systems'[creds[d].system] = systems[creds[d].system]
          BY <1>2, <3>2, <4>2 DEF DeleteAdminSystem, TypeOK
        <4>4. RowOK(d)
          BY DEF Safe
        <4> QED
          BY <4>1, <4>2, <4>3, <4>4 DEF RowOK, Known, Stored, MayKnow
      <3> QED
        BY <3>1, <3>2
    <2>2. Apart'
      BY <2>1, ApartStays DEF Safe
    <2>3. AnswerOK' /\ (\A c \in Call : CallOK(c)') /\ team' \subseteq worked'
      BY <1>2, AnswerStays, CallsStay DEF Safe, DeleteAdminSystem
    <2> QED
      BY <2>1, <2>2, <2>3 DEF Safe
  <1> QED
    BY <1>1, <1>2 DEF SystemNext

LEMMA SafeTeam ==
    ASSUME TypeOK, Grows, Safe, TeamNext
    PROVE  Safe'
  <1>1. UNCHANGED <<systems, creds, calls, answer, held>> /\ team' \subseteq worked'
    BY DEF TeamNext, Assign, Unassign, Safe
  <1>2. AnswerOK' /\ \A c \in Call : CallOK(c)'
    BY <1>1, AnswerStays, CallsStay DEF Safe
  <1> QED
    BY <1>1, <1>2, NoRowSafe

LEMMA SafeRow ==
    ASSUME TypeOK, Grows, Safe, NEW d \in Credential, RowNext(d)
    PROVE  Safe'
  <1>1. ASSUME NEW cl \in Client, NEW s \in System, NEW u \in Username,
               NEW p \in Password, CreateClientCredential(d, cl, s, u, p)
        PROVE  Safe'
    <2>1. PICK row \in Rows : row =
              [life |-> "stored", client |-> cl, system |-> s, username |-> u,
               password |-> Sealed(p), revealedBy |-> NONE]
      BY SealedType DEF Rows
    <2>2. creds' = [creds EXCEPT ![d] = row]
      BY <1>1, <2>1 DEF CreateClientCredential
    <2>3. creds'[d] = row /\ \A e \in Credential : e # d => creds'[e] = creds[e]
      BY <2>2 DEF TypeOK
    <2>4. <<u, p>> \in held'[d]
      BY <1>1 DEF CreateClientCredential, TypeOK
    <2>5. row.password.text = p
      BY <2>1, SealedType
    <2>6. RowOK(d)'
      BY <1>1, <2>1, <2>3, <2>4, <2>5 DEF RowOK, CreateClientCredential
    <2>7. Apart'
      <3> SUFFICES ASSUME NEW e \in Credential, NEW f \in Credential,
                          Stored(e)', Stored(f)', e # f
                   PROVE  creds'[e].client # creds'[f].client
                          \/ creds'[e].system # creds'[f].system
        BY DEF Apart
      <3>1. \A g \in Credential : Stored(g) => creds[g].client # cl \/ creds[g].system # s
        BY <1>1 DEF CreateClientCredential
      <3>2. row.client = cl /\ row.system = s
        BY <2>1
      <3>3. CASE e = d
        BY <2>3, <3>1, <3>2, <3>3 DEF Stored
      <3>4. CASE f = d
        BY <2>3, <3>1, <3>2, <3>4 DEF Stored
      <3>5. CASE e # d /\ f # d
        BY <2>3, <3>5 DEF Stored, Safe, Apart
      <3> QED
        BY <3>3, <3>4, <3>5
    <2>8. UNCHANGED <<systems, team, worked, answer, calls>>
      BY <1>1 DEF CreateClientCredential
    <2> QED
      BY <2>2, <2>6, <2>7, <2>8, OneRowSafe, CallsStay
  <1>2. CASE DeleteAdminCredential(d)
    <2>1. creds[d] \in Rows /\ Known(d)
      BY <1>2, RowKinds DEF DeleteAdminCredential
    <2>2. PICK row \in Rows : row = [creds[d] EXCEPT !.life = "deleted"]
      BY <2>1 DEF Rows
    <2>3. creds' = [creds EXCEPT ![d] = row]
      BY <1>2, <2>2 DEF DeleteAdminCredential
    <2>4. creds'[d] = row /\ \A e \in Credential : e # d => creds'[e] = creds[e]
      BY <2>3 DEF TypeOK
    <2>5. UNCHANGED <<systems, team, worked, answer, calls, held>>
      BY <1>2 DEF DeleteAdminCredential
    <2>6. RowOK(d)'
      BY <2>1, <2>2, <2>4, <2>5 DEF RowOK, Rows, Safe, Stored, Known, MayKnow
    <2>7. row.life = "deleted"
      BY <2>1, <2>2 DEF Rows
    <2>8. Apart'
      BY <2>4, <2>7, ApartStays DEF Safe, Stored
    <2> QED
      BY <2>3, <2>5, <2>6, <2>8, OneRowSafe, CallsStay
  <1> QED
    BY <1>1, <1>2 DEF RowNext


LEMMA SafeWrite ==
    ASSUME TypeOK, Grows, Safe, NEW c \in Call, WriteNext(c)
    PROVE  Safe'
  <1>1. ASSUME NEW cl \in Client, NEW d \in Credential,
               NEW at \in {"editing", "deleting"}, StartWrite(c, cl, d, at)
        PROVE  Safe'
    <2>1. calls' = [calls EXCEPT ![c] = [at |-> at, by |-> cl, id |-> d]]
      BY <1>1 DEF StartWrite
    <2>2. /\ calls'[c] = [at |-> at, by |-> cl, id |-> d]
          /\ \A b \in Call : b # c => calls'[b] = calls[b]
      BY <2>1 DEF TypeOK
    <2>3. UNCHANGED <<creds, systems, held, team, worked, answer>>
      BY <1>1 DEF StartWrite
    <2>4. Known(d) /\ creds[d].client = cl
      BY <1>1, RowKinds DEF StartWrite
    <2>5. CallOK(c)'
      BY <2>2, <2>3, <2>4 DEF CallOK, Known
    <2>6. \A b \in Call : CallOK(b)'
      BY <2>2, <2>5, OthersStay
    <2>7. AnswerOK'
      BY <2>3, AnswerStays DEF Safe
    <2> QED
      BY <2>3, <2>6, <2>7, NoRowSafe DEF Safe
  <1>2. ASSUME NEW u \in Username, NEW p \in Password \cup {NONE},
               UpdateClientCredential(c, u, p)
        PROVE  Safe'
    <2>1. PICK d \in Credential, row \in Rows :
              /\ Stored(d)
              /\ creds' = [creds EXCEPT ![d] = row]
              /\ held' = [held EXCEPT ![d] = @ \cup {<<row.username, row.password.text>>}]
              /\ row.client = creds[d].client
              /\ row.system = creds[d].system
              /\ row.revealedBy = creds[d].revealedBy
      BY <1>2, EditedRow
    <2>2. creds'[d] = row /\ \A e \in Credential : e # d => creds'[e] = creds[e]
      BY <2>1 DEF TypeOK
    <2>3. UNCHANGED <<systems, team, worked, answer>> /\ Finish(c)
      BY <1>2 DEF UpdateClientCredential
    <2>4. Known(d) /\ RowOK(d)
      BY <2>1, RowKinds DEF Safe
    <2>5. <<row.username, row.password.text>> \in held'[d]
      BY <2>1 DEF TypeOK
    <2>6. RowOK(d)'
      BY <2>1, <2>2, <2>3, <2>4, <2>5 DEF RowOK, MayKnow, Stored
    <2>7. Apart'
      BY <2>1, <2>2, ApartStays DEF Safe, Stored
    <2> QED
      BY <2>1, <2>3, <2>6, <2>7, FinishedOK, OneRowSafe
  <1>3. CASE DeleteClientCredential(c)
    <2>1. PICK d \in Credential : d = calls[c].id
      BY <1>3, CallKinds DEF DeleteClientCredential, Writes
    <2>2. creds[d] \in Rows /\ Known(d) /\ RowOK(d)
      BY <1>3, <2>1, RowKinds DEF DeleteClientCredential, Safe
    <2>3. PICK row \in Rows : row = [creds[d] EXCEPT !.life = "deleted"]
      BY <2>2 DEF Rows
    <2>4. creds' = [creds EXCEPT ![d] = row]
      BY <1>3, <2>1, <2>3 DEF DeleteClientCredential
    <2>5. creds'[d] = row /\ \A e \in Credential : e # d => creds'[e] = creds[e]
      BY <2>4 DEF TypeOK
    <2>6. UNCHANGED <<systems, team, worked, answer, held>> /\ Finish(c)
      BY <1>3 DEF DeleteClientCredential
    <2>7. /\ row.life = "deleted" /\ row.client = creds[d].client
          /\ row.username = creds[d].username /\ row.password = creds[d].password
          /\ row.revealedBy = creds[d].revealedBy
      BY <2>2, <2>3 DEF Rows
    <2>8. RowOK(d)'
      BY <2>2, <2>5, <2>6, <2>7 DEF RowOK, MayKnow, Stored
    <2>9. Apart'
      BY <2>5, <2>7, ApartStays DEF Safe, Stored
    <2> QED
      BY <2>4, <2>6, <2>8, <2>9, FinishedOK, OneRowSafe
  <1> QED
    BY <1>1, <1>2, <1>3 DEF WriteNext

\* A call that reads goes on; the answer is the old one.
LEMMA ReadOnSafe ==
    ASSUME TypeOK, Grows, Safe, NEW c \in Call,
           UNCHANGED <<creds, systems, held, team, worked, answer>>,
           \A b \in Call : b # c => calls'[b] = calls[b],
           CallOK(c)'
    PROVE  Safe'
  <1>1. \A b \in Call : CallOK(b)'
    BY OthersStay
  <1>2. AnswerOK'
    BY AnswerStays DEF Safe
  <1> QED
    BY <1>1, <1>2, NoRowSafe DEF Safe

\* A call answers; AnswerOK' is the caller's to show.
LEMMA AnsweredSafe ==
    ASSUME TypeOK, Grows, Safe, UNCHANGED <<creds, systems, held, team, worked>>,
           AnswerOK', \A b \in Call : CallOK(b)'
    PROVE  Safe'
  BY NoRowSafe DEF Safe

LEMMA SafeFind ==
    ASSUME TypeOK, Grows, Safe, NEW c \in Call, NEW p \in Person, NEW d \in Credential,
           NEW reveal \in BOOLEAN, FindCredentialByID(c, p, d, reveal)
    PROVE  Safe'
  <1>1. PICK i \in Item : i = ItemOf(d)
    BY RowKinds, ItemType DEF FindCredentialByID
  <1>2. PICK at \in {"read", "admitted"} :
           at = IF p \in Accountant THEN "read" ELSE "admitted"
    OBVIOUS
  <1> DEFINE k == [at |-> at, by |-> p, reveal |-> reveal, id |-> d, item |-> i]
  <1>3. calls'[c] = k /\ \A b \in Call : b # c => calls'[b] = calls[b]
    BY <1>1, <1>2 DEF FindCredentialByID, TypeOK
  <1>4. UNCHANGED <<creds, systems, held, team, worked, answer>>
    BY DEF FindCredentialByID
  <1>5. /\ i.client = creds[d].client
        /\ i.username = creds[d].username
        /\ i.password = creds[d].password
    BY <1>1 DEF ItemOf
  <1>6. Known(d) /\ RowOK(d)
    BY RowKinds DEF FindCredentialByID, Safe
  <1>7. p \notin Accountant => MayKnow(p, i.client)
    BY <1>5 DEF FindCredentialByID, Person, MayKnow
  <1>8. /\ k.id = d /\ k.item = i /\ k.by = p
        /\ k.at \in {"read", "admitted"}
        /\ k.at = "admitted" => p \notin Accountant
    BY <1>2
  <1>9. CallOK(c)'
    BY <1>3, <1>4, <1>5, <1>6, <1>7, <1>8 DEF CallOK, RowOK, Known, MayKnow
  <1> QED
    BY <1>3, <1>4, <1>9, ReadOnSafe

LEMMA SafeAdmit ==
    ASSUME TypeOK, Grows, Safe, NEW c \in Call, Admit(c)
    PROVE  Safe'
  <1>1. calls[c] \in Reads
    BY CallKinds DEF Admit
  <1>2. calls'[c] = [calls[c] EXCEPT !.at = "admitted"]
    BY TypeGoTo DEF Admit
  <1>3. /\ calls'[c].at = "admitted" /\ calls'[c].id = calls[c].id
        /\ calls'[c].item = calls[c].item /\ calls'[c].by = calls[c].by
    BY <1>1, <1>2 DEF Reads
  <1>4. \A b \in Call : b # c => calls'[b] = calls[b]
    BY DEF Admit, GoTo, TypeOK
  <1>5. UNCHANGED <<creds, systems, held, team, worked, answer>>
    BY DEF Admit
  <1>6. MayKnow(calls[c].by, calls[c].item.client)
    BY DEF Admit, MayKnow, Safe
  <1>7. CallOK(c) /\ calls[c].at = "read"
    BY DEF Admit, Safe
  <1>8. CallOK(c)'
    BY <1>3, <1>5, <1>6, <1>7 DEF CallOK, Known, MayKnow
  <1> QED
    BY <1>4, <1>5, <1>8, ReadOnSafe

LEMMA SafeMark ==
    ASSUME TypeOK, Grows, Safe, NEW c \in Call, MarkCredentialRevealed(c)
    PROVE  Safe'
  <1>1. PICK d \in Credential, row \in Rows :
            /\ d = calls[c].id
            /\ Stored(d)
            /\ creds' = [creds EXCEPT ![d] = row]
            /\ row.client = creds[d].client
            /\ row.system = creds[d].system
            /\ row.username = creds[d].username
            /\ row.password = creds[d].password
            /\ row.revealedBy = calls[c].by
            /\ row.revealedBy # NONE
    BY RecordedRow
  <1>2. creds'[d] = row /\ \A e \in Credential : e # d => creds'[e] = creds[e]
    BY <1>1 DEF TypeOK
  <1>3. UNCHANGED <<systems, team, worked, answer, held>>
    BY DEF MarkCredentialRevealed
  <1>4. CallOK(c) /\ calls[c].at = "admitted" /\ RowOK(d) /\ Known(d)
    BY <1>1, RowKinds DEF MarkCredentialRevealed, Safe
  <1>5. MayKnow(row.revealedBy, row.client)
    BY <1>1, <1>4 DEF CallOK
  <1>6. RowOK(d)'
    BY <1>1, <1>2, <1>3, <1>4, <1>5 DEF RowOK, MayKnow, Stored
  <1>7. Apart'
    BY <1>1, <1>2, ApartStays DEF Safe, Stored
  <1>8. calls[c] \in Reads
    BY CallKinds DEF MarkCredentialRevealed
  <1>9. calls'[c] = [calls[c] EXCEPT !.at = "marked"]
    BY TypeGoTo DEF MarkCredentialRevealed
  <1>10. /\ calls'[c].at = "marked" /\ calls'[c].id = d
         /\ calls'[c].item = calls[c].item /\ calls'[c].by = calls[c].by
    BY <1>1, <1>8, <1>9 DEF Reads
  <1>11. \A b \in Call : b # c => calls'[b] = calls[b]
    BY DEF MarkCredentialRevealed, GoTo, TypeOK
  <1>12. Known(d)'
    BY <1>4 DEF Grows, Kept
  <1>13. CallOK(c)'
    BY <1>1, <1>2, <1>3, <1>4, <1>10, <1>12 DEF CallOK, MayKnow
  <1>14. \A b \in Call : CallOK(b)'
    BY <1>11, <1>13, OthersStay
  <1> QED
    BY <1>1, <1>3, <1>6, <1>7, <1>14, OneRowSafe

LEMMA SafeShow ==
    ASSUME TypeOK, Grows, Safe, NEW c \in Call, ShowDetail(c) \/ AnswerReveal(c)
    PROVE  Safe'
  <1>1. calls[c] \in Reads /\ CallOK(c)
    BY CallKinds DEF ShowDetail, AnswerReveal, Safe
  <1>2. PICK d \in Credential : d = calls[c].id
    BY <1>1 DEF Reads
  <1>3. UNCHANGED <<creds, systems, held, team, worked>> /\ Finish(c)
    BY DEF ShowDetail, AnswerReveal
  <1>4. CASE ShowDetail(c)
    <2>1. answer' = [to |-> calls[c].by, id |-> d, username |-> NONE, text |-> NONE]
      BY <1>2, <1>4 DEF ShowDetail, Show
    <2>2. Known(d) /\ MayKnow(calls[c].by, creds[d].client)
      BY <1>1, <1>2, <1>4 DEF CallOK, ShowDetail
    <2>3. AnswerOK'
      BY <1>3, <2>1, <2>2 DEF AnswerOK, Known, MayKnow
    <2> QED
      BY <1>3, <2>3, FinishedOK, AnsweredSafe
  <1>5. CASE AnswerReveal(c)
    <2>1. answer' = [to |-> calls[c].by, id |-> d, username |-> calls[c].item.username,
                     text |-> calls[c].item.password.text]
      BY <1>2, <1>5 DEF AnswerReveal, Show
    <2>2. /\ Known(d) /\ MayKnow(calls[c].by, creds[d].client)
          /\ creds[d].revealedBy # NONE
          /\ <<calls[c].item.username, calls[c].item.password.text>> \in held[d]
      BY <1>1, <1>2, <1>5 DEF CallOK, AnswerReveal
    <2>3. AnswerOK'
      BY <1>3, <2>1, <2>2 DEF AnswerOK, Known, MayKnow
    <2> QED
      BY <1>3, <2>3, FinishedOK, AnsweredSafe
  <1> QED
    BY <1>4, <1>5

LEMMA SafeList ==
    ASSUME TypeOK, Grows, Safe, NEW c \in Call, NEW u \in Accountant, NEW cl \in Client,
           StartList(c, u, cl)
    PROVE  Safe'
  <1>1. calls' = [calls EXCEPT ![c] = [at |-> "listing", by |-> u, client |-> cl]]
    BY DEF StartList
  <1>2. /\ calls'[c] = [at |-> "listing", by |-> u, client |-> cl]
        /\ \A b \in Call : b # c => calls'[b] = calls[b]
    BY <1>1 DEF TypeOK
  <1>3. UNCHANGED <<creds, systems, held, team, worked, answer>>
    BY DEF StartList
  <1>4. MayKnow(u, cl)
    BY DEF StartList, MayKnow, Safe
  <1>5. CallOK(c)'
    BY <1>2, <1>3, <1>4 DEF CallOK, MayKnow
  <1> QED
    BY <1>2, <1>3, <1>5, ReadOnSafe

LEMMA SafeRead ==
    ASSUME TypeOK, Grows, Safe, NEW c \in Call, ReadNext(c)
    PROVE  Safe'
  <1>1. ASSUME NEW d \in Credential, ShowListed(c, d) PROVE Safe'
    <2>1. /\ answer' = [to |-> calls[c].by, id |-> d, username |-> NONE, text |-> NONE]
          /\ UNCHANGED <<creds, systems, held, team, worked, calls>>
      BY <1>1 DEF ShowListed, Show
    <2>2. Known(d) /\ MayKnow(calls[c].by, creds[d].client)
      BY <1>1, RowKinds DEF ShowListed, Safe, CallOK
    <2>3. AnswerOK'
      BY <2>1, <2>2 DEF AnswerOK, Known, MayKnow
    <2> QED
      BY <2>1, <2>3, CallsStay, AnsweredSafe
  <1>2. CASE Return(c)
    <2>1. UNCHANGED <<creds, systems, held, team, worked, answer>> /\ Finish(c)
      BY <1>2 DEF Return
    <2>2. AnswerOK'
      BY <2>1, AnswerStays DEF Safe
    <2> QED
      BY <2>1, <2>2, FinishedOK, AnsweredSafe
  <1> QED
    BY <1>1, <1>2, SafeFind, SafeAdmit, SafeMark, SafeShow, SafeList DEF ReadNext

LEMMA SafeStep == TypeOK /\ Safe /\ [Next]_vars => Safe'
  <1> SUFFICES ASSUME TypeOK, Safe, [Next]_vars PROVE Safe'
    OBVIOUS
  <1>1. Grows
    BY StepGrows
  <1>2. ASSUME NEW k \in Key, Restart(k) PROVE Safe'
    <2>1. /\ UNCHANGED <<creds, systems, held, team, worked, answer>>
          /\ \A c \in Call : calls'[c] = Idle
      BY <1>2 DEF Restart
    <2>2. AnswerOK'
      BY <1>1, <2>1, AnswerStays DEF Safe
    <2>3. \A c \in Call : CallOK(c)'
      BY <2>1, IdleOK
    <2> QED
      BY <1>1, <2>1, <2>2, <2>3, AnsweredSafe
  <1>3. CASE UNCHANGED vars
    <2>1. UNCHANGED <<creds, systems, held, team, worked, answer, calls>>
      BY <1>3 DEF vars
    <2>2. AnswerOK'
      BY <1>1, <2>1, AnswerStays DEF Safe
    <2> QED
      BY <1>1, <2>1, <2>2, CallsStay, AnsweredSafe
  <1> QED
    BY <1>1, <1>2, <1>3, SafeSystems, SafeTeam, SafeRow, SafeWrite, SafeRead DEF Next

LEMMA SpecSafe == Spec => []Safe
  BY InitType, InitSafe, TypeStep, SafeStep, PTL DEF Spec

\* Nobody is answered with a password before its row says that it was revealed,
\* however the row is edited or deleted while the call runs.
THEOREM RevealIsRecorded == Spec => []RevealsRecorded
  <1>1. TypeOK /\ Safe => RevealsRecorded
    BY CredentialNone
       DEF TypeOK, Safe, AnswerOK, RevealsRecorded, Answer, NoAnswer, Person
  <1> QED
    BY <1>1, TypeCorrect, SpecSafe, PTL

\* Whoever is shown a credential, or is recorded as its reader, is entitled to its
\* client, although the check and the use are two statements.
THEOREM EntitledOnly == Spec => []OnlyEntitled
  <1>1. TypeOK /\ Safe => OnlyEntitled
    BY RowKinds DEF Safe, AnswerOK, RowOK, OnlyEntitled
  <1> QED
    BY <1>1, TypeCorrect, SpecSafe, PTL

\* A revealed password is one that the row held together with the username that is
\* shown, whoever edits it meanwhile and whatever key the process restarts with.
THEOREM ShownIsStored == Spec => []ShownWasStored
  <1>1. TypeOK /\ Safe => ShownWasStored
    BY CredentialNone
       DEF TypeOK, Safe, AnswerOK, ShownWasStored, Answer, NoAnswer, Person
  <1> QED
    BY <1>1, TypeCorrect, SpecSafe, PTL

\* One login for each client and system, and none for a system that is gone.
THEOREM LoginsKeepTheirSystem == Spec => []LoginsHaveTheirSystem
  <1>1. TypeOK /\ Safe => LoginsHaveTheirSystem
    BY RowKinds DEF Safe, RowOK, Apart, LoginsHaveTheirSystem
  <1> QED
    BY <1>1, TypeCorrect, SpecSafe, PTL

-----------------------------------------------------------------------------
(* What a step does to a row.                                              *)

Put(d) ==
    Known(d) =>
        /\ creds'[d].client = creds[d].client
        /\ creds'[d].system = creds[d].system
        /\ creds[d].revealedBy # NONE => creds'[d].revealedBy # NONE
        /\ creds[d].life = "deleted" => creds'[d] = creds[d]
        /\ creds'[d].username # creds[d].username \/ creds'[d].password # creds[d].password
           => \E c \in Call : /\ calls[c].at = "editing"
                              /\ calls[c].id = d
                              /\ calls[c].by = creds[d].client

\* A row that no step touches, one that is deleted, and one that is recorded.
LEMMA SamePut ==
    ASSUME NEW d \in Credential, creds'[d] = creds[d]
    PROVE  Put(d)
  BY DEF Put

LEMMA DeletedPut ==
    ASSUME TypeOK, NEW d \in Credential, Stored(d),
           creds'[d] = [creds[d] EXCEPT !.life = "deleted"]
    PROVE  Put(d)
  <1>1. creds[d] \in Rows
    BY RowKinds
  <1> QED
    BY <1>1 DEF Put, Rows, Stored

LEMMA RowPut ==
    ASSUME TypeOK, NEW d \in Credential, NEW e \in Credential, RowNext(d)
    PROVE  Put(e)
  <1>1. CASE e # d
    BY <1>1, SamePut DEF RowNext, CreateClientCredential, DeleteAdminCredential, TypeOK
  <1>2. CASE e = d
    <2>1. CASE DeleteAdminCredential(d)
      BY <1>2, <2>1, DeletedPut DEF DeleteAdminCredential, TypeOK
    <2>2. CASE ~Known(d)
      BY <1>2, <2>2 DEF Put
    <2>3. CASE ~DeleteAdminCredential(d) /\ Known(d)
      BY <2>3 DEF RowNext, CreateClientCredential, Known, NoCredential
    <2> QED
      BY <2>1, <2>2, <2>3
  <1> QED
    BY <1>1, <1>2

LEMMA WritePut ==
    ASSUME TypeOK, Safe, NEW c \in Call, WriteNext(c), NEW e \in Credential
    PROVE  Put(e)
  <1>1. ASSUME NEW cl \in Client, NEW d \in Credential,
               NEW at \in {"editing", "deleting"}, StartWrite(c, cl, d, at)
        PROVE  Put(e)
    BY <1>1, SamePut DEF StartWrite
  <1>2. ASSUME NEW u \in Username, NEW p \in Password \cup {NONE},
               UpdateClientCredential(c, u, p)
        PROVE  Put(e)
    <2>1. PICK d \in Credential, row \in Rows :
              /\ d = calls[c].id
              /\ Stored(d)
              /\ creds' = [creds EXCEPT ![d] = row]
              /\ row.client = creds[d].client
              /\ row.system = creds[d].system
              /\ row.revealedBy = creds[d].revealedBy
      BY <1>2, EditedRow
    <2>2. creds'[d] = row /\ (e # d => creds'[e] = creds[e])
      BY <2>1 DEF TypeOK
    <2>3. calls[c].at = "editing" /\ calls[c].by = creds[d].client
      BY <1>2, <2>1 DEF UpdateClientCredential, Safe, CallOK
    <2>4. Put(d)
      BY <2>1, <2>2, <2>3 DEF Put, Stored
    <2> QED
      BY <2>2, <2>4, SamePut
  <1>3. CASE DeleteClientCredential(c)
    <2>1. PICK d \in Credential : d = calls[c].id
      BY <1>3, CallKinds DEF DeleteClientCredential, Writes
    <2>2. /\ creds'[d] = [creds[d] EXCEPT !.life = "deleted"]
          /\ e # d => creds'[e] = creds[e]
      BY <1>3, <2>1 DEF DeleteClientCredential, TypeOK
    <2> QED
      BY <1>3, <2>1, <2>2, SamePut, DeletedPut DEF DeleteClientCredential
  <1> QED
    BY <1>1, <1>2, <1>3 DEF WriteNext

LEMMA ReadPut ==
    ASSUME TypeOK, NEW c \in Call, ReadNext(c), NEW e \in Credential
    PROVE  Put(e)
  <1>1. CASE MarkCredentialRevealed(c)
    <2>1. PICK d \in Credential, row \in Rows :
              /\ Stored(d)
              /\ creds' = [creds EXCEPT ![d] = row]
              /\ row.client = creds[d].client
              /\ row.system = creds[d].system
              /\ row.username = creds[d].username
              /\ row.password = creds[d].password
              /\ row.revealedBy # NONE
      BY <1>1, RecordedRow
    <2>2. creds'[d] = row /\ (e # d => creds'[e] = creds[e])
      BY <2>1 DEF TypeOK
    <2>3. Put(d)
      BY <2>1, <2>2 DEF Put, Stored
    <2> QED
      BY <2>2, <2>3, SamePut
  <1> QED
    BY <1>1, SamePut DEF ReadNext, FindCredentialByID, Admit, ShowDetail,
       AnswerReveal, StartList, ShowListed, Return

LEMMA StepPut == TypeOK /\ Safe /\ [Next]_vars => \A d \in Credential : Put(d)
  <1> SUFFICES ASSUME TypeOK, Safe, [Next]_vars, NEW d \in Credential PROVE Put(d)
    OBVIOUS
  <1>1. ASSUME NEW s \in System, SystemNext(s) PROVE Put(d)
    <2>1. CASE DeleteAdminSystem(s)
      <3>1. creds'[d] = IF Stored(d) /\ creds[d].system = s
                        THEN [creds[d] EXCEPT !.life = "deleted"] ELSE creds[d]
        BY <2>1 DEF DeleteAdminSystem
      <3> QED
        BY <3>1, SamePut, DeletedPut
    <2> QED
      BY <1>1, <2>1, SamePut DEF SystemNext, CreateAdminSystem, UpdateAdminSystem
  <1>2. CASE TeamNext
    BY <1>2, SamePut DEF TeamNext, Assign, Unassign
  <1>3. ASSUME NEW k \in Key, Restart(k) PROVE Put(d)
    BY <1>3, SamePut DEF Restart
  <1>4. CASE UNCHANGED vars
    BY <1>4, SamePut DEF vars
  <1> QED
    BY <1>1, <1>2, <1>3, <1>4, RowPut, WritePut, ReadPut DEF Next

\* A credential keeps its client, its system and the record of its reveal, does not
\* come back, and says something else only through a call of its own client.
THEOREM RowsStayPut == Spec => CredentialsStayPut
  <1>1. TypeOK => \A d \in Credential : creds[d] # NoCredential => Known(d)
    BY RowKinds
  <1>2. TypeOK /\ Safe /\ [Next]_vars =>
           [\A d \in Credential : creds[d] # NoCredential =>
              /\ creds'[d].client = creds[d].client
              /\ creds'[d].system = creds[d].system
              /\ creds[d].revealedBy # NONE => creds'[d].revealedBy # NONE
              /\ creds[d].life = "deleted" => creds'[d] = creds[d]
              /\ creds'[d].username # creds[d].username
                 \/ creds'[d].password # creds[d].password
                 => \E c \in Call : /\ calls[c].at = "editing"
                                    /\ calls[c].id = d
                                    /\ calls[c].by = creds[d].client]_vars
    BY <1>1, StepPut DEF Put
  <1> QED
    BY <1>2, TypeCorrect, SpecSafe, PTL DEF Spec, CredentialsStayPut
=============================================================================
