--------------------------- MODULE TaxCredentials ---------------------------
(***************************************************************************)
(* The logins that clients store for the portals of the tax authority: the *)
(* tables tax_credential_systems and client_tax_credentials, the calls     *)
(* that edit, delete, show and reveal a credential, and the encryption key *)
(* the process was started with.                                           *)
(*                                                                         *)
(* Every call takes several statements without a transaction.  An edit, a  *)
(* deletion and a reveal read the row and check the caller before they     *)
(* write; a reveal decrypts what it read, records itself in the row as it  *)
(* is by then, tells the owner and only then answers.  An accountant's     *)
(* right is looked up in the assignments, in a statement of its own.       *)
(*                                                                         *)
(* A client stands for the user and for their profile.  A system is its    *)
(* status, a credential its username and its password; names, URLs, notes, *)
(* order and paging are left out, and so are the is_active flag of a       *)
(* credential, which guards nothing, and the notice to the owner, whose    *)
(* failure is only logged.  A call that is refused, fails or is cut off    *)
(* returns; what it wrote stays.                                           *)
(***************************************************************************)
CONSTANTS
    Client, Accountant, Admin,  \* users, by role
    System,                     \* tax_credential_systems ids
    Credential,                 \* client_tax_credentials ids
    Username, Password,         \* what clients enter
    Key,                        \* values of CREDENTIAL_ENCRYPTION_KEY
    Call,                       \* HTTP requests being served
    NONE                        \* SQL NULL, the empty string

Person == Client \cup Accountant \cup Admin

ASSUME CredentialRoles ==
    /\ Client \cap Accountant = {}
    /\ Client \cap Admin = {}
    /\ Accountant \cap Admin = {}

ASSUME CredentialNone == NONE \notin Person \cup Username \cup Password

ASSUME SomeKey == Key # {}

VARIABLES
    key,      \* the key of the running process
    systems,  \* systems[s]: the status of the system
    creds,    \* creds[d]: the row, or what a deleted row said last
    team,     \* <<u, cl>>: u has an assignment of cl that is not cancelled
    calls,    \* what the calls in flight hold
    answer,   \* the last credential anyone was shown
    worked,   \* every pair that has been in team
    held      \* held[d]: every username and password the row held together

vars == <<key, systems, creds, team, calls, answer, worked, held>>

Live == {"active", "inactive"}

\* Encrypt and Decrypt: AES-GCM, a box opens with the key that sealed it.
Sealed(text) == [key |-> key, text |-> text]
Opens(box) == box.key = key
Box == [key : Key, text : Password]

NoCredential == [life |-> "none"]
Row == {NoCredential}
    \cup [life : {"stored", "deleted"}, client : Client, system : System,
          username : Username, password : Box, revealedBy : Person \cup {NONE}]

\* What a call keeps of the row it read.
Item == [client : Client, username : Username, password : Box]
ItemOf(d) == [client |-> creds[d].client, username |-> creds[d].username,
              password |-> creds[d].password]

Idle == [at |-> "idle"]
CallState ==
    {Idle}
    \cup [at : {"read", "admitted", "marked"}, by : Person, reveal : BOOLEAN,
          id : Credential, item : Item]
    \cup [at : {"listing"}, by : Accountant, client : Client]
    \cup [at : {"editing", "deleting"}, by : Client, id : Credential]

\* The answer to a reveal, or to another read, of which only the reader matters.
NoAnswer == [text |-> NONE, to |-> NONE]
Answer == {NoAnswer}
    \cup [to : Person, id : Credential, username : {NONE}, text : {NONE}]
    \cup [to : Person, id : Credential, username : Username, text : Password]

TypeOK ==
    /\ key \in Key
    /\ systems \in [System -> Live \cup {"none", "deleted"}]
    /\ creds \in [Credential -> Row]
    /\ team \subseteq Accountant \X Client
    /\ calls \in [Call -> CallState]
    /\ answer \in Answer
    /\ worked \subseteq Accountant \X Client
    /\ held \in [Credential -> SUBSET (Username \X Password)]

Init ==
    /\ key \in Key
    /\ systems = [s \in System |-> "none"]
    /\ creds = [d \in Credential |-> NoCredential]
    /\ team = {}
    /\ calls = [c \in Call |-> Idle]
    /\ answer = NoAnswer
    /\ worked = {}
    /\ held = [d \in Credential |-> {}]

Stored(d) == creds[d].life = "stored"
GoTo(c, at) == calls' = [calls EXCEPT ![c].at = at]
Finish(c) == calls' = [calls EXCEPT ![c] = Idle]
Show(p, d, username, text) ==
    answer' = [to |-> p, id |-> d, username |-> username, text |-> text]

-----------------------------------------------------------------------------
(* The systems, kept by the admin, and the assignments.                    *)

CreateAdminSystem(s, status) ==
    /\ systems[s] = "none"
    /\ systems' = [systems EXCEPT ![s] = status]
    /\ UNCHANGED <<key, creds, team, calls, answer, worked, held>>

\* UpdateAdminSystem and UpdateAdminSystemStatus.
UpdateAdminSystem(s, status) ==
    /\ systems[s] \in Live
    /\ systems' = [systems EXCEPT ![s] = status]
    /\ UNCHANGED <<key, creds, team, calls, answer, worked, held>>

\* Fault: without ON DELETE CASCADE.
DeleteAdminSystemAlone(s) ==
    /\ systems[s] \in Live
    /\ systems' = [systems EXCEPT ![s] = "deleted"]
    /\ UNCHANGED <<key, creds, team, calls, answer, worked, held>>

DeleteAdminSystem(s) ==
    /\ systems[s] \in Live
    /\ systems' = [systems EXCEPT ![s] = "deleted"]
    /\ creds' = [d \in Credential |->
          IF Stored(d) /\ creds[d].system = s
          THEN [creds[d] EXCEPT !.life = "deleted"] ELSE creds[d]]
    /\ UNCHANGED <<key, team, calls, answer, worked, held>>

Assign(u, cl) ==
    /\ team' = team \cup {<<u, cl>>}
    /\ worked' = worked \cup {<<u, cl>>}
    /\ UNCHANGED <<key, systems, creds, calls, answer, held>>

\* Their last assignment of the client is cancelled, or goes with its request.
Unassign(u, cl) ==
    /\ team' = team \ {<<u, cl>>}
    /\ UNCHANGED <<key, systems, creds, calls, answer, worked, held>>

-----------------------------------------------------------------------------
(* The client's own credentials.                                           *)

\* UNIQUE (client_id, system_id) and the foreign key of the system.
CreateClientCredential(d, cl, s, username, password) ==
    /\ creds[d] = NoCredential
    /\ systems[s] \in Live
    /\ \A e \in Credential :
          Stored(e) => creds[e].client # cl \/ creds[e].system # s
    /\ creds' = [creds EXCEPT ![d] =
          [life |-> "stored", client |-> cl, system |-> s, username |-> username,
           password |-> Sealed(password), revealedBy |-> NONE]]
    /\ held' = [held EXCEPT ![d] = @ \cup {<<username, password>>}]
    /\ UNCHANGED <<key, systems, team, calls, answer, worked>>

\* UpdateClientCredential and DeleteClientCredential: the row is read and its
\* client compared ...
StartWrite(c, cl, d, at) ==
    /\ calls[c] = Idle
    /\ Stored(d)
    /\ creds[d].client = cl
    /\ calls' = [calls EXCEPT ![c] = [at |-> at, by |-> cl, id |-> d]]
    /\ UNCHANGED <<key, systems, creds, team, answer, worked, held>>

\* Fault: the blank password is stored too.
NewPasswordBlank(d, password) == Sealed(password)

\* CASE WHEN $2 = '' THEN encrypted_password ELSE $2 END
NewPassword(d, password) ==
    IF password = NONE THEN creds[d].password ELSE Sealed(password)

Written(d, username, password) ==
    /\ creds' = [creds EXCEPT ![d] =
          [@ EXCEPT !.life = "stored", !.username = username,
                    !.password = NewPassword(d, password)]]
    /\ held' = [held EXCEPT ![d] = @ \cup {<<username, NewPassword(d, password).text>>}]

\* ... and then written, if it is still there.
UpdateClientCredential(c, username, password) ==
    /\ calls[c].at = "editing"
    /\ Stored(calls[c].id)
    /\ Written(calls[c].id, username, password)
    /\ Finish(c)
    /\ UNCHANGED <<key, systems, team, answer, worked>>

DeleteClientCredential(c) ==
    /\ calls[c].at = "deleting"
    /\ Stored(calls[c].id)
    /\ creds' = [creds EXCEPT ![calls[c].id].life = "deleted"]
    /\ Finish(c)
    /\ UNCHANGED <<key, systems, team, answer, worked, held>>

-----------------------------------------------------------------------------
(* The admin deletes.                                                      *)

DeleteAdminCredential(d) ==
    /\ Stored(d)
    /\ creds' = [creds EXCEPT ![d].life = "deleted"]
    /\ UNCHANGED <<key, systems, team, calls, answer, worked, held>>

-----------------------------------------------------------------------------
(* Showing (the details, without the password) and revealing.              *)

\* FindCredentialByID; a client must be the one of the row.
FindCredentialByID(c, p, d, reveal) ==
    /\ calls[c] = Idle
    /\ Stored(d)
    /\ p \in Client => creds[d].client = p
    /\ calls' = [calls EXCEPT ![c] =
          [at |-> IF p \in Accountant THEN "read" ELSE "admitted", by |-> p,
           reveal |-> reveal, id |-> d, item |-> ItemOf(d)]]
    /\ UNCHANGED <<key, systems, creds, team, answer, worked, held>>

\* Fault: EXISTS without the client of the request.
AdmitAnyClient(c) ==
    /\ calls[c].at = "read"
    /\ \E cl \in Client : <<calls[c].by, cl>> \in team
    /\ GoTo(c, "admitted")
    /\ UNCHANGED <<key, systems, creds, team, answer, worked, held>>

\* AccountantCanAccessClient.
Admit(c) ==
    /\ calls[c].at = "read"
    /\ <<calls[c].by, calls[c].item.client>> \in team
    /\ GoTo(c, "admitted")
    /\ UNCHANGED <<key, systems, creds, team, answer, worked, held>>

ShowDetail(c) ==
    /\ calls[c].at = "admitted"
    /\ ~calls[c].reveal
    /\ Show(calls[c].by, calls[c].id, NONE, NONE)
    /\ Finish(c)
    /\ UNCHANGED <<key, systems, creds, team, worked, held>>

Recorded(d, p) == creds' = [creds EXCEPT ![d].revealedBy = p]

\* Fault: the error of the record is logged.
MarkBestEffort(c) ==
    /\ calls[c].at = "admitted"
    /\ calls[c].reveal
    /\ Opens(calls[c].item.password)
    /\ \/ Stored(calls[c].id) /\ Recorded(calls[c].id, calls[c].by)
       \/ UNCHANGED creds
    /\ GoTo(c, "marked")
    /\ UNCHANGED <<key, systems, team, answer, worked, held>>

\* Decrypt what was read, then MarkCredentialRevealed in the row as it is now.
MarkCredentialRevealed(c) ==
    /\ calls[c].at = "admitted"
    /\ calls[c].reveal
    /\ Opens(calls[c].item.password)
    /\ Stored(calls[c].id)
    /\ Recorded(calls[c].id, calls[c].by)
    /\ GoTo(c, "marked")
    /\ UNCHANGED <<key, systems, team, answer, worked, held>>

\* Fault: the row is read again for the answer.
AnswerReread(c) ==
    /\ calls[c].at = "marked"
    /\ LET k == calls[c] IN
       Show(k.by, k.id, creds[k.id].username, k.item.password.text)
    /\ Finish(c)
    /\ UNCHANGED <<key, systems, creds, team, worked, held>>

\* The owner has been told; the answer is the row as it was read.
AnswerReveal(c) ==
    /\ calls[c].at = "marked"
    /\ LET k == calls[c] IN Show(k.by, k.id, k.item.username, k.item.password.text)
    /\ Finish(c)
    /\ UNCHANGED <<key, systems, creds, team, worked, held>>

\* ListAccountantCredentials: the right first, the rows afterwards.
StartList(c, u, cl) ==
    /\ calls[c] = Idle
    /\ <<u, cl>> \in team
    /\ calls' = [calls EXCEPT ![c] = [at |-> "listing", by |-> u, client |-> cl]]
    /\ UNCHANGED <<key, systems, creds, team, answer, worked, held>>

ShowListed(c, d) ==
    /\ calls[c].at = "listing"
    /\ Stored(d)
    /\ creds[d].client = calls[c].client
    /\ Show(calls[c].by, d, NONE, NONE)
    /\ UNCHANGED <<key, systems, creds, team, calls, worked, held>>

\* Refused, failed, finished or cut off.
Return(c) ==
    /\ calls[c] # Idle
    /\ Finish(c)
    /\ UNCHANGED <<key, systems, creds, team, answer, worked, held>>

\* The process stops with its calls and starts with the key it then finds.
Restart(k) ==
    /\ key' = k
    /\ calls' = [c \in Call |-> Idle]
    /\ UNCHANGED <<systems, creds, team, answer, worked, held>>

-----------------------------------------------------------------------------
SystemNext(s) ==
    \/ \E status \in Live : CreateAdminSystem(s, status) \/ UpdateAdminSystem(s, status)
    \/ DeleteAdminSystem(s)

TeamNext == \E u \in Accountant, cl \in Client : Assign(u, cl) \/ Unassign(u, cl)

RowNext(d) ==
    \/ \E cl \in Client, s \in System, username \in Username, password \in Password :
          CreateClientCredential(d, cl, s, username, password)
    \/ DeleteAdminCredential(d)

WriteNext(c) ==
    \/ \E cl \in Client, d \in Credential, at \in {"editing", "deleting"} :
          StartWrite(c, cl, d, at)
    \/ \E username \in Username, password \in Password \cup {NONE} :
          UpdateClientCredential(c, username, password)
    \/ DeleteClientCredential(c)

ReadNext(c) ==
    \/ \E p \in Person, d \in Credential, reveal \in BOOLEAN :
          FindCredentialByID(c, p, d, reveal)
    \/ Admit(c)
    \/ ShowDetail(c)
    \/ MarkCredentialRevealed(c)
    \/ AnswerReveal(c)
    \/ \E u \in Accountant, cl \in Client : StartList(c, u, cl)
    \/ \E d \in Credential : ShowListed(c, d)
    \/ Return(c)

Next ==
    \/ \E s \in System : SystemNext(s)
    \/ TeamNext
    \/ \E d \in Credential : RowNext(d)
    \/ \E c \in Call : WriteNext(c) \/ ReadNext(c)
    \/ \E k \in Key : Restart(k)

Spec == Init /\ [][Next]_vars

-----------------------------------------------------------------------------
(* Properties.                                                             *)

MayKnow(p, cl) == p \in Admin \/ p = cl \/ <<p, cl>> \in worked

\* Nobody is answered with a password unless its row says that it was revealed:
\* the record is written, and its error is not ignored, before the answer, even
\* if the row changes or is deleted while the call runs.
RevealsRecorded ==
    answer.text # NONE => creds[answer.id].revealedBy # NONE

\* Although the right is checked in one statement and used in another, whoever is
\* shown a credential, or is named as the last to reveal it, is an admin, the
\* client it belongs to, or an accountant who has worked for that client.
OnlyEntitled ==
    /\ answer.to # NONE => MayKnow(answer.to, creds[answer.id].client)
    /\ \A d \in Credential :
          /\ creds[d] # NoCredential
          /\ creds[d].revealedBy # NONE
          => MayKnow(creds[d].revealedBy, creds[d].client)

\* A password that is answered comes with a username it was stored with, although
\* other calls edit both while the answer is on its way.
ShownWasStored ==
    answer.text # NONE => <<answer.username, answer.text>> \in held[answer.id]

\* A client has at most one login for a system, and none for a system that is
\* gone, whatever is created, edited and deleted at the same time.
LoginsHaveTheirSystem ==
    \A d, e \in Credential : Stored(d) =>
        /\ systems[creds[d].system] \in Live
        /\ d # e /\ Stored(e) =>
              creds[d].client # creds[e].client \/ creds[d].system # creds[e].system

\* A credential never changes its client or system, never forgets that it was
\* revealed and never comes back; only a call of its client changes what it says.
CredentialsStayPut ==
    [][\A d \in Credential : creds[d] # NoCredential =>
          /\ creds'[d].client = creds[d].client
          /\ creds'[d].system = creds[d].system
          /\ creds[d].revealedBy # NONE => creds'[d].revealedBy # NONE
          /\ creds[d].life = "deleted" => creds'[d] = creds[d]
          /\ creds'[d].username # creds[d].username \/ creds'[d].password # creds[d].password
             => \E c \in Call : /\ calls[c].at = "editing"
                                /\ calls[c].id = d
                                /\ calls[c].by = creds[d].client]_vars
=============================================================================
