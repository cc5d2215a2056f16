------------------------------ MODULE Documents ------------------------------
(***************************************************************************)
(* The documents of service requests: the rows of the table documents, the *)
(* files they name in a storage (a directory or an R2 bucket), and who may *)
(* see them.                                                               *)
(*                                                                         *)
(* The table and the storage share no transaction.  Upload checks the      *)
(* access, saves the file, inserts the row and, when the insert returns an *)
(* error, deletes the file again; each of these is a step, any may fail,   *)
(* and an error does not say that the insert did not happen.  A reader's   *)
(* call reads the row first and the case afterwards, so that an admin who  *)
(* changes the row, or the people on the case, gets in between.            *)
(*                                                                         *)
(* A storage key is generated for each upload and is unique: it stands for *)
(* its row too.  Of the document types only final_deliverable is told from *)
(* the rest; names, sizes, descriptions and the is_final flag (an upload   *)
(* with it is a final_deliverable) are left out, and so are the notices to *)
(* the admin.                                                              *)
(***************************************************************************)
CONSTANTS
    Client, Accountant, Admin,  \* users, by role
    Request,                    \* service request ids
    File,                       \* storage keys, each generated once
    Call,                       \* HTTP requests being served
    NONE                        \* SQL NULL, the empty string

Person == Client \cup Accountant \cup Admin

ASSUME RolesAreDisjoint ==
    /\ Client \cap Accountant = {}
    /\ Client \cap Admin = {}
    /\ Accountant \cap Admin = {}

ASSUME NoneIsNothing ==
    NONE \notin Person \cup Request \cup File \cup {"client", "staff", "admin"}

VARIABLES
    cases,      \* cases[r]: the request, its owner, who works on it
    rows,       \* rows[f]: the table
    files,      \* files[f]: the storage
    calls,      \* what the calls in flight hold
    answered,   \* the uploads that were answered with success
    insiders,   \* insiders[r]: everyone who has been on the case
    shown,      \* shown[f]: every visibility the row has had
    readers,    \* readers[f]: the clients and accountants it was shown to
    told        \* told[f]: the clients told of it as a final document

vars == <<cases, rows, files, calls, answered, insiders, shown, readers, told>>

Visibility == {"client", "staff", "admin"}

NoCase(state) == [state |-> state, owner |-> NONE, team |-> {}]
Case == [state : {"unfiled", "open", "deleted"}, owner : Client \cup {NONE},
         team : SUBSET Accountant]

\* Of a row the cascade took, the model remembers what it said.
NoRow == [life |-> "none", request |-> NONE, uploader |-> NONE, visibility |-> NONE]
Row == {NoRow} \cup [life : {"live", "archived", "cascaded"}, request : Request,
                     uploader : Person, visibility : Visibility]

Idle == [at |-> "idle"]
CallState ==
    {Idle}
    \cup [at : {"checked"}, by : Person, request : Request,
          visibility : Visibility, deliverable : BOOLEAN, file : {NONE}]
    \cup [at : {"saved", "cleanup", "notify"}, by : Person, request : Request,
          visibility : Visibility, deliverable : BOOLEAN, file : File]
    \cup [at : {"read", "open"}, by : Person, file : File, row : Row]

TypeOK ==
    /\ cases \in [Request -> Case]
    /\ rows \in [File -> Row]
    /\ files \in [File -> {"none", "stored", "removed"}]
    /\ calls \in [Call -> CallState]
    /\ answered \subseteq File
    /\ insiders \in [Request -> SUBSET (Client \cup Accountant)]
    /\ shown \in [File -> SUBSET Visibility]
    /\ readers \in [File -> SUBSET (Client \cup Accountant)]
    /\ told \in [File -> SUBSET Client]

Init ==
    /\ cases = [r \in Request |-> NoCase("unfiled")]
    /\ rows = [f \in File |-> NoRow]
    /\ files = [f \in File |-> "none"]
    /\ calls = [c \in Call |-> Idle]
    /\ answered = {}
    /\ insiders = [r \in Request |-> {}]
    /\ shown = [f \in File |-> {}]
    /\ readers = [f \in File |-> {}]
    /\ told = [f \in File |-> {}]

GoTo(c, at) == calls' = [calls EXCEPT ![c].at = at]
Finish(c) == calls' = [calls EXCEPT ![c] = Idle]

\* canAccessServiceRequest: an admin may use any id, even that of no request.
MayUse(p, r) ==
    \/ p \in Admin
    \/ cases[r].state = "open" /\ (p = cases[r].owner \/ p \in cases[r].team)

\* canViewDocument, the part that looks at the row.
Admits(visibility, p) ==
    \/ p \in Admin
    \/ p \in Client /\ visibility = "client"
    \/ p \in Accountant /\ visibility \in {"client", "staff"}

-----------------------------------------------------------------------------
(* The cases, as the packages servicerequest and assignment change them.   *)

CasesOnly == UNCHANGED <<files, calls, answered, shown, readers, told>>

FileRequest(r, owner) ==
    /\ cases[r].state = "unfiled"
    /\ cases' = [cases EXCEPT ![r].state = "open", ![r].owner = owner]
    /\ insiders' = [insiders EXCEPT ![r] = {owner} \ {NONE}]
    /\ UNCHANGED rows /\ CasesOnly

LinkRequest(r, client) ==
    /\ cases[r].state = "open"
    /\ cases[r].owner = NONE
    /\ cases' = [cases EXCEPT ![r].owner = client]
    /\ insiders' = [insiders EXCEPT ![r] = @ \cup {client}]
    /\ UNCHANGED rows /\ CasesOnly

Assign(r, u) ==
    /\ cases[r].state = "open"
    /\ cases' = [cases EXCEPT ![r].team = @ \cup {u}]
    /\ insiders' = [insiders EXCEPT ![r] = @ \cup {u}]
    /\ UNCHANGED rows /\ CasesOnly

\* Their last assignment that is not cancelled is cancelled or deleted.
Unassign(r, u) ==
    /\ u \in cases[r].team
    /\ cases' = [cases EXCEPT ![r].team = @ \ {u}]
    /\ UNCHANGED <<insiders, rows>> /\ CasesOnly

\* ON DELETE CASCADE takes the rows; nothing takes the files.
DeleteRequest(r) ==
    /\ cases[r].state = "open"
    /\ cases' = [cases EXCEPT ![r] = NoCase("deleted")]
    /\ rows' = [f \in File |->
          IF rows[f].request = r THEN [rows[f] EXCEPT !.life = "cascaded"] ELSE rows[f]]
    /\ UNCHANGED insiders /\ CasesOnly

-----------------------------------------------------------------------------
(* Upload.                                                                 *)

\* normalizeUploadInput: only an admin chooses, and is_final chooses for him.
Placed(p, visibility, final, deliverable) ==
    CASE p \in Client -> [visibility |-> "client", deliverable |-> FALSE]
      [] p \in Accountant -> [visibility |-> "staff", deliverable |-> FALSE]
      [] final -> [visibility |-> "client", deliverable |-> TRUE]
      [] OTHER -> [visibility |-> IF visibility = NONE THEN "staff" ELSE visibility,
                   deliverable |-> deliverable]

StartUpload(c, p, r, visibility, final, deliverable) ==
    LET placed == Placed(p, visibility, final, deliverable) IN
    /\ calls[c] = Idle
    /\ MayUse(p, r)
    /\ calls' = [calls EXCEPT ![c] =
          [at |-> "checked", by |-> p, request |-> r, file |-> NONE,
           visibility |-> placed.visibility, deliverable |-> placed.deliverable]]
    /\ UNCHANGED <<cases, rows, files, answered, insiders, shown, readers, told>>

\* Fault: SavedFile without its StorageKey.
SaveFileKeyless(c, f) ==
    /\ calls[c].at = "checked"
    /\ files[f] = "none"
    /\ files' = [files EXCEPT ![f] = "stored"]
    /\ GoTo(c, "saved")
    /\ UNCHANGED <<cases, rows, answered, insiders, shown, readers, told>>

SaveFile(c, f) ==
    /\ calls[c].at = "checked"
    /\ files[f] = "none"
    /\ files' = [files EXCEPT ![f] = "stored"]
    /\ calls' = [calls EXCEPT ![c].at = "saved", ![c].file = f]
    /\ UNCHANGED <<cases, rows, answered, insiders, shown, readers, told>>

\* An error of PutObject, or a crash, may leave the object behind.
SaveBreaksOff(c, f) ==
    /\ calls[c].at = "checked"
    /\ files[f] = "none"
    /\ files' = [files EXCEPT ![f] = "stored"]
    /\ Finish(c)
    /\ UNCHANGED <<cases, rows, answered, insiders, shown, readers, told>>

Inserted(c) ==
    LET k == calls[c] IN
    /\ cases[k.request].state = "open"
    /\ rows' = [rows EXCEPT ![k.file] =
                  [life |-> "live", request |-> k.request, uploader |-> k.by,
                   visibility |-> k.visibility]]
    /\ shown' = [shown EXCEPT ![k.file] = @ \cup {k.visibility}]

\* Fault: the error of the INSERT is dropped.
InsertUnchecked(c) ==
    /\ calls[c].at = "saved"
    /\ Inserted(c) \/ UNCHANGED <<rows, shown>>
    /\ GoTo(c, "notify")
    /\ UNCHANGED <<cases, files, answered, insiders, readers, told>>

\* The INSERT returns its row.  Otherwise Create returns an error: a constraint
\* refused it (the request is gone), it was not executed, or it was and only the
\* answer was lost.
Insert(c) ==
    /\ calls[c].at = "saved"
    /\ \/ Inserted(c) /\ GoTo(c, "notify")
       \/ Inserted(c) /\ GoTo(c, "cleanup")
       \/ UNCHANGED <<rows, shown>> /\ GoTo(c, "cleanup")
    /\ UNCHANGED <<cases, files, answered, insiders, readers, told>>

\* The error of this deletion is ignored, and a LocalStorage deletes nothing for
\* a cancelled context.
CleanUp(c) ==
    /\ calls[c].at = "cleanup"
    /\ \/ files' = [files EXCEPT ![calls[c].file] = "removed"]
       \/ UNCHANGED files
    /\ Finish(c)
    /\ UNCHANGED <<cases, rows, answered, insiders, shown, readers, told>>

\* notifyAfterUpload, from the row as it was inserted: the client is told of an
\* admin's final_deliverable whatever its visibility.  Without a request, a
\* linked client or a working notification it is only logged.
Told(c) ==
    LET k == calls[c] IN
    IF k.by \in Admin /\ k.deliverable THEN {cases[k.request].owner} \ {NONE} ELSE {}

AnswerUpload(c) ==
    /\ calls[c].at = "notify"
    /\ answered' = answered \cup {calls[c].file}
    /\ \/ told' = [told EXCEPT ![calls[c].file] = @ \cup Told(c)]
       \/ UNCHANGED told
    /\ Finish(c)
    /\ UNCHANGED <<cases, rows, files, insiders, shown, readers>>

-----------------------------------------------------------------------------
(* Reading: GetByID, Download and, for each row, List.                     *)

\* FindByID; an archived document is not found.
ReadRow(c, p, f) ==
    /\ calls[c] = Idle
    /\ rows[f].life = "live"
    /\ calls' = [calls EXCEPT ![c] =
          [at |-> "read", by |-> p, file |-> f, row |-> rows[f]]]
    /\ UNCHANGED <<cases, rows, files, answered, insiders, shown, readers, told>>

Entitled(c) ==
    LET k == calls[c] IN
    \/ k.row.uploader = k.by
    \/ MayUse(k.by, k.row.request) /\ Admits(k.row.visibility, k.by)

ShowTo(p, f) ==
    readers' = [readers EXCEPT ![f] = IF p \in Admin THEN @ ELSE @ \cup {p}]

\* Fault: the role is checked, the visibility is not.
LetInAnyone(c) ==
    /\ calls[c].at = "read"
    /\ MayUse(calls[c].by, calls[c].row.request)
    /\ ShowTo(calls[c].by, calls[c].file)
    /\ GoTo(c, "open")
    /\ UNCHANGED <<cases, rows, files, answered, insiders, shown, told>>

\* canViewDocument: the row as it was read, the case as it is now.  What follows
\* shows the metadata.
LetIn(c) ==
    /\ calls[c].at = "read"
    /\ Entitled(c)
    /\ ShowTo(calls[c].by, calls[c].file)
    /\ GoTo(c, "open")
    /\ UNCHANGED <<cases, rows, files, answered, insiders, shown, told>>

\* Refused, not found, opened and sent, or cut off: the call is over.
Return(c) ==
    /\ calls[c] # Idle
    /\ Finish(c)
    /\ UNCHANGED <<cases, rows, files, answered, insiders, shown, readers, told>>

-----------------------------------------------------------------------------
(* The admin's statements.                                                 *)

UpdateMetadata(f, visibility) ==
    /\ rows[f].life = "live"
    /\ rows' = [rows EXCEPT ![f].visibility = visibility]
    /\ shown' = [shown EXCEPT ![f] = @ \cup {visibility}]
    /\ UNCHANGED <<cases, files, calls, answered, insiders, readers, told>>

Delete(f) ==
    /\ rows[f].life = "live"
    /\ rows' = [rows EXCEPT ![f].life = "archived"]
    /\ UNCHANGED <<cases, files, calls, answered, insiders, shown, readers, told>>

-----------------------------------------------------------------------------
CaseNext(r) ==
    \/ \E owner \in Client \cup {NONE} : FileRequest(r, owner)
    \/ \E client \in Client : LinkRequest(r, client)
    \/ \E u \in Accountant : Assign(r, u) \/ Unassign(r, u)
    \/ DeleteRequest(r)

UploadNext(c) ==
    \/ \E p \in Person, r \in Request, v \in Visibility \cup {NONE},
          final, deliverable \in BOOLEAN : StartUpload(c, p, r, v, final, deliverable)
    \/ \E f \in File : SaveFile(c, f) \/ SaveBreaksOff(c, f)
    \/ Insert(c)
    \/ CleanUp(c)
    \/ AnswerUpload(c)

ReadNext(c) ==
    \/ \E p \in Person, f \in File : ReadRow(c, p, f)
    \/ LetIn(c)
    \/ Return(c)

AdminNext(f) == Delete(f) \/ \E v \in Visibility : UpdateMetadata(f, v)

Next ==
    \/ \E r \in Request : CaseNext(r)
    \/ \E c \in Call : UploadNext(c) \/ ReadNext(c)
    \/ \E f \in File : AdminNext(f)

Spec == Init /\ [][Next]_vars

-----------------------------------------------------------------------------
(* Properties.                                                             *)

\* An upload that was answered with success stays: its file is never deleted,
\* and its row leaves the table only with its request.  (A row without a file
\* and a file without a row are possible, but only for uploads that were not.)
AnsweredUploadsStay ==
    \A f \in answered :
        /\ files[f] = "stored"
        /\ rows[f].life # "none"
        /\ rows[f].life = "cascaded" <=> cases[rows[f].request].state = "deleted"

\* Although row and case are read at different moments, a client or accountant
\* gets to see a document only if they uploaded it, or if they have been on its
\* case and it has been open to their role.  The notice of a final document goes
\* to nobody but a client who has been on its case; it may name one that has
\* never been open to him, and that he will not get to see.
ReadersWereEntitled ==
    \A f \in File :
        /\ \A p \in told[f] : p \in insiders[rows[f].request]
        /\ \A p \in readers[f] :
              \/ rows[f].uploader = p
              \/ /\ p \in insiders[rows[f].request]
                 /\ \E v \in shown[f] : Admits(v, p)

\* A document stays where it was put: its request and uploader never change, an
\* archived one never changes or comes back, and none comes back after its
\* request.
DocumentsStayPut ==
    [][\A f \in File : rows[f].life # "none" =>
          /\ rows'[f].life \in {rows[f].life, "archived", "cascaded"}
          /\ rows'[f].request = rows[f].request
          /\ rows'[f].uploader = rows[f].uploader
          /\ rows[f].life # "live" =>
                rows'[f] \in {rows[f], [rows[f] EXCEPT !.life = "cascaded"]}]_vars
=============================================================================
