--------------------------- MODULE DocumentsProofs ---------------------------
(***************************************************************************)
(* Proofs about uploads and their readers, for any number of users,        *)
(* requests, uploads and concurrent calls.                                 *)
(***************************************************************************)
EXTENDS Documents, TLAPS

Uploading(c) == calls[c].at \in {"saved", "cleanup", "notify"}

\* What an upload or a reader's call in flight may count on.
CallOK(c) ==
    LET k == calls[c] IN
    /\ Uploading(c) => files[k.file] = "stored" /\ k.file \notin answered
    /\ k.at = "saved" => rows[k.file] = NoRow
    /\ k.at = "notify" => /\ rows[k.file].life # "none"
                          /\ rows[k.file].request = k.request
    /\ k.at = "read" => /\ rows[k.file].life # "none"
                        /\ k.row.request = rows[k.file].request
                        /\ k.row.uploader = rows[k.file].uploader
                        /\ k.row.visibility \in shown[k.file]

\* No two uploads have the same storage key.
KeysApart ==
    \A c, d \in Call : c # d /\ Uploading(c) /\ Uploading(d)
                         => calls[c].file # calls[d].file

FileOK(f) ==
    /\ rows[f].life = "none" => /\ rows[f] = NoRow /\ f \notin answered
                               /\ readers[f] = {} /\ told[f] = {}
    /\ rows[f].life # "none" =>
          /\ files[f] # "none"
          /\ cases[rows[f].request].state # "unfiled"
          /\ rows[f].life = "cascaded" <=> cases[rows[f].request].state = "deleted"
          /\ rows[f].visibility \in shown[f]
    /\ f \in answered => files[f] = "stored"

CaseOK(r) ==
    /\ cases[r].owner \in insiders[r] \cup {NONE}
    /\ cases[r].team \subseteq insiders[r]
    /\ cases[r].state # "open" => cases[r] = NoCase(cases[r].state)
    /\ cases[r].state = "unfiled" => insiders[r] = {}

ReaderOK(f) ==
    /\ \A p \in told[f] : p \in insiders[rows[f].request]
    /\ \A p \in readers[f] :
          \/ rows[f].uploader = p
          \/ /\ p \in insiders[rows[f].request]
             /\ \E v \in shown[f] : Admits(v, p)

Safe ==
    /\ \A c \in Call : CallOK(c)
    /\ KeysApart
    /\ \A f \in File : FileOK(f) /\ ReaderOK(f)
    /\ \A r \in Request : CaseOK(r)

-----------------------------------------------------------------------------
(* Types.                                                                  *)

LEMMA PlacedType ==
    ASSUME NEW p \in Person, NEW v \in Visibility \cup {NONE},
           NEW final \in BOOLEAN, NEW deliverable \in BOOLEAN
    PROVE  /\ Placed(p, v, final, deliverable).visibility \in Visibility
           /\ Placed(p, v, final, deliverable).deliverable \in BOOLEAN
  BY DEF Placed, Visibility

\* A call record of each kind.
LEMMA CallKinds ==
    ASSUME NEW k \in CallState
    PROVE  /\ k.at = "checked" => k \in
                [at : {"checked"}, by : Person, request : Request,
                 visibility : Visibility, deliverable : BOOLEAN, file : {NONE}]
           /\ k.at \in {"saved", "cleanup", "notify"} => k \in
                [at : {"saved", "cleanup", "notify"}, by : Person, request : Request,
                 visibility : Visibility, deliverable : BOOLEAN, file : File]
           /\ k.at \in {"read", "open"} => k \in
                [at : {"read", "open"}, by : Person, file : File, row : Row]
           /\ k.at \in {"idle", "checked", "saved", "cleanup", "notify", "read", "open"}
           /\ k.at = "idle" => k = Idle
<1> DEFINE A == [at : {"checked"}, by : Person, request : Request,
                 visibility : Visibility, deliverable : BOOLEAN, file : {NONE}]
           B == [at : {"saved", "cleanup", "notify"}, by : Person, request : Request,
                 visibility : Visibility, deliverable : BOOLEAN, file : File]
           C == [at : {"read", "open"}, by : Person, file : File, row : Row]
<1>1. CASE k = Idle
  BY <1>1 DEF Idle
<1>2. CASE k \in A
  BY <1>2
<1>3. CASE k \in B
  BY <1>3
<1>4. CASE k \in C
  BY <1>4
<1> QED
  BY <1>1, <1>2, <1>3, <1>4 DEF CallState

\* A row of a document that exists, or existed.
LEMMA RowKinds ==
    ASSUME NEW row \in Row
    PROVE  /\ row.life # "none" => row \in
                [life : {"live", "archived", "cascaded"}, request : Request,
                 uploader : Person, visibility : Visibility]
           /\ row.life = "none" => row = NoRow
           /\ row.life \in {"none", "live", "archived", "cascaded"}
           /\ row.request \in Request => row.life # "none"
<1>1. CASE row = NoRow
  BY <1>1, NoneIsNothing DEF NoRow
<1>2. CASE row \in [life : {"live", "archived", "cascaded"}, request : Request,
                    uploader : Person, visibility : Visibility]
  BY <1>2
<1> QED
  BY <1>1, <1>2 DEF Row

\* A call moves on, with or without its file, or ends.
LEMMA CallMoves ==
    ASSUME TypeOK, NEW c \in Call
    PROVE  /\ calls[c].at = "checked" => \A f \in File :
                [calls[c] EXCEPT !.at = "saved", !.file = f] \in CallState
           /\ calls[c].at \in {"saved", "cleanup", "notify"} => \A s \in {"notify", "cleanup"} :
                [calls[c] EXCEPT !.at = s] \in CallState
           /\ calls[c].at \in {"read", "open"} => [calls[c] EXCEPT !.at = "open"] \in CallState
           /\ Idle \in CallState
<1>0. calls[c] \in CallState
  BY DEF TypeOK
<1>1. ASSUME calls[c].at = "checked", NEW f \in File
      PROVE  [calls[c] EXCEPT !.at = "saved", !.file = f] \in CallState
  <2>1. calls[c] \in [at : {"checked"}, by : Person, request : Request,
                 visibility : Visibility, deliverable : BOOLEAN, file : {NONE}]
    BY <1>0, <1>1, CallKinds
  <2>2. [calls[c] EXCEPT !.at = "saved", !.file = f] \in
          [at : {"saved", "cleanup", "notify"}, by : Person, request : Request,
                 visibility : Visibility, deliverable : BOOLEAN, file : File]
    BY <2>1
  <2> QED
    BY <2>2 DEF CallState
<1>2. ASSUME calls[c].at \in {"saved", "cleanup", "notify"}, NEW s \in {"notify", "cleanup"}
      PROVE  [calls[c] EXCEPT !.at = s] \in CallState
  <2>1. calls[c] \in [at : {"saved", "cleanup", "notify"}, by : Person, request : Request,
                 visibility : Visibility, deliverable : BOOLEAN, file : File]
    BY <1>0, <1>2, CallKinds
  <2>2. [calls[c] EXCEPT !.at = s] \in
          [at : {"saved", "cleanup", "notify"}, by : Person, request : Request,
                 visibility : Visibility, deliverable : BOOLEAN, file : File]
    BY <2>1
  <2> QED
    BY <2>2 DEF CallState
<1>3. ASSUME calls[c].at \in {"read", "open"}
      PROVE  [calls[c] EXCEPT !.at = "open"] \in CallState
  <2>1. calls[c] \in [at : {"read", "open"}, by : Person, file : File, row : Row]
    BY <1>0, <1>3, CallKinds
  <2>2. [calls[c] EXCEPT !.at = "open"] \in [at : {"read", "open"}, by : Person, file : File, row : Row]
    BY <2>1
  <2> QED
    BY <2>2 DEF CallState
<1>4. Idle \in CallState
  BY DEF CallState
<1> QED
  BY <1>1, <1>2, <1>3, <1>4

LEMMA InitType == ASSUME Init PROVE TypeOK
<1>1. NoRow \in Row /\ Idle \in CallState
  BY DEF Row, CallState
<1>2. \A r \in Request : NoCase("unfiled") \in Case
  BY DEF NoCase, Case
<1> QED
  BY <1>1, <1>2 DEF Init, TypeOK

LEMMA CaseType ==
    ASSUME TypeOK, NEW r \in Request, CaseNext(r)
    PROVE  TypeOK'
<1> USE DEF TypeOK, CasesOnly
<1>0. cases[r] \in Case
  OBVIOUS
<1>1. ASSUME NEW owner \in Client \cup {NONE}, FileRequest(r, owner)
      PROVE  TypeOK'
  <2>1. [cases[r] EXCEPT !.state = "open", !.owner = owner] \in Case
    BY <1>0 DEF Case
  <2>2. cases' = [cases EXCEPT ![r] = [cases[r] EXCEPT !.state = "open", !.owner = owner]]
    BY <1>1 DEF FileRequest
  <2>3. cases' \in [Request -> Case]
    BY <2>1, <2>2
  <2>4. {owner} \ {NONE} \subseteq Client
    OBVIOUS
  <2>5. insiders' \in [Request -> SUBSET (Client \cup Accountant)]
    BY <1>1, <2>4 DEF FileRequest
  <2> QED
    BY <1>1, <2>3, <2>5 DEF FileRequest
<1>2. ASSUME NEW client \in Client, LinkRequest(r, client)
      PROVE  TypeOK'
  <2>1. [cases[r] EXCEPT !.owner = client] \in Case
    BY <1>0 DEF Case
  <2>2. cases' \in [Request -> Case]
    BY <1>2, <2>1 DEF LinkRequest
  <2>3. insiders' \in [Request -> SUBSET (Client \cup Accountant)]
    BY <1>2 DEF LinkRequest
  <2> QED
    BY <1>2, <2>2, <2>3 DEF LinkRequest
<1>3. ASSUME NEW u \in Accountant, Assign(r, u)
      PROVE  TypeOK'
  <2>1. [cases[r] EXCEPT !.team = @ \cup {u}] \in Case
    BY <1>0 DEF Case
  <2>2. cases' \in [Request -> Case]
    BY <1>3, <2>1 DEF Assign
  <2>3. insiders' \in [Request -> SUBSET (Client \cup Accountant)]
    BY <1>3 DEF Assign
  <2> QED
    BY <1>3, <2>2, <2>3 DEF Assign
<1>4. ASSUME NEW u \in Accountant, Unassign(r, u)
      PROVE  TypeOK'
  <2>1. [cases[r] EXCEPT !.team = @ \ {u}] \in Case
    BY <1>0 DEF Case
  <2>2. cases' \in [Request -> Case]
    BY <1>4, <2>1 DEF Unassign
  <2> QED
    BY <1>4, <2>2 DEF Unassign
<1>5. ASSUME DeleteRequest(r)
      PROVE  TypeOK'
  <2>1. NoCase("deleted") \in Case
    BY DEF NoCase, Case
  <2>2. cases' \in [Request -> Case]
    BY <1>5, <2>1 DEF DeleteRequest
  <2>3. ASSUME NEW f \in File
        PROVE  (IF rows[f].request = r THEN [rows[f] EXCEPT !.life = "cascaded"] ELSE rows[f]) \in Row
    <3>1. rows[f] \in Row
      OBVIOUS
    <3>2. CASE rows[f].request = r
      <4>1. rows[f] \in [life : {"live", "archived", "cascaded"}, request : Request,
                         uploader : Person, visibility : Visibility]
        BY <3>1, <3>2, RowKinds
      <4>2. [rows[f] EXCEPT !.life = "cascaded"] \in
                  [life : {"live", "archived", "cascaded"}, request : Request,
                   uploader : Person, visibility : Visibility]
        BY <4>1
      <4> QED
        BY <3>2, <4>2 DEF Row
    <3> QED
      BY <3>1, <3>2
  <2>4. rows' \in [File -> Row]
    BY <1>5, <2>3 DEF DeleteRequest
  <2> QED
    BY <1>5, <2>2, <2>4 DEF DeleteRequest
<1> QED
  BY <1>1, <1>2, <1>3, <1>4, <1>5 DEF CaseNext

\* What an INSERT puts into the table.
LEMMA InsertedType ==
    ASSUME TypeOK, NEW c \in Call, calls[c].at = "saved", Inserted(c)
    PROVE  /\ rows' \in [File -> Row]
           /\ shown' \in [File -> SUBSET Visibility]
<1>1. calls[c] \in [at : {"saved", "cleanup", "notify"}, by : Person, request : Request,
                 visibility : Visibility, deliverable : BOOLEAN, file : File]
  BY CallKinds DEF TypeOK
<1> DEFINE row == [life |-> "live", request |-> calls[c].request, uploader |-> calls[c].by,
                   visibility |-> calls[c].visibility]
<1>2. row \in Row
  BY <1>1 DEF Row
<1>3. rows' = [rows EXCEPT ![calls[c].file] = row]
  BY DEF Inserted
<1>4. rows' \in [File -> Row]
  BY <1>2, <1>3 DEF TypeOK
<1>5. shown' \in [File -> SUBSET Visibility]
  BY <1>1 DEF TypeOK, Inserted
<1> QED
  BY <1>4, <1>5

LEMMA UploadType ==
    ASSUME TypeOK, NEW c \in Call, UploadNext(c)
    PROVE  TypeOK'
<1>0. calls[c] \in CallState /\ calls \in [Call -> CallState]
  BY DEF TypeOK
<1>1. ASSUME NEW p \in Person, NEW r \in Request, NEW v \in Visibility \cup {NONE},
             NEW final \in BOOLEAN, NEW deliverable \in BOOLEAN,
             StartUpload(c, p, r, v, final, deliverable)
      PROVE  TypeOK'
  <2> DEFINE placed == Placed(p, v, final, deliverable)
             k == [at |-> "checked", by |-> p, request |-> r, file |-> NONE,
                   visibility |-> placed.visibility, deliverable |-> placed.deliverable]
  <2>1. k \in CallState
    BY PlacedType DEF CallState
  <2>2. calls' = [calls EXCEPT ![c] = k]
    BY <1>1 DEF StartUpload
  <2> HIDE DEF k
  <2>3. calls' \in [Call -> CallState]
    BY <1>0, <2>1, <2>2
  <2> QED
    BY <1>1, <2>3 DEF StartUpload, TypeOK
<1>2. ASSUME NEW f \in File, SaveFile(c, f)
      PROVE  TypeOK'
  <2>1. calls' = [calls EXCEPT ![c] = [calls[c] EXCEPT !.at = "saved", !.file = f]]
    BY <1>2 DEF SaveFile
  <2>2. [calls[c] EXCEPT !.at = "saved", !.file = f] \in CallState
    BY <1>2, CallMoves DEF SaveFile
  <2>3. calls' \in [Call -> CallState]
    BY <1>0, <2>1, <2>2
  <2> QED
    BY <1>2, <2>3 DEF SaveFile, TypeOK
<1>3. ASSUME NEW f \in File, SaveBreaksOff(c, f)
      PROVE  TypeOK'
  BY <1>3, <1>0, CallMoves DEF SaveBreaksOff, Finish, TypeOK
<1>4. ASSUME Insert(c)
      PROVE  TypeOK'
  <2>1. rows' \in [File -> Row] /\ shown' \in [File -> SUBSET Visibility]
    <3>1. CASE Inserted(c)
      BY <1>4, <3>1, InsertedType DEF Insert
    <3>2. CASE UNCHANGED <<rows, shown>>
      BY <3>2 DEF TypeOK
    <3> QED
      BY <1>4, <3>1, <3>2 DEF Insert
  <2>2. PICK s \in {"notify", "cleanup"} : GoTo(c, s)
    BY <1>4 DEF Insert
  <2>3. calls' = [calls EXCEPT ![c] = [calls[c] EXCEPT !.at = s]]
    BY <2>2 DEF GoTo
  <2>4. [calls[c] EXCEPT !.at = s] \in CallState
    BY <1>4, CallMoves DEF Insert
  <2>5. calls' \in [Call -> CallState]
    BY <1>0, <2>3, <2>4
  <2> QED
    BY <1>4, <2>1, <2>5 DEF Insert, TypeOK
<1>5. ASSUME CleanUp(c)
      PROVE  TypeOK'
  BY <1>5, <1>0, CallMoves DEF CleanUp, Finish, TypeOK
<1>6. ASSUME AnswerUpload(c)
      PROVE  TypeOK'
  <2>1. calls[c] \in [at : {"saved", "cleanup", "notify"}, by : Person, request : Request,
                 visibility : Visibility, deliverable : BOOLEAN, file : File]
    BY <1>6, <1>0, CallKinds DEF AnswerUpload
  <2>2. cases[calls[c].request].owner \in Client \cup {NONE}
    BY <2>1 DEF TypeOK, Case
  <2>3. Told(c) \subseteq Client
    BY <2>2 DEF Told
  <2>4. told' \in [File -> SUBSET Client]
    BY <1>6, <2>3 DEF AnswerUpload, TypeOK
  <2>5. calls' \in [Call -> CallState]
    BY <1>6, <1>0, CallMoves DEF AnswerUpload, Finish
  <2>6. answered' \subseteq File
    BY <1>6, <2>1 DEF AnswerUpload, TypeOK
  <2> QED
    BY <1>6, <2>4, <2>5, <2>6 DEF AnswerUpload, TypeOK
<1> QED
  BY <1>1, <1>2, <1>3, <1>4, <1>5, <1>6 DEF UploadNext

LEMMA ReadType ==
    ASSUME TypeOK, NEW c \in Call, ReadNext(c)
    PROVE  TypeOK'
<1>0. calls[c] \in CallState /\ calls \in [Call -> CallState]
  BY DEF TypeOK
<1>1. ASSUME NEW p \in Person, NEW f \in File, ReadRow(c, p, f)
      PROVE  TypeOK'
  <2>1. [at |-> "read", by |-> p, file |-> f, row |-> rows[f]] \in CallState
    BY DEF CallState, TypeOK
  <2>2. calls' \in [Call -> CallState]
    BY <1>0, <1>1, <2>1 DEF ReadRow
  <2> QED
    BY <1>1, <2>2 DEF ReadRow, TypeOK
<1>2. ASSUME LetIn(c)
      PROVE  TypeOK'
  <2>1. calls[c] \in [at : {"read", "open"}, by : Person, file : File, row : Row]
    BY <1>2, <1>0, CallKinds DEF LetIn
  <2>2. calls' = [calls EXCEPT ![c] = [calls[c] EXCEPT !.at = "open"]]
    BY <1>2 DEF LetIn, GoTo
  <2>3. [calls[c] EXCEPT !.at = "open"] \in CallState
    BY <1>2, CallMoves DEF LetIn
  <2>4. calls' \in [Call -> CallState]
    BY <1>0, <2>2, <2>3
  <2>5. readers' \in [File -> SUBSET (Client \cup Accountant)]
    BY <1>2, <2>1 DEF LetIn, ShowTo, TypeOK, Person
  <2> QED
    BY <1>2, <2>4, <2>5 DEF LetIn, TypeOK
<1>3. ASSUME Return(c)
      PROVE  TypeOK'
  BY <1>3, <1>0, CallMoves DEF Return, Finish, TypeOK
<1> QED
  BY <1>1, <1>2, <1>3 DEF ReadNext

LEMMA AdminType ==
    ASSUME TypeOK, NEW f \in File, AdminNext(f)
    PROVE  TypeOK'
<1>0. rows[f].life = "live"
  BY DEF AdminNext, Delete, UpdateMetadata
<1>1. rows[f] \in [life : {"live", "archived", "cascaded"}, request : Request,
                   uploader : Person, visibility : Visibility]
  BY <1>0, RowKinds DEF TypeOK
<1>2. ASSUME Delete(f)
      PROVE  TypeOK'
  <2>1. [rows[f] EXCEPT !.life = "archived"] \in
            [life : {"live", "archived", "cascaded"}, request : Request,
             uploader : Person, visibility : Visibility]
    BY <1>1
  <2>2. [rows[f] EXCEPT !.life = "archived"] \in Row
    BY <2>1 DEF Row
  <2>3. rows' \in [File -> Row]
    BY <1>2, <2>2 DEF Delete, TypeOK
  <2> QED
    BY <1>2, <2>3 DEF Delete, TypeOK
<1>3. ASSUME NEW v \in Visibility, UpdateMetadata(f, v)
      PROVE  TypeOK'
  <2>1. [rows[f] EXCEPT !.visibility = v] \in
            [life : {"live", "archived", "cascaded"}, request : Request,
             uploader : Person, visibility : Visibility]
    BY <1>1
  <2>2. [rows[f] EXCEPT !.visibility = v] \in Row
    BY <2>1 DEF Row
  <2>3. rows' \in [File -> Row]
    BY <1>3, <2>2 DEF UpdateMetadata, TypeOK
  <2>4. shown' \in [File -> SUBSET Visibility]
    BY <1>3 DEF UpdateMetadata, TypeOK
  <2> QED
    BY <1>3, <2>3, <2>4 DEF UpdateMetadata, TypeOK
<1> QED
  BY <1>2, <1>3 DEF AdminNext

LEMMA NextType == ASSUME TypeOK, [Next]_vars PROVE TypeOK'
<1>1. CASE UNCHANGED vars
  BY <1>1 DEF vars, TypeOK
<1> QED
  BY <1>1, CaseType, UploadType, ReadType, AdminType DEF Next

\* The variables keep their types: every row is a document's, and every call in
\* flight holds what its next statement needs.
THEOREM TypeCorrect == Spec => []TypeOK
  BY InitType, NextType, PTL DEF Spec

-----------------------------------------------------------------------------
(* The invariant.                                                          *)

LEMMA InitSafe == ASSUME Init PROVE Safe
<1> USE DEF Init
<1>1. ASSUME NEW c \in Call PROVE CallOK(c)
  BY DEF CallOK, Uploading, Idle
<1>2. KeysApart
  BY DEF KeysApart, Uploading, Idle
<1>3. ASSUME NEW f \in File PROVE FileOK(f) /\ ReaderOK(f)
  BY DEF FileOK, ReaderOK, NoRow
<1>4. ASSUME NEW r \in Request PROVE CaseOK(r)
  BY DEF CaseOK, NoCase
<1> QED
  BY <1>1, <1>2, <1>3, <1>4 DEF Safe

\* A row that is there keeps its place; shown and insiders only grow.
RowStays(f) ==
    /\ rows'[f].life # "none"
    /\ rows'[f].request = rows[f].request
    /\ rows'[f].uploader = rows[f].uploader

Undisturbed(d) ==
    LET f == calls[d].file IN
    /\ calls'[d] = calls[d]
    /\ calls[d].at \in {"saved", "cleanup", "notify", "read"} =>
          /\ \/ rows'[f] = rows[f]
             \/ rows[f].life # "none" /\ RowStays(f)
          /\ shown[f] \subseteq shown'[f]
    /\ Uploading(d) => /\ files'[f] = files[f]
                       /\ f \in answered' => f \in answered

LEMMA OtherCall ==
    ASSUME NEW d \in Call, CallOK(d), Undisturbed(d)
    PROVE  CallOK(d)'
<1>1. PICK f : f = calls[d].file
  OBVIOUS
<1>2. PICK k : k = calls[d]
  OBVIOUS
<1>3. calls'[d] = k /\ k.file = f
  BY <1>1, <1>2 DEF Undisturbed
<1>4. NoRow.life = "none"
  BY DEF NoRow
<1>5. CASE k.at \in {"saved", "cleanup", "notify"}
  BY <1>1, <1>2, <1>3, <1>4, <1>5 DEF CallOK, Undisturbed, Uploading, RowStays
<1>6. CASE k.at = "read"
  BY <1>1, <1>2, <1>3, <1>4, <1>6 DEF CallOK, Undisturbed, Uploading, RowStays
<1>7. CASE k.at \notin {"saved", "cleanup", "notify", "read"}
  BY <1>1, <1>2, <1>3, <1>7 DEF CallOK, Undisturbed, Uploading
<1> QED
  BY <1>5, <1>6, <1>7

LEMMA SameReaders ==
    ASSUME NEW f \in File, ReaderOK(f), readers'[f] = readers[f], told'[f] = told[f],
           readers[f] # {} \/ told[f] # {} =>
              /\ rows'[f].uploader = rows[f].uploader
              /\ rows'[f].request = rows[f].request
              /\ insiders[rows[f].request] \subseteq insiders'[rows[f].request]
              /\ shown[f] \subseteq shown'[f]
    PROVE  ReaderOK(f)'
<1>1. ASSUME NEW p \in readers[f]
      PROVE  \/ rows'[f].uploader = p
             \/ /\ p \in insiders'[rows'[f].request]
                /\ \E v \in shown'[f] : Admits(v, p)
  BY DEF ReaderOK
<1>2. ASSUME NEW p \in told[f] PROVE p \in insiders'[rows'[f].request]
  BY DEF ReaderOK
<1> QED
  BY <1>1, <1>2 DEF ReaderOK, Admits

\* A call's uploading record, and the file it holds.
LEMMA UploadingFile ==
    ASSUME TypeOK, NEW c \in Call, Uploading(c)
    PROVE  /\ calls[c].file \in File
           /\ calls[c].request \in Request
           /\ calls[c].by \in Person
           /\ calls[c].visibility \in Visibility
  BY CallKinds DEF TypeOK, Uploading

LEMMA ReadingFile ==
    ASSUME TypeOK, NEW c \in Call, calls[c].at = "read"
    PROVE  /\ calls[c].file \in File
           /\ calls[c].row \in Row
           /\ calls[c].by \in Person
  BY CallKinds DEF TypeOK

-----------------------------------------------------------------------------
(* The cases.                                                              *)

\* What a step of a case may do to the rest.
CaseMoves(r) ==
    /\ CasesOnly
    /\ \A f \in File : \/ rows'[f] = rows[f]
                       \/ rows[f].life # "none" /\ RowStays(f)
    /\ \A q \in Request : insiders[q] \subseteq insiders'[q]

LEMMA CaseSafeCalls ==
    ASSUME TypeOK, Safe, NEW r \in Request, CaseMoves(r)
    PROVE  /\ \A c \in Call : CallOK(c)'
           /\ KeysApart'
           /\ \A f \in File : ReaderOK(f)'
<1>1. ASSUME NEW c \in Call PROVE CallOK(c)'
  <2>1. calls[c].at \in {"saved", "cleanup", "notify", "read"} => calls[c].file \in File
    BY UploadingFile, ReadingFile DEF Uploading
  <2>2. Undisturbed(c)
    BY <2>1 DEF CaseMoves, CasesOnly, Undisturbed, Uploading
  <2> QED
    BY <2>2, OtherCall DEF Safe
<1>2. KeysApart'
  BY DEF Safe, KeysApart, CaseMoves, CasesOnly, Uploading
<1>3. ASSUME NEW f \in File PROVE ReaderOK(f)'
  <2>1. FileOK(f) /\ ReaderOK(f)
    BY DEF Safe
  <2>2. rows[f] \in Row
    BY DEF TypeOK
  <2>3. readers[f] # {} \/ told[f] # {} => rows[f].life # "none" /\ rows[f].request \in Request
    BY <2>1, <2>2, RowKinds DEF FileOK
  <2>4. rows'[f].uploader = rows[f].uploader /\ rows'[f].request = rows[f].request
    BY DEF CaseMoves, RowStays
  <2>5. readers'[f] = readers[f] /\ told'[f] = told[f] /\ shown'[f] = shown[f]
    BY DEF CaseMoves, CasesOnly
  <2> QED
    BY <2>1, <2>3, <2>4, <2>5, SameReaders DEF CaseMoves
<1> QED
  BY <1>1, <1>2, <1>3

LEMMA CaseSafe ==
    ASSUME TypeOK, Safe, NEW r \in Request, CaseNext(r)
    PROVE  Safe'
<1>0. cases[r] \in Case /\ CaseOK(r)
  BY DEF TypeOK, Safe
<1>a. \A f \in File : rows[f] \in Row /\ FileOK(f)
  BY DEF TypeOK, Safe
\* Everything but the row of r in the two tables.
<1>b. ASSUME rows' = rows, CasesOnly,
             cases[r].state \in {"unfiled", "open"},
             cases'[r].state = "open",
             insiders[r] \subseteq insiders'[r],
             CaseOK(r)',
             \A q \in Request \ {r} : cases'[q] = cases[q] /\ insiders'[q] = insiders[q],
             cases[r].state = "unfiled" => \A f \in File : rows[f].request # r \/ rows[f].life = "none"
      PROVE  Safe'
  <2>1. CaseMoves(r)
    BY <1>b DEF CaseMoves
  <2>2. ASSUME NEW q \in Request PROVE CaseOK(q)'
    BY <1>b DEF CaseOK, Safe
  <2>3. ASSUME NEW f \in File PROVE FileOK(f)'
    <3>1. FileOK(f) /\ rows[f] \in Row
      BY <1>a
    <3>2. rows[f].life # "none" => rows[f].request \in Request
      BY <3>1, RowKinds
    <3>3. rows[f].life # "none" =>
              /\ cases'[rows[f].request].state # "unfiled"
              /\ cases'[rows[f].request].state = "deleted"
                    <=> cases[rows[f].request].state = "deleted"
      BY <1>b, <3>1, <3>2 DEF FileOK
    <3> QED
      BY <1>b, <3>1, <3>3 DEF FileOK, CasesOnly
  <2> QED
    BY <2>1, <2>2, <2>3, CaseSafeCalls DEF Safe
<1>1. ASSUME NEW owner \in Client \cup {NONE}, FileRequest(r, owner)
      PROVE  Safe'
  <2>0. cases[r] = NoCase("unfiled") /\ insiders[r] = {}
    BY <1>0, <1>1 DEF CaseOK, FileRequest
  <2>1. cases'[r] = [NoCase("unfiled") EXCEPT !.state = "open", !.owner = owner]
        /\ insiders'[r] = {owner} \ {NONE}
    BY <1>1, <2>0 DEF FileRequest, TypeOK
  <2>2. /\ cases'[r].owner = owner
        /\ cases'[r].team = {}
        /\ cases'[r].state = "open"
    BY <2>1 DEF NoCase
  <2>3. CaseOK(r)'
    BY <2>1, <2>2 DEF CaseOK
  <2>4. \A f \in File : rows[f].request # r \/ rows[f].life = "none"
    BY <1>a, <2>0 DEF FileOK, NoCase
  <2>5. \A q \in Request \ {r} : cases'[q] = cases[q] /\ insiders'[q] = insiders[q]
    BY <1>1 DEF FileRequest, TypeOK
  <2>6. cases[r].state = "unfiled" /\ rows' = rows /\ CasesOnly
    BY <1>1 DEF FileRequest
  <2> QED
    BY <2>0, <2>2, <2>3, <2>4, <2>5, <2>6, <1>b
<1>2. ASSUME NEW client \in Client, LinkRequest(r, client)
      PROVE  Safe'
  <2>1. /\ cases'[r] = [cases[r] EXCEPT !.owner = client]
        /\ insiders'[r] = insiders[r] \cup {client}
        /\ cases[r].state = "open"
    BY <1>2 DEF LinkRequest, TypeOK
  <2>2. /\ cases'[r].owner = client
        /\ cases'[r].team = cases[r].team
        /\ cases'[r].state = "open"
    BY <2>1, <1>0 DEF Case
  <2>3. CaseOK(r)'
    BY <1>0, <2>1, <2>2 DEF CaseOK
  <2>4. \A q \in Request \ {r} : cases'[q] = cases[q] /\ insiders'[q] = insiders[q]
    BY <1>2 DEF LinkRequest, TypeOK
  <2>5. rows' = rows /\ CasesOnly
    BY <1>2 DEF LinkRequest
  <2> QED
    BY <2>1, <2>2, <2>3, <2>4, <2>5, <1>b
<1>3. ASSUME NEW u \in Accountant, Assign(r, u)
      PROVE  Safe'
  <2>1. /\ cases'[r] = [cases[r] EXCEPT !.team = @ \cup {u}]
        /\ insiders'[r] = insiders[r] \cup {u}
        /\ cases[r].state = "open"
    BY <1>3 DEF Assign, TypeOK
  <2>2. /\ cases'[r].owner = cases[r].owner
        /\ cases'[r].team = cases[r].team \cup {u}
        /\ cases'[r].state = "open"
    BY <2>1, <1>0 DEF Case
  <2>3. CaseOK(r)'
    BY <1>0, <2>1, <2>2 DEF CaseOK
  <2>4. \A q \in Request \ {r} : cases'[q] = cases[q] /\ insiders'[q] = insiders[q]
    BY <1>3 DEF Assign, TypeOK
  <2>5. rows' = rows /\ CasesOnly
    BY <1>3 DEF Assign
  <2> QED
    BY <2>1, <2>2, <2>3, <2>4, <2>5, <1>b
<1>4. ASSUME NEW u \in Accountant, Unassign(r, u)
      PROVE  Safe'
  <2>0. cases[r].state = "open"
    BY <1>0, <1>4 DEF Unassign, CaseOK, NoCase
  <2>1. /\ cases'[r] = [cases[r] EXCEPT !.team = @ \ {u}]
        /\ insiders' = insiders
    BY <1>4 DEF Unassign, TypeOK
  <2>2. /\ cases'[r].owner = cases[r].owner
        /\ cases'[r].team = cases[r].team \ {u}
        /\ cases'[r].state = cases[r].state
    BY <2>1, <1>0 DEF Case
  <2>3. CaseOK(r)'
    BY <1>0, <2>0, <2>1, <2>2 DEF CaseOK
  <2>4. \A q \in Request \ {r} : cases'[q] = cases[q] /\ insiders'[q] = insiders[q]
    BY <1>4 DEF Unassign, TypeOK
  <2>5. rows' = rows /\ CasesOnly
    BY <1>4 DEF Unassign
  <2> QED
    BY <2>0, <2>1, <2>2, <2>3, <2>4, <2>5, <1>b
<1>5. ASSUME DeleteRequest(r)
      PROVE  Safe'
  <2>1. /\ cases[r].state = "open"
        /\ cases'[r] = NoCase("deleted")
        /\ \A q \in Request \ {r} : cases'[q] = cases[q]
        /\ insiders' = insiders
        /\ CasesOnly
    BY <1>5 DEF DeleteRequest, TypeOK
  <2>2. ASSUME NEW f \in File
        PROVE  rows'[f] = IF rows[f].request = r THEN [rows[f] EXCEPT !.life = "cascaded"]
                                                 ELSE rows[f]
    BY <1>5 DEF DeleteRequest
  <2>3. ASSUME NEW f \in File, rows[f].request = r
        PROVE  /\ rows[f].life # "none"
               /\ rows'[f].life = "cascaded"
               /\ rows'[f].request = r
               /\ rows'[f].uploader = rows[f].uploader
               /\ rows'[f].visibility = rows[f].visibility
    <3>1. rows[f] \in [life : {"live", "archived", "cascaded"}, request : Request,
                       uploader : Person, visibility : Visibility]
      BY <1>a, <2>3, RowKinds
    <3>2. rows'[f] = [rows[f] EXCEPT !.life = "cascaded"]
      BY <2>2, <2>3
    <3>3. rows[f].life # "none"
      BY <3>1
    <3> QED
      BY <3>1, <3>2, <3>3, <2>3
  <2>4. CaseMoves(r)
    BY <2>1, <2>2, <2>3 DEF CaseMoves, RowStays
  <2>5. ASSUME NEW q \in Request PROVE CaseOK(q)'
    <3>1. CASE q = r
      BY <2>1, <3>1 DEF CaseOK, NoCase
    <3>2. CASE q # r
      BY <2>1, <3>2 DEF CaseOK, Safe
    <3> QED
      BY <3>1, <3>2
  <2>6. ASSUME NEW f \in File PROVE FileOK(f)'
    <3>1. FileOK(f) /\ rows[f] \in Row
      BY <1>a
    <3>2. CASE rows[f].request = r
      BY <2>1, <2>3, <3>1, <3>2 DEF FileOK, CasesOnly, NoCase
    <3>3. CASE rows[f].request # r
      <4>1. rows'[f] = rows[f]
        BY <2>2, <3>3
      <4>2. rows[f].life # "none" => cases'[rows[f].request] = cases[rows[f].request]
        BY <2>1, <3>1, <3>3, RowKinds
      <4> QED
        BY <2>1, <3>1, <4>1, <4>2 DEF FileOK, CasesOnly
    <3> QED
      BY <3>2, <3>3
  <2> QED
    BY <2>4, <2>5, <2>6, CaseSafeCalls DEF Safe
<1> QED
  BY <1>1, <1>2, <1>3, <1>4, <1>5 DEF CaseNext

-----------------------------------------------------------------------------
(* Uploads.                                                                *)

\* The other calls, when call c does something to the file f that only c (or
\* nobody) may count on.
LEMMA OthersUndisturbed ==
    ASSUME TypeOK, Safe, NEW c \in Call, NEW f \in File,
           calls' = [calls EXCEPT ![c] = calls'[c]],
           \A d \in Call \ {c} : Uploading(d) => calls[d].file # f,
           \A g \in File : /\ g # f \/ rows[f].life = "none" => rows'[g] = rows[g] \/ g = f
                           /\ rows[g].life # "none" => rows'[g] = rows[g]
                           /\ shown[g] \subseteq shown'[g],
           \A g \in File \ {f} : /\ rows'[g] = rows[g]
                                 /\ files'[g] = files[g]
                                 /\ g \in answered' => g \in answered
    PROVE  \A d \in Call \ {c} : CallOK(d)'
<1> SUFFICES ASSUME NEW d \in Call \ {c} PROVE CallOK(d)'
  OBVIOUS
<1>0. calls'[d] = calls[d] /\ CallOK(d)
  BY DEF TypeOK, Safe
<1>1. CASE Uploading(d)
  <2>1. calls[d].file \in File \ {f}
    BY <1>1, UploadingFile
  <2>2. Undisturbed(d)
    BY <1>0, <2>1 DEF Undisturbed
  <2> QED
    BY <1>0, <2>2, OtherCall
<1>2. CASE calls[d].at = "read"
  <2>1. calls[d].file \in File /\ rows[calls[d].file].life # "none"
    BY <1>0, <1>2, ReadingFile DEF CallOK
  <2>2. Undisturbed(d)
    BY <1>0, <1>2, <2>1 DEF Undisturbed, Uploading
  <2> QED
    BY <1>0, <2>2, OtherCall
<1>3. CASE ~ Uploading(d) /\ calls[d].at # "read"
  <2>1. Undisturbed(d)
    BY <1>0, <1>3 DEF Undisturbed, Uploading
  <2> QED
    BY <1>0, <2>1, OtherCall
<1> QED
  BY <1>1, <1>2, <1>3

\* Keys stay apart when call c stops uploading, keeps its file, or takes one
\* nobody uploads to.
LEMMA KeysStayApart ==
    ASSUME TypeOK, Safe, NEW c \in Call,
           calls' = [calls EXCEPT ![c] = calls'[c]],
           Uploading(c)' => \A d \in Call \ {c} :
                               Uploading(d) => calls[d].file # calls'[c].file
    PROVE  KeysApart'
<1> SUFFICES ASSUME NEW d \in Call, NEW e \in Call, d # e,
                    Uploading(d)', Uploading(e)'
             PROVE  calls'[d].file # calls'[e].file
  BY DEF KeysApart
<1>1. ASSUME NEW x \in Call, x # c PROVE calls'[x] = calls[x]
  BY <1>1 DEF TypeOK
<1>2. CASE d # c /\ e # c
  BY <1>1, <1>2 DEF Safe, KeysApart, Uploading
<1>3. CASE d = c
  BY <1>1, <1>3 DEF Uploading
<1>4. CASE e = c
  BY <1>1, <1>4 DEF Uploading
<1> QED
  BY <1>2, <1>3, <1>4

LEMMA StartSafe ==
    ASSUME TypeOK, Safe, NEW c \in Call, NEW p \in Person, NEW r \in Request,
           NEW v \in Visibility \cup {NONE}, NEW final \in BOOLEAN,
           NEW deliverable \in BOOLEAN, StartUpload(c, p, r, v, final, deliverable)
    PROVE  Safe'
<1>1. /\ calls' = [calls EXCEPT ![c] = calls'[c]]
      /\ calls'[c].at = "checked"
  BY DEF StartUpload, TypeOK
<1>2. UNCHANGED <<cases, rows, files, answered, insiders, shown, readers, told>>
  BY DEF StartUpload
<1>3. CallOK(c)'
  BY <1>1 DEF CallOK, Uploading
<1>4. ASSUME NEW d \in Call, d # c PROVE CallOK(d)'
  <2>1. calls'[d] = calls[d]
    BY <1>1, <1>4 DEF TypeOK
  <2> QED
    BY <1>2, <2>1, OtherCall DEF Undisturbed, Safe
<1>5. KeysApart'
  BY <1>1, KeysStayApart DEF Uploading
<1>6. ASSUME NEW f \in File PROVE FileOK(f)' /\ ReaderOK(f)'
  BY <1>2 DEF Safe, FileOK, ReaderOK, Admits
<1>7. ASSUME NEW q \in Request PROVE CaseOK(q)'
  BY <1>2 DEF Safe, CaseOK
<1> QED
  BY <1>3, <1>4, <1>5, <1>6, <1>7 DEF Safe

LEMMA SaveSafe ==
    ASSUME TypeOK, Safe, NEW c \in Call, NEW f \in File,
           SaveFile(c, f) \/ SaveBreaksOff(c, f)
    PROVE  Safe'
<1>1. /\ calls[c].at = "checked"
      /\ files[f] = "none"
      /\ files' = [files EXCEPT ![f] = "stored"]
      /\ UNCHANGED <<cases, rows, answered, insiders, shown, readers, told>>
      /\ calls' = [calls EXCEPT ![c] = calls'[c]]
      /\ calls'[c] \in {Idle, [calls[c] EXCEPT !.at = "saved", !.file = f]}
  BY DEF SaveFile, SaveBreaksOff, Finish, TypeOK
<1>2. /\ f \notin answered
      /\ rows[f] = NoRow
      /\ rows[f].life = "none"
  <2>1. FileOK(f) /\ rows[f] \in Row
    BY DEF Safe, TypeOK
  <2> QED
    BY <1>1, <2>1, RowKinds DEF FileOK
<1>3. ASSUME NEW d \in Call, Uploading(d) PROVE calls[d].file # f
  BY <1>1, <1>3 DEF Safe, CallOK
<1>4. CallOK(c)'
  <2>1. CASE calls'[c] = Idle
    BY <2>1 DEF CallOK, Uploading, Idle
  <2>2. CASE calls'[c] = [calls[c] EXCEPT !.at = "saved", !.file = f]
    <3>1. calls[c] \in [at : {"checked"}, by : Person, request : Request,
                 visibility : Visibility, deliverable : BOOLEAN, file : {NONE}]
      BY <1>1, CallKinds DEF TypeOK
    <3>2. /\ calls'[c].at = "saved"
          /\ calls'[c].file = f
      BY <2>2, <3>1
    <3>3. files'[f] = "stored" /\ rows'[f] = NoRow /\ f \notin answered'
      BY <1>1, <1>2 DEF TypeOK
    <3> QED
      BY <3>2, <3>3 DEF CallOK, Uploading
  <2> QED
    BY <1>1, <2>1, <2>2
<1>5. \A d \in Call \ {c} : CallOK(d)'
  BY <1>1, <1>3, OthersUndisturbed DEF TypeOK
<1>6. KeysApart'
  <2>1. Uploading(c)' => calls'[c].file = f
    <3>1. calls[c] \in [at : {"checked"}, by : Person, request : Request,
                 visibility : Visibility, deliverable : BOOLEAN, file : {NONE}]
      BY <1>1, CallKinds DEF TypeOK
    <3>2. [calls[c] EXCEPT !.at = "saved", !.file = f].file = f
      BY <3>1
    <3>3. CASE calls'[c] = Idle
      BY <3>3 DEF Uploading, Idle
    <3>4. CASE calls'[c] = [calls[c] EXCEPT !.at = "saved", !.file = f]
      BY <3>2, <3>4
    <3> QED
      BY <1>1, <3>3, <3>4
  <2> QED
    BY <1>1, <1>3, <2>1, KeysStayApart
<1>7. ASSUME NEW g \in File PROVE FileOK(g)' /\ ReaderOK(g)'
  BY <1>1, <1>2 DEF Safe, FileOK, ReaderOK, Admits, TypeOK
<1>8. ASSUME NEW q \in Request PROVE CaseOK(q)'
  BY <1>1 DEF Safe, CaseOK
<1> QED
  BY <1>4, <1>5, <1>6, <1>7, <1>8 DEF Safe

LEMMA InsertSafe ==
    ASSUME TypeOK, Safe, NEW c \in Call, Insert(c)
    PROVE  Safe'
<1>0. PICK f \in File : f = calls[c].file
  BY UploadingFile DEF Insert, Uploading
<1>1. /\ calls[c] \in [at : {"saved", "cleanup", "notify"}, by : Person, request : Request,
                 visibility : Visibility, deliverable : BOOLEAN, file : File]
      /\ calls[c].at = "saved"
  BY CallKinds DEF TypeOK, Insert
<1>2. /\ files[f] = "stored" /\ f \notin answered
      /\ rows[f] = NoRow /\ rows[f].life = "none" /\ readers[f] = {} /\ told[f] = {}
  <2>1. CallOK(c) /\ FileOK(f)
    BY DEF Safe
  <2>2. NoRow.life = "none"
    BY DEF NoRow
  <2> QED
    BY <1>0, <1>1, <2>1, <2>2 DEF CallOK, FileOK, Uploading
<1>3. UNCHANGED <<cases, files, answered, insiders, readers, told>>
  BY DEF Insert
<1>4. PICK s \in {"notify", "cleanup"} :
        /\ GoTo(c, s)
        /\ Inserted(c) \/ (UNCHANGED <<rows, shown>> /\ s = "cleanup")
  BY DEF Insert
<1>5. /\ calls' = [calls EXCEPT ![c] = calls'[c]]
      /\ calls'[c] = [calls[c] EXCEPT !.at = s]
  BY <1>4 DEF GoTo, TypeOK
<1>6. /\ calls'[c].at = s
      /\ calls'[c].file = f
      /\ calls'[c].request = calls[c].request
      /\ calls'[c].visibility = calls[c].visibility
  BY <1>0, <1>1, <1>5
<1>7. ASSUME NEW d \in Call \ {c}, Uploading(d) PROVE calls[d].file # f
  BY <1>0, <1>1, <1>7 DEF Safe, KeysApart, Uploading
<1>8. KeysApart'
  BY <1>5, <1>6, <1>7, KeysStayApart
<1>9. ASSUME NEW q \in Request PROVE CaseOK(q)'
  BY <1>3 DEF Safe, CaseOK
<1>10. CASE Inserted(c)
  <2>1. /\ cases[calls[c].request].state = "open"
        /\ rows' = [rows EXCEPT ![f] =
                  [life |-> "live", request |-> calls[c].request, uploader |-> calls[c].by,
                   visibility |-> calls[c].visibility]]
        /\ shown' = [shown EXCEPT ![f] = @ \cup {calls[c].visibility}]
    BY <1>0, <1>10 DEF Inserted
  <2>2. /\ rows'[f].life = "live"
        /\ rows'[f].request = calls[c].request
        /\ rows'[f].visibility = calls[c].visibility
        /\ calls[c].visibility \in shown'[f]
        /\ \A g \in File \ {f} : rows'[g] = rows[g]
        /\ \A g \in File : shown[g] \subseteq shown'[g]
    BY <2>1 DEF TypeOK
  <2>3. \A d \in Call \ {c} : CallOK(d)'
    BY <1>2, <1>3, <1>5, <1>7, <2>2, OthersUndisturbed
  <2>4. CallOK(c)'
    BY <1>2, <1>3, <1>6, <2>2 DEF CallOK, Uploading
  <2>5. ASSUME NEW g \in File PROVE FileOK(g)'
    <3>1. CASE g = f
      BY <1>2, <1>3, <2>1, <2>2, <3>1 DEF FileOK
    <3>2. CASE g # f
      BY <1>3, <2>2, <3>2 DEF FileOK, Safe
    <3> QED
      BY <3>1, <3>2
  <2>6. ASSUME NEW g \in File PROVE ReaderOK(g)'
    BY <1>2, <1>3, <2>2, SameReaders DEF Safe
  <2> QED
    BY <1>8, <1>9, <2>3, <2>4, <2>5, <2>6 DEF Safe
<1>11. CASE UNCHANGED <<rows, shown>> /\ s = "cleanup"
  <2>1. \A d \in Call \ {c} : CallOK(d)'
    BY <1>3, <1>5, <1>7, <1>11, OthersUndisturbed
  <2>2. CallOK(c)'
    BY <1>2, <1>3, <1>6, <1>11 DEF CallOK, Uploading
  <2>3. ASSUME NEW g \in File PROVE FileOK(g)' /\ ReaderOK(g)'
    BY <1>3, <1>11 DEF Safe, FileOK, ReaderOK, Admits
  <2> QED
    BY <1>8, <1>9, <2>1, <2>2, <2>3 DEF Safe
<1> QED
  BY <1>4, <1>10, <1>11

LEMMA CleanUpSafe ==
    ASSUME TypeOK, Safe, NEW c \in Call, CleanUp(c)
    PROVE  Safe'
<1>0. PICK f \in File : f = calls[c].file
  BY UploadingFile DEF CleanUp, Uploading
<1>1. f \notin answered /\ Uploading(c) /\ files[f] = "stored"
  BY <1>0 DEF CleanUp, Safe, CallOK, Uploading
<1>2. /\ UNCHANGED <<cases, rows, answered, insiders, shown, readers, told>>
      /\ calls' = [calls EXCEPT ![c] = Idle]
      /\ calls'[c] = Idle
      /\ calls' = [calls EXCEPT ![c] = calls'[c]]
  BY DEF CleanUp, Finish, TypeOK
<1>3. /\ \A g \in File \ {f} : files'[g] = files[g]
      /\ files'[f] # "none"
  BY <1>0, <1>1 DEF CleanUp, TypeOK
<1>4. ASSUME NEW d \in Call \ {c}, Uploading(d) PROVE calls[d].file # f
  BY <1>0, <1>1, <1>4 DEF Safe, KeysApart
<1>5. CallOK(c)' /\ ~ Uploading(c)'
  BY <1>2 DEF CallOK, Uploading, Idle
<1>6. \A d \in Call \ {c} : CallOK(d)'
  BY <1>2, <1>3, <1>4, OthersUndisturbed
<1>7. KeysApart'
  BY <1>2, <1>5, KeysStayApart
<1>8. ASSUME NEW g \in File PROVE FileOK(g)' /\ ReaderOK(g)'
  BY <1>1, <1>2, <1>3 DEF Safe, FileOK, ReaderOK, Admits
<1>9. ASSUME NEW q \in Request PROVE CaseOK(q)'
  BY <1>2 DEF Safe, CaseOK
<1> QED
  BY <1>5, <1>6, <1>7, <1>8, <1>9 DEF Safe

LEMMA AnswerSafe ==
    ASSUME TypeOK, Safe, NEW c \in Call, AnswerUpload(c)
    PROVE  Safe'
<1>0. PICK f \in File : f = calls[c].file
  BY UploadingFile DEF AnswerUpload, Uploading
<1>1. PICK r \in Request : r = calls[c].request
  BY UploadingFile DEF AnswerUpload, Uploading
<1>2. /\ Uploading(c) /\ files[f] = "stored"
      /\ rows[f].life # "none" /\ rows[f].request = r
  BY <1>0, <1>1 DEF AnswerUpload, Safe, CallOK, Uploading
<1>3. /\ UNCHANGED <<cases, rows, files, insiders, shown, readers>>
      /\ answered' = answered \cup {f}
      /\ calls'[c] = Idle
      /\ calls' = [calls EXCEPT ![c] = calls'[c]]
  BY <1>0 DEF AnswerUpload, Finish, TypeOK
<1>4. ASSUME NEW d \in Call \ {c}, Uploading(d) PROVE calls[d].file # f
  BY <1>0, <1>2, <1>4 DEF Safe, KeysApart
<1>5. CallOK(c)' /\ ~ Uploading(c)'
  BY <1>3 DEF CallOK, Uploading, Idle
<1>6. \A d \in Call \ {c} : CallOK(d)'
  BY <1>3, <1>4, OthersUndisturbed
<1>7. KeysApart'
  BY <1>3, <1>5, KeysStayApart
<1>8. /\ \A g \in File \ {f} : told'[g] = told[g]
      /\ told'[f] \subseteq told[f] \cup Told(c)
  BY <1>0 DEF AnswerUpload, TypeOK
<1>9. ASSUME NEW g \in File PROVE FileOK(g)'
  <2>1. CASE g = f
    BY <1>2, <1>3, <2>1 DEF Safe, FileOK
  <2>2. CASE g # f
    BY <1>3, <1>8, <2>2 DEF Safe, FileOK
  <2> QED
    BY <2>1, <2>2
<1>10. Told(c) \subseteq insiders[r]
  BY <1>1 DEF Told, Safe, CaseOK
<1>11. ASSUME NEW g \in File PROVE ReaderOK(g)'
  <2>0. ReaderOK(g)
    BY DEF Safe
  <2>1. CASE g = f
    <3>1. \A p \in told'[f] : p \in insiders[rows[f].request]
      BY <1>2, <1>8, <1>10, <2>0, <2>1 DEF ReaderOK
    <3> QED
      BY <1>3, <2>0, <2>1, <3>1 DEF ReaderOK, Admits
  <2>2. CASE g # f
    BY <1>3, <1>8, <2>0, <2>2, SameReaders
  <2> QED
    BY <2>1, <2>2
<1>12. ASSUME NEW q \in Request PROVE CaseOK(q)'
  BY <1>3 DEF Safe, CaseOK
<1> QED
  BY <1>5, <1>6, <1>7, <1>9, <1>11, <1>12 DEF Safe

-----------------------------------------------------------------------------
(* Readers and the admin.                                                  *)

\* A call that holds no file, or one it only reads, changes nothing for others.
LEMMA ReadSafe ==
    ASSUME TypeOK, Safe, NEW c \in Call, ReadNext(c)
    PROVE  Safe'
<1>1. ASSUME UNCHANGED <<cases, rows, files, answered, insiders, shown, told>>,
             calls' = [calls EXCEPT ![c] = calls'[c]],
             ~ Uploading(c)', CallOK(c)',
             \A f \in File : ReaderOK(f)' /\ (readers'[f] # {} => rows[f].life # "none")
      PROVE  Safe'
  <2>1. ASSUME NEW d \in Call, d # c PROVE CallOK(d)'
    <3>1. calls'[d] = calls[d]
      BY <1>1, <2>1 DEF TypeOK
    <3> QED
      BY <1>1, <3>1, OtherCall DEF Undisturbed, Safe
  <2>2. KeysApart'
    BY <1>1, KeysStayApart
  <2>3. ASSUME NEW f \in File PROVE FileOK(f)'
    BY <1>1 DEF Safe, FileOK
  <2>4. ASSUME NEW q \in Request PROVE CaseOK(q)'
    BY <1>1 DEF Safe, CaseOK
  <2> QED
    BY <1>1, <2>1, <2>2, <2>3, <2>4 DEF Safe
<1>2. \A f \in File : readers[f] # {} => rows[f].life # "none"
  BY DEF Safe, FileOK
<1>3. ASSUME NEW p \in Person, NEW f \in File, ReadRow(c, p, f)
      PROVE  Safe'
  <2>1. calls' = [calls EXCEPT ![c] = calls'[c]]
        /\ calls'[c] = [at |-> "read", by |-> p, file |-> f, row |-> rows[f]]
        /\ rows[f].life = "live"
        /\ UNCHANGED <<cases, rows, files, answered, insiders, shown, readers, told>>
    BY <1>3 DEF ReadRow, TypeOK
  <2>2. rows[f].visibility \in shown[f]
    BY <2>1 DEF Safe, FileOK
  <2>3. CallOK(c)' /\ ~ Uploading(c)'
    BY <2>1, <2>2 DEF CallOK, Uploading
  <2>4. \A g \in File : ReaderOK(g)'
    BY <2>1 DEF Safe, ReaderOK, Admits
  <2> QED
    BY <1>1, <1>2, <2>1, <2>3, <2>4
<1>4. ASSUME LetIn(c)
      PROVE  Safe'
  <2>0. PICK f \in File : f = calls[c].file
    BY <1>4, ReadingFile DEF LetIn
  <2>1. calls[c] \in [at : {"read", "open"}, by : Person, file : File, row : Row]
    BY <1>4, CallKinds DEF LetIn, TypeOK
  <2>2. /\ UNCHANGED <<cases, rows, files, answered, insiders, shown, told>>
        /\ calls' = [calls EXCEPT ![c] = calls'[c]]
        /\ calls'[c] = [calls[c] EXCEPT !.at = "open"]
    BY <1>4 DEF LetIn, GoTo, TypeOK
  <2>3. calls'[c].at = "open"
    BY <2>1, <2>2
  <2>4. CallOK(c)' /\ ~ Uploading(c)'
    BY <2>3 DEF CallOK, Uploading
  <2>5. PICK p \in Person : p = calls[c].by
    BY <2>1
  <2>6. PICK row \in Row : row = calls[c].row
    BY <2>1
  <2>7. /\ rows[f].life # "none"
        /\ row.request = rows[f].request
        /\ row.uploader = rows[f].uploader
        /\ row.visibility \in shown[f]
    BY <1>4, <2>0, <2>6 DEF LetIn, Safe, CallOK
  <2>8. \/ row.uploader = p
        \/ MayUse(p, row.request) /\ Admits(row.visibility, p)
    BY <1>4, <2>5, <2>6 DEF LetIn, Entitled
  <2>9. /\ \A g \in File \ {f} : readers'[g] = readers[g]
        /\ readers'[f] = IF p \in Admin THEN readers[f] ELSE readers[f] \cup {p}
    BY <1>4, <2>0, <2>5 DEF LetIn, ShowTo, TypeOK
  <2>10. rows[f].request \in Request
    BY <2>7, RowKinds DEF TypeOK
  <2>11. ASSUME p \notin Admin, rows[f].uploader # p
         PROVE  /\ p \in insiders[rows[f].request]
                /\ \E v \in shown[f] : Admits(v, p)
    <3>1. MayUse(p, rows[f].request) /\ Admits(row.visibility, p)
      BY <2>7, <2>8, <2>11
    <3>2. p = cases[rows[f].request].owner \/ p \in cases[rows[f].request].team
      BY <2>11, <3>1 DEF MayUse
    <3>3. p # NONE
      BY NoneIsNothing
    <3>4. CaseOK(rows[f].request)
      BY <2>10 DEF Safe
    <3> QED
      BY <2>7, <3>1, <3>2, <3>3, <3>4 DEF CaseOK
  <2>12. ASSUME NEW g \in File PROVE ReaderOK(g)'
    <3>0. ReaderOK(g)
      BY DEF Safe
    <3>1. CASE g = f
      <4> SUFFICES ASSUME NEW x \in readers'[f]
                   PROVE  \/ rows[f].uploader = x
                          \/ /\ x \in insiders[rows[f].request]
                             /\ \E v \in shown[f] : Admits(v, x)
        BY <2>2, <3>0, <3>1 DEF ReaderOK, Admits
      <4>1. CASE x \in readers[f]
        BY <3>0, <3>1, <4>1 DEF ReaderOK
      <4>2. CASE x = p /\ p \notin Admin
        BY <2>11, <4>2
      <4> QED
        BY <2>9, <4>1, <4>2
    <3>2. CASE g # f
      BY <2>2, <2>9, <3>0, <3>2, SameReaders
    <3> QED
      BY <3>1, <3>2
  <2>13. \A g \in File : readers'[g] # {} => rows[g].life # "none"
    BY <1>2, <2>7, <2>9
  <2> QED
    BY <1>1, <2>2, <2>4, <2>12, <2>13
<1>5. ASSUME Return(c)
      PROVE  Safe'
  <2>1. calls' = [calls EXCEPT ![c] = calls'[c]]
        /\ calls'[c] = Idle
        /\ UNCHANGED <<cases, rows, files, answered, insiders, shown, readers, told>>
    BY <1>5 DEF Return, Finish, TypeOK
  <2>2. CallOK(c)' /\ ~ Uploading(c)'
    BY <2>1 DEF CallOK, Uploading, Idle
  <2>3. \A g \in File : ReaderOK(g)'
    BY <2>1 DEF Safe, ReaderOK, Admits
  <2> QED
    BY <1>1, <1>2, <2>1, <2>2, <2>3
<1> QED
  BY <1>3, <1>4, <1>5 DEF ReadNext

LEMMA AdminSafe ==
    ASSUME TypeOK, Safe, NEW f \in File, AdminNext(f)
    PROVE  Safe'
<1>1. rows[f].life = "live"
      /\ UNCHANGED <<cases, files, calls, answered, insiders, readers, told>>
  BY DEF AdminNext, Delete, UpdateMetadata
<1>2. rows[f] \in [life : {"live", "archived", "cascaded"}, request : Request,
                   uploader : Person, visibility : Visibility]
  BY <1>1, RowKinds DEF TypeOK
<1>3. /\ rows'[f].life \in {"live", "archived"}
      /\ rows'[f].request = rows[f].request
      /\ rows'[f].uploader = rows[f].uploader
      /\ rows'[f].visibility \in shown'[f]
      /\ \A g \in File : shown[g] \subseteq shown'[g]
      /\ \A g \in File \ {f} : rows'[g] = rows[g] /\ shown'[g] = shown[g]
  <2>1. rows[f].visibility \in shown[f]
    BY <1>1 DEF Safe, FileOK
  <2>2. CASE Delete(f)
    BY <1>2, <2>1, <2>2 DEF Delete, TypeOK
  <2>3. CASE \E v \in Visibility : UpdateMetadata(f, v)
    <3>1. PICK v \in Visibility : UpdateMetadata(f, v)
      BY <2>3
    <3>2. rows'[f] = [rows[f] EXCEPT !.visibility = v]
          /\ shown' = [shown EXCEPT ![f] = @ \cup {v}]
          /\ \A g \in File \ {f} : rows'[g] = rows[g]
      BY <3>1 DEF UpdateMetadata, TypeOK
    <3> QED
      BY <1>1, <1>2, <3>2 DEF TypeOK
  <2> QED
    BY <2>2, <2>3 DEF AdminNext
<1>4. ASSUME NEW c \in Call PROVE CallOK(c)'
  <2>1. calls[c].at \in {"saved", "cleanup", "notify", "read"} => calls[c].file \in File
    BY UploadingFile, ReadingFile DEF Uploading
  <2>2. calls[c].at \in {"saved", "cleanup", "notify", "read"} =>
          LET g == calls[c].file IN rows'[g] = rows[g] \/ (rows[g].life # "none" /\ RowStays(g))
    BY <1>1, <1>3, <2>1 DEF RowStays
  <2>3. Undisturbed(c)
    BY <1>1, <1>3, <2>1, <2>2 DEF Undisturbed
  <2> QED
    BY <2>3, OtherCall DEF Safe
<1>5. KeysApart'
  BY <1>1 DEF Safe, KeysApart, Uploading
<1>6. ASSUME NEW g \in File PROVE FileOK(g)'
  <2>1. CASE g = f
    BY <1>1, <1>3, <2>1 DEF FileOK, Safe
  <2>2. CASE g # f
    BY <1>1, <1>3, <2>2 DEF FileOK, Safe
  <2> QED
    BY <2>1, <2>2
<1>7. ASSUME NEW g \in File PROVE ReaderOK(g)'
  <2>1. /\ rows'[g].uploader = rows[g].uploader
        /\ rows'[g].request = rows[g].request
    BY <1>3
  <2> QED
    BY <1>1, <1>3, <2>1, SameReaders DEF Safe
<1>8. ASSUME NEW q \in Request PROVE CaseOK(q)'
  BY <1>1 DEF Safe, CaseOK
<1> QED
  BY <1>4, <1>5, <1>6, <1>7, <1>8 DEF Safe

LEMMA NextSafe == ASSUME TypeOK, Safe, [Next]_vars PROVE Safe'
<1>1. CASE UNCHANGED vars
  BY <1>1 DEF vars, Safe, CallOK, KeysApart, Uploading, FileOK, ReaderOK, Admits, CaseOK
<1>2. ASSUME NEW c \in Call, UploadNext(c) PROVE Safe'
  BY <1>2, StartSafe, SaveSafe, InsertSafe, CleanUpSafe, AnswerSafe DEF UploadNext
<1> QED
  BY <1>1, <1>2, CaseSafe, ReadSafe, AdminSafe DEF Next

LEMMA Invariant == Spec => [](TypeOK /\ Safe)
<1>1. Init => TypeOK /\ Safe
  BY InitType, InitSafe
<1>2. TypeOK /\ Safe /\ [Next]_vars => (TypeOK /\ Safe)'
  BY NextType, NextSafe
<1> QED
  BY <1>1, <1>2, PTL DEF Spec

\* An upload that was answered with success keeps its file for ever, and its row
\* as long as its request.
THEOREM AnsweredStay == Spec => []AnsweredUploadsStay
<1>1. ASSUME TypeOK, Safe PROVE AnsweredUploadsStay
  <2> SUFFICES ASSUME NEW f \in answered
               PROVE  /\ files[f] = "stored"
                      /\ rows[f].life # "none"
                      /\ rows[f].life = "cascaded" <=> cases[rows[f].request].state = "deleted"
    BY DEF AnsweredUploadsStay
  <2>1. FileOK(f)
    BY <1>1 DEF Safe, TypeOK
  <2> QED
    BY <2>1 DEF FileOK
<1> QED
  BY <1>1, Invariant, PTL

\* No client or accountant is shown a document of a case they have never been on,
\* or one that has never been open to their role, and no client is told of one of
\* a case he has never been on.
THEOREM ReadersEntitled == Spec => []ReadersWereEntitled
<1>1. Safe => ReadersWereEntitled
  BY DEF Safe, ReaderOK, ReadersWereEntitled
<1> QED
  BY <1>1, Invariant, PTL

\* A document never changes its request or uploader, and an archived one never
\* changes.
THEOREM StayPut == Spec => DocumentsStayPut
<1> DEFINE Kept(f) == rows[f].life # "none" =>
          /\ rows'[f].life \in {rows[f].life, "archived", "cascaded"}
          /\ rows'[f].request = rows[f].request
          /\ rows'[f].uploader = rows[f].uploader
          /\ rows[f].life # "live" =>
                rows'[f] \in {rows[f], [rows[f] EXCEPT !.life = "cascaded"]}
<1>1. ASSUME TypeOK, Safe, [Next]_vars, NEW f \in File, rows[f].life # "none"
      PROVE  Kept(f)
  <2>0. rows[f] \in [life : {"live", "archived", "cascaded"}, request : Request,
                     uploader : Person, visibility : Visibility]
    BY <1>1, RowKinds DEF TypeOK
  <2>1. ASSUME rows'[f] = rows[f] PROVE Kept(f)
    BY <2>1
  <2>2. ASSUME NEW r \in Request, CaseNext(r) PROVE Kept(f)
    <3>1. rows'[f] \in {rows[f], [rows[f] EXCEPT !.life = "cascaded"]}
      BY <1>1, <2>2 DEF CaseNext, FileRequest, LinkRequest, Assign, Unassign,
                        DeleteRequest, TypeOK
    <3>2. ASSUME rows'[f] = [rows[f] EXCEPT !.life = "cascaded"] PROVE Kept(f)
      BY <2>0, <3>2
    <3> QED
      BY <2>1, <3>1, <3>2
  <2>3. ASSUME NEW c \in Call, UploadNext(c) PROVE Kept(f)
    <3>1. CASE Insert(c) /\ Inserted(c)
      <4>1. calls[c].at = "saved" /\ Uploading(c)
        BY <3>1 DEF Insert, Uploading
      <4>2. rows[calls[c].file] = NoRow
        BY <1>1, <4>1 DEF Safe, CallOK
      <4>3. calls[c].file # f
        BY <1>1, <4>2 DEF NoRow
      <4>4. rows'[f] = rows[f]
        BY <1>1, <3>1, <4>3 DEF Inserted, TypeOK
      <4> QED
        BY <2>1, <4>4
    <3>2. CASE ~ (Insert(c) /\ Inserted(c))
      <4>1. rows' = rows
        BY <2>3, <3>2 DEF UploadNext, StartUpload, SaveFile, SaveBreaksOff, Insert,
                          CleanUp, AnswerUpload
      <4> QED
        BY <2>1, <4>1
    <3> QED
      BY <3>1, <3>2
  <2>4. ASSUME NEW c \in Call, ReadNext(c) PROVE Kept(f)
    BY <2>1, <2>4 DEF ReadNext, ReadRow, LetIn, Return
  <2>5. ASSUME NEW g \in File, AdminNext(g) PROVE Kept(f)
    <3>1. CASE g # f
      BY <1>1, <2>1, <2>5, <3>1 DEF AdminNext, Delete, UpdateMetadata, TypeOK
    <3>2. CASE g = f /\ Delete(f)
      BY <1>1, <2>0, <3>2 DEF Delete, TypeOK
    <3>3. CASE g = f /\ \E v \in Visibility : UpdateMetadata(f, v)
      BY <1>1, <2>0, <3>3 DEF UpdateMetadata, TypeOK
    <3> QED
      BY <2>5, <3>1, <3>2, <3>3 DEF AdminNext
  <2>6. CASE UNCHANGED vars
    BY <2>1, <2>6 DEF vars
  <2> QED
    BY <1>1, <2>2, <2>3, <2>4, <2>5, <2>6 DEF Next
<1>2. TypeOK /\ Safe /\ [Next]_vars => [\A f \in File : Kept(f)]_vars
  BY <1>1
<1>3. Spec => [][\A f \in File : Kept(f)]_vars
  BY <1>2, Invariant, PTL DEF Spec
<1> QED
  BY <1>3 DEF DocumentsStayPut
=============================================================================
