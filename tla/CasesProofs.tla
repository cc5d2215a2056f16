---------------------------- MODULE CasesProofs -----------------------------
(***************************************************************************)
(* Proofs about the two parts of the API that keep who takes part in a     *)
(* case and what is said in it: the assignments table, for any number of   *)
(* requests, accountants, rows and concurrent calls, and the messages, for *)
(* any users, cases and bounds.                                            *)
(***************************************************************************)
EXTENDS Assignments, Conversations, FiniteSetTheorems, WellFoundedInduction, TLAPS

-----------------------------------------------------------------------------
(* Assignments: rows and steps. *)

\* A NoRow value is a row.
LEMMA NoRowIsRow ==
    ASSUME NEW life \in {"unused", "live", "deleted"}
    PROVE  NoRow(life) \in Row
  BY DEF NoRow, Row

\* A status write keeps the table a table.
LEMMA SetStatusIsRow ==
    ASSUME NEW row \in Row, NEW st \in AdminStatus
    PROVE  /\ SetStatus(row, st) \in Row
           /\ SetStatus(row, st).life = row.life
           /\ SetStatus(row, st).request = row.request
           /\ SetStatus(row, st).accountant = row.accountant
           /\ SetStatus(row, st).status = st
           /\ SetStatus(row, st).started
                 = (row.started \/ st \in {"accepted", "in_progress"})
           /\ SetStatus(row, st).completed = (st = "completed")
  BY DEF SetStatus, Row, AdminStatus, SchemaStatus

\* What a call in flight holds.
LEMMA HandlerInFlight ==
    ASSUME AssignmentsTypeOK, NEW c \in Handler
    PROVE  /\ handlers[c].kind \in {"notify", "update"} =>
                handlers[c].asg \in Assignment /\ handlers[c].by \in Assignee
           /\ handlers[c].kind = "update" => handlers[c].status \in AdminStatus
<1>1. handlers[c] \in HandlerState
  BY DEF AssignmentsTypeOK
<1>2. CASE handlers[c] = Idle
  BY <1>2 DEF Idle
<1>3. CASE handlers[c] # Idle
  BY <1>1, <1>3 DEF HandlerState, AccountantStatus, AdminStatus, SchemaStatus
<1> QED
  BY <1>2, <1>3

\* Every step is an admin's or an accountant's status write, another write
\* to one row, a request's deletion, or leaves the table alone.
Creation ==
    \E a \in Assignment, r \in liveRequests, u \in Assignee :
        /\ assignments[a].life = "unused"
        /\ IndexAdmits(a, r, "assigned")
        /\ assignments' = [assignments EXCEPT ![a] =
              [life |-> "live", request |-> r, accountant |-> u,
               status |-> "assigned", started |-> FALSE, completed |-> FALSE]]
        /\ UNCHANGED liveRequests

StatusChange ==
    /\ \E a \in Assignment, st \in AdminStatus :
          StatusAccepted(a, st) /\ StoreStatus(a, st)
    /\ UNCHANGED liveRequests

Reassignment ==
    /\ \E a \in Assignment, u \in Assignee :
          Live(a) /\ assignments' = [assignments EXCEPT ![a].accountant = u]
    /\ UNCHANGED liveRequests

Deletion ==
    /\ \E a \in Assignment :
          Live(a) /\ assignments' = [assignments EXCEPT ![a] = NoRow("deleted")]
    /\ UNCHANGED liveRequests

TableUnchanged ==
    /\ UNCHANGED assignments
    /\ liveRequests \subseteq liveRequests'

LEMMA TableSteps ==
    ASSUME AssignmentsTypeOK, [AssignmentsNext]_assignmentsVars
    PROVE  \/ Creation \/ StatusChange \/ Reassignment \/ Deletion
           \/ \E r \in Request : RequestDeleted(r)
           \/ TableUnchanged
<1>1. ASSUME NEW r \in Request, RequestFiled(r)
      PROVE  TableUnchanged
  BY <1>1 DEF RequestFiled, TableUnchanged
<1>2. ASSUME NEW a \in Assignment, AdminNext(a)
      PROVE  Creation \/ StatusChange \/ Reassignment \/ Deletion
  <2>1. ASSUME NEW c \in Handler, NEW r \in Request, NEW u \in Assignee,
               CreateAdmin(c, a, r, u)
        PROVE  Creation
    BY <2>1 DEF CreateAdmin, Creation
  <2>2. ASSUME NEW u \in Assignee, UpdateAdmin(a, u)
        PROVE  Reassignment
    BY <2>2 DEF UpdateAdmin, Reassignment
  <2>3. ASSUME NEW st \in AdminStatus, UpdateStatusAdmin(a, st)
        PROVE  StatusChange
    BY <2>3 DEF UpdateStatusAdmin, StatusChange
  <2>4. ASSUME DeleteAdmin(a)
        PROVE  Deletion
    BY <2>4 DEF DeleteAdmin, Deletion
  <2> QED
    BY <1>2, <2>1, <2>2, <2>3, <2>4 DEF AdminNext
<1>3. ASSUME NEW c \in Handler, HandlerNext(c)
      PROVE  StatusChange \/ TableUnchanged
  <2>1. CASE NotifyAccountant(c)
    BY <2>1 DEF NotifyAccountant, TableUnchanged
  <2>2. ASSUME NEW u \in Assignee, NEW a \in Assignment,
               NEW st \in AccountantStatus, CheckAssignee(c, u, a, st)
        PROVE  TableUnchanged
    BY <2>2 DEF CheckAssignee, TableUnchanged
  <2>3. CASE UpdateStatusAccountant(c)
    <3>1. /\ handlers[c].kind = "update"
          /\ UNCHANGED liveRequests
      BY <2>3 DEF UpdateStatusAccountant
    <3>2. handlers[c].asg \in Assignment /\ handlers[c].status \in AdminStatus
      BY <3>1, HandlerInFlight
    <3>3. CASE StatusAccepted(handlers[c].asg, handlers[c].status)
      BY <2>3, <3>1, <3>2, <3>3 DEF UpdateStatusAccountant, StatusChange
    <3>4. CASE ~ StatusAccepted(handlers[c].asg, handlers[c].status)
      BY <2>3, <3>1, <3>4 DEF UpdateStatusAccountant, TableUnchanged
    <3> QED
      BY <3>3, <3>4
  <2>4. CASE Abort(c)
    BY <2>4 DEF Abort, TableUnchanged
  <2> QED
    BY <1>3, <2>1, <2>2, <2>3, <2>4 DEF HandlerNext
<1>4. CASE UNCHANGED assignmentsVars
  BY <1>4 DEF assignmentsVars, TableUnchanged
<1> QED
  BY <1>1, <1>2, <1>3, <1>4 DEF AssignmentsNext

-----------------------------------------------------------------------------

\* How each kind of write changes one row.
LEMMA RowAfterReassignment ==
    ASSUME AssignmentsTypeOK, NEW a \in Assignment, NEW u \in Assignee,
           assignments' = [assignments EXCEPT ![a].accountant = u]
    PROVE  /\ assignments' \in [Assignment -> Row]
           /\ \A b \in Assignment \ {a} : assignments'[b] = assignments[b]
           /\ assignments'[a].life = assignments[a].life
           /\ assignments'[a].request = assignments[a].request
           /\ assignments'[a].status = assignments[a].status
           /\ assignments'[a].started = assignments[a].started
           /\ assignments'[a].completed = assignments[a].completed
  BY DEF AssignmentsTypeOK, Row

LEMMA RowAfterStatus ==
    ASSUME AssignmentsTypeOK, NEW a \in Assignment, NEW st \in AdminStatus, StoreStatus(a, st)
    PROVE  /\ assignments' \in [Assignment -> Row]
           /\ \A b \in Assignment \ {a} : assignments'[b] = assignments[b]
           /\ assignments'[a] = SetStatus(assignments[a], st)
<1>1. assignments[a] \in Row
  BY DEF AssignmentsTypeOK
<1>2. SetStatus(assignments[a], st) \in Row
  BY <1>1, SetStatusIsRow
<1>3. assignments' = [assignments EXCEPT ![a] = SetStatus(assignments[a], st)]
  BY DEF StoreStatus
<1> QED
  BY <1>2, <1>3 DEF AssignmentsTypeOK

LEMMA RowAfterCreation ==
    ASSUME AssignmentsTypeOK, NEW a \in Assignment, NEW r \in Request, NEW u \in Assignee,
           assignments' = [assignments EXCEPT ![a] =
              [life |-> "live", request |-> r, accountant |-> u,
               status |-> "assigned", started |-> FALSE, completed |-> FALSE]]
    PROVE  /\ assignments' \in [Assignment -> Row]
           /\ \A b \in Assignment \ {a} : assignments'[b] = assignments[b]
           /\ assignments'[a] =
                 [life |-> "live", request |-> r, accountant |-> u,
                  status |-> "assigned", started |-> FALSE, completed |-> FALSE]
  BY DEF AssignmentsTypeOK, Row, SchemaStatus

LEMMA RowAfterDeletion ==
    ASSUME AssignmentsTypeOK, NEW a \in Assignment,
           assignments' = [assignments EXCEPT ![a] = NoRow("deleted")]
    PROVE  /\ assignments' \in [Assignment -> Row]
           /\ \A b \in Assignment \ {a} : assignments'[b] = assignments[b]
           /\ assignments'[a] = NoRow("deleted")
  BY NoRowIsRow DEF AssignmentsTypeOK

LEMMA RowsAfterCascade ==
    ASSUME AssignmentsTypeOK, NEW r \in Request, RequestDeleted(r)
    PROVE  /\ assignments' \in [Assignment -> Row]
           /\ liveRequests' = liveRequests \ {r}
           /\ \A b \in Assignment :
                 \/ assignments'[b] = NoRow("deleted")
                 \/ assignments'[b] = assignments[b] /\ assignments[b].request # r
<1>1. ASSUME NEW b \in Assignment
      PROVE  /\ assignments'[b] = IF assignments[b].request = r
                                     THEN NoRow("deleted") ELSE assignments[b]
             /\ assignments'[b] \in Row
  BY NoRowIsRow DEF AssignmentsTypeOK, RequestDeleted
<1>2. assignments' \in [Assignment -> Row]
  BY <1>1 DEF RequestDeleted
<1> QED
  BY <1>1, <1>2 DEF RequestDeleted

\* The table keeps its type in every kind of step.
LEMMA TableTyped ==
    ASSUME AssignmentsTypeOK, [AssignmentsNext]_assignmentsVars
    PROVE  /\ assignments' \in [Assignment -> Row]
           /\ liveRequests' \subseteq Request
<1>1. CASE Creation
  BY <1>1, RowAfterCreation DEF Creation, AssignmentsTypeOK
<1>2. CASE StatusChange
  BY <1>2, RowAfterStatus DEF StatusChange, AssignmentsTypeOK
<1>3. CASE Reassignment
  BY <1>3, RowAfterReassignment DEF Reassignment, AssignmentsTypeOK
<1>4. CASE Deletion
  BY <1>4, RowAfterDeletion DEF Deletion, AssignmentsTypeOK
<1>5. ASSUME NEW r \in Request, RequestDeleted(r)
      PROVE  /\ assignments' \in [Assignment -> Row]
             /\ liveRequests' \subseteq Request
  BY <1>5, RowsAfterCascade DEF AssignmentsTypeOK
<1>6. CASE TableUnchanged
  <2>1. liveRequests' \subseteq Request
    BY DEF AssignmentsNext, assignmentsVars, AssignmentsTypeOK,
           RequestFiled, RequestDeleted, AdminNext, HandlerNext,
           CreateAdmin, UpdateAdmin, UpdateStatusAdmin, DeleteAdmin,
           NotifyAccountant, CheckAssignee, UpdateStatusAccountant, Abort
  <2> QED
    BY <1>6, <2>1 DEF TableUnchanged, AssignmentsTypeOK
<1> QED
  BY <1>1, <1>2, <1>3, <1>4, <1>5, <1>6, TableSteps

\* The state of the handlers in flight keeps its type.
LEMMA HandlersTyped ==
    ASSUME AssignmentsTypeOK, [AssignmentsNext]_assignmentsVars
    PROVE  /\ told' \in [Assignment -> Assignee \cup {NULL}]
           /\ handlers' \in [Handler -> HandlerState]
<1>1. ASSUME NEW r \in Request, RequestFiled(r) \/ RequestDeleted(r)
      PROVE  UNCHANGED <<told, handlers>>
  BY <1>1 DEF RequestFiled, RequestDeleted
<1>2. ASSUME NEW a \in Assignment, AdminNext(a)
      PROVE  UNCHANGED told /\ handlers' \in [Handler -> HandlerState]
  <2>1. ASSUME NEW c \in Handler, NEW r \in Request, NEW u \in Assignee,
               CreateAdmin(c, a, r, u)
        PROVE  UNCHANGED told /\ handlers' \in [Handler -> HandlerState]
    <3>1. [kind |-> "notify", asg |-> a, by |-> u, status |-> NULL] \in HandlerState
      BY DEF HandlerState
    <3> QED
      BY <2>1, <3>1 DEF CreateAdmin, AssignmentsTypeOK
  <2> QED
    BY <1>2, <2>1 DEF AdminNext, UpdateAdmin, UpdateStatusAdmin, DeleteAdmin, AssignmentsTypeOK
<1>3. ASSUME NEW c \in Handler, HandlerNext(c)
      PROVE  /\ told' \in [Assignment -> Assignee \cup {NULL}]
             /\ handlers' \in [Handler -> HandlerState]
  <2>0. Idle \in HandlerState
    BY DEF HandlerState
  <2>1. CASE NotifyAccountant(c)
    BY <2>0, <2>1, HandlerInFlight DEF NotifyAccountant, AssignmentsTypeOK
  <2>2. ASSUME NEW u \in Assignee, NEW a \in Assignment,
               NEW st \in AccountantStatus, CheckAssignee(c, u, a, st)
        PROVE  UNCHANGED told /\ handlers' \in [Handler -> HandlerState]
    <3>1. [kind |-> "update", asg |-> a, by |-> u, status |-> st] \in HandlerState
      BY DEF HandlerState
    <3> QED
      BY <2>2, <3>1 DEF CheckAssignee, AssignmentsTypeOK
  <2>3. CASE UpdateStatusAccountant(c)
    BY <2>0, <2>3 DEF UpdateStatusAccountant, AssignmentsTypeOK
  <2>4. CASE Abort(c)
    BY <2>0, <2>4 DEF Abort, AssignmentsTypeOK
  <2> QED
    BY <1>3, <2>1, <2>2, <2>3, <2>4 DEF HandlerNext, AssignmentsTypeOK
<1>4. CASE UNCHANGED assignmentsVars
  BY <1>4 DEF assignmentsVars, AssignmentsTypeOK
<1> QED
  BY <1>1, <1>2, <1>3, <1>4 DEF AssignmentsNext, AssignmentsTypeOK

\* Type correctness of the assignments model: every reachable table holds
\* rows, every call in flight holds what the code read for it.
THEOREM AssignmentsTypeCorrect == AssignmentsSpec => []AssignmentsTypeOK
<1>1. AssignmentsInit => AssignmentsTypeOK
  BY NoRowIsRow DEF AssignmentsInit, AssignmentsTypeOK, HandlerState
<1>2. AssignmentsTypeOK /\ [AssignmentsNext]_assignmentsVars => AssignmentsTypeOK'
  BY TableTyped, HandlersTyped DEF AssignmentsTypeOK
<1> QED
  BY <1>1, <1>2, PTL DEF AssignmentsSpec

-----------------------------------------------------------------------------

\* The three safety invariants, together: each row's timestamps and request,
\* and the index entries of each request.
Safe == OneActivePerRequest /\ NoDanglingAssignment /\ TimestampsMatchStatus

\* A write that only changes row a, which the index admits, keeps the index.
LEMMA IndexKept ==
    ASSUME AssignmentsTypeOK, OneActivePerRequest, NEW a \in Assignment,
           \A b \in Assignment \ {a} : assignments'[b] = assignments[b],
           \A r \in Request : Indexed(a, r)' =>
               \/ Indexed(a, r)
               \/ \A b \in Assignment \ {a} : ~ Indexed(b, r)
    PROVE  OneActivePerRequest'
<1> SUFFICES ASSUME NEW x \in Assignment, NEW y \in Assignment, NEW r \in Request,
                    Indexed(x, r)', Indexed(y, r)'
             PROVE  x = y
  BY DEF OneActivePerRequest
<1>1. \A b \in Assignment \ {a} : Indexed(b, r)' => Indexed(b, r)
  BY DEF Indexed, Live
<1> QED
  BY <1>1 DEF OneActivePerRequest

LEMMA CreationSafe ==
    ASSUME AssignmentsTypeOK, Safe, Creation
    PROVE  Safe'
<1> PICK a \in Assignment, r \in liveRequests, u \in Assignee :
        /\ assignments[a].life = "unused"
        /\ IndexAdmits(a, r, "assigned")
        /\ assignments' = [assignments EXCEPT ![a] =
              [life |-> "live", request |-> r, accountant |-> u,
               status |-> "assigned", started |-> FALSE, completed |-> FALSE]]
  BY DEF Creation
<1>0. r \in Request /\ UNCHANGED liveRequests
  BY DEF AssignmentsTypeOK, Creation
<1>1. /\ \A b \in Assignment \ {a} : assignments'[b] = assignments[b]
      /\ assignments'[a] =
            [life |-> "live", request |-> r, accountant |-> u,
             status |-> "assigned", started |-> FALSE, completed |-> FALSE]
  BY <1>0, RowAfterCreation
<1>2. OneActivePerRequest'
  <2>1. \A q \in Request : Indexed(a, q)' =>
            \A b \in Assignment \ {a} : ~ Indexed(b, q)
    BY <1>1 DEF Indexed, Live, IndexAdmits, ActiveStatus
  <2> QED
    BY <1>1, <2>1, IndexKept DEF Safe
<1>3. NoDanglingAssignment'
  BY <1>0, <1>1 DEF Safe, NoDanglingAssignment, Live
<1>4. TimestampsMatchStatus'
  BY <1>1 DEF Safe, TimestampsMatchStatus, Live
<1> QED
  BY <1>2, <1>3, <1>4 DEF Safe

LEMMA StatusChangeSafe ==
    ASSUME AssignmentsTypeOK, Safe, StatusChange
    PROVE  Safe'
<1> PICK a \in Assignment, st \in AdminStatus :
        StatusAccepted(a, st) /\ StoreStatus(a, st)
  BY DEF StatusChange
<1>0. assignments[a] \in Row /\ UNCHANGED liveRequests
  BY DEF AssignmentsTypeOK, StatusChange
<1>1. /\ \A b \in Assignment \ {a} : assignments'[b] = assignments[b]
      /\ assignments'[a] = SetStatus(assignments[a], st)
  BY RowAfterStatus
<1>2. /\ assignments'[a].life = assignments[a].life
      /\ assignments'[a].request = assignments[a].request
      /\ assignments'[a].status = st
      /\ assignments'[a].started
            = (assignments[a].started \/ st \in {"accepted", "in_progress"})
      /\ assignments'[a].completed = (st = "completed")
  BY <1>0, <1>1, SetStatusIsRow
<1>3. OneActivePerRequest'
  <2>1. \A q \in Request : Indexed(a, q)' =>
            \A b \in Assignment \ {a} : ~ Indexed(b, q)
    BY <1>2 DEF Indexed, Live, StatusAccepted, IndexAdmits
  <2> QED
    BY <1>1, <2>1, IndexKept DEF Safe
<1>4. NoDanglingAssignment'
  BY <1>0, <1>1, <1>2 DEF Safe, NoDanglingAssignment, Live
<1>5. TimestampsMatchStatus'
  BY <1>1, <1>2 DEF Safe, TimestampsMatchStatus, Live
<1> QED
  BY <1>3, <1>4, <1>5 DEF Safe

LEMMA ReassignmentSafe ==
    ASSUME AssignmentsTypeOK, Safe, Reassignment
    PROVE  Safe'
<1> PICK a \in Assignment, u \in Assignee :
        Live(a) /\ assignments' = [assignments EXCEPT ![a].accountant = u]
  BY DEF Reassignment
<1>0. UNCHANGED liveRequests
  BY DEF Reassignment
<1>1. /\ \A b \in Assignment \ {a} : assignments'[b] = assignments[b]
      /\ assignments'[a].life = assignments[a].life
      /\ assignments'[a].request = assignments[a].request
      /\ assignments'[a].status = assignments[a].status
      /\ assignments'[a].started = assignments[a].started
      /\ assignments'[a].completed = assignments[a].completed
  BY RowAfterReassignment
<1>2. OneActivePerRequest'
  <2>1. \A q \in Request : Indexed(a, q)' => Indexed(a, q)
    BY <1>1 DEF Indexed, Live
  <2> QED
    BY <1>1, <2>1, IndexKept DEF Safe
<1>3. NoDanglingAssignment'
  BY <1>0, <1>1 DEF Safe, NoDanglingAssignment, Live
<1>4. TimestampsMatchStatus'
  BY <1>1 DEF Safe, TimestampsMatchStatus, Live
<1> QED
  BY <1>2, <1>3, <1>4 DEF Safe

LEMMA DeletionSafe ==
    ASSUME AssignmentsTypeOK, Safe, Deletion
    PROVE  Safe'
<1> PICK a \in Assignment :
        Live(a) /\ assignments' = [assignments EXCEPT ![a] = NoRow("deleted")]
  BY DEF Deletion
<1>0. UNCHANGED liveRequests
  BY DEF Deletion
<1>1. /\ \A b \in Assignment \ {a} : assignments'[b] = assignments[b]
      /\ assignments'[a] = NoRow("deleted")
  BY RowAfterDeletion
<1>2. OneActivePerRequest'
  <2>1. \A q \in Request : Indexed(a, q)' => Indexed(a, q)
    BY <1>1 DEF Indexed, Live, NoRow
  <2> QED
    BY <1>1, <2>1, IndexKept DEF Safe
<1>3. NoDanglingAssignment' /\ TimestampsMatchStatus'
  BY <1>0, <1>1 DEF Safe, NoDanglingAssignment, TimestampsMatchStatus, Live, NoRow
<1> QED
  BY <1>2, <1>3 DEF Safe

LEMMA CascadeSafe ==
    ASSUME AssignmentsTypeOK, Safe, NEW r \in Request, RequestDeleted(r)
    PROVE  Safe'
<1>1. \A b \in Assignment : Live(b)' =>
          assignments'[b] = assignments[b] /\ assignments[b].request # r
  BY RowsAfterCascade DEF Live, NoRow
<1>2. liveRequests' = liveRequests \ {r}
  BY RowsAfterCascade
<1>3. OneActivePerRequest'
  BY <1>1 DEF Safe, OneActivePerRequest, Indexed, Live
<1>4. NoDanglingAssignment' /\ TimestampsMatchStatus'
  BY <1>1, <1>2 DEF Safe, NoDanglingAssignment, TimestampsMatchStatus, Live
<1> QED
  BY <1>3, <1>4 DEF Safe

LEMMA UnchangedSafe ==
    ASSUME Safe, TableUnchanged
    PROVE  Safe'
  BY DEF Safe, TableUnchanged, OneActivePerRequest, NoDanglingAssignment,
         TimestampsMatchStatus, Indexed, Live

LEMMA SafeInductive ==
    ASSUME AssignmentsTypeOK, Safe, [AssignmentsNext]_assignmentsVars
    PROVE  Safe'
  BY TableSteps, CreationSafe, StatusChangeSafe, ReassignmentSafe, DeletionSafe,
     CascadeSafe, UnchangedSafe

LEMMA AlwaysSafe == AssignmentsSpec => []Safe
<1>1. AssignmentsInit => Safe
  BY DEF AssignmentsInit, Safe, OneActivePerRequest, NoDanglingAssignment,
         TimestampsMatchStatus, Indexed, Live, NoRow
<1>2. AssignmentsTypeOK /\ Safe /\ [AssignmentsNext]_assignmentsVars => Safe'
  BY SafeInductive
<1> QED
  BY <1>1, <1>2, AssignmentsTypeCorrect, PTL DEF AssignmentsSpec

\* One active assignment per request: the partial unique index makes it an
\* invariant of every interleaving of admin and accountant calls.
THEOREM OneActive == AssignmentsSpec => []OneActivePerRequest
<1>1. Safe => OneActivePerRequest
  BY DEF Safe
<1> QED
  BY <1>1, AlwaysSafe, PTL

\* No live assignment outlives its service request (the cascade of the
\* foreign key together with its check on INSERT).
THEOREM NoDangling == AssignmentsSpec => []NoDanglingAssignment
<1>1. Safe => NoDanglingAssignment
  BY DEF Safe
<1> QED
  BY <1>1, AlwaysSafe, PTL

\* started_at and completed_at agree with the status in every reachable row.
THEOREM Timestamps == AssignmentsSpec => []TimestampsMatchStatus
<1>1. Safe => TimestampsMatchStatus
  BY DEF Safe
<1> QED
  BY <1>1, AlwaysSafe, PTL

\* No step clears a start time, moves a row to another request or revives a
\* deleted row.
THEOREM HistoryNeverRewritten == AssignmentsSpec => HistoryKept
<1>1. ASSUME AssignmentsTypeOK, [AssignmentsNext]_assignmentsVars, NEW a \in Assignment
      PROVE  /\ Live(a) /\ Live(a)' =>
                   /\ assignments[a].started => assignments'[a].started
                   /\ assignments'[a].request = assignments[a].request
             /\ assignments[a].life = "deleted" => assignments'[a].life = "deleted"
  <2>0. assignments[a] \in Row
    BY <1>1 DEF AssignmentsTypeOK
  <2>1. CASE Creation
    BY <1>1, <2>1, RowAfterCreation DEF Creation, AssignmentsTypeOK, Live
  <2>2. CASE StatusChange
    <3> PICK b \in Assignment, st \in AdminStatus :
            StatusAccepted(b, st) /\ StoreStatus(b, st)
      BY <2>2 DEF StatusChange
    <3>1. /\ \A x \in Assignment \ {b} : assignments'[x] = assignments[x]
          /\ assignments'[b] = SetStatus(assignments[b], st)
      BY <1>1, RowAfterStatus
    <3>2. CASE a = b
      <4>1. /\ assignments'[a].life = assignments[a].life
            /\ assignments'[a].request = assignments[a].request
            /\ assignments'[a].started
                  = (assignments[a].started \/ st \in {"accepted", "in_progress"})
        BY <2>0, <3>1, <3>2, SetStatusIsRow
      <4> QED
        BY <4>1
    <3>3. CASE a # b
      BY <3>1, <3>3
    <3> QED
      BY <3>2, <3>3
  <2>3. CASE Reassignment
    BY <1>1, <2>3, RowAfterReassignment DEF Reassignment, Live
  <2>4. CASE Deletion
    BY <1>1, <2>4, RowAfterDeletion DEF Deletion, Live, NoRow
  <2>5. ASSUME NEW r \in Request, RequestDeleted(r)
        PROVE  assignments'[a] = NoRow("deleted") \/ assignments'[a] = assignments[a]
    BY <1>1, <2>5, RowsAfterCascade
  <2>6. CASE TableUnchanged
    BY <2>6 DEF TableUnchanged, Live
  <2> QED
    BY <1>1, <2>1, <2>2, <2>3, <2>4, <2>5, <2>6, TableSteps DEF Live, NoRow
<1>2. AssignmentsTypeOK /\ [AssignmentsNext]_assignmentsVars =>
        [\A a \in Assignment :
          /\ Live(a) /\ Live(a)' =>
                /\ assignments[a].started => assignments'[a].started
                /\ assignments'[a].request = assignments[a].request
          /\ assignments[a].life = "deleted" => assignments'[a].life = "deleted"]_assignmentsVars
  BY <1>1
<1> QED
  BY <1>2, AssignmentsTypeCorrect, PTL DEF AssignmentsSpec, HistoryKept

-----------------------------------------------------------------------------
(* Messages: nobody is shown what was not for him, and what was chosen for a *)
(* message is what becomes of it.                                            *)

USE ConversationAssumption

-----------------------------------------------------------------------------
(* Messages: the invariant. *)

\* A message a window may show: it was sent from it, or given to its user by a list.
Seen(u, id) == messages[id].user = u \/ \E s \in acted : s.user = u /\ s.id = id

\* What a call may count on: mine is at least what the rights are now, it was established when
\* the check is behind, and a message a call names or has got is as it was then.
CallOK(q) ==
    /\ q \in Pending
    /\ q.kind \in {"send", "file"} => ApplyActorRules(q.user, q.vis) = q.vis
    /\ q.kind = "file" => q.case \in Case
    /\ Mine(q.user, q.case) => q.mine
    /\ q.stage \in {"list", "update"} => q.mine
    /\ q.kind = "mark" => q.id \in Id /\ messages[q.id].vis = q.vis
    /\ q.stage = "update" => q.kind = "mark" /\ Sees(q.user, q.vis)
    /\ q.stage = "answered" => q.id \in Id /\ messages[q.id].user = q.user
    /\ \A id \in q.got : Seen(q.user, id)

WindowOK(u, w) == w \in Window /\ \A id \in w.shown : Seen(u, id)
WindowsOK == window \in [User -> Window] /\ \A u \in User : WindowOK(u, window[u])

\* A document is open to those it was meant for, but an accountant's to no client.
FileMeant(f) ==
    \A u \in User : OpenTo(u, f.vis) <=> Sees(u, f.meant) /\ ~(f.user \in Accountant /\ u \in Client)

Rows ==
    /\ messages \in Seq(Message) /\ \A id \in Id : AsMeant(messages[id])
    /\ files \subseteq File /\ \A f \in files : FileMeant(f)
    /\ assigned \subseteq Accountant \X Case
    /\ acted \subseteq Acted /\ \A s \in acted : s.mine /\ Sees(s.user, messages[s.id].vis)

CallsOK == IsFiniteSet(calls) /\ \A q \in calls : CallOK(q)

Inv == Rows /\ CallsOK /\ WindowsOK /\ clicks \in 0..MaxClicks

LEMMA InvImplies == Inv => TypeOK /\ WithinSight /\ SentAsMeant
  BY DEF Inv, Rows, CallsOK, CallOK, WindowsOK, WindowOK, Seen, TypeOK, WithinSight, SentAsMeant,
         FileMeant

-----------------------------------------------------------------------------
(* Data. *)

LEMMA MessageTyped ==
    ASSUME Inv, NEW id \in Id
    PROVE  messages[id] \in Message
  BY DEF Inv, Rows, Id

LEMMA ClicksTyped ==
    ASSUME Inv, Clicks
    PROVE  clicks' \in 0..MaxClicks
  BY DEF Inv, Clicks, ConversationAssumption

\* There is a number that no call in flight has.
LEMMA NumberTyped ==
    ASSUME IsFiniteSet(calls)
    PROVE  Number \in Nat
<1> DEFINE k == Cardinality(calls)
           S == {q.no : q \in calls}
           f == [q \in calls |-> q.no]
<1>1. k \in Nat
  BY FS_CardinalityType
<1>2. IsFiniteSet(S) /\ Cardinality(S) <= k
  <2>1. f \in Surjection(calls, S)
    BY DEF Surjection
  <2> QED
    BY <2>1, FS_Surjection
<1>3. \E n \in 1..(k + 1) : \A q \in calls : q.no # n
  <2> SUFFICES ASSUME 1..(k + 1) \in SUBSET S
               PROVE  FALSE
    OBVIOUS
  <2>1. Cardinality(1..(k + 1)) <= Cardinality(S)
    BY <1>2, FS_Subset
  <2>2. Cardinality(1..(k + 1)) = k + 1
    BY <1>1, FS_Interval
  <2>3. Cardinality(S) \in Nat
    BY <1>2, FS_CardinalityType
  <2> QED
    BY <1>1, <1>2, <2>1, <2>2, <2>3
<1>4. Number \in 1..(k + 1)
  BY <1>3 DEF Number
<1> QED
  BY <1>1, <1>4

LEMMA RulesKept ==
    ASSUME NEW u \in User, NEW vis \in Visibility
    PROVE  /\ ApplyActorRules(u, vis) \in Visibility
           /\ ApplyActorRules(u, ApplyActorRules(u, vis)) = ApplyActorRules(u, vis)
           /\ ApplyActorRules(u, "conversation") = "conversation"
  BY DEF ApplyActorRules, Visibility, ConversationAssumption

\* A new call.
LEMMA CallTyped ==
    ASSUME Inv, NEW u \in User, NEW kind \in {"load", "send", "file", "mark"},
           NEW stage \in {"cases", "check", "upload"}, NEW c \in Case \cup {NONE}, NEW vis \in Visibility
    PROVE  /\ Call(u, kind, stage, c, vis) \in Pending
           /\ Call(u, kind, stage, c, vis).user = u /\ Call(u, kind, stage, c, vis).kind = kind
           /\ Call(u, kind, stage, c, vis).stage = stage /\ Call(u, kind, stage, c, vis).case = c
           /\ Call(u, kind, stage, c, vis).vis = vis /\ Call(u, kind, stage, c, vis).got = {}
           /\ Call(u, kind, stage, c, vis).mine = Mine(u, c)
           /\ Call(u, kind, stage, c, vis).thread = NONE
<1>1. Number \in Nat
  BY NumberTyped DEF Inv, CallsOK
<1>2. Mine(u, c) \in BOOLEAN
  BY Zenon DEF Mine
<1> QED
  BY <1>1, <1>2 DEF Call, Pending

LEMMA CallsAdd ==
    ASSUME CallsOK, NEW q
    PROVE  IsFiniteSet(calls \cup {q}) /\ \A r \in calls \cup {q} : r \in calls \/ r = q
  BY FS_AddElement DEF CallsOK

LEMMA CallsEnd ==
    ASSUME CallsOK, NEW q, Ends(q)
    PROVE  IsFiniteSet(calls') /\ \A r \in calls' : r \in calls
  BY FS_RemoveElement DEF CallsOK, Ends

LEMMA CallsBecome ==
    ASSUME CallsOK, NEW q, NEW next, Becomes(q, next)
    PROVE  IsFiniteSet(calls') /\ \A r \in calls' : r \in calls \/ r = next
<1>1. IsFiniteSet(calls \ {q})
  BY FS_RemoveElement DEF CallsOK
<1>2. IsFiniteSet((calls \ {q}) \cup {next})
  BY <1>1, FS_AddElement
<1> QED
  BY <1>2 DEF Becomes

-----------------------------------------------------------------------------
(* Steps that leave the tables alone. *)

SameRows == UNCHANGED <<messages, files, assigned, acted>>

LEMMA Quiet ==
    ASSUME Inv, SameRows, IsFiniteSet(calls'), \A q \in calls' : q \in calls \/ CallOK(q),
           window' \in [User -> Window], \A u \in User : WindowOK(u, window'[u]), clicks' \in 0..MaxClicks
    PROVE  Inv'
<1>1. Rows'
  BY DEF Inv, SameRows, Rows, Id, AsMeant, Acted
<1>2. CallsOK'
  <2> SUFFICES ASSUME NEW q \in calls' PROVE CallOK(q)'
    BY DEF CallsOK
  <2>1. CallOK(q)
    BY DEF Inv, CallsOK
  <2> QED
    BY <2>1 DEF CallOK, SameRows, Pending, Id, Seen, Mine
<1>3. WindowsOK'
  BY DEF WindowsOK, WindowOK, Window, Id, Seen, SameRows
<1> QED
  BY <1>1, <1>2, <1>3 DEF Inv

\* One window changes.
LEMMA WindowSet ==
    ASSUME WindowsOK, NEW u \in User, NEW w, WindowOK(u, w), Sets(u, w)
    PROVE  window' \in [User -> Window] /\ \A v \in User : WindowOK(v, window'[v])
  BY DEF WindowsOK, WindowOK, Sets

LEMMA WindowsStay ==
    ASSUME WindowsOK, UNCHANGED window
    PROVE  window' \in [User -> Window] /\ \A v \in User : WindowOK(v, window'[v])
  BY DEF WindowsOK, WindowOK

\* Somebody does something in his window; it may start a call.
LEMMA UserQuiet ==
    ASSUME Inv, SameRows, Clicks, NEW u \in User, NEW w, WindowOK(u, w), Sets(u, w),
           \/ UNCHANGED calls
           \/ \E q : CallOK(q) /\ calls' = calls \cup {q}
    PROVE  Inv'
<1>1. clicks' \in 0..MaxClicks
  BY ClicksTyped
<1>2. window' \in [User -> Window] /\ \A v \in User : WindowOK(v, window'[v])
  BY WindowSet DEF Inv
<1>3. IsFiniteSet(calls') /\ \A q \in calls' : q \in calls \/ CallOK(q)
  <2>1. CASE UNCHANGED calls
    BY <2>1 DEF Inv, CallsOK
  <2>2. ASSUME NEW q, CallOK(q), calls' = calls \cup {q}
        PROVE  IsFiniteSet(calls') /\ \A r \in calls' : r \in calls \/ CallOK(r)
    BY <2>2, CallsAdd DEF Inv
  <2> QED
    BY <2>1, <2>2
<1> QED
  BY <1>1, <1>2, <1>3, Quiet

LEMMA NewCallOK ==
    ASSUME Inv, NEW u \in User, NEW kind \in {"load", "send", "file"},
           NEW stage \in {"cases", "check", "upload"}, NEW c \in Case \cup {NONE}, NEW vis \in Visibility,
           ApplyActorRules(u, vis) = vis, kind = "file" => c \in Case
    PROVE  CallOK(Call(u, kind, stage, c, vis))
  BY CallTyped DEF CallOK

\* What a window holds, piece by piece.
LEMMA WindowParts ==
    ASSUME Inv, NEW u \in User
    PROVE  /\ window[u] \in Window /\ WindowOK(u, window[u])
           /\ \A vis \in Visibility : WindowOK(u, [window[u] EXCEPT !.vis = vis])
           /\ \A b \in BOOLEAN : /\ WindowOK(u, [window[u] EXCEPT !.loading = b])
                                  /\ WindowOK(u, [window[u] EXCEPT !.sending = b])
                                  /\ WindowOK(u, [window[u] EXCEPT !.uploading = b])
  BY DEF Inv, WindowsOK, WindowOK, Window

\* Another thread is opened.
LEMMA OpensOK ==
    ASSUME NEW u, NEW w, WindowOK(u, w), NEW th \in Case \cup {NONE, "direct"}
    PROVE  WindowOK(u, Opens(w, th))
<1>1. w \in Window
  BY DEF WindowOK
<1>2. Opens(w, th) \in Window /\ Opens(w, th).shown = w.shown
  BY <1>1 DEF Opens, Window
<1> QED
  BY <1>2 DEF WindowOK

LEMMA LoadCallOK ==
    ASSUME Inv, NEW u \in User, NEW th \in Case \cup {NONE, "direct"}
    PROVE  CallOK(LoadCall(u, th))
<1> DEFINE c == Call(u, "load", "cases", NONE, "conversation")
<1>1. c \in Pending /\ CallOK(c) /\ c.kind = "load" /\ c.stage = "cases"
  BY NewCallOK, CallTyped, RulesKept DEF Visibility
<1> HIDE DEF c
<1>2. CallOK([c EXCEPT !.thread = th])
  BY <1>1 DEF CallOK, Pending
<1> QED
  BY <1>2 DEF LoadCall, c

LEMMA OpenWindowStep ==
    ASSUME Inv, NEW u \in User, OpenWindow(u)
    PROVE  Inv'
<1>0. Start[u] \in Case \cup {NONE, "direct"}
  BY DEF ConversationAssumption
<1>1. WindowOK(u, Opened(u))
  <2>1. WindowOK(u, Closed)
    BY DEF WindowOK, Closed, Window, Visibility
  <2>2. WindowOK(u, Opens(Closed, Start[u]))
    BY <1>0, <2>1, OpensOK
  <2> QED
    BY <2>2 DEF Opened, WindowOK, Window
<1>2. CallOK(LoadCall(u, Start[u]))
  BY <1>0, LoadCallOK
<1> QED
  BY <1>1, <1>2, UserQuiet DEF OpenWindow, SameRows

LEMMA LoadAllStep ==
    ASSUME Inv, NEW u \in User, LoadAll(u)
    PROVE  Inv'
<1>1. CallOK(LoadCall(u, window[u].thread))
  BY LoadCallOK, WindowParts DEF Window
<1> QED
  BY <1>1, UserQuiet, WindowParts DEF LoadAll, SameRows

\* The threads a window offers.
LEMMA ThreadsTyped ==
    ASSUME Inv, NEW u \in User
    PROVE  Threads(u) \subseteq Case \cup {"direct"}
<1>1. \A id \in window[u].shown : messages[id].case \in Case \cup {NONE}
  BY MessageTyped DEF Inv, WindowsOK, Window, Message
<1>2. window[u].opened \in Case \cup {NONE}
  BY WindowParts DEF Window
<1> QED
  BY <1>1, <1>2 DEF Threads, ThreadOf, ConversationAssumption

LEMMA SelectThreadStep ==
    ASSUME Inv, NEW u \in User, SelectThread(u)
    PROVE  Inv'
<1>1. PICK th \in Threads(u) : Sets(u, Opens(window[u], th))
  BY DEF SelectThread
<1>2. WindowOK(u, Opens(window[u], th))
  BY ThreadsTyped, WindowParts, OpensOK
<1> QED
  BY <1>1, <1>2, UserQuiet DEF SelectThread, SameRows

LEMMA OpenByReferenceStep ==
    ASSUME Inv, NEW u \in User, OpenByReference(u)
    PROVE  Inv'
<1>1. PICK c \in window[u].cases : Sets(u, Opens(window[u], c))
  BY DEF OpenByReference
<1>2. WindowOK(u, Opens(window[u], c))
  <2>1. c \in Case /\ WindowOK(u, window[u])
    BY WindowParts DEF Window
  <2> QED
    BY <2>1, OpensOK
<1> QED
  BY <1>1, <1>2, UserQuiet DEF OpenByReference, SameRows

LEMMA SetVisibilityStep ==
    ASSUME Inv, NEW u \in User, SetVisibility(u)
    PROVE  Inv'
<1>1. PICK vis \in Visibility : Sets(u, [window[u] EXCEPT !.vis = vis])
  BY DEF SetVisibility, VisibilityOptions
<1>2. WindowOK(u, [window[u] EXCEPT !.vis = vis])
  BY WindowParts
<1> QED
  BY <1>1, <1>2, UserQuiet DEF SetVisibility, SameRows

\* What a window sends with.
LEMMA ChosenTyped ==
    ASSUME Inv, NEW u \in User, Composer(u)
    PROVE  /\ ThreadCase(u) \in Case \cup {NONE} /\ FinalVisibility(u) \in Visibility
           /\ ApplyActorRules(u, FinalVisibility(u)) = FinalVisibility(u)
<1>1. window[u].vis \in Visibility /\ window[u].thread \in Case \cup {"direct"}
  BY WindowParts, ThreadsTyped DEF Composer, Window
<1> QED
  BY <1>1, RulesKept DEF Composer, ThreadCase, FinalVisibility

LEMMA SendStep ==
    ASSUME Inv, NEW u \in User, Send(u)
    PROVE  Inv'
<1>1. CallOK(Call(u, "send", "check", ThreadCase(u), FinalVisibility(u)))
  BY ChosenTyped, NewCallOK DEF Send
<1> QED
  BY <1>1, WindowParts, UserQuiet DEF Send, SameRows

LEMMA FileUploadStep ==
    ASSUME Inv, NEW u \in User, FileUpload(u)
    PROVE  Inv'
<1>0. Composer(u)
  BY DEF FileUpload
<1>1. CallOK(Call(u, "file", "upload", ThreadCase(u), FinalVisibility(u)))
  BY <1>0, ChosenTyped, NewCallOK DEF FileUpload
<1> QED
  BY <1>1, WindowParts, UserQuiet DEF FileUpload, SameRows

LEMMA MarkReadStep ==
    ASSUME Inv, NEW u \in User, MarkRead(u)
    PROVE  Inv'
<1>1. PICK id \in Id :
        calls' = calls \cup {[Call(u, "mark", "check", messages[id].case, messages[id].vis) EXCEPT !.id = id]}
  BY DEF MarkRead
<1>2. messages[id].case \in Case \cup {NONE} /\ messages[id].vis \in Visibility
  BY MessageTyped DEF Message
<1> DEFINE c == Call(u, "mark", "check", messages[id].case, messages[id].vis)
<1>3. /\ c \in Pending /\ c.user = u /\ c.case = messages[id].case /\ c.vis = messages[id].vis
      /\ c.kind = "mark" /\ c.stage = "check" /\ c.got = {} /\ c.mine = Mine(u, messages[id].case)
  BY <1>2, CallTyped
<1> HIDE DEF c
<1>4. CallOK([c EXCEPT !.id = id])
  BY <1>3 DEF CallOK, Pending
<1>5. IsFiniteSet(calls') /\ \A q \in calls' : q \in calls \/ CallOK(q)
  BY <1>1, <1>4, CallsAdd DEF Inv, c
<1> QED
  BY <1>5, ClicksTyped, WindowsStay, Quiet DEF MarkRead, SameRows, Inv

\* A call goes on or ends.
LEMMA CallQuiet ==
    ASSUME Inv, SameRows, NEW q \in calls, UNCHANGED clicks,
           Ends(q) \/ \E next : CallOK(next) /\ Becomes(q, next),
           window' \in [User -> Window], \A u \in User : WindowOK(u, window'[u])
    PROVE  Inv'
<1>1. IsFiniteSet(calls') /\ \A r \in calls' : r \in calls \/ CallOK(r)
  <2>1. CASE Ends(q)
    BY <2>1, CallsEnd DEF Inv
  <2>2. ASSUME NEW next, CallOK(next), Becomes(q, next)
        PROVE  IsFiniteSet(calls') /\ \A r \in calls' : r \in calls \/ CallOK(r)
    BY <2>2, CallsBecome DEF Inv
  <2> QED
    BY <2>1, <2>2
<1> QED
  BY <1>1, Quiet DEF Inv

LEMMA MineTyped == \A u, c : Mine(u, c) \in BOOLEAN
  BY Zenon DEF Mine

LEMMA PendingCall ==
    ASSUME Inv, NEW q \in calls
    PROVE  CallOK(q) /\ q \in Pending /\ q.user \in User
  BY DEF Inv, CallsOK, CallOK, Pending

\* The next case a load asks for, or its end.
LEMMA AsksTyped ==
    ASSUME NEW q \in Pending, Mine(q.user, q.case) => q.mine, NEW next \in Asks(q)
    PROVE  /\ next \in Pending /\ next.kind = q.kind /\ next.user = q.user /\ next.got = q.got
           /\ next.stage \in {"deliver", "check"}
           /\ Mine(next.user, next.case) => next.mine
<1>1. CASE next = [q EXCEPT !.stage = "deliver"]
  BY <1>1 DEF Pending
<1>2. ASSUME NEW c \in q.todo,
             next = [q EXCEPT !.stage = "check", !.case = c, !.todo = q.todo \ {c}, !.mine = Mine(q.user, c)]
      PROVE  /\ next \in Pending /\ next.kind = q.kind /\ next.user = q.user /\ next.got = q.got
             /\ next.stage \in {"deliver", "check"}
             /\ Mine(next.user, next.case) => next.mine
  <2>1. Mine(q.user, c) \in BOOLEAN
    BY MineTyped
  <2> QED
    BY <1>2, <2>1 DEF Pending
<1> QED
  BY <1>1, <1>2 DEF Asks

LEMMA LoadCasesStep ==
    ASSUME Inv, NEW q \in calls, LoadCases(q)
    PROVE  Inv'
<1>0. CallOK(q) /\ q \in Pending /\ q.user \in User /\ q.kind = "load"
  BY PendingCall DEF LoadCases
<1>1. PICK cases \in CasesFor(q.user) :
         LET known == cases \cup ({Start[q.user]} \cap Case) IN
         \E next \in Asks([q EXCEPT !.cases = known, !.todo = IF q.user \in Admin THEN {NONE} ELSE known]) :
            Becomes(q, next)
  BY DEF LoadCases
<1> DEFINE known == cases \cup ({Start[q.user]} \cap Case)
           r == [q EXCEPT !.cases = known, !.todo = IF q.user \in Admin THEN {NONE} ELSE known]
<1>2. known \subseteq Case
  BY DEF CasesFor, ResolveAccountantRequests
<1>3. /\ r \in Pending /\ r.kind = "load" /\ r.user = q.user /\ r.case = q.case /\ r.mine = q.mine /\ r.got = q.got
  BY <1>0, <1>2 DEF Pending
<1>4. PICK next \in Asks(r) : Becomes(q, next)
  BY <1>1
<1> HIDE DEF r
<1>5. CallOK(next)
  <2>1. Mine(r.user, r.case) => r.mine
    BY <1>0, <1>3 DEF CallOK
  <2> QED
    BY <1>0, <1>3, <2>1, AsksTyped DEF CallOK
<1> QED
  BY <1>4, <1>5, CallQuiet, WindowsStay DEF LoadCases, SameRows, Inv

LEMMA LoadCheckedStep ==
    ASSUME Inv, NEW q \in calls, LoadChecked(q)
    PROVE  Inv'
<1>0. CallOK(q) /\ q \in Pending /\ q.kind = "load"
  BY PendingCall DEF LoadChecked
<1>1. \E next : CallOK(next) /\ Becomes(q, next)
  <2>1. CASE CanAccess(q.user, q.case, "conversation") /\ Becomes(q, [q EXCEPT !.stage = "list"])
    <3>1. CallOK([q EXCEPT !.stage = "list"])
      BY <1>0, <2>1 DEF CallOK, Pending, CanAccess
    <3> QED
      BY <2>1, <3>1
  <2>2. ASSUME NEW next \in Asks(q), Becomes(q, next)
        PROVE  CallOK(next)
    BY <1>0, AsksTyped DEF CallOK
  <2> QED
    BY <2>1, <2>2 DEF LoadChecked
<1> QED
  BY <1>1, CallQuiet, WindowsStay DEF LoadChecked, SameRows, Inv

\* A set of messages that is not empty has a newest one.
LEMMA NewestIn ==
    ASSUME NEW ids \in SUBSET Id, ids # {}, Len(messages) \in Nat
    PROVE  Newest(ids) \in ids
<1> DEFINE n == Len(messages)
           T == {n - id : id \in ids}
           R == OpToRel(<, Nat)
<1>1. T \subseteq Nat /\ T # {}
  <2>1. \A id \in ids : n - id \in Nat
    <3> SUFFICES ASSUME NEW id \in ids PROVE n - id \in Nat
      OBVIOUS
    <3>1. id \in 1..n /\ n \in Nat
      BY DEF Id
    <3> HIDE DEF n
    <3> QED
      BY <3>1
  <2>2. PICK id \in ids : TRUE
    OBVIOUS
  <2>3. n - id \in T
    OBVIOUS
  <2> QED
    BY <2>1, <2>3
<1>2. \A x, y \in Nat : y < x => <<y, x>> \in R
  BY DEF OpToRel
<1> HIDE DEF R
<1>3. PICK t \in T : \A y \in T : ~(<<y, t>> \in R)
  <2>1. IsWellFoundedOn(R, Nat)
    BY NatLessThanWellFounded DEF R
  <2> QED
    BY <1>1, <2>1, WFMin
<1>4. PICK id \in ids : t = n - id
  OBVIOUS
<1>5. \A o \in ids : o <= id
  <2> SUFFICES ASSUME NEW o \in ids, ~(o <= id) PROVE FALSE
    OBVIOUS
  <2>1. n - o \in T /\ n - o \in Nat /\ t \in Nat /\ n - o < t
    BY <1>4 DEF Id
  <2> QED
    BY <1>2, <1>3, <2>1
<1> QED
  BY <1>5 DEF Newest

\* What a window shows once its load has ended.
LEMMA LoadedOK ==
    ASSUME Inv, NEW q \in calls
    PROVE  WindowOK(q.user, Loaded(q))
<1> DEFINE u == q.user
           thread == IF q.thread = NONE /\ q.got # {} THEN ThreadOf(Newest(q.got)) ELSE window[u].thread
           w == [window[u] EXCEPT !.shown = q.got, !.cases = q.cases, !.loading = FALSE, !.thread = thread]
<1>0. CallOK(q) /\ q \in Pending /\ u \in User
  BY PendingCall
<1>1. thread \in Case \cup {NONE, "direct"}
  <2>1. window[u].thread \in Case \cup {NONE, "direct"}
    BY <1>0, WindowParts DEF Window
  <2>2. q.got # {} => Newest(q.got) \in q.got
    <3>1. Len(messages) \in Nat /\ q.got \in SUBSET Id
      BY <1>0 DEF Inv, Rows, Pending
    <3> QED
      BY <3>1, NewestIn
  <2>3. q.got # {} => ThreadOf(Newest(q.got)) \in Case \cup {NONE, "direct"}
    BY <1>0, <2>2, MessageTyped DEF Pending, Message, ThreadOf
  <2> QED
    BY <2>1, <2>3
<1>2. WindowOK(u, w)
  <2> HIDE DEF thread
  <2>1. window[u] \in Window /\ q.got \subseteq Id /\ q.cases \subseteq Case
    BY <1>0, WindowParts DEF Pending
  <2>2. w \in Window /\ w.shown = q.got
    BY <1>1, <2>1 DEF Window
  <2> QED
    BY <1>0, <2>2 DEF WindowOK, CallOK
<1> QED
  BY <1>2 DEF Loaded

LEMMA LoadDeliveredStep ==
    ASSUME Inv, NEW q \in calls, LoadDelivered(q)
    PROVE  Inv'
<1>0. q \in Pending /\ q.user \in User
  BY PendingCall
<1>1. PICK w : Sets(q.user, w) /\ WindowOK(q.user, w)
  <2>1. CASE Reference[q.user] \in q.cases
    <3>1. Reference[q.user] \in Case
      BY <1>0, <2>1 DEF Pending
    <3>2. WindowOK(q.user, Opens(Loaded(q), Reference[q.user]))
      BY <3>1, LoadedOK, OpensOK
    <3> QED
      BY <2>1, <3>2 DEF LoadDelivered
  <2>2. CASE Reference[q.user] \notin q.cases
    BY <2>2, LoadedOK DEF LoadDelivered
  <2> QED
    BY <2>1, <2>2
<1> QED
  BY <1>0, <1>1, CallQuiet, WindowSet DEF LoadDelivered, SameRows, Inv

LEMMA LoadFailsStep ==
    ASSUME Inv, NEW q \in calls, LoadFails(q)
    PROVE  Inv'
<1>1. q.user \in User /\ WindowOK(q.user, [window[q.user] EXCEPT !.loading = FALSE])
  BY PendingCall, WindowParts
<1> QED
  BY <1>1, CallQuiet, WindowSet DEF LoadFails, SameRows, Inv


\* A sending goes on: the call keeps what it is about.
LEMMA StageOK ==
    ASSUME Inv, NEW q \in calls, q.kind \in {"send", "file"}, NEW stage \in {"insert", "failed", "check"}
    PROVE  CallOK([q EXCEPT !.stage = stage])
<1>1. CallOK(q) /\ q \in Pending
  BY PendingCall
<1> QED
  BY <1>1 DEF CallOK, Pending

LEMMA CreateCheckedStep ==
    ASSUME Inv, NEW q \in calls, CreateChecked(q)
    PROVE  Inv'
  BY StageOK, CallQuiet, WindowsStay DEF CreateChecked, SameRows, Inv

LEMMA FailsStep ==
    ASSUME Inv, NEW q \in calls, Fails(q)
    PROVE  Inv'
  BY StageOK, CallQuiet, WindowsStay DEF Fails, SameRows, Inv

LEMMA SentStep ==
    ASSUME Inv, NEW q \in calls, Sent(q)
    PROVE  Inv'
<1> DEFINE u == q.user
           w == [window[u] EXCEPT !.shown = @ \cup {q.id}, !.sending = @ /\ q.kind # "send",
                                  !.uploading = @ /\ q.kind # "file"]
<1>0. CallOK(q) /\ u \in User /\ q.id \in Id /\ Seen(u, q.id)
  BY PendingCall DEF Sent, CallOK, Seen
<1>1. WindowOK(u, w)
  <2>1. window[u] \in Window /\ WindowOK(u, window[u])
    BY <1>0, WindowParts
  <2>2. w \in Window /\ w.shown = window[u].shown \cup {q.id}
    BY <1>0, <2>1 DEF Window
  <2> HIDE DEF w
  <2> QED
    BY <1>0, <2>1, <2>2 DEF WindowOK
<1>2. Sets(u, w) /\ Ends(q)
  BY DEF Sent
<1> QED
  BY <1>0, <1>1, <1>2, CallQuiet, WindowSet DEF Sent, SameRows, Inv

LEMMA NotSentStep ==
    ASSUME Inv, NEW q \in calls, NotSent(q)
    PROVE  Inv'
<1> DEFINE u == q.user
           w == [window[u] EXCEPT !.sending = @ /\ q.kind # "send", !.uploading = @ /\ q.kind # "file"]
<1>0. u \in User /\ window[u] \in Window /\ WindowOK(u, window[u])
  BY PendingCall, WindowParts
<1>1. WindowOK(u, w)
  <2>1. w \in Window /\ w.shown = window[u].shown
    BY <1>0 DEF Window
  <2> HIDE DEF w
  <2> QED
    BY <1>0, <2>1 DEF WindowOK
<1>2. Sets(u, w) /\ Ends(q)
  BY DEF NotSent
<1> QED
  BY <1>0, <1>1, <1>2, CallQuiet, WindowSet DEF NotSent, SameRows, Inv

LEMMA MarkCheckedStep ==
    ASSUME Inv, NEW q \in calls, MarkChecked(q)
    PROVE  Inv'
<1>0. CallOK(q) /\ q \in Pending /\ q.kind = "mark" /\ q.stage = "check"
  BY PendingCall DEF MarkChecked
<1>1. CanAccess(q.user, q.case, q.vis) => CallOK([q EXCEPT !.stage = "update"])
  BY <1>0 DEF CallOK, Pending, CanAccess
<1> QED
  BY <1>1, CallQuiet, WindowsStay DEF MarkChecked, SameRows, Inv

-----------------------------------------------------------------------------
(* Steps that write to the tables. *)

\* Rows are added, never taken out, and keep their sender and who may see them; so does the
\* history of what was given to whom.
Grown ==
    /\ messages' \in Seq(Message) /\ Len(messages) <= Len(messages')
    /\ \A id \in Id : messages'[id].vis = messages[id].vis /\ messages'[id].user = messages[id].user
    /\ acted \subseteq acted'

LEMMA IdsKept ==
    ASSUME Inv, Grown
    PROVE  Id \subseteq Id'
  BY DEF Inv, Rows, Grown, Id

LEMMA SeenKept ==
    ASSUME Grown, NEW u, NEW id \in Id, Seen(u, id)
    PROVE  Seen(u, id)'
  BY DEF Grown, Seen

LEMMA CallKept ==
    ASSUME Inv, Grown, NEW q, CallOK(q), Mine(q.user, q.case)' => q.mine
    PROVE  CallOK(q)'
<1>1. q \in Pending /\ q \in Pending'
  BY IdsKept DEF Pending, CallOK
<1>2. \A id \in q.got : Seen(q.user, id)'
  BY <1>1, SeenKept DEF CallOK, Pending
<1>3. q.kind = "mark" => q.id \in Id' /\ messages'[q.id].vis = q.vis
  BY IdsKept DEF CallOK, Grown
<1>4. q.stage = "answered" => q.id \in Id' /\ messages'[q.id].user = q.user
  BY IdsKept DEF CallOK, Grown
<1> QED
  BY <1>1, <1>2, <1>3, <1>4 DEF CallOK

LEMMA WindowsKept ==
    ASSUME Inv, Grown, UNCHANGED window
    PROVE  WindowsOK'
<1>1. \A u \in User : window[u] \in Window'
  BY IdsKept DEF Inv, WindowsOK, Window
<1>2. \A u \in User : \A id \in window[u].shown : Seen(u, id)'
  BY SeenKept DEF Inv, WindowsOK, WindowOK, Window
<1> QED
  BY <1>1, <1>2 DEF WindowsOK, WindowOK, Inv

LEMMA Grows ==
    ASSUME Inv, Grown, Rows', UNCHANGED <<assigned, window>>, clicks' \in 0..MaxClicks,
           IsFiniteSet(calls'), \A q \in calls' : q \in calls \/ CallOK(q)'
    PROVE  Inv'
<1>1. ASSUME NEW q \in calls, CallOK(q) PROVE CallOK(q)'
  <2>1. Mine(q.user, q.case)' => q.mine
    BY <1>1 DEF CallOK, Mine
  <2> QED
    BY <1>1, <2>1, CallKept
<1>2. CallsOK'
  <2> SUFFICES ASSUME NEW q \in calls' PROVE CallOK(q)'
    BY DEF CallsOK
  <2> QED
    BY <1>1 DEF Inv, CallsOK
<1> QED
  BY <1>2, WindowsKept DEF Inv


LEMMA UploadedStep ==
    ASSUME Inv, NEW q \in calls, Uploaded(q)
    PROVE  Inv'
<1> DEFINE next == [q EXCEPT !.stage = "check"]
           f == [user |-> q.user, case |-> q.case, vis |-> StoredVisibility(q.user, q.vis), meant |-> q.vis]
<1>0. CallOK(q) /\ q \in Pending /\ q.user \in User /\ q.kind = "file" /\ q.case \in Case
  BY PendingCall DEF Uploaded, CallOK
<1>1. f \in File /\ FileMeant(f)
  <2>1. q.vis \in Visibility /\ ApplyActorRules(q.user, q.vis) = q.vis
    BY <1>0 DEF Pending, CallOK
  <2>2. StoredVisibility(q.user, q.vis) \in {"client", "staff", "admin"}
    BY <1>0, <2>1 DEF StoredVisibility, DocumentVisibility, Visibility, ConversationAssumption
  <2>3. ASSUME NEW u \in User
        PROVE  OpenTo(u, StoredVisibility(q.user, q.vis))
                 <=> Sees(u, q.vis) /\ ~(q.user \in Accountant /\ u \in Client)
    BY <1>0, <2>1 DEF User, OpenTo, Sees, ApplyActorRules, StoredVisibility, DocumentVisibility,
                      Visibility, ConversationAssumption
  <2> QED
    BY <1>0, <2>1, <2>2, <2>3 DEF File, FileMeant
<1> HIDE DEF f
<1>2. Grown
  BY DEF Grown, Uploaded, Inv, Rows
<1>3. Rows'
  <2>1. files' = files \cup {f}
    BY DEF Uploaded, f
  <2>2. files' \subseteq File /\ \A g \in files' : FileMeant(g)
    BY <1>1, <2>1 DEF Inv, Rows
  <2> QED
    BY <2>2 DEF Inv, Rows, Uploaded, AsMeant, Id, Acted
<1>4. CallOK(next) /\ Becomes(q, next)
  BY <1>0, StageOK DEF Uploaded
<1> HIDE DEF next
<1>5. CallOK(next)'
  BY <1>2, <1>4, CallKept DEF Uploaded, CallOK, Mine
<1>6. IsFiniteSet(calls') /\ \A r \in calls' : r \in calls \/ CallOK(r)'
  BY <1>4, <1>5, CallsBecome DEF Inv
<1> QED
  BY <1>2, <1>3, <1>6, Grows DEF Uploaded, Inv

LEMMA LoadListedStep ==
    ASSUME Inv, NEW q \in calls, LoadListed(q)
    PROVE  Inv'
<1> DEFINE got == List(q.user, q.case)
           r == [q EXCEPT !.got = q.got \cup got]
           new == {[user |-> q.user, id |-> id, mine |-> q.mine] : id \in got}
<1>0. CallOK(q) /\ q \in Pending /\ q.user \in User /\ q.mine = TRUE /\ q.kind = "load"
  BY PendingCall DEF LoadListed, CallOK, Pending
<1>1. got \subseteq Id /\ \A id \in got : Sees(q.user, messages[id].vis)
  BY DEF List
<1>2. PICK next \in Asks(r) : Becomes(q, next)
  BY DEF LoadListed
<1>3. acted' = acted \cup new /\ UNCHANGED <<messages, files, assigned, window, clicks>>
  BY DEF LoadListed
<1> HIDE DEF got
<1>4. /\ r \in Pending /\ r.kind = "load" /\ r.user = q.user /\ r.case = q.case /\ r.mine = q.mine
      /\ r.got = q.got \cup got
  BY <1>0, <1>1 DEF Pending
<1> HIDE DEF r
<1>5. Grown
  BY <1>3 DEF Grown, Inv, Rows
<1>6. new \subseteq Acted /\ \A s \in new : s.mine /\ Sees(s.user, messages[s.id].vis)
  <2> SUFFICES ASSUME NEW id \in got
               PROVE  /\ [user |-> q.user, id |-> id, mine |-> q.mine] \in Acted
                      /\ q.mine /\ Sees(q.user, messages[id].vis)
    OBVIOUS
  <2>1. id \in Id /\ Sees(q.user, messages[id].vis)
    BY <1>1
  <2> QED
    BY <1>0, <2>1 DEF Acted
<1>7. Rows'
  <2>1. acted' \subseteq Acted /\ \A s \in acted' : s.mine /\ Sees(s.user, messages[s.id].vis)
    BY <1>3, <1>6 DEF Inv, Rows
  <2> QED
    BY <1>3, <2>1 DEF Inv, Rows, AsMeant, Id, Acted
<1>8. CallOK(next)'
  <2>1. /\ next \in Pending /\ next.kind = "load" /\ next.user = q.user /\ next.got = q.got \cup got
        /\ next.stage \in {"deliver", "check"}
        /\ Mine(next.user, next.case) => next.mine
    <3>1. Mine(r.user, r.case) => r.mine
      BY <1>0, <1>4
    <3> QED
      BY <1>2, <1>4, <3>1, AsksTyped
  <2>2. \A id \in got : Seen(q.user, id)'
    <3> SUFFICES ASSUME NEW id \in got PROVE Seen(q.user, id)'
      OBVIOUS
    <3>1. [user |-> q.user, id |-> id, mine |-> q.mine] \in acted'
      BY <1>3
    <3> QED
      BY <3>1 DEF Seen
  <2>3. \A id \in q.got : Seen(q.user, id)'
    BY <1>0, <1>5, SeenKept DEF CallOK, Pending
  <2>4. next \in Pending' /\ (Mine(next.user, next.case)' => next.mine)
    BY <1>3, <2>1 DEF Pending, Id, Mine
  <2> QED
    BY <2>1, <2>2, <2>3, <2>4 DEF CallOK
<1>9. IsFiniteSet(calls') /\ \A c \in calls' : c \in calls \/ CallOK(c)'
  BY <1>2, <1>8, CallsBecome DEF Inv
<1> QED
  BY <1>3, <1>5, <1>7, <1>9, Grows DEF Inv

LEMMA InsertedStep ==
    ASSUME Inv, NEW q \in calls, Inserted(q)
    PROVE  Inv'
<1>n. PICK n : n = Len(messages) + 1
  OBVIOUS
<1> DEFINE m == [case |-> q.case, user |-> q.user, vis |-> q.vis, read |-> FALSE, gone |-> FALSE,
                 meant |-> [case |-> q.case, vis |-> q.vis]]
<1>0. /\ CallOK(q) /\ q \in Pending /\ q.user \in User /\ q.kind \in {"send", "file"}
      /\ ApplyActorRules(q.user, q.vis) = q.vis
  BY PendingCall DEF Inserted, CallOK
<1>1. m \in Message /\ AsMeant(m)
  BY <1>0 DEF Message, AsMeant, Pending
<1>2. messages' = Append(messages, m) /\ UNCHANGED <<files, assigned, window, acted, clicks>>
  BY <1>0 DEF Inserted, Payload
<1>3. PICK stage \in {"answered", "failed"} : Becomes(q, [q EXCEPT !.stage = stage, !.id = n])
  BY <1>n DEF Inserted
<1> DEFINE next == [q EXCEPT !.stage = stage, !.id = n]
<1> HIDE DEF m
<1>4. /\ messages \in Seq(Message) /\ messages' \in Seq(Message) /\ Len(messages') = n /\ n \in Nat
      /\ messages'[n] = m /\ \A id \in Id : messages'[id] = messages[id]
  BY <1>n, <1>1, <1>2 DEF Inv, Rows, Id
<1>5. Grown /\ Id' = Id \cup {n}
  BY <1>n, <1>2, <1>4 DEF Grown, Id
<1>6. Rows'
  <2>1. \A id \in Id' : AsMeant(messages'[id])
    BY <1>1, <1>4, <1>5 DEF Inv, Rows
  <2>2. \A s \in acted : s \in Acted' /\ s.mine /\ Sees(s.user, messages'[s.id].vis)
    BY <1>4, <1>5 DEF Inv, Rows, Acted
  <2> QED
    BY <1>2, <1>4, <2>1, <2>2 DEF Inv, Rows, AsMeant
<1>7. CallOK(next)'
  <2>1. q \in Pending' /\ n \in Id'
    BY <1>0, <1>5, IdsKept DEF Pending
  <2>2. /\ next \in Pending' /\ next.kind = q.kind /\ next.user = q.user /\ next.got = q.got /\ next.case = q.case
        /\ next.mine = q.mine /\ next.stage = stage /\ next.id = n /\ next.vis = q.vis
    BY <2>1 DEF Pending
  <2>3. \A id \in q.got : Seen(q.user, id)'
    BY <1>0, <1>5, SeenKept DEF CallOK, Pending
  <2>4. Mine(q.user, q.case)' => q.mine
    BY <1>0, <1>2 DEF CallOK, Mine
  <2>5. messages'[n].user = q.user
    BY <1>4 DEF m
  <2> HIDE DEF next
  <2> QED
    BY <1>0, <2>1, <2>2, <2>3, <2>4, <2>5 DEF CallOK
<1>8. IsFiniteSet(calls') /\ \A c \in calls' : c \in calls \/ CallOK(c)'
  <2> HIDE DEF next
  <2>1. Becomes(q, next)
    BY <1>3 DEF next
  <2> QED
    BY <2>1, <1>7, CallsBecome DEF Inv
<1> QED
  BY <1>2, <1>5, <1>6, <1>8, Grows DEF Inv


\* A row is changed, not its sender, nor its case, nor who may see it.
LEMMA RowChanged ==
    ASSUME Inv, NEW id \in Id, NEW m \in Message,
           m.case = messages[id].case, m.vis = messages[id].vis, m.user = messages[id].user,
           m.meant = messages[id].meant, messages' = [messages EXCEPT ![id] = m],
           UNCHANGED <<files, assigned>>, acted \subseteq acted', acted' \subseteq Acted,
           \A s \in acted' : s.mine /\ Sees(s.user, messages[s.id].vis)
    PROVE  Grown /\ Rows'
<1>1. messages \in Seq(Message) /\ messages' \in Seq(Message) /\ Len(messages') = Len(messages)
  BY DEF Inv, Rows, Id
<1>2. \A i \in Id : messages'[i] = IF i = id THEN m ELSE messages[i]
  BY <1>1 DEF Id
<1>3. Id' = Id
  BY <1>1 DEF Id
<1>4. Grown
  BY <1>1, <1>2 DEF Grown, Inv, Rows
<1>5. \A i \in Id' : AsMeant(messages'[i])
  BY <1>2, <1>3 DEF Inv, Rows, AsMeant
<1>6. acted' \subseteq Acted' /\ \A s \in acted' : s.mine /\ Sees(s.user, messages'[s.id].vis)
  BY <1>2, <1>3 DEF Acted
<1> QED
  BY <1>1, <1>4, <1>5, <1>6 DEF Inv, Rows, AsMeant

LEMMA MarkedStep ==
    ASSUME Inv, NEW q \in calls, Marked(q)
    PROVE  Inv'
<1> DEFINE m == [messages[q.id] EXCEPT !.read = TRUE]
           s == [user |-> q.user, id |-> q.id, mine |-> q.mine]
<1>0. /\ CallOK(q) /\ q.user \in User /\ q.mine = TRUE /\ q.id \in Id
      /\ messages[q.id].vis = q.vis /\ Sees(q.user, q.vis)
  BY PendingCall DEF Marked, CallOK, Pending
<1>1. IsFiniteSet(calls') /\ \A r \in calls' : r \in calls
  BY CallsEnd DEF Marked, Inv
<1>2. CASE UNCHANGED <<messages, acted>>
  BY <1>1, <1>2, Quiet, WindowsStay DEF Marked, SameRows, Inv
<1>3. CASE messages' = [messages EXCEPT ![q.id].read = TRUE] /\ acted' = acted \cup {s}
  <2>1. messages[q.id] \in Message
    BY <1>0, MessageTyped
  <2>2. /\ m \in Message /\ m.case = messages[q.id].case /\ m.vis = messages[q.id].vis
        /\ m.user = messages[q.id].user /\ m.meant = messages[q.id].meant
    BY <2>1 DEF Message
  <2>3. messages' = [messages EXCEPT ![q.id] = m]
    BY <1>3, Zenon
  <2>4. s \in Acted /\ s.mine /\ Sees(s.user, messages[s.id].vis)
    BY <1>0 DEF Acted
  <2> HIDE DEF m, s
  <2>5. acted' \subseteq Acted /\ \A r \in acted' : r.mine /\ Sees(r.user, messages[r.id].vis)
    BY <1>3, <2>4 DEF Inv, Rows
  <2>6. Grown /\ Rows'
    BY <1>0, <1>3, <2>2, <2>3, <2>5, RowChanged DEF Marked
  <2> QED
    BY <1>1, <2>6, Grows DEF Marked, Inv
<1> QED
  BY <1>2, <1>3 DEF Marked

LEMMA DeleteMessageStep ==
    ASSUME Inv, DeleteMessage
    PROVE  Inv'
<1>1. PICK id \in Id : messages' = [messages EXCEPT ![id].gone = TRUE]
  BY DEF DeleteMessage
<1> DEFINE m == [messages[id] EXCEPT !.gone = TRUE]
<1>2. /\ m \in Message /\ m.case = messages[id].case /\ m.vis = messages[id].vis
      /\ m.user = messages[id].user /\ m.meant = messages[id].meant
  BY MessageTyped DEF Message
<1>3. messages' = [messages EXCEPT ![id] = m]
  BY <1>1, Zenon
<1> HIDE DEF m
<1>4. Grown /\ Rows'
  BY <1>2, <1>3, RowChanged DEF DeleteMessage, Inv, Rows
<1> QED
  BY <1>4, Grows, ClicksTyped DEF DeleteMessage, Inv, CallsOK

\* Who is on a case changes; a call for it that runs gets to know.
LEMMA ReassignStep ==
    ASSUME Inv, Reassign
    PROVE  Inv'
<1>1. PICK a \in Accountant, c \in Case :
         IF <<a, c>> \in assigned THEN assigned' = assigned \ {<<a, c>>} /\ UNCHANGED calls
         ELSE /\ assigned' = assigned \cup {<<a, c>>}
              /\ calls' = {IF q.user = a /\ q.case = c THEN [q EXCEPT !.mine = TRUE] ELSE q : q \in calls}
  BY DEF Reassign
<1>2. Grown
  BY DEF Reassign, Grown, Inv, Rows
<1>3. assigned' \subseteq Accountant \X Case
  BY <1>1 DEF Inv, Rows
<1>4. Rows'
  BY <1>3 DEF Reassign, Inv, Rows, AsMeant, Id, Acted
<1>5. ASSUME NEW q \in calls, Mine(q.user, q.case)' => Mine(q.user, q.case)
      PROVE  CallOK(q)'
  BY <1>2, <1>5, CallKept, PendingCall DEF CallOK
<1>6. CallsOK'
  <2>1. CASE assigned' = assigned \ {<<a, c>>} /\ UNCHANGED calls
    <3>1. \A q \in calls : Mine(q.user, q.case)' => Mine(q.user, q.case)
      BY <2>1 DEF Mine
    <3> QED
      BY <1>5, <2>1, <3>1 DEF Inv, CallsOK
  <2>2. CASE assigned' = assigned \cup {<<a, c>>}
             /\ calls' = {IF q.user = a /\ q.case = c THEN [q EXCEPT !.mine = TRUE] ELSE q : q \in calls}
    <3> DEFINE F(q) == IF q.user = a /\ q.case = c THEN [q EXCEPT !.mine = TRUE] ELSE q
               g == [q \in calls |-> F(q)]
    <3>1. IsFiniteSet(calls')
      <4>1. g \in Surjection(calls, calls')
        BY <2>2 DEF Surjection
      <4> QED
        BY <4>1, FS_Surjection DEF Inv, CallsOK
    <3>2. ASSUME NEW q \in calls
          PROVE  CallOK(F(q))'
      <4>1. CASE q.user = a /\ q.case = c
        <5>1. CallOK(q) /\ q \in Pending
          BY PendingCall
        <5> DEFINE r == [q EXCEPT !.mine = TRUE]
        <5>2. r \in Pending
          BY <5>1 DEF Pending
        <5>3. /\ r.user = q.user /\ r.kind = q.kind /\ r.stage = q.stage
              /\ r.case = q.case /\ r.vis = q.vis /\ r.id = q.id
              /\ r.thread = q.thread /\ r.todo = q.todo
              /\ r.cases = q.cases /\ r.got = q.got
              /\ r.mine = TRUE
          BY <5>1 DEF Pending
        <5> HIDE DEF r
        <5>4. CallOK(r)
          BY <5>1, <5>2, <5>3 DEF CallOK
        <5>5. CallOK(r)'
          BY <1>2, <5>3, <5>4, CallKept
        <5> QED
          BY <4>1, <5>5 DEF r
      <4>2. CASE ~(q.user = a /\ q.case = c)
        <5>1. Mine(q.user, q.case)' => Mine(q.user, q.case)
          BY <2>2, <4>2 DEF Mine
        <5>2. CallOK(q)'
          BY <1>5, <5>1
        <5> QED
          BY <4>2, <5>2
      <4> QED
        BY <4>1, <4>2
    <3>3. \A r \in calls' : \E q \in calls : r = F(q)
      BY <2>2
    <3> QED
      BY <3>1, <3>2, <3>3 DEF CallsOK
  <2> QED
    BY <1>1, <2>1, <2>2
<1>7. WindowsOK'
  BY <1>2, WindowsKept DEF Reassign
<1> QED
  BY <1>4, <1>6, <1>7, ClicksTyped DEF Reassign, Inv

-----------------------------------------------------------------------------
(* The theorems. *)

LEMMA InitInv == Init => Inv
<1> SUFFICES ASSUME Init PROVE Inv
  OBVIOUS
<1>1. Rows
  BY EarlierAssumption DEF Init, Rows, Id
<1>2. CallsOK
  BY FS_EmptySet DEF Init, CallsOK
<1>3. WindowsOK
  BY DEF Init, WindowsOK, WindowOK, Window, Closed, Visibility
<1> QED
  BY <1>1, <1>2, <1>3 DEF Init, Inv

LEMMA StutterKept ==
    ASSUME Inv, UNCHANGED vars
    PROVE  Inv'
  BY Quiet, WindowsStay DEF vars, SameRows, Inv, CallsOK

LEMMA NextStep == Inv /\ [Next]_vars => Inv'
<1> SUFFICES ASSUME Inv, [Next]_vars PROVE Inv'
  OBVIOUS
<1>1. ASSUME NEW u \in User, Proceeds(u)
      PROVE  Inv'
  <2>1. PICK q \in calls : Loads(q) \/ Creates(q) \/ Marks(q)
    BY <1>1 DEF Proceeds
  <2>2. CASE Loads(q)
    BY <2>2, LoadCasesStep, LoadCheckedStep, LoadListedStep, LoadDeliveredStep, LoadFailsStep DEF Loads
  <2>3. CASE Creates(q)
    BY <2>3, UploadedStep, CreateCheckedStep, InsertedStep, FailsStep, SentStep, NotSentStep DEF Creates
  <2>4. CASE Marks(q)
    BY <2>4, MarkCheckedStep, MarkedStep DEF Marks
  <2> QED
    BY <2>1, <2>2, <2>3, <2>4
<1>2. ASSUME NEW u \in User,
             \/ OpenWindow(u) \/ LoadAll(u) \/ SelectThread(u) \/ OpenByReference(u) \/ SetVisibility(u)
             \/ Send(u) \/ FileUpload(u) \/ MarkRead(u)
      PROVE  Inv'
  BY <1>2, OpenWindowStep, LoadAllStep, SelectThreadStep, OpenByReferenceStep, SetVisibilityStep,
     SendStep, FileUploadStep, MarkReadStep
<1> QED
  BY <1>1, <1>2, DeleteMessageStep, ReassignStep, StutterKept DEF Next

LEMMA InvKept == Spec => []Inv
<1>1. Init => Inv
  BY InitInv
<1>2. Inv /\ [Next]_vars => Inv'
  BY NextStep
<1> QED
  BY <1>1, <1>2, PTL DEF Spec

\* Every message, document, call and window holds what its type allows.
THEOREM TypeCorrect == Spec => []TypeOK
<1>1. Inv => TypeOK
  BY InvImplies
<1> QED
  BY <1>1, InvKept, PTL

\* Nobody is shown, or marks as read, what is not for his role or of a case he had no part in
\* while the call ran: the check and the statement after it may be apart as far as they like.
THEOREM SightKept == Spec => []WithinSight
<1>1. Inv => WithinSight
  BY InvImplies
<1> QED
  BY <1>1, InvKept, PTL

\* A message and the document sent with it go to whom their sender had chosen, whatever he chooses
\* in the window while they are under way; only an accountant's document is never open to a client.
THEOREM MeantKept == Spec => []SentAsMeant
<1>1. Inv => SentAsMeant
  BY InvImplies
<1> QED
  BY <1>1, InvKept, PTL

=============================================================================
