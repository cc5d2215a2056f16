----------------------------- MODULE Assignments -----------------------------
(***************************************************************************)
(* The assignments table: which accountant works on which service request. *)
(* Every repository method is one SQL statement, hence one atomic step; a  *)
(* service method that calls several of them is several steps, and between *)
(* two of them any other call may run.  The in-flight part of such a       *)
(* method, what it read and still holds, is kept in handlers.              *)
(*                                                                         *)
(* A statement a constraint rejects changes nothing: the admin's rejected  *)
(* calls are the steps that are not taken.  Notes, priority and due date   *)
(* are not modelled (no guard reads them).                                 *)
(***************************************************************************)
CONSTANTS
    Request,        \* service request ids
    Assignee,       \* user ids an assignment may name
    Assignment,     \* ids the database may generate, each used once
    Handler,        \* HTTP requests being served at the same time
    NULL            \* SQL NULL

ASSUME NoneIsNoId == NULL \notin Request \cup Assignee \cup Assignment

VARIABLES
    liveRequests,   \* service requests that exist
    assignments,    \* the table
    told,           \* told[a]: the accountant a "New assignment" notice went to
    handlers        \* what the handlers that run hold

assignmentsVars == <<liveRequests, assignments, told, handlers>>

\* The statuses the schema admits, those the application admits, those an
\* accountant may set, and those the partial unique index covers.
SchemaStatus == {"assigned", "accepted", "in_progress", "waiting_client",
                 "completed", "cancelled"}
AdminStatus == SchemaStatus \ {"waiting_client"}
\* (Fault: the application admits a status the schema does not.)
AccountantStatusDeclined == {"accepted", "in_progress", "completed", "declined"}
AccountantStatus == {"accepted", "in_progress", "completed"}
ActiveStatus == {"assigned", "accepted", "in_progress", "waiting_client"}

Row == [life : {"unused", "live", "deleted"},
        request : Request \cup {NULL},
        accountant : Assignee \cup {NULL},
        status : SchemaStatus \cup {NULL},
        started : BOOLEAN,
        completed : BOOLEAN]

NoRow(life) == [life |-> life, request |-> NULL, accountant |-> NULL,
                status |-> NULL, started |-> FALSE, completed |-> FALSE]

Idle == [kind |-> "idle", asg |-> NULL, by |-> NULL, status |-> NULL]

HandlerState ==
    {Idle}
    \cup [kind : {"notify"}, asg : Assignment, by : Assignee, status : {NULL}]
    \cup [kind : {"update"}, asg : Assignment, by : Assignee,
          status : AccountantStatus]

AssignmentsTypeOK ==
    /\ liveRequests \subseteq Request
    /\ assignments \in [Assignment -> Row]
    /\ told \in [Assignment -> Assignee \cup {NULL}]
    /\ handlers \in [Handler -> HandlerState]

AssignmentsInit ==
    /\ liveRequests = {}
    /\ assignments = [a \in Assignment |-> NoRow("unused")]
    /\ told = [a \in Assignment |-> NULL]
    /\ handlers = [c \in Handler |-> Idle]

Live(a) == assignments[a].life = "live"

\* An entry of idx_assignments_one_active_accountant_per_request.
Indexed(a, r) ==
    /\ Live(a)
    /\ assignments[a].request = r
    /\ assignments[a].status \in ActiveStatus

\* The index accepts row a of request r in status st.
IndexAdmits(a, r, st) ==
    st \in ActiveStatus => \A b \in Assignment \ {a} : ~ Indexed(b, r)

\* Faults: a completion time that is kept, a start time that is cleared.
SetStatusKeepsCompletion(row, st) ==
    [row EXCEPT !.status = st,
                !.started = @ \/ st \in {"accepted", "in_progress"},
                !.completed = @ \/ st = "completed"]

\* UPDATE ... SET status: the first start is kept, the completion time is
\* that of the last completion and is cleared by every other status.
SetStatus(row, st) ==
    [row EXCEPT !.status = st,
                !.started = @ \/ st \in {"accepted", "in_progress"},
                !.completed = (st = "completed")]

\* Fault: the index is consulted on INSERT only.
StatusUnindexed(a, st) == Live(a)

StatusAccepted(a, st) ==
    Live(a) /\ IndexAdmits(a, assignments[a].request, st)

StoreStatus(a, st) ==
    assignments' = [assignments EXCEPT ![a] = SetStatus(@, st)]

-----------------------------------------------------------------------------
(* The service requests the rows refer to.                                 *)

RequestFiled(r) ==
    /\ r \notin liveRequests
    /\ liveRequests' = liveRequests \cup {r}
    /\ UNCHANGED <<assignments, told, handlers>>

\* ON DELETE CASCADE
RequestDeleted(r) ==
    /\ r \in liveRequests
    /\ liveRequests' = liveRequests \ {r}
    /\ assignments' = [a \in Assignment |->
                          IF assignments[a].request = r THEN NoRow("deleted")
                                                        ELSE assignments[a]]
    /\ UNCHANGED <<told, handlers>>

-----------------------------------------------------------------------------
(* Admin operations.                                                       *)

\* The row is committed before the accountant is looked up and notified.
CreateAdmin(c, a, r, u) ==
    /\ handlers[c] = Idle
    /\ assignments[a].life = "unused"
    /\ r \in liveRequests
    /\ IndexAdmits(a, r, "assigned")
    /\ assignments' = [assignments EXCEPT ![a] =
          [life |-> "live", request |-> r, accountant |-> u,
           status |-> "assigned", started |-> FALSE, completed |-> FALSE]]
    /\ handlers' = [handlers EXCEPT ![c] =
          [kind |-> "notify", asg |-> a, by |-> u, status |-> NULL]]
    /\ UNCHANGED <<liveRequests, told>>

\* The notice goes to the accountant of the inserted row; no error of it
\* reaches the admin, so a notice that cannot be sent ends the call too.
NotifyAccountant(c) ==
    /\ handlers[c].kind = "notify"
    /\ \/ told' = [told EXCEPT ![handlers[c].asg] = handlers[c].by]
       \/ UNCHANGED told
    /\ handlers' = [handlers EXCEPT ![c] = Idle]
    /\ UNCHANGED <<liveRequests, assignments>>

\* Reassignment keeps the status and both timestamps, and notifies nobody.
UpdateAdmin(a, u) ==
    /\ Live(a)
    /\ assignments' = [assignments EXCEPT ![a].accountant = u]
    /\ UNCHANGED <<liveRequests, told, handlers>>

UpdateStatusAdmin(a, st) ==
    /\ st \in AdminStatus
    /\ StatusAccepted(a, st)
    /\ StoreStatus(a, st)
    /\ UNCHANGED <<liveRequests, told, handlers>>

DeleteAdmin(a) ==
    /\ Live(a)
    /\ assignments' = [assignments EXCEPT ![a] = NoRow("deleted")]
    /\ UNCHANGED <<liveRequests, told, handlers>>

-----------------------------------------------------------------------------
(* Accountant operations: read and check the row, then write by id alone.  *)

CheckAssignee(c, u, a, st) ==
    /\ handlers[c] = Idle
    /\ st \in AccountantStatus
    /\ Live(a)
    /\ assignments[a].accountant = u
    /\ handlers' = [handlers EXCEPT ![c] =
          [kind |-> "update", asg |-> a, by |-> u, status |-> st]]
    /\ UNCHANGED <<liveRequests, assignments, told>>

UpdateStatusAccountant(c) ==
    /\ handlers[c].kind = "update"
    /\ IF StatusAccepted(handlers[c].asg, handlers[c].status)
         THEN StoreStatus(handlers[c].asg, handlers[c].status)
         ELSE UNCHANGED assignments
    /\ handlers' = [handlers EXCEPT ![c] = Idle]
    /\ UNCHANGED <<liveRequests, told>>

\* The client goes away, the request times out or the server stops.
Abort(c) ==
    /\ handlers[c] # Idle
    /\ handlers' = [handlers EXCEPT ![c] = Idle]
    /\ UNCHANGED <<liveRequests, assignments, told>>

AdminNext(a) ==
    \/ \E c \in Handler, r \in Request, u \in Assignee : CreateAdmin(c, a, r, u)
    \/ \E u \in Assignee : UpdateAdmin(a, u)
    \/ \E st \in AdminStatus : UpdateStatusAdmin(a, st)
    \/ DeleteAdmin(a)

HandlerNext(c) ==
    \/ NotifyAccountant(c)
    \/ \E u \in Assignee, a \in Assignment, st \in AccountantStatus :
          CheckAssignee(c, u, a, st)
    \/ UpdateStatusAccountant(c)
    \/ Abort(c)

AssignmentsNext ==
    \/ \E r \in Request : RequestFiled(r) \/ RequestDeleted(r)
    \/ \E a \in Assignment : AdminNext(a)
    \/ \E c \in Handler : HandlerNext(c)

AssignmentsSpec == AssignmentsInit /\ [][AssignmentsNext]_assignmentsVars

-----------------------------------------------------------------------------
(* Properties.                                                             *)

\* At any time at most one accountant has unfinished work on a service
\* request, whatever the order in which assignments are created, finished,
\* cancelled and reopened (the partial unique index of migration 000006,
\* which every status change has to pass as well as every INSERT).
OneActivePerRequest ==
    \A a, b \in Assignment : \A r \in Request :
        Indexed(a, r) /\ Indexed(b, r) => a = b

\* A live assignment refers to a service request that still exists, although
\* requests are deleted while assignments are being created and updated.
NoDanglingAssignment ==
    \A a \in Assignment : Live(a) => assignments[a].request \in liveRequests

\* The timestamps tell the truth about the status: a completion time exactly
\* on completed work, a start time on all work accepted or in progress.
TimestampsMatchStatus ==
    \A a \in Assignment : Live(a) =>
        /\ assignments[a].completed <=> assignments[a].status = "completed"
        /\ assignments[a].status \in {"accepted", "in_progress"}
              => assignments[a].started

\* History is never rewritten: a start time survives every later status
\* change and reassignment, an assignment never moves to another request,
\* and a deleted one never comes back through a write that was in flight.
HistoryKept ==
    [][\A a \in Assignment :
          /\ Live(a) /\ Live(a)' =>
                /\ assignments[a].started => assignments'[a].started
                /\ assignments'[a].request = assignments[a].request
          /\ assignments[a].life = "deleted" => assignments'[a].life = "deleted"]_assignmentsVars

\* What the permission check of UpdateStatusAccountant says ("you do not
\* have permission to update this assignment", service.go:217): a status an
\* accountant writes is written to an assignment that is then theirs.
OnlyAssigneeWrites ==
    [][\A c \in Handler :
          handlers[c].kind = "update" /\ handlers'[c] = Idle /\ assignments' # assignments
              => assignments[handlers[c].asg].accountant = handlers[c].by]_assignmentsVars
=============================================================================
