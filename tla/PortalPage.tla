----------------------------- MODULE PortalPage -----------------------------
(***************************************************************************)
(* One page of the site, open in one browser tab, and the API behind it.   *)
(*                                                                         *)
(* A page is a React component: it keeps its state (view), asks the server *)
(* through lib/api.ts without waiting for one answer before it asks again  *)
(* (flight), and takes each answer in the handler that asked for it.  The  *)
(* server does what it is asked at a moment of its own, answers come in    *)
(* any order, and the answer to a write may get lost after the work was    *)
(* done.  Other people use the same server (Elsewhere).                    *)
(*                                                                         *)
(* This module holds what the pages have in common; the handlers of a page *)
(* are in the modules that extend this one, and begin with its name.  A    *)
(* row of the server is abstracted to its text, at first one of its own,   *)
(* so that a text tells where it came from.                                *)
(***************************************************************************)
EXTENDS Integers, FiniteSets, Functions

CONSTANTS Row,        \* the rows the server can hold
          FirstRow,   \* the row a page for one row is opened for
          SparePool,  \* the rows that are not there yet
          NONE,       \* no form, no row
          MaxClicks   \* bound: requests the user sets off (their follow-ups are not counted)

ASSUME RowsAssumption ==
    /\ FirstRow \in Row \ SparePool /\ SparePool \subseteq Row
    /\ IsFiniteSet(Row) /\ {NONE, "waiting"} \cap Row = {}
    /\ NONE \notin [row : Row \cup {NONE}, text : Row \cup {"", "typed", "elsewhere"}, fill : Nat]
    /\ MaxClicks \in Nat

ASSUME SpareAssumption == SparePool # {}

VARIABLES page,     \* the page that is open
          view,     \* its React state
          flight,   \* the requests it waits for
          server,   \* the rows at the server
          ledger,   \* history: the fillings of a form that made a row, whether one made two
          clicks    \* requests the user has set off

vars == <<page, view, flight, server, ledger, clicks>>

-----------------------------------------------------------------------------
(* Data. *)

Text == Row \cup {"", "typed", "elsewhere"}
Query == {"all", "some"}
Shelf == [Row -> Text \cup {NONE}]
Shown == UNION {[S -> Text] : S \in SUBSET Row}
Nothing == [r \in {} |-> ""]

\* The rows among these that the server has.
There(s, rows) == Restrict(s, {r \in rows : s[r] # NONE})

\* A form is filled in anew each time it is opened: fill tells the fillings apart.
Blank == [row |-> NONE, text |-> "", fill |-> clicks]
FormOf(r, text) == [row |-> r, text |-> text, fill |-> clicks]

-----------------------------------------------------------------------------
(* Requests. *)

Verb == {"list", "listOf", "get", "create", "createOnce", "update", "updateAll", "patch", "delete", "upload"}

\* A number tells apart requests in flight that are otherwise the same.  life says when in the
\* life of the page a request was sent: for handlers of a part that has been unmounted since,
\* and effects that have run again.
Number == CHOOSE n \in 1..(Cardinality(flight) + 1) : \A q \in flight : q.no # n

Request(op, verb, row, text, query, fill) ==
    [no |-> Number, op |-> op, verb |-> verb, row |-> row, text |-> text, query |-> query,
     fill |-> fill, life |-> view.mounted, state |-> "sent", got |-> Nothing]

GetList(op) == Request(op, "list", NONE, "", "all", 0)
GetFiltered(op, query) == Request(op, "list", NONE, "", query, 0)
ListOf(op, r) == Request(op, "listOf", r, "", "all", 0)
GetRow(op, r) == Request(op, "get", r, "", "all", 0)
Create(op, f) == Request(op, "create", NONE, f.text, "all", f.fill)
CreateOnce(op, f) == Request(op, "createOnce", NONE, f.text, "all", f.fill)
Update(op, f) == Request(op, "update", f.row, f.text, "all", f.fill)
UpdateAll(op, text) == Request(op, "updateAll", NONE, text, "all", 0)
Patch(op, r) == Request(op, "patch", r, "", "all", 0)
Delete(op, r) == Request(op, "delete", r, "", "all", 0)
Upload(op, f) == Request(op, "upload", f.row, "", "all", f.fill)

\* The form decides between a new row and the row it was opened for.
CreateOrUpdate(op, f) == IF f.row = NONE THEN Create(op, f) ELSE Update(op, f)

Creates == {"create", "createOnce"}
Writes == Creates \cup {"update", "updateAll", "patch", "delete"}

\* The rows once the server has done what it was asked.  A patch changes what the model
\* does not keep of a row: a switch, a status.  A new row for which none of the spare ones is
\* left is not kept either.
After(q) == IF q.verb = "updateAll" THEN [r \in Row |-> IF server[r] = NONE THEN NONE ELSE q.text]
            ELSE IF q.row = NONE \/ q.verb \notin Writes \ {"patch"} THEN server
            ELSE [server EXCEPT ![q.row] = IF q.verb = "delete" THEN NONE ELSE q.text]

\* A search finds the first row.
Found(query) == IF query = "some" THEN {FirstRow} ELSE Row

Content(q, s) == IF q.verb = "list" THEN There(s, Found(q.query))
                 ELSE IF q.verb \in {"upload", "updateAll"} THEN Nothing
                 ELSE There(s, {q.row} \cap Row)

\* The rows a request can be about: one that is still free for a new row, and for the
\* others the row they name; a request about a row that is gone finds none.  Where the text
\* is a key (createOnce: an address, a slug) a second row of the text is refused.
FreeRows == {r \in SparePool : server[r] = NONE}
Taken(text) == \E r \in Row : server[r] = text
NewRow == IF FreeRows = {} THEN {NONE} ELSE FreeRows
Targets(q) == IF q.verb = "create" THEN IF q.row = NONE THEN NewRow ELSE FreeRows \cap {q.row}
              ELSE IF q.verb = "createOnce" THEN IF Taken(q.text) THEN {} ELSE NewRow
              ELSE IF q.verb \in {"list", "listOf", "upload", "updateAll"} THEN {q.row}
              ELSE {r \in {q.row} : server[r] # NONE}

\* The server does what it is asked.  The answer to a write may get lost afterwards.
Serve(q) ==
    /\ q \in flight /\ q.state = "sent"
    /\ \E r \in Targets(q), state \in {"ok"} \cup (IF q.verb \in Writes THEN {"failed"} ELSE {}) :
         LET d == [q EXCEPT !.row = r] IN
         /\ server' = After(d)
         /\ flight' = (flight \ {q}) \cup
                        {[d EXCEPT !.state = state, !.got = IF state = "ok" THEN Content(d, After(d)) ELSE Nothing]}
    /\ ledger' = IF q.verb \in Creates
                 THEN [ledger EXCEPT !.made = @ \cup {q.fill}, !.twice = @ \/ q.fill \in ledger.made]
                 ELSE ledger
    /\ UNCHANGED <<page, view, clicks>>

\* The server refuses, or cannot be reached.
Refuse(q) ==
    /\ q \in flight /\ q.state = "sent"
    /\ flight' = (flight \ {q}) \cup {[q EXCEPT !.state = "failed"]}
    /\ UNCHANGED <<page, view, server, ledger, clicks>>

\* Somebody else changes a row.
Elsewhere ==
    /\ server[FirstRow] \notin {NONE, "elsewhere"}
    /\ server' = [server EXCEPT ![FirstRow] = "elsewhere"]
    /\ UNCHANGED <<page, view, flight, ledger, clicks>>

World == Elsewhere \/ \E q \in flight : Serve(q) \/ Refuse(q)

-----------------------------------------------------------------------------
(* What a page can do in one turn of its event loop. *)

\* The user does something that stays in the browser.
UserDoes(v) ==
    /\ view' = v
    /\ UNCHANGED <<page, flight, server, ledger, clicks>>

\* The user does something that asks the server, or sets a timer that will.
UserAsksAll(v, qs) ==
    /\ clicks < MaxClicks /\ clicks' = clicks + 1
    /\ view' = v
    /\ flight' = flight \cup qs
    /\ UNCHANGED <<page, server, ledger>>
UserAsks(v, q) == UserAsksAll(v, {q})

\* A timer asks.
TimerAsks(v, qs) ==
    /\ view' = v /\ flight' = flight \cup qs
    /\ UNCHANGED <<page, server, ledger, clicks>>

Answers(op) == {q \in flight : q.op = op /\ q.state # "sent"}
Good(op) == {q \in Answers(op) : q.state = "ok"}
Bad(op) == {q \in Answers(op) : q.state = "failed"}

\* An answer is taken ...
Takes(q, v) ==
    /\ view' = v /\ flight' = flight \ {q}
    /\ UNCHANGED <<page, server, ledger, clicks>>

\* ... and the handler goes on to its next request.
TakesThenAsksAll(q, v, next) ==
    /\ view' = v /\ flight' = (flight \ {q}) \cup next
    /\ UNCHANGED <<page, server, ledger, clicks>>
TakesThenAsks(q, v, next) == TakesThenAsksAll(q, v, {next})

\* The user is told that it did not work, and may ask for the same again.
Fails(q, v) ==
    /\ view' = v /\ flight' = flight \ {q}
    /\ ledger' = [ledger EXCEPT !.made = @ \ {q.fill}]
    /\ UNCHANGED <<page, server, clicks>>

Busy(v, what) == [v EXCEPT !.busy = @ \cup what]
Free(v, what) == [v EXCEPT !.busy = @ \ what]
Has(what) == what \in view.busy

Typing == view.form.text # "typed" /\ UserDoes([view EXCEPT !.form.text = "typed"])
FormOpens(f) == UserDoes([view EXCEPT !.form = f])
FormShut(v) == Free([v EXCEPT !.form = NONE], {"uploading"})
FormCloses == UserDoes(FormShut(view))

\* A text field or select over a list: the rows it leaves are picked in the browser.
Search == \E query \in Query \ {view.asked} : UserDoes([view EXCEPT !.asked = query])
Matching == DOMAIN view.rows \cap Found(view.asked)

\* The rows of the page with text for the row r, when the page still shows it.
Put(r, text) == [e \in DOMAIN view.rows |-> IF e = r THEN text ELSE view.rows[e]]

\* setItems(result.data) when the list came, the old list kept when it did not; finally
\* setLoading(false).  The cards of the list are made anew: nothing is revealed on them.
ListTaken(q, v) ==
    Free([v EXCEPT !.rows = IF q.state = "ok" THEN q.got ELSE @, !.secrets = Nothing], {"loading"})

\* The same, with setItems([]) when the list did not come.
ListTakenOrEmptied(q, v) == Free([v EXCEPT !.rows = q.got, !.secrets = Nothing], {"loading"})

\* A load that nothing waits for but the page's loading flag.
LoadTaken == \E q \in Answers("load") : Takes(q, ListTaken(q, view))

\* await api...; toast.success(...); await load();  catch: toast.error(...)
ReloadsAfter(op) ==
    \/ \E q \in Good(op) : TakesThenAsks(q, Busy(view, {"loading"}), GetList("load"))
    \/ \E q \in Bad(op) : Fails(q, view)

\* setSaving(true); await api.put / api.post; toast.success; await load(); closeModal();
\* finally setSaving(false).  load() catches its own failure.
SavesReloadsCloses(ready) ==
    \/ /\ ready /\ ~Has("saving")
       /\ UserAsks(Busy(view, {"saving"}), CreateOrUpdate("save", view.form))
    \/ \E q \in Good("save") : TakesThenAsks(q, Busy(view, {"loading"}), GetList("saved"))
    \/ \E q \in Answers("saved") :
          Takes(q, Free(FormShut(ListTaken(q, view)), {"saving"}))
    \/ \E q \in Bad("save") : Fails(q, Free(view, {"saving"}))

\* The same with closeModal() before await load().
SavesClosesReloads(ready) ==
    \/ /\ ready /\ ~Has("saving")
       /\ UserAsks(Busy(view, {"saving"}), CreateOrUpdate("save", view.form))
    \/ \E q \in Good("save") :
          TakesThenAsks(q, Busy(FormShut(view), {"loading"}), GetList("saved"))
    \/ \E q \in Answers("saved") : Takes(q, Free(ListTaken(q, view), {"saving"}))
    \/ \E q \in Bad("save") : Fails(q, Free(view, {"saving"}))

-----------------------------------------------------------------------------
(* Opening a page. *)

NothingShown == [rows |-> Nothing, busy |-> {}, form |-> NONE, edits |-> Nothing,
                 at |-> NONE, section |-> NONE, asked |-> "all", number |-> 1, error |-> FALSE, choices |-> {}, secrets |-> Nothing,
                 open |-> FALSE, mounted |-> 0]

OpensAsking(p, v, qs) ==
    /\ page = p /\ view = v
    /\ server = [r \in Row |-> IF r \in SparePool THEN NONE ELSE r]
    /\ ledger = [made |-> {}, twice |-> FALSE]
    /\ clicks = 0
    /\ flight = qs
Opens(p, v, q) == OpensAsking(p, v, {q})

\* The request a page sends when it is mounted.
First(verb, row) ==
    [no |-> 1, op |-> "load", verb |-> verb, row |-> row, text |-> "", query |-> "all",
     fill |-> 0, life |-> 0, state |-> "sent", got |-> Nothing]

\* A page that shows a list asks for it.
ListOpens(p) == Opens(p, Busy(NothingShown, {"loading"}), First("list", NONE))

=============================================================================
