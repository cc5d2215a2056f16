---------------------------- MODULE Conversations ----------------------------
(***************************************************************************)
(* The messages of a case: the API that keeps them                         *)
(* (src/backend/internal/message) and the chat windows of the three        *)
(* portals (src/frontend/src/components/forms/message-form.tsx).           *)
(*                                                                         *)
(* A window loads the user's cases, then the messages of one case after    *)
(* the other, and replaces what it showed by what it got; what the user    *)
(* sends meanwhile is added when its answer comes.  The API checks the     *)
(* right to a case in one statement and reads or writes in the next, while *)
(* accountants are put on cases and taken off.  A message says who may see *)
(* it: everybody in the case ("conversation"), "staff", or "admin".        *)
(* Messages are numbered in the order of created_at.                       *)
(***************************************************************************)
EXTENDS Naturals, Sequences, FiniteSets

CONSTANTS Admin, Accountant, Client,   \* the users, by role
          Case,                        \* service requests
          Owner,                       \* [Case -> Client, or NONE for a guest's request]
          Start,                       \* the case or "direct" a window's address names, or NONE
          Reference,                   \* the case whose reference number the address names, or NONE
          Earlier,                     \* the messages that are there when the windows are opened
          NONE,
          PageLimit,                   \* MaxPageSize of a list
          MaxMessages, MaxClicks       \* bounds: messages stored, things the users do

User == Admin \cup Accountant \cup Client

ASSUME ConversationAssumption ==
    /\ Owner \in [Case -> Client \cup {NONE}] /\ Start \in [User -> Case \cup {NONE, "direct"}]
    /\ Reference \in [User -> Case \cup {NONE}]
    /\ NONE \notin Case \cup User /\ "direct" \notin Case
    /\ PageLimit \in Nat /\ MaxMessages \in Nat /\ MaxClicks \in Nat
    /\ Admin \cap Accountant = {} /\ Admin \cap Client = {} /\ Accountant \cap Client = {}

Visibility == {"conversation", "staff", "admin"}

\* A row; meant is history: what its sender had chosen when he sent it.
Message == [case : Case \cup {NONE}, user : User, vis : Visibility, read : BOOLEAN, gone : BOOLEAN,
            meant : [case : Case \cup {NONE}, vis : Visibility]]
AsMeant(m) == m.case = m.meant.case /\ m.vis = m.meant.vis

ASSUME EarlierAssumption == Earlier \in Seq({m \in Message : AsMeant(m)})

VARIABLES messages,   \* the table: a sequence of rows, a deleted one marked as gone
          files,      \* documents uploaded from a window
          assigned,   \* which accountant is on which case
          window,     \* [User -> the state of the user's chat window]
          calls,      \* what the windows and other callers of the API are waiting for
          acted,      \* history: which message was given to, or marked as read by, whom
          clicks      \* things the users did so far

vars == <<messages, files, assigned, window, calls, acted, clicks>>

Id == 1..Len(messages)

-----------------------------------------------------------------------------
(* Rights: service.go and document/access.go. *)

\* ClientCanAccessServiceRequest, AccountantCanAccessServiceRequest.
Mine(u, c) ==
    \/ u \in Admin
    \/ u \in Client /\ c # NONE /\ Owner[c] = u
    \/ u \in Accountant /\ <<u, c>> \in assigned

\* canViewDocument, the part about the row: who of a case may open a document.
OpenTo(u, vis) ==
    \/ u \in Admin
    \/ u \in Client /\ vis = "client"
    \/ u \in Accountant /\ vis # "admin"

\* What canAccessServiceRequest and List keep from a role.
Sees(u, vis) ==
    \/ u \in Admin
    \/ u \in Client /\ vis = "conversation"
    \/ u \in Accountant /\ vis # "admin"

CanAccess(u, c, vis) == Mine(u, c) /\ Sees(u, vis)

ApplyActorRules(u, vis) ==
    IF u \in Client THEN "conversation" ELSE IF u \in Accountant /\ vis = "admin" THEN "staff" ELSE vis

\* Fault: a list shows the whole case to whoever may see the case.
ListsAll(u, c) == {id \in Id : ~messages[id].gone /\ (c = NONE \/ messages[id].case = c)}

\* List: the oldest page of what the caller may see; an admin may ask for all cases at once.
List(u, c) ==
    LET seen == {id \in Id : /\ ~messages[id].gone /\ Sees(u, messages[id].vis)
                             /\ c = NONE \/ messages[id].case = c} IN
    {id \in seen : Cardinality({o \in seen : o < id}) < PageLimit}

-----------------------------------------------------------------------------
(* Calls. *)

Number == CHOOSE n \in 1..(Cardinality(calls) + 1) : \A q \in calls : q.no # n
Call(u, kind, stage, c, vis) ==
    [no |-> Number, user |-> u, kind |-> kind, stage |-> stage, case |-> c, vis |-> vis, id |-> 0, thread |-> NONE,
     mine |-> Mine(u, c), todo |-> {}, cases |-> {}, got |-> {}]

Clicks == clicks < MaxClicks /\ clicks' = clicks + 1
Sets(u, w) == window' = [window EXCEPT ![u] = w]
Becomes(q, next) == calls' = (calls \ {q}) \cup {next}
Ends(q) == calls' = calls \ {q}

-----------------------------------------------------------------------------
(* The chat window: loading. *)

\* loadAll remembers which thread was open when it began.
LoadCall(u, thread) == [Call(u, "load", "cases", NONE, "conversation") EXCEPT !.thread = thread]

\* What useState starts with; opened is openedRequestId, the case the list of conversations
\* offers besides those with messages.  What is typed is left out: Send is a click with some text.
Closed == [shown |-> {}, cases |-> {}, thread |-> NONE, opened |-> NONE, vis |-> "conversation",
           loading |-> FALSE, sending |-> FALSE, uploading |-> FALSE]
Opens(w, thread) == [w EXCEPT !.thread = thread, !.opened = IF thread \in Case THEN thread ELSE @]
Opened(u) == [Opens(Closed, Start[u]) EXCEPT !.loading = TRUE]

\* The page is opened, and its effect starts the first load.
OpenWindow(u) ==
    /\ Clicks /\ window[u] = Closed /\ (\A q \in calls : q.user # u)
    /\ calls' = calls \cup {LoadCall(u, Start[u])} /\ Sets(u, Opened(u))
    /\ UNCHANGED <<messages, files, assigned, acted>>

\* The button "Refresh"; nothing keeps two loads from running at the same time.
LoadAll(u) ==
    /\ Clicks /\ window[u] # Closed /\ calls' = calls \cup {LoadCall(u, window[u].thread)}
    /\ Sets(u, [window[u] EXCEPT !.loading = TRUE])
    /\ UNCHANGED <<messages, files, assigned, acted>>

\* lib/accountant-request-resolver.ts; a failure there is the failure of the whole load.
ResolveAccountantRequests(u) == {c \in Case : <<u, c>> \in assigned}

\* loadRequestsForRole: a client's or an admin's failed request leaves the map empty.
CasesFor(u) == IF u \in Accountant THEN {ResolveAccountantRequests(u)}
               ELSE {{c \in Case : u \in Admin \/ Owner[c] = u}, {}}

\* loadMessagesForRole: an admin's messages come in one list, the others' case by case.
Asks(q) == IF q.todo = {} THEN {[q EXCEPT !.stage = "deliver"]}
           ELSE {[q EXCEPT !.stage = "check", !.case = c, !.todo = @ \ {c}, !.mine = Mine(q.user, c)] : c \in q.todo}

LoadCases(q) ==
    /\ q.kind = "load" /\ q.stage = "cases"
    /\ \E cases \in CasesFor(q.user) :
         LET known == cases \cup ({Start[q.user]} \cap Case) IN
         \E next \in Asks([q EXCEPT !.cases = known, !.todo = IF q.user \in Admin THEN {NONE} ELSE known]) :
            Becomes(q, next)
    /\ UNCHANGED <<messages, files, assigned, window, acted, clicks>>

\* The API checks the right, then lists.  A list that is refused or fails is skipped.
LoadChecked(q) ==
    /\ q.kind = "load" /\ q.stage = "check"
    /\ \/ CanAccess(q.user, q.case, "conversation") /\ Becomes(q, [q EXCEPT !.stage = "list"])
       \/ \E next \in Asks(q) : Becomes(q, next)
    /\ UNCHANGED <<messages, files, assigned, window, acted, clicks>>
LoadListed(q) ==
    /\ q.kind = "load" /\ q.stage = "list"
    /\ \E next \in Asks([q EXCEPT !.got = @ \cup List(q.user, q.case)]) : Becomes(q, next)
    /\ acted' = acted \cup {[user |-> q.user, id |-> id, mine |-> q.mine] : id \in List(q.user, q.case)}
    /\ UNCHANGED <<messages, files, assigned, window, clicks>>

\* makeThreadKey, isMessageInThread.
ThreadOf(id) == IF messages[id].case = NONE THEN "direct" ELSE messages[id].case

Newest(ids) == CHOOSE id \in ids : \A o \in ids : o <= id

\* The end of loadAll: what was shown is replaced, and the thread of the last message shown when
\* none was as the load began, whatever the user has chosen since.
Loaded(q) ==
    LET w == window[q.user] IN
    [w EXCEPT !.shown = q.got, !.cases = q.cases, !.loading = FALSE,
              !.thread = IF q.thread = NONE /\ q.got # {} THEN ThreadOf(Newest(q.got)) ELSE @]

\* The effect then opens the case the address refers to, each time the cases have been loaded.
LoadDelivered(q) ==
    LET referred == Reference[q.user] IN
    /\ q.kind = "load" /\ q.stage = "deliver" /\ Ends(q)
    /\ Sets(q.user, IF referred \in q.cases THEN Opens(Loaded(q), referred) ELSE Loaded(q))
    /\ UNCHANGED <<messages, files, assigned, acted, clicks>>

\* Fault: the flag is cleared where the list is set, not in a finally.
LoadFailsNoFinally(q) ==
    /\ q.kind = "load" /\ q.stage = "cases" /\ q.user \in Accountant /\ Ends(q)
    /\ UNCHANGED <<messages, files, assigned, window, acted, clicks>>

\* catch and finally of loadAll.
LoadFails(q) ==
    /\ q.kind = "load" /\ q.stage = "cases" /\ q.user \in Accountant /\ Ends(q)
    /\ Sets(q.user, [window[q.user] EXCEPT !.loading = FALSE])
    /\ UNCHANGED <<messages, files, assigned, acted, clicks>>

-----------------------------------------------------------------------------
(* The chat window: the user. *)

\* buildThreads and the threads added to them: those the list of conversations offers.
Threads(u) == {ThreadOf(id) : id \in window[u].shown} \cup ({window[u].opened} \ {NONE})
              \cup ({Start[u]} \cap {"direct"})
SelectThread(u) ==
    /\ Clicks /\ ~window[u].loading
    /\ \E th \in Threads(u) : Sets(u, Opens(window[u], th))
    /\ UNCHANGED <<messages, files, assigned, calls, acted>>
OpenByReference(u) ==
    /\ Clicks /\ \E c \in window[u].cases : Sets(u, Opens(window[u], c))
    /\ UNCHANGED <<messages, files, assigned, calls, acted>>

VisibilityOptions(u) == {vis \in Visibility : Sees(u, vis)}

\* A conversation is selected, and the list offers it: otherwise there is nothing to write in.
Composer(u) == window[u].thread \in Threads(u)
SetVisibility(u) ==
    /\ Clicks /\ Composer(u)
    /\ \E vis \in VisibilityOptions(u) \ {window[u].vis} : Sets(u, [window[u] EXCEPT !.vis = vis])
    /\ UNCHANGED <<messages, files, assigned, calls, acted>>
ThreadCase(u) == IF window[u].thread = "direct" THEN NONE ELSE window[u].thread
FinalVisibility(u) == ApplyActorRules(u, window[u].vis)

\* handleSend.  The button is off while a message is being sent, the Enter key is not.
Send(u) ==
    /\ Clicks /\ Composer(u)
    /\ calls' = calls \cup {Call(u, "send", "check", ThreadCase(u), FinalVisibility(u))}
    /\ Sets(u, [window[u] EXCEPT !.sending = TRUE])
    /\ UNCHANGED <<messages, files, assigned, acted>>

\* handleFileUpload: the document first, then the message that names it.
FileUpload(u) ==
    /\ Clicks /\ Composer(u) /\ ThreadCase(u) \in Case /\ ~window[u].uploading /\ ~window[u].sending
    /\ calls' = calls \cup {Call(u, "file", "upload", ThreadCase(u), FinalVisibility(u))}
    /\ Sets(u, [window[u] EXCEPT !.uploading = TRUE])
    /\ UNCHANGED <<messages, files, assigned, acted>>

\* Fault: documents take the visibility of the message as it is.
DocumentVisibilityRaw(u, vis) == vis

\* getDocumentUploadSettings: documents call "client" what messages call "conversation".
DocumentVisibility(u, vis) ==
    IF u \in Client \/ vis = "conversation" THEN "client" ELSE IF u \in Accountant THEN "staff" ELSE vis

\* Service.Upload: the server heeds what an admin's window asks for; a client's document is the
\* client's, and an accountant's is the staff's, whatever was asked for.
StoredVisibility(u, vis) ==
    IF u \in Client THEN "client" ELSE IF u \in Accountant THEN "staff" ELSE DocumentVisibility(u, vis)

Uploaded(q) ==
    /\ q.kind = "file" /\ q.stage = "upload" /\ Mine(q.user, q.case)
    /\ files' = files \cup {[user |-> q.user, case |-> q.case, vis |-> StoredVisibility(q.user, q.vis),
                             meant |-> q.vis]}
    /\ Becomes(q, [q EXCEPT !.stage = "check"])
    /\ UNCHANGED <<messages, assigned, window, acted, clicks>>

-----------------------------------------------------------------------------
(* Create, and what the window does with the answer. *)

CreateChecked(q) ==
    /\ q.kind \in {"send", "file"} /\ q.stage = "check" /\ CanAccess(q.user, q.case, q.vis)
    /\ Becomes(q, [q EXCEPT !.stage = "insert"])
    /\ UNCHANGED <<messages, files, assigned, window, acted, clicks>>

\* Fault: the message is made of what the window shows when its turn comes.
PayloadAsShown(q) == [case |-> ThreadCase(q.user), vis |-> FinalVisibility(q.user)]

\* The message is made of what was chosen when the user sent it.
Payload(q) == [case |-> q.case, vis |-> q.vis]

\* The INSERT; its answer may get lost.
Inserted(q) ==
    LET p == Payload(q) IN
    /\ q.kind \in {"send", "file"} /\ q.stage = "insert" /\ Len(messages) < MaxMessages
    /\ messages' = Append(messages, [case |-> p.case, user |-> q.user, vis |-> ApplyActorRules(q.user, p.vis), read |-> FALSE,
                                     gone |-> FALSE, meant |-> [case |-> q.case, vis |-> q.vis]])
    /\ \E stage \in {"answered", "failed"} : Becomes(q, [q EXCEPT !.stage = stage, !.id = Len(messages) + 1])
    /\ UNCHANGED <<files, assigned, window, acted, clicks>>

\* A call is refused, or the server cannot be reached.
Fails(q) ==
    /\ q.kind \in {"send", "file"} /\ q.stage \in {"upload", "check", "insert"}
    /\ Becomes(q, [q EXCEPT !.stage = "failed"])
    /\ UNCHANGED <<messages, files, assigned, window, acted, clicks>>

\* The created message is added.  finally: the flag is cleared, also when another message is
\* still being sent.
Sent(q) ==
    /\ q.kind \in {"send", "file"} /\ q.stage = "answered" /\ Ends(q)
    /\ Sets(q.user, [window[q.user] EXCEPT !.shown = @ \cup {q.id},
                                           !.sending = @ /\ q.kind # "send", !.uploading = @ /\ q.kind # "file"])
    /\ UNCHANGED <<messages, files, assigned, acted, clicks>>
NotSent(q) ==
    /\ q.kind \in {"send", "file"} /\ q.stage = "failed" /\ Ends(q)
    /\ Sets(q.user, [window[q.user] EXCEPT !.sending = @ /\ q.kind # "send", !.uploading = @ /\ q.kind # "file"])
    /\ UNCHANGED <<messages, files, assigned, acted, clicks>>

-----------------------------------------------------------------------------
(* Other calls of the API, which the windows do not make. *)

\* MarkRead: the message is found, the right checked, the row updated.
MarkRead(u) ==
    /\ Clicks
    /\ \E id \in {i \in Id : ~messages[i].gone} :
         calls' = calls \cup {[Call(u, "mark", "check", messages[id].case, messages[id].vis) EXCEPT !.id = id]}
    /\ UNCHANGED <<messages, files, assigned, window, acted>>
MarkChecked(q) ==
    /\ q.kind = "mark" /\ q.stage = "check"
    /\ IF CanAccess(q.user, q.case, q.vis) THEN Becomes(q, [q EXCEPT !.stage = "update"]) ELSE Ends(q)
    /\ UNCHANGED <<messages, files, assigned, window, acted, clicks>>
Marked(q) ==
    /\ q.kind = "mark" /\ q.stage = "update" /\ Ends(q)
    /\ IF messages[q.id].gone THEN UNCHANGED <<messages, acted>>
       ELSE /\ messages' = [messages EXCEPT ![q.id].read = TRUE]
            /\ acted' = acted \cup {[user |-> q.user, id |-> q.id, mine |-> q.mine]}
    /\ UNCHANGED <<files, assigned, window, clicks>>

\* DeleteAdmin.
DeleteMessage ==
    /\ Clicks
    /\ \E id \in {i \in Id : ~messages[i].gone} : messages' = [messages EXCEPT ![id].gone = TRUE]
    /\ UNCHANGED <<files, assigned, window, calls, acted>>

\* Elsewhere an accountant is put on a case or taken off (module Assignments).
Reassign ==
    /\ Clicks
    /\ \E a \in Accountant, c \in Case :
         IF <<a, c>> \in assigned THEN assigned' = assigned \ {<<a, c>>} /\ UNCHANGED calls
         ELSE /\ assigned' = assigned \cup {<<a, c>>}
              /\ calls' = {IF q.user = a /\ q.case = c THEN [q EXCEPT !.mine = TRUE] ELSE q : q \in calls}
    /\ UNCHANGED <<messages, files, window, acted>>

-----------------------------------------------------------------------------
Init == /\ messages = Earlier /\ files = {} /\ assigned \in SUBSET (Accountant \X Case) /\ acted = {} /\ clicks = 0
        /\ window = [u \in User |-> Closed] /\ calls = {}

Loads(q) == LoadCases(q) \/ LoadChecked(q) \/ LoadListed(q) \/ LoadDelivered(q) \/ LoadFails(q)
Creates(q) == Uploaded(q) \/ CreateChecked(q) \/ Inserted(q) \/ Fails(q) \/ Sent(q) \/ NotSent(q)
Marks(q) == MarkChecked(q) \/ Marked(q)
Proceeds(u) == \E q \in calls : q.user = u /\ (Loads(q) \/ Creates(q) \/ Marks(q))

Next == \/ \E u \in User : \/ OpenWindow(u) \/ LoadAll(u) \/ SelectThread(u) \/ OpenByReference(u) \/ SetVisibility(u)
                           \/ Send(u) \/ FileUpload(u) \/ MarkRead(u) \/ Proceeds(u)
        \/ DeleteMessage \/ Reassign

\* A call gets an answer in the end, and the window takes it.
Fairness == WF_vars(\E u \in User : Proceeds(u))

Spec == Init /\ [][Next]_vars /\ Fairness

-----------------------------------------------------------------------------
(* Properties. *)

Window == [shown : SUBSET Id, cases : SUBSET Case, thread : Case \cup {NONE, "direct"},
           opened : Case \cup {NONE}, vis : Visibility, loading : BOOLEAN, sending : BOOLEAN, uploading : BOOLEAN]
File == [user : User, case : Case, vis : {"client", "staff", "admin"}, meant : Visibility]
Pending == [no : Nat, user : User, kind : {"load", "send", "file", "mark"},
            stage : {"cases", "check", "list", "deliver", "upload", "insert", "answered", "failed", "update"},
            case : Case \cup {NONE}, vis : Visibility, id : Id \cup {0}, mine : BOOLEAN,
            thread : Case \cup {NONE, "direct"}, todo : SUBSET (Case \cup {NONE}), cases : SUBSET Case, got : SUBSET Id]
Acted == [user : User, id : Id, mine : BOOLEAN]

\* Type invariant.
TypeOK ==
    /\ messages \in Seq(Message) /\ files \subseteq File /\ assigned \subseteq Accountant \X Case
    /\ window \in [User -> Window] /\ calls \subseteq Pending /\ acted \subseteq Acted
    /\ clicks \in 0..MaxClicks

\* Notes stay inside: nobody is shown, or marks as read, a message that is not for his role, or
\* of a case he had no part in at any time while the call ran, however accountants are put on
\* cases and taken off between the check and the statement after it.
WithinSight ==
    /\ \A s \in acted : s.mine /\ Sees(s.user, messages[s.id].vis)
    /\ \A u \in User : \A id \in window[u].shown :
          messages[id].user = u \/ \E s \in acted : s.user = u /\ s.id = id

\* What was chosen when a message was sent holds for it and for the document sent with it,
\* whatever thread and visibility are chosen while the two requests run: the document is open to
\* those of the case whom the message is for, the document of an internal note to no client.  Only
\* an accountant's document is kept from the client although the message is not.
SentAsMeant ==
    /\ \A id \in Id : AsMeant(messages[id])
    /\ \A f \in files : \A u \in User :
          OpenTo(u, f.vis) <=> Sees(u, f.meant) /\ ~(f.user \in Accountant /\ u \in Client)

\* A window does not stay at loading, sending or uploading.
Busy(u) == window[u].loading \/ window[u].sending \/ window[u].uploading
ComesToRest == \A u \in User : Busy(u) ~> ~Busy(u)

=============================================================================
