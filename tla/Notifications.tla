---------------------------- MODULE Notifications ----------------------------
(***************************************************************************)
(* How a notification is announced: NotifyUser and its fan-outs NotifyUsers *)
(* and NotifyClientsAboutBlogPublished, over the tables notifications and   *)
(* notification_deliveries and the e-mail and SMS providers.                *)
(*                                                                          *)
(* A call works through its recipients and, for each, through the channels  *)
(* it was given; every statement and every request to a provider is a step, *)
(* and the call may stop after each of them (a cancelled request context, a *)
(* failing database, a crash): nothing is in a transaction, the status of a *)
(* failed send is written with the same context, and no worker retries what *)
(* stays pending.  Meanwhile the recipients read and delete what arrived,   *)
(* and deleting a notification deletes its deliveries (ON DELETE CASCADE).  *)
(*                                                                          *)
(* A call is made once, and the id of a notification is the call and the    *)
(* place of the recipient it was created for.  Texts, types, links and      *)
(* provider ids are left out.                                               *)
(***************************************************************************)
EXTENDS Naturals, Sequences

CONSTANTS
    User,
    Call,           \* calls of the three operations above
    Place,          \* places in a list of recipients
    Recipients,     \* the lists of users a call may have to notify
    ChannelLists,   \* the lists of channels callers pass, as they pass them
    Configured,     \* the channels whose sender has a provider
    Contact,        \* the <<user, channel>> with an address or a phone number
    NONE            \* SQL NULL

Channel == {"in_app", "email", "sms"}
Notice == Call \X Place

ASSUME ParametersAreLists ==
    /\ Place \subseteq Nat
    /\ Recipients \subseteq Seq(User)
    /\ \A users \in Recipients : DOMAIN users \subseteq Place
    /\ ChannelLists \subseteq Seq(Channel)

VARIABLES
    notices,        \* notices[n]: the row of notifications, or NoNotice
    deliveries,     \* deliveries[n][ch]: status and attempt_count of a row
    messages,       \* messages[n][ch]: what the provider did with the message
    calls           \* calls[c]: the lists, and how far through them the call is

vars == <<notices, deliveries, messages, calls>>

Settled == {"sent", "failed", "skipped"}
Status == {"none", "pending", "gone"} \cup Settled

NoNotice == [state |-> "unused", user |-> NONE, read |-> FALSE]
NoticeRow == {NoNotice} \cup
    [state : {"live", "deleted"}, user : User, read : BOOLEAN]

NoDelivery == [status |-> "none", attempts |-> 0]
DeliveryRow == [status : Status, attempts : 0..1]

NewCall == [at |-> "new", users |-> <<>>, channels |-> <<>>,
            user |-> 1, channel |-> 1, outcome |-> "failed"]
Working == {"next", "channel", "send", "wait", "mark"}
CallState ==
    [at : Working \cup {"new", "done", "stopped"}, users : Seq(User),
     channels : Seq(Channel), user : Nat, channel : Nat, outcome : Settled]

TypeOK ==
    /\ notices \in [Notice -> NoticeRow]
    /\ deliveries \in [Notice -> [Channel -> DeliveryRow]]
    /\ messages \in [Notice -> [Channel -> {"none", "asked", "accepted", "rejected"}]]
    /\ calls \in [Call -> CallState]

Init ==
    /\ notices = [n \in Notice |-> NoNotice]
    /\ deliveries = [n \in Notice |-> [ch \in Channel |-> NoDelivery]]
    /\ messages = [n \in Notice |-> [ch \in Channel |-> "none"]]
    /\ calls = [c \in Call |-> NewCall]

CurrentNotice(c) == <<c, calls[c].user>>
CurrentUser(c) == calls[c].users[calls[c].user]
CurrentChannel(c) == calls[c].channels[calls[c].channel]
MoreUsers(c) == calls[c].user \in DOMAIN calls[c].users
MoreChannels(c) == calls[c].channel \in DOMAIN calls[c].channels

-----------------------------------------------------------------------------
(* The steps of a call.                                                     *)

GoTo(c, step) == calls' = [calls EXCEPT ![c].at = step]
Stop(c) == GoTo(c, "stopped")
SettleAs(c, outcome) ==
    calls' = [calls EXCEPT ![c].at = "mark", ![c].outcome = outcome]
NextChannel(c) ==
    calls' = [calls EXCEPT ![c].at = "channel", ![c].channel = @ + 1]

\* NormalizeChannels puts in-app where the caller names no channel ...
DefaultChannels(list) == IF list = <<>> THEN <<"in_app">> ELSE list

\* ... and drops a channel the caller has named before.
Repeated(list, i) == \E j \in 1..(i - 1) : list[j] = list[i]

StartCall(c, users, channels) ==
    /\ calls[c].at = "new"
    /\ calls' = [calls EXCEPT ![c].at = "next", ![c].users = users,
                              ![c].channels = DefaultChannels(channels)]
    /\ UNCHANGED <<notices, deliveries, messages>>

CreateNotice(c) ==
    /\ calls[c].at = "next"
    /\ MoreUsers(c)
    /\ notices' = [notices EXCEPT ![CurrentNotice(c)] =
                      [state |-> "live", user |-> CurrentUser(c), read |-> FALSE]]
    /\ calls' = [calls EXCEPT ![c].at = "channel", ![c].channel = 1]
    /\ UNCHANGED <<deliveries, messages>>

ReturnSuccess(c) ==
    /\ calls[c].at = "next"
    /\ ~ MoreUsers(c)
    /\ GoTo(c, "done")
    /\ UNCHANGED <<notices, deliveries, messages>>

NextUser(c) ==
    /\ calls[c].at = "channel"
    /\ ~ MoreChannels(c)
    /\ calls' = [calls EXCEPT ![c].at = "next", ![c].user = @ + 1]
    /\ UNCHANGED <<notices, deliveries, messages>>

\* An in-app delivery needs no address; the others do nothing without one.
HasRecipient(user, ch) == ch = "in_app" \/ <<user, ch>> \in Contact

Wanted(c) ==
    /\ ~ Repeated(calls[c].channels, calls[c].channel)
    /\ HasRecipient(CurrentUser(c), CurrentChannel(c))

SkipChannel(c) ==
    /\ calls[c].at = "channel"
    /\ MoreChannels(c)
    /\ ~ Wanted(c)
    /\ NextChannel(c)
    /\ UNCHANGED <<notices, deliveries, messages>>

\* The foreign key refuses a delivery of a notification deleted meanwhile, and
\* that error ends the call with the channels and recipients still to come.
InsertDelivery(c, ch) ==
    /\ calls[c].at = "channel"
    /\ MoreChannels(c)
    /\ Wanted(c)
    /\ \/ /\ notices[CurrentNotice(c)].state = "live"
          /\ deliveries' = [deliveries EXCEPT ![CurrentNotice(c)][ch] =
                              [status |-> "pending", attempts |-> 0]]
          /\ IF ch = "in_app" THEN SettleAs(c, "sent") ELSE GoTo(c, "send")
       \/ /\ notices[CurrentNotice(c)].state = "deleted"
          /\ Stop(c)
          /\ UNCHANGED deliveries
    /\ UNCHANGED <<notices, messages>>

\* Fault: a channel without a sender is passed over and its record forgotten.
SendForgets(c, ch) ==
    /\ calls[c].at = "send"
    /\ \/ /\ ch \in Configured
          /\ messages' = [messages EXCEPT ![CurrentNotice(c)][ch] = "asked"]
          /\ GoTo(c, "wait")
       \/ /\ ch \notin Configured
          /\ NextChannel(c)
          /\ UNCHANGED messages
    /\ UNCHANGED <<notices, deliveries>>

\* SendEmail, SendSMS: the request goes out, or no provider is configured.
Send(c, ch) ==
    /\ calls[c].at = "send"
    /\ \/ /\ ch \in Configured
          /\ messages' = [messages EXCEPT ![CurrentNotice(c)][ch] = "asked"]
          /\ GoTo(c, "wait")
       \/ /\ ch \notin Configured
          /\ SettleAs(c, "skipped")
          /\ UNCHANGED messages
    /\ UNCHANGED <<notices, deliveries>>

ReadAnswer(c, ch) ==
    /\ calls[c].at = "wait"
    /\ \/ messages[CurrentNotice(c)][ch] = "accepted" /\ SettleAs(c, "sent")
       \/ messages[CurrentNotice(c)][ch] = "rejected" /\ SettleAs(c, "failed")
    /\ UNCHANGED <<notices, deliveries, messages>>

\* Fault: the error of the HTTP client is dropped.
TimeoutIgnored(c) ==
    /\ calls[c].at = "wait"
    /\ SettleAs(c, "sent")
    /\ UNCHANGED <<notices, deliveries, messages>>

\* Fault: an http.Client without a Timeout.
NoTimeout(c) == FALSE /\ UNCHANGED vars

\* The http.Client gives up after 15 seconds or on a broken connection, whether
\* or not the provider has taken the message.
Timeout(c) ==
    /\ calls[c].at = "wait"
    /\ SettleAs(c, "failed")
    /\ UNCHANGED <<notices, deliveries, messages>>

\* Fault: the attempt is counted by the service and again by the UPDATE.
AttemptedTwice(outcome) == IF outcome = "skipped" THEN 0 ELSE 2

Attempted(outcome) == IF outcome = "skipped" THEN 0 ELSE 1

\* Fault: an UPDATE that finds no row is no error.
MarkAlways(c, ch) ==
    /\ calls[c].at = "mark"
    /\ deliveries' = [deliveries EXCEPT ![CurrentNotice(c)][ch] =
                        [status |-> calls[c].outcome,
                         attempts |-> @.attempts + Attempted(calls[c].outcome)]]
    /\ NextChannel(c)
    /\ UNCHANGED <<notices, messages>>

\* MarkDeliverySent, MarkDeliveryFailed, MarkDeliverySkipped: without the row
\* they answer "not found", and that ends the call.
Mark(c, ch) ==
    /\ calls[c].at = "mark"
    /\ \/ /\ deliveries[CurrentNotice(c)][ch].status # "gone"
          /\ deliveries' = [deliveries EXCEPT ![CurrentNotice(c)][ch] =
                              [status |-> calls[c].outcome,
                               attempts |-> @.attempts + Attempted(calls[c].outcome)]]
          /\ NextChannel(c)
       \/ /\ deliveries[CurrentNotice(c)][ch].status = "gone"
          /\ Stop(c)
          /\ UNCHANGED deliveries
    /\ UNCHANGED <<notices, messages>>

\* Fault: the fan-out logs what went wrong for a recipient and goes on to the next.
AbortRecipient(c) ==
    /\ calls[c].at \in Working
    /\ calls' = [calls EXCEPT ![c].at = "next", ![c].user = @ + 1]
    /\ UNCHANGED <<notices, deliveries, messages>>

\* The context of the request is cancelled, a statement fails, or the server dies.
Abort(c) ==
    /\ calls[c].at \in Working
    /\ Stop(c)
    /\ UNCHANGED <<notices, deliveries, messages>>

\* A request the provider has received, even one nobody waits for any more.
ProviderDecides(n, ch) ==
    /\ messages[n][ch] = "asked"
    /\ \E answer \in {"accepted", "rejected"} :
          messages' = [messages EXCEPT ![n][ch] = answer]
    /\ UNCHANGED <<notices, deliveries, calls>>

-----------------------------------------------------------------------------
(* The recipients.                                                          *)

MarkRead(n, u) ==
    /\ notices[n].state = "live"
    /\ notices[n].user = u
    /\ notices' = [notices EXCEPT ![n].read = TRUE]
    /\ UNCHANGED <<deliveries, messages, calls>>

MarkAllRead(u) ==
    /\ notices' = [n \in Notice |->
          IF notices[n].state = "live" /\ notices[n].user = u
          THEN [notices[n] EXCEPT !.read = TRUE] ELSE notices[n]]
    /\ UNCHANGED <<deliveries, messages, calls>>

Cascade(row) == IF row.status = "none" THEN row ELSE [row EXCEPT !.status = "gone"]

Delete(n, u) ==
    /\ notices[n].state = "live"
    /\ notices[n].user = u
    /\ notices' = [notices EXCEPT ![n].state = "deleted"]
    /\ deliveries' = [deliveries EXCEPT ![n] = [ch \in Channel |-> Cascade(@[ch])]]
    /\ UNCHANGED <<messages, calls>>

-----------------------------------------------------------------------------
ChannelStep(c, ch) ==
    \/ InsertDelivery(c, ch)
    \/ Send(c, ch)
    \/ ReadAnswer(c, ch)
    \/ Mark(c, ch)

\* What the server does by itself once a call has been made.
CallStep(c) ==
    \/ CreateNotice(c)
    \/ ReturnSuccess(c)
    \/ NextUser(c)
    \/ SkipChannel(c)
    \/ Timeout(c)
    \/ MoreChannels(c) /\ ChannelStep(c, CurrentChannel(c))

UserStep(u) ==
    \/ MarkAllRead(u)
    \/ \E n \in Notice : MarkRead(n, u) \/ Delete(n, u)

Next ==
    \/ \E c \in Call :
          \/ \E users \in Recipients, channels \in ChannelLists :
                StartCall(c, users, channels)
          \/ CallStep(c)
          \/ Abort(c)
    \/ \E n \in Notice, ch \in Channel : ProviderDecides(n, ch)
    \/ \E u \in User : UserStep(u)

Spec == Init /\ [][Next]_vars

\* A goroutine that can go on does: net/http serves every request, and the
\* statements and provider requests of a call return (the latter by Timeout).
\* Nothing is assumed of the providers, the callers or the recipients.
FairSpec == Spec /\ \A c \in Call : WF_vars(CallStep(c))

-----------------------------------------------------------------------------
(* Properties.                                                              *)

\* What a record says of its message is so: "sent" was accepted by the provider
\* (or is in-app), "skipped" was never handed to one, and attempt_count counts
\* the attempts.  "failed" says less: the provider may have the message.
LedgerTruthful ==
    \A n \in Notice, ch \in Channel :
        LET row == deliveries[n][ch] IN
        /\ row.status = "sent" => ch = "in_app" \/ messages[n][ch] = "accepted"
        /\ row.status = "skipped" => messages[n][ch] = "none"
        /\ row.status \in {"none", "pending", "skipped"} => row.attempts = 0
        /\ row.status \in {"sent", "failed"} => row.attempts = 1

\* No provider is asked before the record of the delivery exists, so that no
\* message leaves the system without a trace an admin could have seen.
NothingUnrecorded ==
    \A n \in Notice, ch \in Channel :
        messages[n][ch] # "none" => deliveries[n][ch].status # "none"

\* The call a record was opened by is still at it, or stopped there: a record
\* stays pending only when its own call was cut off, never for another reason,
\* and a notification has at most one such record.
PendingHasItsCall ==
    \A c \in Call, i \in Place, ch \in Channel :
        deliveries[<<c, i>>][ch].status = "pending" =>
            /\ calls[c].at \in {"send", "wait", "mark", "stopped"}
            /\ calls[c].user = i
            /\ MoreChannels(c)
            /\ CurrentChannel(c) = ch

\* Callers only log an error and drop it, so "no error" has to mean something:
\* every recipient has the notification, and a settled record (or had one, before
\* deleting the notification) for every channel with an address.
SuccessMeansServed ==
    \A c \in Call : calls[c].at = "done" =>
        \A i \in DOMAIN calls[c].users, j \in DOMAIN calls[c].channels :
            LET ch == calls[c].channels[j] IN
            /\ notices[<<c, i>>].state # "unused"
            /\ HasRecipient(calls[c].users[i], ch) =>
                   deliveries[<<c, i>>][ch].status \in Settled \cup {"gone"}

\* Through every interleaving with the recipients' deletions the records of a
\* notification live as DeliveryLedger says.
Ledger == INSTANCE DeliveryLedger WITH
    posted <- [n \in Notice |-> notices[n].state],
    ledger <- [n \in Notice |-> [ch \in Channel |-> deliveries[n][ch].status]]
LedgerKept == Ledger!Spec

\* Whatever the providers do, a call returns to the handler that waits for it.
CallsReturn == \A c \in Call : calls[c].at \in Working ~> calls[c].at \in {"done", "stopped"}
=============================================================================
