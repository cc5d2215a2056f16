-------------------------- MODULE NotificationsProofs --------------------------
(***************************************************************************)
(* What Notifications does for any number of users, calls and channels:    *)
(* the inductive invariant Inductive, the safety properties that follow    *)
(* from it, and that every step is a step of DeliveryLedger.               *)
(***************************************************************************)
EXTENDS Notifications, TLAPS

Serving == {"channel", "send", "wait", "mark"}
Sending == {"send", "wait", "mark"}
Places == Working \cup {"new", "done", "stopped"}
State(c, i) == notices[<<c, i>>].state
RowStatus(c, i, ch) == deliveries[<<c, i>>][ch].status
Message(c, i, ch) == messages[<<c, i>>][ch]

\* Where a call may be, and what is there.
ShapeOK(c) ==
    /\ calls[c].user >= 1 /\ calls[c].channel >= 1
    /\ calls[c].at = "new" => calls[c].user = 1
    /\ DOMAIN calls[c].users \subseteq Place
    /\ calls[c].at \in Serving => MoreUsers(c) /\ State(c, calls[c].user) # "unused"
    /\ calls[c].at \in Sending => MoreChannels(c)
    /\ calls[c].at = "done" => ~ MoreUsers(c)

\* What a call has not reached yet does not exist.
BeforeUser(c, i) ==
    \/ calls[c].user < i
    \/ calls[c].user = i /\ calls[c].at \in {"new", "next"}
BeforeChannel(c, i, ch) ==
    \/ BeforeUser(c, i)
    \/ /\ calls[c].user = i
       /\ calls[c].at \in Serving
       /\ \A j \in 1..(calls[c].channel - 1) : calls[c].channels[j] # ch
       /\ calls[c].at \in Sending => CurrentChannel(c) # ch
AheadOK(c) ==
    \A i \in Place :
        /\ BeforeUser(c, i) => State(c, i) = "unused"
        /\ \A ch \in Channel : BeforeChannel(c, i, ch) =>
              RowStatus(c, i, ch) = "none" /\ Message(c, i, ch) = "none"

\* The record a call is at is open or gone, and its message as far as the call.
OpenOK(c) ==
    calls[c].at \in Sending =>
        LET i == calls[c].user
            ch == CurrentChannel(c)
        IN  /\ RowStatus(c, i, ch) \in {"pending", "gone"}
            /\ calls[c].at = "send" => Message(c, i, ch) = "none"
            /\ calls[c].at = "mark" /\ calls[c].outcome = "sent" =>
                  ch = "in_app" \/ Message(c, i, ch) = "accepted"
            /\ calls[c].at = "mark" /\ calls[c].outcome = "skipped" =>
                  Message(c, i, ch) = "none"

\* What a call has left behind without an error is settled.
Passed(c, i, j) ==
    \/ i < calls[c].user
    \/ i = calls[c].user /\ calls[c].at \in Serving /\ j < calls[c].channel
BehindOK(c) ==
    calls[c].at # "stopped" =>
        \A i \in DOMAIN calls[c].users :
            /\ i < calls[c].user => State(c, i) # "unused"
            /\ \A j \in DOMAIN calls[c].channels :
                  Passed(c, i, j) /\ HasRecipient(calls[c].users[i], calls[c].channels[j])
                  => RowStatus(c, i, calls[c].channels[j]) \in Settled \cup {"gone"}

PendingOK(c) ==
    \A i \in Place, ch \in Channel :
        RowStatus(c, i, ch) = "pending" =>
            /\ calls[c].at \in Sending \cup {"stopped"}
            /\ calls[c].user = i
            /\ MoreChannels(c)
            /\ CurrentChannel(c) = ch

CallOK(c) == ShapeOK(c) /\ AheadOK(c) /\ OpenOK(c) /\ BehindOK(c) /\ PendingOK(c)

Inductive ==
    /\ TypeOK
    /\ \A c \in Call : CallOK(c)
    /\ LedgerTruthful
    /\ NothingUnrecorded

-----------------------------------------------------------------------------
(* What a step may do to a call that is not its own.                       *)

\* Its notifications are read or deleted, its messages answered.
Elsewhere(c) ==
    /\ calls'[c] = calls[c]
    /\ \A i \in Place : (State(c, i)' = "unused") <=> (State(c, i) = "unused")
    /\ \A i \in Place, ch \in Channel :
          /\ \/ RowStatus(c, i, ch)' = RowStatus(c, i, ch)
             \/ RowStatus(c, i, ch) # "none" /\ RowStatus(c, i, ch)' = "gone"
          /\ \/ Message(c, i, ch)' = Message(c, i, ch)
             \/ Message(c, i, ch) = "asked" /\ Message(c, i, ch)' # "none"

LEMMA CurrentPlace ==
    ASSUME NEW c \in Call, ShapeOK(c), MoreUsers(c)
    PROVE  calls[c].user \in Place /\ CurrentNotice(c) \in Notice
  BY DEF ShapeOK, MoreUsers, CurrentNotice, Notice

LEMMA CurrentIsChannel ==
    ASSUME TypeOK, NEW c \in Call, MoreChannels(c)
    PROVE  CurrentChannel(c) \in Channel
  BY DEF TypeOK, CallState, MoreChannels, CurrentChannel

LEMMA ChannelRange ==
    ASSUME TypeOK, NEW c \in Call
    PROVE  /\ \A j \in DOMAIN calls[c].channels : calls[c].channels[j] \in Channel
           /\ calls[c].channels \in Seq(Channel)
           /\ calls[c].user \in Nat /\ calls[c].channel \in Nat
           /\ DOMAIN calls[c].channels = 1..Len(calls[c].channels)
           /\ Len(calls[c].channels) \in Nat
           /\ DOMAIN calls[c].users = 1..Len(calls[c].users)
           /\ Len(calls[c].users) \in Nat
<1>1. calls[c] \in CallState
  BY DEF TypeOK
<1>2. calls[c].channels \in Seq(Channel) /\ calls[c].users \in Seq(User)
  BY <1>1 DEF CallState
<1>3. calls[c].user \in Nat /\ calls[c].channel \in Nat
  BY <1>1 DEF CallState
<1>4. QED
  BY <1>2, <1>3

\* A step elsewhere leaves what is known of a call true.
LEMMA ElsewhereKeeps ==
    ASSUME TypeOK, NEW c \in Call, CallOK(c), Elsewhere(c)
    PROVE  CallOK(c)'
<1>1. /\ \A j \in DOMAIN calls[c].channels : calls[c].channels[j] \in Channel
      /\ DOMAIN calls[c].users \subseteq Place
  BY ChannelRange DEF CallOK, ShapeOK
<1>2. ShapeOK(c)'
  BY CurrentPlace DEF CallOK, ShapeOK, Elsewhere, MoreUsers, MoreChannels, Serving, Working
<1>3. AheadOK(c)'
  BY DEF CallOK, AheadOK, BeforeUser, BeforeChannel, Elsewhere, CurrentChannel
<1>4. OpenOK(c)'
  <2>1. ASSUME calls[c].at \in Sending
        PROVE  calls[c].user \in Place /\ CurrentChannel(c) \in Channel
    BY <2>1, CurrentPlace, CurrentIsChannel DEF CallOK, ShapeOK, Sending, Serving, Working
  <2>2. QED
    BY <2>1 DEF CallOK, OpenOK, Elsewhere, CurrentChannel
<1>5. BehindOK(c)'
  BY <1>1 DEF CallOK, BehindOK, Passed, Elsewhere, Settled
<1>6. PendingOK(c)'
  BY DEF CallOK, PendingOK, Elsewhere, MoreChannels, CurrentChannel
<1>7. QED
  BY <1>2, <1>3, <1>4, <1>5, <1>6 DEF CallOK

-----------------------------------------------------------------------------
(* A step of a call: its effect on the call, then on what is known of it.  *)

OthersKept(c) == \A d \in Call : d # c => calls'[d] = calls[d]
RowsKept == UNCHANGED <<notices, deliveries, messages>>

\* Everything about calls but where c is.
Moves(c, at, user, channel, outcome) ==
    /\ calls' \in [Call -> CallState]
    /\ OthersKept(c)
    /\ calls'[c].at = at
    /\ calls'[c].users = calls[c].users
    /\ calls'[c].channels = calls[c].channels
    /\ calls'[c].user = user
    /\ calls'[c].channel = channel
    /\ calls'[c].outcome = outcome

LEMMA GoToMoves ==
    ASSUME TypeOK, NEW c \in Call, NEW step \in Places, GoTo(c, step)
    PROVE  Moves(c, step, calls[c].user, calls[c].channel, calls[c].outcome)
  BY DEF TypeOK, CallState, Places, GoTo, Moves, OthersKept

LEMMA SettleAsMoves ==
    ASSUME TypeOK, NEW c \in Call, NEW outcome \in Settled, SettleAs(c, outcome)
    PROVE  Moves(c, "mark", calls[c].user, calls[c].channel, outcome)
  BY DEF TypeOK, CallState, Working, SettleAs, Moves, OthersKept

LEMMA NextChannelMoves ==
    ASSUME TypeOK, NEW c \in Call, NextChannel(c)
    PROVE  Moves(c, "channel", calls[c].user, calls[c].channel + 1, calls[c].outcome)
  BY DEF TypeOK, CallState, Working, NextChannel, Moves, OthersKept

LEMMA NextUserMoves ==
    ASSUME TypeOK, NEW c \in Call, NextUser(c)
    PROVE  Moves(c, "next", calls[c].user + 1, calls[c].channel, calls[c].outcome)
<1>1. calls' = [calls EXCEPT ![c].at = "next", ![c].user = @ + 1]
  BY DEF NextUser
<1>2. calls \in [Call -> CallState] /\ calls[c].user + 1 \in Nat
  BY DEF TypeOK, CallState
<1>3. QED
  BY <1>1, <1>2 DEF CallState, Working, Moves, OthersKept

LEMMA CreateNoticeMoves ==
    ASSUME TypeOK, NEW c \in Call, CreateNotice(c)
    PROVE  Moves(c, "channel", calls[c].user, 1, calls[c].outcome)
  BY DEF TypeOK, CallState, Working, CreateNotice, Moves, OthersKept

LEMMA MovesType ==
    ASSUME Inductive, NEW c \in Call, NEW at, NEW user, NEW channel, NEW outcome,
           Moves(c, at, user, channel, outcome),
           notices' \in [Notice -> NoticeRow],
           deliveries' \in [Notice -> [Channel -> DeliveryRow]],
           messages' \in [Notice -> [Channel -> {"none", "asked", "accepted", "rejected"}]]
    PROVE  TypeOK'
  BY DEF TypeOK, Moves

\* A step that only moves its call keeps everything if what is known of the
\* call stays so.
LEMMA MoveKeeps ==
    ASSUME Inductive, NEW c \in Call, RowsKept, OthersKept(c),
           calls' \in [Call -> CallState], CallOK(c)'
    PROVE  Inductive'
<1>1. TypeOK'
  BY DEF Inductive, TypeOK, RowsKept
<1>2. ASSUME NEW d \in Call PROVE CallOK(d)'
  <2>1. CASE d = c
    BY <2>1
  <2>2. CASE d # c
    <3>1. Elsewhere(d)
      BY <2>2 DEF Elsewhere, OthersKept, RowsKept, State, RowStatus, Message
    <3>2. QED
      BY <3>1, ElsewhereKeeps DEF Inductive
  <2>3. QED
    BY <2>1, <2>2
<1>3. LedgerTruthful' /\ NothingUnrecorded'
  BY DEF Inductive, LedgerTruthful, NothingUnrecorded, RowsKept
<1>4. QED
  BY <1>1, <1>2, <1>3 DEF Inductive

LEMMA StartCallKeeps ==
    ASSUME Inductive, NEW c \in Call, NEW users \in Recipients,
           NEW channels \in ChannelLists, StartCall(c, users, channels)
    PROVE  Inductive'
<1>1. users \in Seq(User) /\ DOMAIN users \subseteq Place
  BY ParametersAreLists
<1>2. DefaultChannels(channels) \in Seq(Channel)
  <2>1. <<"in_app">> \in Seq(Channel)
    BY DEF Channel
  <2>2. channels \in Seq(Channel)
    BY ParametersAreLists
  <2>3. QED
    BY <2>1, <2>2 DEF DefaultChannels
<1>3. /\ calls' \in [Call -> CallState]
      /\ OthersKept(c)
      /\ calls'[c].at = "next"
      /\ calls'[c].users = users
      /\ calls'[c].user = calls[c].user
      /\ calls'[c].channel = calls[c].channel
  BY <1>1, <1>2 DEF Inductive, TypeOK, CallState, Working, StartCall, OthersKept
<1>4. calls[c].at = "new" /\ CallOK(c) /\ RowsKept
  BY DEF StartCall, Inductive, RowsKept
<1>5. calls[c].user = 1
  BY <1>4 DEF CallOK, ShapeOK
<1>6. ShapeOK(c)'
  BY <1>1, <1>3, <1>4, <1>5 DEF CallOK, ShapeOK, Working, Serving, Sending
<1>7. AheadOK(c)'
  BY <1>3, <1>4 DEF CallOK, AheadOK, BeforeUser, BeforeChannel, RowsKept, State, RowStatus,
       Message, Serving
<1>8. OpenOK(c)' /\ PendingOK(c)'
  BY <1>3, <1>4 DEF CallOK, OpenOK, PendingOK, RowsKept, RowStatus, Sending
<1>9. BehindOK(c)'
  <2>1. \A i \in DOMAIN users : ~ (i < 1)
    BY <1>1
  <2>2. QED
    BY <1>3, <1>5, <2>1 DEF BehindOK, Passed, Serving
<1>10. QED
  BY <1>3, <1>4, <1>6, <1>7, <1>8, <1>9, MoveKeeps DEF CallOK

LEMMA ReturnSuccessKeeps ==
    ASSUME Inductive, NEW c \in Call, ReturnSuccess(c)
    PROVE  Inductive'
<1>1. /\ Moves(c, "done", calls[c].user, calls[c].channel, calls[c].outcome)
      /\ CallOK(c) /\ RowsKept
      /\ calls[c].at = "next" /\ ~ MoreUsers(c)
  BY GoToMoves DEF ReturnSuccess, Inductive, RowsKept, Places
<1>2. ShapeOK(c)'
  BY <1>1 DEF Moves, CallOK, ShapeOK, Working, Serving, Sending, MoreUsers
<1>3. AheadOK(c)'
  BY <1>1 DEF Moves, CallOK, AheadOK, BeforeUser, BeforeChannel, RowsKept, State, RowStatus,
       Message, Serving
<1>4. OpenOK(c)' /\ PendingOK(c)'
  BY <1>1 DEF Moves, CallOK, OpenOK, PendingOK, RowsKept, RowStatus, Sending
<1>5. BehindOK(c)'
  BY <1>1 DEF Moves, CallOK, BehindOK, Passed, RowsKept, State, RowStatus, Serving
<1>6. QED
  BY <1>1, <1>2, <1>3, <1>4, <1>5, MoveKeeps DEF CallOK, Moves

LEMMA NextUserKeeps ==
    ASSUME Inductive, NEW c \in Call, NextUser(c)
    PROVE  Inductive'
<1>1. /\ Moves(c, "next", calls[c].user + 1, calls[c].channel, calls[c].outcome)
      /\ CallOK(c) /\ RowsKept
      /\ calls[c].at = "channel" /\ ~ MoreChannels(c)
  BY NextUserMoves DEF NextUser, Inductive, RowsKept
<1>2. /\ calls[c].user \in Nat /\ calls[c].user >= 1
      /\ DOMAIN calls[c].users \subseteq Place /\ Place \subseteq Nat
      /\ State(c, calls[c].user) # "unused"
  BY <1>1, ChannelRange, ParametersAreLists DEF Inductive, CallOK, ShapeOK, Serving
<1>3. ShapeOK(c)'
  BY <1>1, <1>2 DEF Moves, CallOK, ShapeOK, Working, Serving, Sending
<1>4. AheadOK(c)'
  BY <1>1, <1>2 DEF Moves, CallOK, AheadOK, BeforeUser, BeforeChannel, RowsKept, State,
       RowStatus, Message, Serving
<1>5. OpenOK(c)' /\ PendingOK(c)'
  BY <1>1 DEF Moves, CallOK, OpenOK, PendingOK, RowsKept, RowStatus, Sending
<1>6. BehindOK(c)'
  <2>1. \A j \in DOMAIN calls[c].channels : j < calls[c].channel
    BY <1>1, ChannelRange DEF Inductive, MoreChannels, CallOK, ShapeOK
  <2>2. \A i \in DOMAIN calls[c].users :
           i < calls[c].user + 1 => i < calls[c].user \/ i = calls[c].user
    BY <1>2
  <2>3. QED
    BY <1>1, <1>2, <2>1, <2>2 DEF Moves, CallOK, BehindOK, Passed, RowsKept, State, RowStatus,
         Serving
<1>7. QED
  BY <1>1, <1>3, <1>4, <1>5, <1>6, MoveKeeps DEF CallOK, Moves

LEMMA SkipChannelKeeps ==
    ASSUME Inductive, NEW c \in Call, SkipChannel(c)
    PROVE  Inductive'
<1>1. /\ Moves(c, "channel", calls[c].user, calls[c].channel + 1, calls[c].outcome)
      /\ CallOK(c) /\ RowsKept
      /\ calls[c].at = "channel" /\ MoreChannels(c) /\ ~ Wanted(c)
  BY NextChannelMoves DEF SkipChannel, Inductive, RowsKept
<1>2. /\ calls[c].channel \in Nat /\ calls[c].channel >= 1
      /\ DOMAIN calls[c].channels = 1..Len(calls[c].channels)
      /\ Len(calls[c].channels) \in Nat
  BY <1>1, ChannelRange DEF Inductive, CallOK, ShapeOK
<1>3. ShapeOK(c)'
  BY <1>1, <1>2 DEF Moves, CallOK, ShapeOK, Working, Serving, Sending, RowsKept, State, MoreUsers
<1>4. AheadOK(c)'
  <2>1. ASSUME NEW i \in Place, BeforeUser(c, i)'
        PROVE  BeforeUser(c, i)
    BY <1>1, <2>1 DEF Moves, BeforeUser
  <2>2. ASSUME NEW i \in Place, NEW ch \in Channel, BeforeChannel(c, i, ch)'
        PROVE  BeforeChannel(c, i, ch)
    <3>1. CASE BeforeUser(c, i)'
      BY <2>1, <3>1 DEF BeforeChannel
    <3>2. CASE ~ BeforeUser(c, i)'
      <4>1. /\ calls[c].user = i
            /\ \A j \in 1..(calls'[c].channel - 1) : calls[c].channels[j] # ch
        BY <1>1, <2>2, <3>2 DEF BeforeChannel, Moves
      <4>2. \A j \in 1..(calls[c].channel - 1) : j \in 1..(calls'[c].channel - 1)
        BY <1>1, <1>2 DEF Moves
      <4>3. QED
        BY <1>1, <4>1, <4>2 DEF BeforeChannel, Serving, Sending
    <3>3. QED
      BY <3>1, <3>2
  <2>3. QED
    BY <1>1, <2>1, <2>2 DEF CallOK, AheadOK, RowsKept, State, RowStatus, Message
<1>5. OpenOK(c)' /\ PendingOK(c)'
  BY <1>1 DEF Moves, CallOK, OpenOK, PendingOK, RowsKept, RowStatus, Sending
<1>6. BehindOK(c)'
  <2>1. SUFFICES ASSUME NEW i \in DOMAIN calls[c].users, NEW j \in DOMAIN calls[c].channels,
                        i = calls[c].user, j = calls[c].channel,
                        HasRecipient(calls[c].users[i], calls[c].channels[j])
                 PROVE  RowStatus(c, i, calls[c].channels[j]) \in Settled \cup {"gone"}
    <3>1. \A j \in DOMAIN calls[c].channels :
             j < calls[c].channel + 1 => j < calls[c].channel \/ j = calls[c].channel
      BY <1>2
    <3>2. QED
      BY <1>1, <3>1 DEF Moves, CallOK, BehindOK, Passed, RowsKept, State, RowStatus, Serving
  <2>2. PICK k \in 1..(j - 1) : calls[c].channels[k] = calls[c].channels[j]
    BY <1>1, <2>1 DEF Wanted, Repeated, CurrentUser, CurrentChannel
  <2>3. k \in DOMAIN calls[c].channels /\ k < calls[c].channel
    BY <1>2, <2>1
  <2>4. Passed(c, i, k)
    BY <1>1, <2>1, <2>3 DEF Passed, Serving
  <2>5. QED
    BY <1>1, <2>1, <2>2, <2>3, <2>4 DEF CallOK, BehindOK
<1>7. QED
  BY <1>1, <1>3, <1>4, <1>5, <1>6, MoveKeeps DEF CallOK, Moves

LEMMA AbortKeeps ==
    ASSUME Inductive, NEW c \in Call, RowsKept, calls[c].at \in Working, Stop(c)
    PROVE  Inductive'
<1>1. /\ Moves(c, "stopped", calls[c].user, calls[c].channel, calls[c].outcome)
      /\ CallOK(c)
  BY GoToMoves DEF Stop, Inductive, Places
<1>2. ShapeOK(c)'
  BY <1>1 DEF Moves, CallOK, ShapeOK, Working, Serving, Sending
<1>3. AheadOK(c)'
  BY <1>1 DEF Moves, CallOK, AheadOK, BeforeUser, BeforeChannel, RowsKept, State, RowStatus,
       Message, Serving
<1>4. OpenOK(c)' /\ BehindOK(c)'
  BY <1>1 DEF Moves, OpenOK, BehindOK, Sending
<1>5. PendingOK(c)'
  BY <1>1 DEF Moves, CallOK, PendingOK, RowsKept, RowStatus, MoreChannels, CurrentChannel
<1>6. QED
  BY <1>1, <1>2, <1>3, <1>4, <1>5, MoveKeeps DEF CallOK, Moves

\* ReadAnswer, Timeout and a Send without a provider settle on an outcome.
LEMMA SettleKeeps ==
    ASSUME Inductive, NEW c \in Call, NEW outcome \in Settled, RowsKept,
           calls[c].at \in {"send", "wait"}, SettleAs(c, outcome),
           outcome = "sent" => Message(c, calls[c].user, CurrentChannel(c)) = "accepted",
           outcome = "skipped" => calls[c].at = "send"
    PROVE  Inductive'
<1>1. Moves(c, "mark", calls[c].user, calls[c].channel, outcome) /\ CallOK(c)
  BY SettleAsMoves DEF Inductive
<1>2. ShapeOK(c)'
  BY <1>1 DEF Moves, CallOK, ShapeOK, Working, Serving, Sending, MoreUsers, MoreChannels,
       RowsKept, State
<1>3. AheadOK(c)'
  BY <1>1 DEF Moves, CallOK, AheadOK, BeforeUser, BeforeChannel, RowsKept, State, RowStatus,
       Message, Serving, Sending, CurrentChannel
<1>4. OpenOK(c)'
  BY <1>1 DEF Moves, CallOK, OpenOK, RowsKept, RowStatus, Message, Sending, CurrentChannel
<1>5. BehindOK(c)'
  BY <1>1 DEF Moves, CallOK, BehindOK, Passed, RowsKept, State, RowStatus, Serving
<1>6. PendingOK(c)'
  BY <1>1 DEF Moves, CallOK, PendingOK, RowsKept, RowStatus, MoreChannels, CurrentChannel, Sending
<1>7. QED
  BY <1>1, <1>2, <1>3, <1>4, <1>5, <1>6, MoveKeeps DEF CallOK, Moves

-----------------------------------------------------------------------------
(* Steps that write rows.                                                  *)

\* A call writes no other call's rows.
OwnRows(c) ==
    \A d \in Call, i \in Place : d # c =>
        /\ State(d, i)' = State(d, i)
        /\ \A ch \in Channel :
              /\ RowStatus(d, i, ch)' = RowStatus(d, i, ch)
              /\ Message(d, i, ch)' = Message(d, i, ch)

LEMMA OwnRowsKeep ==
    ASSUME Inductive, NEW c \in Call, OthersKept(c), OwnRows(c), CallOK(c)'
    PROVE  \A d \in Call : CallOK(d)'
<1>1. ASSUME NEW d \in Call PROVE CallOK(d)'
  <2>1. CASE d = c
    BY <2>1
  <2>2. CASE d # c
    <3>1. Elsewhere(d)
      BY <2>2 DEF Elsewhere, OthersKept, OwnRows
    <3>2. QED
      BY <3>1, ElsewhereKeeps DEF Inductive
  <2>3. QED
    BY <2>1, <2>2
<1>2. QED
  BY <1>1

LEMMA CreateNoticeKeeps ==
    ASSUME Inductive, NEW c \in Call, CreateNotice(c)
    PROVE  Inductive'
<1>1. /\ Moves(c, "channel", calls[c].user, 1, calls[c].outcome)
      /\ CallOK(c)
      /\ calls[c].at = "next" /\ MoreUsers(c)
      /\ deliveries' = deliveries /\ messages' = messages
  BY CreateNoticeMoves DEF CreateNotice, Inductive
<1>2. PICK k \in Place : k = calls[c].user /\ CurrentNotice(c) = <<c, k>>
  BY <1>1, CurrentPlace DEF CallOK, CurrentNotice
<1>3. CurrentUser(c) \in User
  BY <1>1 DEF Inductive, TypeOK, CallState, MoreUsers, CurrentUser
<1>4. PICK row \in NoticeRow :
         row.state = "live" /\ notices' = [notices EXCEPT ![<<c, k>>] = row]
  BY <1>2, <1>3 DEF CreateNotice, NoticeRow
<1>5. <<c, k>> \in Notice /\ notices \in [Notice -> NoticeRow]
  BY <1>2 DEF Notice, Inductive, TypeOK
<1>6. notices' \in [Notice -> NoticeRow]
  BY <1>4, <1>5
<1>7. /\ State(c, k)' = "live"
      /\ \A d \in Call, i \in Place : d # c \/ i # k => State(d, i)' = State(d, i)
  BY <1>4, <1>5 DEF State, Notice
<1>8. TypeOK'
  BY <1>1, <1>6 DEF Inductive, TypeOK, Moves
<1>9. ShapeOK(c)'
  BY <1>1, <1>2, <1>7 DEF Moves, CallOK, ShapeOK, Working, Serving, Sending, MoreUsers
<1>10. AheadOK(c)'
  BY <1>1, <1>2, <1>7, ParametersAreLists
     DEF Moves, CallOK, AheadOK, BeforeUser, BeforeChannel, RowStatus, Message, Serving, Sending
<1>11. OpenOK(c)' /\ PendingOK(c)'
  BY <1>1 DEF Moves, CallOK, OpenOK, PendingOK, RowStatus, Sending
<1>12. BehindOK(c)'
  <2>1. \A j \in DOMAIN calls[c].channels : ~ (j < 1)
    BY ChannelRange DEF Inductive
  <2>2. \A i \in DOMAIN calls[c].users : i \in Place
    BY <1>1 DEF CallOK, ShapeOK
  <2>3. QED
    BY <1>1, <1>2, <1>7, <2>1, <2>2 DEF Moves, CallOK, BehindOK, Passed, RowStatus, Serving
<1>13. OwnRows(c)
  BY <1>1, <1>7 DEF OwnRows, RowStatus, Message
<1>14. LedgerTruthful' /\ NothingUnrecorded'
  BY <1>1 DEF Inductive, LedgerTruthful, NothingUnrecorded
<1>15. QED
  BY <1>1, <1>8, <1>9, <1>10, <1>11, <1>12, <1>13, <1>14, OwnRowsKeep DEF CallOK, Moves, Inductive

LEMMA InsertDeliveryKeeps ==
    ASSUME Inductive, NEW c \in Call, MoreChannels(c), InsertDelivery(c, CurrentChannel(c))
    PROVE  Inductive'
<1>1. CASE notices[CurrentNotice(c)].state = "deleted"
  BY <1>1, AbortKeeps DEF InsertDelivery, RowsKept, Working
<1>2. CASE notices[CurrentNotice(c)].state = "live"
  <2>1. /\ CallOK(c)
        /\ calls[c].at = "channel" /\ Wanted(c)
        /\ notices' = notices /\ messages' = messages
    BY DEF InsertDelivery, Inductive
  <2>2. PICK k \in Place : k = calls[c].user /\ CurrentNotice(c) = <<c, k>>
    BY <2>1, CurrentPlace DEF CallOK, ShapeOK, Serving, CurrentNotice
  <2>3. PICK x \in Channel : x = CurrentChannel(c)
    BY CurrentIsChannel DEF Inductive
  <2>4. PICK at \in {"mark", "send"}, outcome \in Settled :
           /\ Moves(c, at, calls[c].user, calls[c].channel, outcome)
           /\ at = "mark" => x = "in_app" /\ outcome = "sent"
    BY <1>2, <2>3, GoToMoves, SettleAsMoves
       DEF InsertDelivery, Inductive, Places, Working, TypeOK, CallState, Settled
  <2>5. PICK row \in DeliveryRow :
           /\ row.status = "pending" /\ row.attempts = 0
           /\ deliveries' = [deliveries EXCEPT ![<<c, k>>][x] = row]
    <3>1. deliveries' = [deliveries EXCEPT ![<<c, k>>][x] =
                            [status |-> "pending", attempts |-> 0]]
      BY <1>2, <2>2, <2>3 DEF InsertDelivery
    <3>2. [status |-> "pending", attempts |-> 0] \in DeliveryRow
      BY DEF DeliveryRow, Status
    <3>3. QED
      BY <3>1, <3>2
  <2>6. <<c, k>> \in Notice /\ deliveries \in [Notice -> [Channel -> DeliveryRow]]
    BY <2>2 DEF Notice, Inductive, TypeOK
  <2>7. deliveries' \in [Notice -> [Channel -> DeliveryRow]]
    BY <2>5, <2>6
  <2>8. /\ RowStatus(c, k, x)' = "pending"
        /\ \A n \in Notice, ch \in Channel : n # <<c, k>> \/ ch # x =>
              deliveries'[n][ch] = deliveries[n][ch]
        /\ deliveries'[<<c, k>>][x] = row
    BY <2>5, <2>6 DEF RowStatus
  <2>9. \A d \in Call, i \in Place, ch \in Channel : d # c \/ i # k \/ ch # x =>
           RowStatus(d, i, ch)' = RowStatus(d, i, ch)
    BY <2>8 DEF RowStatus, Notice
  <2>10. RowStatus(c, k, x) = "none" /\ Message(c, k, x) = "none"
    <3>1. \A j \in 1..(calls[c].channel - 1) : calls[c].channels[j] # x
      BY <2>1, <2>3 DEF Wanted, Repeated, CurrentChannel
    <3>2. BeforeChannel(c, k, x)
      BY <2>1, <2>2, <3>1 DEF BeforeChannel, Serving, Sending
    <3>3. QED
      BY <2>1, <3>2 DEF CallOK, AheadOK
  <2>11. TypeOK'
    BY <2>1, <2>4, <2>7 DEF Inductive, TypeOK, Moves
  <2>12. ShapeOK(c)'
    BY <2>1, <2>4 DEF Moves, CallOK, ShapeOK, Working, Serving, Sending, MoreUsers,
         MoreChannels, State
  <2>13. AheadOK(c)'
    <3>1. ASSUME NEW i \in Place, BeforeUser(c, i)'
          PROVE  BeforeUser(c, i) /\ i # k
      BY <2>2, <2>4, <3>1, ParametersAreLists DEF Moves, BeforeUser
    <3>2. ASSUME NEW i \in Place, NEW ch \in Channel, BeforeChannel(c, i, ch)'
          PROVE  BeforeChannel(c, i, ch) /\ (i # k \/ ch # x)
      <4>1. CASE BeforeUser(c, i)'
        BY <3>1, <4>1 DEF BeforeChannel
      <4>2. CASE ~ BeforeUser(c, i)'
        BY <2>1, <2>3, <2>4, <3>2, <4>2 DEF Moves, BeforeChannel, Serving, Sending,
           CurrentChannel
      <4>3. QED
        BY <4>1, <4>2
    <3>3. QED
      BY <2>1, <2>9, <3>1, <3>2 DEF CallOK, AheadOK, State, Message
  <2>14. OpenOK(c)'
    BY <2>1, <2>2, <2>3, <2>4, <2>8, <2>10 DEF Moves, OpenOK, Message, CurrentChannel
  <2>15. BehindOK(c)'
    <3>1. /\ DOMAIN calls[c].users \subseteq Place
          /\ \A j \in DOMAIN calls[c].channels : calls[c].channels[j] \in Channel
      BY <2>1, ChannelRange DEF CallOK, ShapeOK, Inductive
    <3>2. QED
      BY <2>1, <2>4, <2>9, <2>10, <3>1 DEF Moves, CallOK, BehindOK, Passed, State, Serving,
           Settled
  <2>16. PendingOK(c)'
    BY <2>1, <2>2, <2>3, <2>4, <2>9 DEF Moves, CallOK, PendingOK, Sending, MoreChannels,
         CurrentChannel
  <2>17. OwnRows(c)
    BY <2>1, <2>9 DEF OwnRows, State, Message
  <2>18. LedgerTruthful' /\ NothingUnrecorded'
    BY <2>1, <2>5, <2>8 DEF Inductive, LedgerTruthful, NothingUnrecorded
  <2>19. QED
    BY <2>4, <2>11, <2>12, <2>13, <2>14, <2>15, <2>16, <2>17, <2>18, OwnRowsKeep
       DEF CallOK, Moves, Inductive
<1>3. QED
  BY <1>1, <1>2 DEF InsertDelivery

LEMMA SendKeeps ==
    ASSUME Inductive, NEW c \in Call, MoreChannels(c), Send(c, CurrentChannel(c))
    PROVE  Inductive'
<1>1. CASE CurrentChannel(c) \notin Configured
  BY <1>1, SettleKeeps DEF Send, RowsKept, Settled
<1>2. CASE CurrentChannel(c) \in Configured
  <2>1. /\ Moves(c, "wait", calls[c].user, calls[c].channel, calls[c].outcome)
        /\ CallOK(c)
        /\ calls[c].at = "send"
        /\ notices' = notices /\ deliveries' = deliveries
    BY <1>2, GoToMoves DEF Send, Inductive, Places, Working
  <2>2. PICK k \in Place : k = calls[c].user /\ CurrentNotice(c) = <<c, k>>
    BY <2>1, CurrentPlace DEF CallOK, ShapeOK, Serving, CurrentNotice
  <2>3. PICK x \in Channel : x = CurrentChannel(c)
    BY CurrentIsChannel DEF Inductive
  <2>4. messages' = [messages EXCEPT ![<<c, k>>][x] = "asked"]
    BY <1>2, <2>2, <2>3 DEF Send
  <2>5. /\ <<c, k>> \in Notice
        /\ messages \in [Notice -> [Channel -> {"none", "asked", "accepted", "rejected"}]]
    BY <2>2 DEF Notice, Inductive, TypeOK
  <2>6. messages' \in [Notice -> [Channel -> {"none", "asked", "accepted", "rejected"}]]
    BY <2>4, <2>5
  <2>7. \A n \in Notice, ch \in Channel : n # <<c, k>> \/ ch # x =>
           messages'[n][ch] = messages[n][ch]
    BY <2>4, <2>5
  <2>8. \A d \in Call, i \in Place, ch \in Channel : d # c \/ i # k \/ ch # x =>
           Message(d, i, ch)' = Message(d, i, ch)
    BY <2>7 DEF Message, Notice
  <2>9. RowStatus(c, k, x) \in {"pending", "gone"}
    BY <2>1, <2>2, <2>3 DEF CallOK, OpenOK, Sending
  <2>10. TypeOK'
    BY <2>1, <2>6 DEF Inductive, TypeOK, Moves
  <2>11. ShapeOK(c)'
    BY <2>1 DEF Moves, CallOK, ShapeOK, Working, Serving, Sending, MoreUsers,
         MoreChannels, State
  <2>12. AheadOK(c)'
    <3>1. ASSUME NEW i \in Place, BeforeUser(c, i)'
          PROVE  BeforeUser(c, i) /\ i # k
      BY <2>2, <2>1, <3>1, ParametersAreLists DEF Moves, BeforeUser
    <3>2. ASSUME NEW i \in Place, NEW ch \in Channel, BeforeChannel(c, i, ch)'
          PROVE  BeforeChannel(c, i, ch) /\ (i # k \/ ch # x)
      <4>1. CASE BeforeUser(c, i)'
        BY <3>1, <4>1 DEF BeforeChannel
      <4>2. CASE ~ BeforeUser(c, i)'
        BY <2>1, <2>3, <3>2, <4>2 DEF Moves, BeforeChannel, Serving, Sending,
           CurrentChannel
      <4>3. QED
        BY <4>1, <4>2
    <3>3. QED
      BY <2>1, <2>8, <3>1, <3>2 DEF CallOK, AheadOK, State, RowStatus
  <2>13. OpenOK(c)'
    BY <2>1, <2>2, <2>3, <2>9 DEF Moves, OpenOK, RowStatus, CurrentChannel
  <2>14. BehindOK(c)'
    BY <2>1 DEF Moves, CallOK, BehindOK, Passed, State, RowStatus, Serving
  <2>15. PendingOK(c)'
    BY <2>1 DEF Moves, CallOK, PendingOK, Sending, MoreChannels, CurrentChannel, RowStatus
  <2>16. OwnRows(c)
    BY <2>1, <2>8 DEF OwnRows, State, RowStatus
  <2>17. LedgerTruthful' /\ NothingUnrecorded'
    <3>1. deliveries[<<c, k>>][x].status \in {"pending", "gone"}
      BY <2>9 DEF RowStatus
    <3>2. \A n \in Notice, ch \in Channel :
             n # <<c, k>> \/ ch # x \/ deliveries[n][ch].status \in {"pending", "gone"}
      BY <3>1
    <3>3. LedgerTruthful'
      BY <2>1, <2>7, <3>1, <3>2 DEF Inductive, LedgerTruthful
    <3>4. NothingUnrecorded'
      BY <2>1, <2>7, <3>1 DEF Inductive, NothingUnrecorded
    <3>5. QED
      BY <3>3, <3>4
  <2>18. QED
    BY <2>1, <2>10, <2>11, <2>12, <2>13, <2>14, <2>15, <2>16, <2>17, OwnRowsKeep
       DEF CallOK, Moves, Inductive
<1>3. QED
  BY <1>1, <1>2

LEMMA MarkKeeps ==
    ASSUME Inductive, NEW c \in Call, MoreChannels(c), Mark(c, CurrentChannel(c))
    PROVE  Inductive'
<1>1. CASE deliveries[CurrentNotice(c)][CurrentChannel(c)].status = "gone"
  BY <1>1, AbortKeeps DEF Mark, RowsKept, Working
<1>2. CASE deliveries[CurrentNotice(c)][CurrentChannel(c)].status # "gone"
  <2>1. /\ Moves(c, "channel", calls[c].user, calls[c].channel + 1, calls[c].outcome)
        /\ CallOK(c)
        /\ calls[c].at = "mark"
        /\ notices' = notices /\ messages' = messages
    BY <1>2, NextChannelMoves DEF Mark, Inductive
  <2>2. PICK k \in Place : k = calls[c].user /\ CurrentNotice(c) = <<c, k>>
    BY <2>1, CurrentPlace DEF CallOK, ShapeOK, Serving, CurrentNotice
  <2>3. PICK x \in Channel : x = CurrentChannel(c)
    BY CurrentIsChannel DEF Inductive
  <2>4. PICK outcome \in Settled : outcome = calls[c].outcome
    BY DEF Inductive, TypeOK, CallState
  <2>5. RowStatus(c, k, x) = "pending" /\ deliveries[<<c, k>>][x].attempts = 0
    <3>1. RowStatus(c, k, x) = "pending"
      BY <1>2, <2>1, <2>2, <2>3 DEF CallOK, OpenOK, Sending, RowStatus
    <3>2. <<c, k>> \in Notice
      BY <2>2 DEF Notice
    <3>3. QED
      BY <3>1, <3>2, <2>3 DEF Inductive, LedgerTruthful, RowStatus
  <2>6. /\ <<c, k>> \in Notice /\ deliveries \in [Notice -> [Channel -> DeliveryRow]]
    BY <2>2 DEF Notice, Inductive, TypeOK
  <2>7. PICK row \in DeliveryRow :
           /\ row.status = outcome
           /\ row.attempts = Attempted(outcome)
           /\ deliveries' = [deliveries EXCEPT ![<<c, k>>][x] = row]
    <3>1. deliveries' = [deliveries EXCEPT ![<<c, k>>][x] =
                [status |-> outcome,
                 attempts |-> deliveries[<<c, k>>][x].attempts + Attempted(outcome)]]
      BY <1>2, <2>2, <2>3, <2>4, <2>6 DEF Mark
    <3>2. [status |-> outcome,
           attempts |-> deliveries[<<c, k>>][x].attempts + Attempted(outcome)] \in DeliveryRow
      BY <2>5 DEF DeliveryRow, Status, Attempted
    <3>3. 0 + Attempted(outcome) = Attempted(outcome)
      BY DEF Attempted
    <3>4. QED
      BY <2>5, <3>1, <3>2, <3>3
  <2>8. /\ deliveries' \in [Notice -> [Channel -> DeliveryRow]]
        /\ deliveries'[<<c, k>>][x] = row
        /\ \A n \in Notice, ch \in Channel : n # <<c, k>> \/ ch # x =>
              deliveries'[n][ch] = deliveries[n][ch]
    BY <2>6, <2>7
  <2>9. /\ RowStatus(c, k, x)' = outcome
        /\ \A d \in Call, i \in Place, ch \in Channel : d # c \/ i # k \/ ch # x =>
              RowStatus(d, i, ch)' = RowStatus(d, i, ch)
    BY <2>7, <2>8 DEF RowStatus, Notice
  <2>10. /\ calls[c].channel \in Nat /\ calls[c].channel >= 1
         /\ DOMAIN calls[c].users \subseteq Place
         /\ \A j \in DOMAIN calls[c].channels : calls[c].channels[j] \in Channel /\ j \in Nat
    BY <2>1, ChannelRange DEF Inductive, CallOK, ShapeOK
  <2>11. TypeOK'
    BY <2>1, <2>8 DEF Inductive, TypeOK, Moves
  <2>12. ShapeOK(c)'
    BY <2>1, <2>10 DEF Moves, CallOK, ShapeOK, Working, Serving, Sending, MoreUsers, State
  <2>13. AheadOK(c)'
    <3>1. ASSUME NEW i \in Place, BeforeUser(c, i)'
          PROVE  BeforeUser(c, i) /\ i # k
      BY <2>2, <2>1, <3>1, ParametersAreLists DEF Moves, BeforeUser
    <3>2. ASSUME NEW i \in Place, NEW ch \in Channel, BeforeChannel(c, i, ch)'
          PROVE  BeforeChannel(c, i, ch) /\ (i # k \/ ch # x)
      <4>1. CASE BeforeUser(c, i)'
        BY <3>1, <4>1 DEF BeforeChannel
      <4>2. CASE ~ BeforeUser(c, i)'
        <5>1. /\ calls[c].user = i
              /\ \A j \in 1..(calls'[c].channel - 1) : calls[c].channels[j] # ch
          BY <2>1, <3>2, <4>2 DEF BeforeChannel, Moves
        <5>2. /\ \A j \in 1..(calls[c].channel - 1) : j \in 1..(calls'[c].channel - 1)
              /\ calls[c].channel \in 1..(calls'[c].channel - 1)
          BY <2>1, <2>10 DEF Moves
        <5>3. CurrentChannel(c) # ch
          BY <5>1, <5>2 DEF CurrentChannel
        <5>4. QED
          BY <2>1, <2>3, <5>1, <5>2, <5>3 DEF BeforeChannel, Serving
      <4>3. QED
        BY <4>1, <4>2
    <3>3. QED
      BY <2>1, <2>9, <3>1, <3>2 DEF CallOK, AheadOK, State, Message
  <2>14. OpenOK(c)'
    BY <2>1 DEF Moves, OpenOK, Sending
  <2>15. BehindOK(c)'
    <3>1. \A j \in DOMAIN calls[c].channels :
             j < calls[c].channel + 1 => j < calls[c].channel \/ j = calls[c].channel
      BY <2>10
    <3>2. ASSUME NEW i \in DOMAIN calls[c].users, NEW j \in DOMAIN calls[c].channels,
                 Passed(c, i, j)',
                 HasRecipient(calls[c].users[i], calls[c].channels[j])
          PROVE  deliveries'[<<c, i>>][calls[c].channels[j]].status \in Settled \cup {"gone"}
      <4>1. CASE i = k /\ calls[c].channels[j] = x
        BY <2>9, <4>1 DEF RowStatus
      <4>2. CASE i # k \/ calls[c].channels[j] # x
        <5>1. Passed(c, i, j)
          BY <2>1, <2>2, <2>3, <3>1, <3>2, <4>2 DEF Moves, Passed, Serving, CurrentChannel
        <5>2. QED
          BY <2>1, <2>9, <2>10, <3>2, <4>2, <5>1 DEF CallOK, BehindOK, RowStatus
      <4>3. QED
        BY <4>1, <4>2
    <3>3. QED
      BY <2>1, <3>2 DEF Moves, CallOK, BehindOK, State, RowStatus
  <2>16. PendingOK(c)'
    BY <2>1, <2>2, <2>3, <2>9 DEF Moves, CallOK, PendingOK, Settled
  <2>17. OwnRows(c)
    BY <2>1, <2>9 DEF OwnRows, State, Message
  <2>18. LedgerTruthful' /\ NothingUnrecorded'
    <3>1. /\ outcome = "sent" => x = "in_app" \/ Message(c, k, x) = "accepted"
          /\ outcome = "skipped" => Message(c, k, x) = "none"
      BY <2>1, <2>2, <2>3, <2>4 DEF CallOK, OpenOK, Sending
    <3>2. LedgerTruthful'
      BY <2>1, <2>7, <2>8, <3>1 DEF Inductive, LedgerTruthful, Message, Attempted, Settled
    <3>3. NothingUnrecorded'
      BY <2>1, <2>7, <2>8 DEF Inductive, NothingUnrecorded, Settled
    <3>4. QED
      BY <3>2, <3>3
  <2>19. QED
    BY <2>1, <2>11, <2>12, <2>13, <2>14, <2>15, <2>16, <2>17, <2>18, OwnRowsKeep
       DEF CallOK, Moves, Inductive
<1>3. QED
  BY <1>1, <1>2

-----------------------------------------------------------------------------
(* Steps of providers and recipients.                                      *)

LEMMA ElsewhereAll ==
    ASSUME Inductive, TypeOK', \A c \in Call : Elsewhere(c),
           LedgerTruthful', NothingUnrecorded'
    PROVE  Inductive'
  BY ElsewhereKeeps DEF Inductive

LEMMA ProviderDecidesKeeps ==
    ASSUME Inductive, NEW n \in Notice, NEW ch \in Channel, ProviderDecides(n, ch)
    PROVE  Inductive'
<1>1. PICK answer \in {"accepted", "rejected"} :
         messages' = [messages EXCEPT ![n][ch] = answer]
  BY DEF ProviderDecides
<1>2. /\ notices' = notices /\ deliveries' = deliveries /\ calls' = calls
      /\ messages[n][ch] = "asked"
  BY DEF ProviderDecides
<1>3. messages \in [Notice -> [Channel -> {"none", "asked", "accepted", "rejected"}]]
  BY DEF Inductive, TypeOK
<1>4. TypeOK'
  BY <1>1, <1>2, <1>3 DEF Inductive, TypeOK
<1>5. \A m \in Notice, x \in Channel :
         \/ messages'[m][x] = messages[m][x]
         \/ messages[m][x] = "asked" /\ messages'[m][x] # "none"
  BY <1>1, <1>2, <1>3
<1>6. \A c \in Call : Elsewhere(c)
  BY <1>2, <1>5 DEF Elsewhere, State, RowStatus, Message, Notice
<1>7. LedgerTruthful' /\ NothingUnrecorded'
  BY <1>2, <1>5 DEF Inductive, LedgerTruthful, NothingUnrecorded
<1>8. QED
  BY <1>4, <1>6, <1>7, ElsewhereAll

LEMMA RowEdits ==
    ASSUME NEW row \in NoticeRow, row.state = "live"
    PROVE  /\ [row EXCEPT !.read = TRUE] \in NoticeRow
           /\ [row EXCEPT !.state = "deleted"] \in NoticeRow
<1>1. row \in [state : {"live", "deleted"}, user : User, read : BOOLEAN]
  BY DEF NoticeRow, NoNotice
<1>2. /\ [row EXCEPT !.read = TRUE] \in [state : {"live", "deleted"}, user : User, read : BOOLEAN]
      /\ [row EXCEPT !.state = "deleted"]
            \in [state : {"live", "deleted"}, user : User, read : BOOLEAN]
  BY <1>1
<1>3. QED
  BY <1>2 DEF NoticeRow

LEMMA CascadeRow ==
    ASSUME NEW row \in DeliveryRow
    PROVE  Cascade(row) \in DeliveryRow
<1>1. "gone" \in Status
  BY DEF Status
<1>2. [row EXCEPT !.status = "gone"] \in DeliveryRow
  BY <1>1 DEF DeliveryRow
<1>3. QED
  BY <1>2 DEF Cascade

LEMMA MarkReadKeeps ==
    ASSUME Inductive, NEW n \in Notice, NEW u \in User, MarkRead(n, u)
    PROVE  Inductive'
<1>1. /\ notices' = [notices EXCEPT ![n].read = TRUE]
      /\ notices[n].state = "live"
      /\ deliveries' = deliveries /\ messages' = messages /\ calls' = calls
  BY DEF MarkRead
<1>2. notices \in [Notice -> NoticeRow]
  BY DEF Inductive, TypeOK
<1>3. notices' \in [Notice -> NoticeRow]
  BY <1>1, <1>2, RowEdits
<1>4. TypeOK'
  BY <1>1, <1>3 DEF Inductive, TypeOK
<1>5. \A m \in Notice : notices'[m].state = notices[m].state
  BY <1>1, <1>2 DEF NoticeRow, NoNotice
<1>6. \A c \in Call : Elsewhere(c)
  BY <1>1, <1>5 DEF Elsewhere, State, RowStatus, Message, Notice
<1>7. LedgerTruthful' /\ NothingUnrecorded'
  BY <1>1 DEF Inductive, LedgerTruthful, NothingUnrecorded
<1>8. QED
  BY <1>4, <1>6, <1>7, ElsewhereAll

LEMMA MarkAllReadKeeps ==
    ASSUME Inductive, NEW u \in User, MarkAllRead(u)
    PROVE  Inductive'
<1>1. /\ notices' = [n \in Notice |->
            IF notices[n].state = "live" /\ notices[n].user = u
            THEN [notices[n] EXCEPT !.read = TRUE] ELSE notices[n]]
      /\ deliveries' = deliveries /\ messages' = messages /\ calls' = calls
  BY DEF MarkAllRead
<1>2. notices \in [Notice -> NoticeRow]
  BY DEF Inductive, TypeOK
<1>3. notices' \in [Notice -> NoticeRow]
  BY <1>1, <1>2, RowEdits
<1>4. TypeOK'
  BY <1>1, <1>3 DEF Inductive, TypeOK
<1>5. \A m \in Notice : notices'[m].state = notices[m].state
  BY <1>1, <1>2 DEF NoticeRow, NoNotice
<1>6. \A c \in Call : Elsewhere(c)
  BY <1>1, <1>5 DEF Elsewhere, State, RowStatus, Message, Notice
<1>7. LedgerTruthful' /\ NothingUnrecorded'
  BY <1>1 DEF Inductive, LedgerTruthful, NothingUnrecorded
<1>8. QED
  BY <1>4, <1>6, <1>7, ElsewhereAll

LEMMA DeleteKeeps ==
    ASSUME Inductive, NEW n \in Notice, NEW u \in User, Delete(n, u)
    PROVE  Inductive'
<1>1. /\ notices' = [notices EXCEPT ![n].state = "deleted"]
      /\ notices[n].state = "live"
      /\ deliveries' = [deliveries EXCEPT ![n] =
                           [ch \in Channel |-> Cascade(deliveries[n][ch])]]
      /\ messages' = messages /\ calls' = calls
  BY DEF Delete, Inductive, TypeOK
<1>2. /\ notices \in [Notice -> NoticeRow]
      /\ deliveries \in [Notice -> [Channel -> DeliveryRow]]
  BY DEF Inductive, TypeOK
<1>3. notices' \in [Notice -> NoticeRow]
  BY <1>1, <1>2, RowEdits
<1>4. \A ch \in Channel : Cascade(deliveries[n][ch]) \in DeliveryRow
  BY <1>2, CascadeRow
<1>5. deliveries' \in [Notice -> [Channel -> DeliveryRow]]
  BY <1>1, <1>2, <1>4
<1>6. TypeOK'
  BY <1>1, <1>3, <1>5 DEF Inductive, TypeOK
<1>7. \A m \in Notice : (notices'[m].state = "unused") <=> (notices[m].state = "unused")
  BY <1>1, <1>2 DEF NoticeRow, NoNotice
<1>8. \A m \in Notice, ch \in Channel :
         \/ deliveries'[m][ch] = deliveries[m][ch]
         \/ deliveries[m][ch].status # "none" /\ deliveries'[m][ch].status = "gone"
  BY <1>1, <1>2 DEF Cascade, DeliveryRow
<1>9. \A c \in Call : Elsewhere(c)
  BY <1>1, <1>7, <1>8 DEF Elsewhere, State, RowStatus, Message, Notice
<1>10. LedgerTruthful' /\ NothingUnrecorded'
  BY <1>1, <1>8 DEF Inductive, LedgerTruthful, NothingUnrecorded
<1>11. QED
  BY <1>6, <1>9, <1>10, ElsewhereAll

-----------------------------------------------------------------------------
(* The invariant.                                                          *)

LEMMA InductiveInit == Init => Inductive
<1> SUFFICES ASSUME Init PROVE Inductive
  OBVIOUS
<1>1. TypeOK
  <2>1. <<>> \in Seq(User) /\ <<>> \in Seq(Channel)
    OBVIOUS
  <2>2. NewCall \in CallState
    BY <2>1 DEF NewCall, CallState, Settled
  <2>3. QED
    BY <2>2 DEF Init, TypeOK, NoNotice, NoticeRow, NoDelivery, DeliveryRow, Status
<1>2. ASSUME NEW c \in Call PROVE CallOK(c)
  <2>1. ShapeOK(c)
    BY DEF Init, NewCall, ShapeOK, Working, Serving, Sending
  <2>2. AheadOK(c)
    BY DEF Init, NewCall, AheadOK, State, RowStatus, Message, Notice, NoNotice, NoDelivery
  <2>3. OpenOK(c) /\ BehindOK(c) /\ PendingOK(c)
    BY DEF Init, NewCall, OpenOK, BehindOK, PendingOK, Sending, RowStatus, Notice, NoDelivery
  <2>4. QED
    BY <2>1, <2>2, <2>3 DEF CallOK
<1>3. LedgerTruthful /\ NothingUnrecorded
  BY DEF Init, LedgerTruthful, NothingUnrecorded, NoDelivery
<1>4. QED
  BY <1>1, <1>2, <1>3 DEF Inductive

LEMMA CallStepKeeps ==
    ASSUME Inductive, NEW c \in Call, CallStep(c)
    PROVE  Inductive'
<1>1. CASE CreateNotice(c)
  BY <1>1, CreateNoticeKeeps
<1>2. CASE ReturnSuccess(c)
  BY <1>2, ReturnSuccessKeeps
<1>3. CASE NextUser(c)
  BY <1>3, NextUserKeeps
<1>4. CASE SkipChannel(c)
  BY <1>4, SkipChannelKeeps
<1>5. CASE Timeout(c)
  BY <1>5, SettleKeeps DEF Timeout, RowsKept, Settled
<1>6. CASE MoreChannels(c) /\ ChannelStep(c, CurrentChannel(c))
  <2>1. CASE InsertDelivery(c, CurrentChannel(c))
    BY <1>6, <2>1, InsertDeliveryKeeps
  <2>2. CASE Send(c, CurrentChannel(c))
    BY <1>6, <2>2, SendKeeps
  <2>3. CASE ReadAnswer(c, CurrentChannel(c))
    BY <2>3, SettleKeeps DEF ReadAnswer, RowsKept, Settled, Message, CurrentNotice
  <2>4. CASE Mark(c, CurrentChannel(c))
    BY <1>6, <2>4, MarkKeeps
  <2>5. QED
    BY <1>6, <2>1, <2>2, <2>3, <2>4 DEF ChannelStep
<1>7. QED
  BY <1>1, <1>2, <1>3, <1>4, <1>5, <1>6 DEF CallStep

LEMMA InductiveNext == Inductive /\ [Next]_vars => Inductive'
<1> SUFFICES ASSUME Inductive, [Next]_vars PROVE Inductive'
  OBVIOUS
<1>1. ASSUME NEW c \in Call, NEW users \in Recipients, NEW channels \in ChannelLists,
             StartCall(c, users, channels)
      PROVE  Inductive'
  BY <1>1, StartCallKeeps
<1>2. ASSUME NEW c \in Call, CallStep(c) PROVE Inductive'
  BY <1>2, CallStepKeeps
<1>3. ASSUME NEW c \in Call, Abort(c) PROVE Inductive'
  BY <1>3, AbortKeeps DEF Abort, RowsKept
<1>4. ASSUME NEW n \in Notice, NEW ch \in Channel, ProviderDecides(n, ch) PROVE Inductive'
  BY <1>4, ProviderDecidesKeeps
<1>5. ASSUME NEW u \in User, UserStep(u) PROVE Inductive'
  BY <1>5, MarkReadKeeps, MarkAllReadKeeps, DeleteKeeps DEF UserStep
<1>6. ASSUME UNCHANGED vars PROVE Inductive'
  <2>1. notices' = notices /\ deliveries' = deliveries /\ messages' = messages /\ calls' = calls
    BY <1>6 DEF vars
  <2>2. TypeOK' /\ LedgerTruthful' /\ NothingUnrecorded'
    BY <2>1 DEF Inductive, TypeOK, LedgerTruthful, NothingUnrecorded
  <2>3. \A c \in Call : Elsewhere(c)
    BY <2>1 DEF Elsewhere, State, RowStatus, Message
  <2>4. QED
    BY <2>2, <2>3, ElsewhereAll
<1>7. QED
  BY <1>1, <1>2, <1>3, <1>4, <1>5, <1>6 DEF Next

LEMMA Invariance == Spec => []Inductive
  BY InductiveInit, InductiveNext, PTL DEF Spec

LEMMA Consequences == Inductive => PendingHasItsCall /\ SuccessMeansServed
<1> SUFFICES ASSUME Inductive PROVE PendingHasItsCall /\ SuccessMeansServed
  OBVIOUS
<1>1. PendingHasItsCall
  BY DEF Inductive, CallOK, PendingOK, PendingHasItsCall, RowStatus, Sending
<1>2. ASSUME NEW c \in Call, calls[c].at = "done", NEW i \in DOMAIN calls[c].users
      PROVE  i < calls[c].user
  BY <1>2, ChannelRange DEF Inductive, CallOK, ShapeOK, MoreUsers
<1>3. SuccessMeansServed
  BY <1>2 DEF Inductive, CallOK, BehindOK, Passed, SuccessMeansServed, State, RowStatus
<1>4. QED
  BY <1>1, <1>3

\* The variables of an announcement keep their types.
THEOREM TypeCorrect == Spec => []TypeOK
  BY Invariance, PTL DEF Inductive

\* No record claims more than the provider did.
THEOREM RecordsAreTruthful == Spec => []LedgerTruthful
  BY Invariance, PTL DEF Inductive

\* No provider is asked before the record of its message exists.
THEOREM EverythingRecorded == Spec => []NothingUnrecorded
  BY Invariance, PTL DEF Inductive

\* A record stays pending only when its own call was cut off.
THEOREM PendingExplained == Spec => []PendingHasItsCall
  BY Invariance, Consequences, PTL

\* A call that returns no error has served every recipient on every channel.
THEOREM SuccessIsService == Spec => []SuccessMeansServed
  BY Invariance, Consequences, PTL

-----------------------------------------------------------------------------
(* Notifications implements DeliveryLedger.                                *)

Posted == [n \in Notice |-> notices[n].state]
Records == [n \in Notice |-> [ch \in Channel |-> deliveries[n][ch].status]]

LEMMA LedgerInit == Init => Ledger!Init
  BY DEF Init, Ledger!Init, NoNotice, NoDelivery

\* A step that keeps the states and the records is none of the ledger's.
LEMMA LedgerStutters ==
    ASSUME \A n \in Notice : notices'[n].state = notices[n].state,
           \A n \in Notice, ch \in Channel :
              deliveries'[n][ch].status = deliveries[n][ch].status
    PROVE  UNCHANGED <<Posted, Records>>
  BY DEF Posted, Records

LEMMA LedgerStep == Inductive /\ [Next]_vars => [Ledger!Next]_<<Posted, Records>>
<1> SUFFICES ASSUME Inductive, [Next]_vars PROVE [Ledger!Next]_<<Posted, Records>>
  OBVIOUS
<1>1. /\ notices \in [Notice -> NoticeRow]
      /\ deliveries \in [Notice -> [Channel -> DeliveryRow]]
  BY DEF Inductive, TypeOK
<1>2. CASE notices' = notices /\ deliveries' = deliveries
  BY <1>2, LedgerStutters
<1>3. ASSUME NEW c \in Call, CreateNotice(c)
      PROVE  [Ledger!Next]_<<Posted, Records>>
  <2>1. PICK n \in Notice : n = CurrentNotice(c)
    BY <1>3, CurrentPlace DEF Inductive, CallOK, CreateNotice
  <2>2. notices[n].state = "unused"
    <3>1. calls[c].user \in Place /\ BeforeUser(c, calls[c].user)
      BY <1>3, CurrentPlace DEF Inductive, CallOK, CreateNotice, BeforeUser
    <3>2. QED
      BY <2>1, <3>1 DEF Inductive, CallOK, AheadOK, State, CurrentNotice
  <2>3. /\ notices' = [notices EXCEPT ![n] =
                        [state |-> "live", user |-> CurrentUser(c), read |-> FALSE]]
        /\ deliveries' = deliveries
    BY <1>3, <2>1 DEF CreateNotice
  <2>4. Posted' = [Posted EXCEPT ![n] = "live"]
    BY <1>1, <2>3 DEF Posted
  <2>5. Ledger!Post(n)
    BY <2>2, <2>3, <2>4 DEF Ledger!Post, Posted, Records
  <2>6. QED
    BY <2>5 DEF Ledger!Next
<1>4. ASSUME NEW c \in Call, MoreChannels(c), InsertDelivery(c, CurrentChannel(c)),
             deliveries' # deliveries
      PROVE  [Ledger!Next]_<<Posted, Records>>
  <2>1. PICK n \in Notice : n = CurrentNotice(c)
    BY <1>4, CurrentPlace DEF Inductive, CallOK, ShapeOK, InsertDelivery, Serving
  <2>2. PICK x \in Channel : x = CurrentChannel(c)
    BY <1>4, CurrentIsChannel DEF Inductive
  <2>3. /\ notices[n].state = "live" /\ notices' = notices
        /\ deliveries' = [deliveries EXCEPT ![n][x] =
                            [status |-> "pending", attempts |-> 0]]
    BY <1>4, <2>1, <2>2 DEF InsertDelivery
  <2>4. calls[c].user \in Place /\ n = <<c, calls[c].user>>
    BY <1>4, <2>1, CurrentPlace
       DEF Inductive, CallOK, ShapeOK, InsertDelivery, Serving, CurrentNotice
  <2>5. deliveries[n][x].status = "none"
    <3>1. \A j \in 1..(calls[c].channel - 1) : calls[c].channels[j] # x
      BY <1>4, <2>2 DEF InsertDelivery, Wanted, Repeated, CurrentChannel
    <3>2. BeforeChannel(c, calls[c].user, x)
      BY <1>4, <3>1 DEF BeforeChannel, InsertDelivery, Serving, Sending
    <3>3. QED
      BY <2>4, <3>2 DEF Inductive, CallOK, AheadOK, RowStatus
  <2>6. \A ch \in Channel : deliveries[n][ch].status # "pending"
    BY <1>4, <2>4 DEF Inductive, CallOK, PendingOK, RowStatus, InsertDelivery, Sending
  <2>7. Records' = [Records EXCEPT ![n][x] = "pending"]
    BY <1>1, <2>3 DEF Records
  <2>8. Ledger!Open(n, x)
    BY <2>3, <2>5, <2>6, <2>7 DEF Ledger!Open, Posted, Records
  <2>9. QED
    BY <2>8 DEF Ledger!Next
<1>5. ASSUME NEW c \in Call, MoreChannels(c), Mark(c, CurrentChannel(c)),
             deliveries' # deliveries
      PROVE  [Ledger!Next]_<<Posted, Records>>
  <2>1. PICK n \in Notice : n = CurrentNotice(c)
    BY <1>5, CurrentPlace DEF Inductive, CallOK, ShapeOK, Mark, Serving
  <2>2. PICK x \in Channel : x = CurrentChannel(c)
    BY <1>5, CurrentIsChannel DEF Inductive
  <2>3. PICK outcome \in Settled : outcome = calls[c].outcome
    BY DEF Inductive, TypeOK, CallState
  <2>4. /\ deliveries[n][x].status # "gone" /\ notices' = notices
        /\ deliveries' = [deliveries EXCEPT ![n][x] =
              [status |-> outcome, attempts |-> @.attempts + Attempted(outcome)]]
    BY <1>5, <2>1, <2>2, <2>3 DEF Mark
  <2>5. deliveries[n][x].status = "pending"
    BY <1>5, <2>1, <2>2, <2>4
       DEF Inductive, CallOK, OpenOK, RowStatus, Mark, Sending, CurrentNotice
  <2>6. Records' = [Records EXCEPT ![n][x] = outcome]
    BY <1>1, <2>4 DEF Records
  <2>7. Ledger!Settle(n, x, outcome)
    BY <2>4, <2>5, <2>6 DEF Ledger!Settle, Posted, Records
  <2>8. QED
    BY <2>7 DEF Ledger!Next, Ledger!Settled, Settled
<1>6. ASSUME NEW n \in Notice, NEW u \in User, Delete(n, u)
      PROVE  [Ledger!Next]_<<Posted, Records>>
  <2>1. /\ notices[n].state = "live"
        /\ notices' = [notices EXCEPT ![n].state = "deleted"]
        /\ deliveries' = [deliveries EXCEPT ![n] =
                             [ch \in Channel |-> Cascade(deliveries[n][ch])]]
    BY <1>1, <1>6 DEF Delete
  <2>2. Posted' = [Posted EXCEPT ![n] = "deleted"]
    <3>1. \A m \in Notice : notices'[m].state =
             IF m = n THEN "deleted" ELSE notices[m].state
      BY <1>1, <2>1 DEF NoticeRow, NoNotice
    <3>2. QED
      BY <3>1 DEF Posted
  <2>3. Records' = [Records EXCEPT ![n] = Ledger!Withdrawn(Records[n])]
    <3>1. \A m \in Notice, ch \in Channel : deliveries'[m][ch].status =
             IF m = n /\ deliveries[n][ch].status # "none"
             THEN "gone" ELSE deliveries[m][ch].status
      BY <1>1, <2>1 DEF Cascade, DeliveryRow
    <3>2. \A m \in Notice : [ch \in Channel |-> deliveries'[m][ch].status] =
             IF m = n
             THEN [ch \in Channel |-> IF deliveries[n][ch].status = "none"
                                      THEN "none" ELSE "gone"]
             ELSE [ch \in Channel |-> deliveries[m][ch].status]
      BY <3>1
    <3>3. Ledger!Withdrawn(Records[n]) =
             [ch \in Channel |-> IF deliveries[n][ch].status = "none" THEN "none" ELSE "gone"]
      BY DEF Records, Ledger!Withdrawn
    <3>4. QED
      BY <3>2, <3>3 DEF Records
  <2>4. Ledger!Discard(n)
    BY <2>1, <2>2, <2>3 DEF Ledger!Discard, Posted, Records
  <2>5. QED
    BY <2>4 DEF Ledger!Next
<1>7. ASSUME NEW n \in Notice, NEW u \in User, MarkRead(n, u)
      PROVE  [Ledger!Next]_<<Posted, Records>>
  <2>1. \A m \in Notice : notices'[m].state = notices[m].state
    BY <1>1, <1>7 DEF MarkRead, NoticeRow, NoNotice
  <2>2. QED
    BY <1>7, <2>1, LedgerStutters DEF MarkRead
<1>8. ASSUME NEW u \in User, MarkAllRead(u)
      PROVE  [Ledger!Next]_<<Posted, Records>>
  <2>1. \A m \in Notice : notices'[m].state = notices[m].state
    BY <1>1, <1>8 DEF MarkAllRead, NoticeRow, NoNotice
  <2>2. QED
    BY <1>8, <2>1, LedgerStutters DEF MarkAllRead
<1>9. ASSUME NEW c \in Call, CallStep(c) PROVE [Ledger!Next]_<<Posted, Records>>
  <2>1. CASE CreateNotice(c)
    BY <1>3, <2>1
  <2>2. CASE ~ CreateNotice(c)
    <3>1. notices' = notices
      BY <1>9, <2>2 DEF CallStep, ReturnSuccess, NextUser, SkipChannel, Timeout, ChannelStep,
           InsertDelivery, Send, ReadAnswer, Mark
    <3>2. \/ deliveries' = deliveries
          \/ MoreChannels(c) /\ InsertDelivery(c, CurrentChannel(c))
          \/ MoreChannels(c) /\ Mark(c, CurrentChannel(c))
      BY <1>9, <2>2 DEF CallStep, ReturnSuccess, NextUser, SkipChannel, Timeout, ChannelStep,
           Send, ReadAnswer
    <3>3. QED
      BY <1>2, <1>4, <1>5, <3>1, <3>2
  <2>3. QED
    BY <2>1, <2>2
<1>10. QED
  <2>1. ASSUME NEW c \in Call, NEW users \in Recipients, NEW channels \in ChannelLists,
               StartCall(c, users, channels)
        PROVE  [Ledger!Next]_<<Posted, Records>>
    BY <1>2, <2>1 DEF StartCall
  <2>2. ASSUME NEW c \in Call, Abort(c) PROVE [Ledger!Next]_<<Posted, Records>>
    BY <1>2, <2>2 DEF Abort
  <2>3. ASSUME NEW n \in Notice, NEW ch \in Channel, ProviderDecides(n, ch)
        PROVE  [Ledger!Next]_<<Posted, Records>>
    BY <1>2, <2>3 DEF ProviderDecides
  <2>4. ASSUME NEW u \in User, UserStep(u) PROVE [Ledger!Next]_<<Posted, Records>>
    BY <1>6, <1>7, <1>8, <2>4 DEF UserStep
  <2>5. ASSUME UNCHANGED vars PROVE [Ledger!Next]_<<Posted, Records>>
    BY <1>2, <2>5 DEF vars
  <2>6. QED
    BY <1>9, <2>1, <2>2, <2>3, <2>4, <2>5 DEF Next

\* The records of a notification live as DeliveryLedger says: opened one at a
\* time, settled once, gone with the notification.
THEOREM LedgerImplemented == Spec => LedgerKept
<1>1. Init => Ledger!Init
  BY LedgerInit
<1>2. Inductive /\ [Next]_vars => [Ledger!Next]_<<Posted, Records>>
  BY LedgerStep
<1>3. QED
  BY <1>1, <1>2, Invariance, PTL DEF Spec, LedgerKept, Ledger!Spec, Posted, Records
=============================================================================
