---------------------------- MODULE DeliveryLedger ----------------------------
(***************************************************************************)
(* What the delivery records of a notification promise to the admin who    *)
(* reads them (table notification_deliveries): one record for each channel,*)
(* opened as pending before anything is sent, one open record at a time,   *)
(* settled at most once and never changed afterwards, and all of them gone *)
(* with the notification.  It says nothing of calls, providers or users.   *)
(***************************************************************************)
CONSTANTS Notice, Channel

VARIABLES
    posted,     \* posted[n]: "unused", "live" or "deleted"
    ledger      \* ledger[n][ch]: the status of a record, "none" before it exists,
                \* "gone" after the notification took it along

Settled == {"sent", "failed", "skipped"}
Status == {"none", "pending", "gone"} \cup Settled

Init ==
    /\ posted = [n \in Notice |-> "unused"]
    /\ ledger = [n \in Notice |-> [ch \in Channel |-> "none"]]

Post(n) ==
    /\ posted[n] = "unused"
    /\ posted' = [posted EXCEPT ![n] = "live"]
    /\ UNCHANGED ledger

Open(n, ch) ==
    /\ posted[n] = "live"
    /\ ledger[n][ch] = "none"
    /\ \A other \in Channel : ledger[n][other] # "pending"
    /\ ledger' = [ledger EXCEPT ![n][ch] = "pending"]
    /\ UNCHANGED posted

Settle(n, ch, status) ==
    /\ ledger[n][ch] = "pending"
    /\ ledger' = [ledger EXCEPT ![n][ch] = status]
    /\ UNCHANGED posted

Withdrawn(records) ==
    [ch \in Channel |-> IF records[ch] = "none" THEN "none" ELSE "gone"]

Discard(n) ==
    /\ posted[n] = "live"
    /\ posted' = [posted EXCEPT ![n] = "deleted"]
    /\ ledger' = [ledger EXCEPT ![n] = Withdrawn(@)]

Next ==
    \E n \in Notice :
        \/ Post(n)
        \/ Discard(n)
        \/ \E ch \in Channel :
              \/ Open(n, ch)
              \/ \E status \in Settled : Settle(n, ch, status)

Spec == Init /\ [][Next]_<<posted, ledger>>
=============================================================================
