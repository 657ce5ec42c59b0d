----------------------------- MODULE LogBackfill -----------------------------
(* A log subscription with a fromBlock: the past logs are fetched by one      *)
(* request and the new ones arrive through a subscription. web3.qrl.subscribe *)
(* fetches once the subscription is registered; the events of a contract      *)
(* start both at once. Logs are numbered in the order of the chain.           *)
EXTENDS Naturals, Sequences

CONSTANTS
    AtOnce,         \* a contract's event, rather than web3.qrl.subscribe('logs')
    EarlyNotices,   \* whether a notification may be handled in the same turn as
                    \* the answer to qrl_subscribe, before it is registered
    MaxLogs         \* bound: logs that match

ASSUME ConstantsAssumption ==
    AtOnce \in BOOLEAN /\ EarlyNotices \in BOOLEAN /\ MaxLogs \in Nat

VARIABLES
    mined,          \* logs on the chain
    sub,            \* the subscription, as the manager sees it
    next,           \* the next log the node will notify
    past,           \* the request for past logs
    snapshot,       \* the logs it found
    delivered       \* the logs given to the 'data' listeners, in order

vars == <<mined, sub, next, past, snapshot, delivered>>

TypeOK ==
    /\ mined \in 0..MaxLogs
    /\ sub \in {"idle", "asked", "open", "registered", "failed", "off"}
    /\ next \in 1..(MaxLogs + 1)
    /\ past \in {"idle", "asked", "found", "done", "failed"}
    /\ snapshot \in 0..MaxLogs
    /\ delivered \in Seq(1..MaxLogs)

Init ==
    /\ mined \in 0..MaxLogs
    /\ sub = "idle" /\ next = 1
    /\ past = "idle" /\ snapshot = 0
    /\ delivered = <<>>

LogMined ==
    /\ mined < MaxLogs
    /\ mined' = mined + 1
    /\ UNCHANGED <<sub, next, past, snapshot, delivered>>

-----------------------------------------------------------------------------
FaultSubscribe ==
    /\ sub = "idle"
    /\ sub' = "asked"
    /\ past' = "asked"
    /\ UNCHANGED <<mined, next, snapshot, delivered>>

(* The application subscribes.                                                *)
Subscribe ==
    /\ sub = "idle"
    /\ sub' = "asked"
    /\ past' = IF AtOnce THEN "asked" ELSE past
    /\ UNCHANGED <<mined, next, snapshot, delivered>>

(* The node opens the stream: it will report the logs mined from now on.      *)
StreamOpened ==
    /\ sub = "asked"
    /\ sub' = "open" /\ next' = mined + 1
    /\ UNCHANGED <<mined, past, snapshot, delivered>>

Registered ==
    /\ sub = "open"
    /\ sub' = "registered"
    /\ UNCHANGED <<mined, next, past, snapshot, delivered>>

SubscribeFails ==
    /\ sub = "asked"
    /\ sub' = "failed"
    /\ UNCHANGED <<mined, next, past, snapshot, delivered>>

(* messageListener() drops what belongs to no registered subscription.        *)
Notified ==
    /\ sub = "registered" \/ (sub = "open" /\ EarlyNotices)
    /\ next <= mined
    /\ next' = next + 1
    /\ delivered' = IF sub = "registered" THEN Append(delivered, next) ELSE delivered
    /\ UNCHANGED <<mined, sub, past, snapshot>>

Unsubscribe ==
    /\ sub = "registered"
    /\ sub' = "off"
    /\ UNCHANGED <<mined, next, past, snapshot, delivered>>

-----------------------------------------------------------------------------
(* The setImmediate() callback of web3.qrl.subscribe(), which runs even if    *)
(* the application unsubscribed at once.                                      *)
AskForPast ==
    /\ ~AtOnce /\ sub \in {"registered", "off"} /\ past = "idle"
    /\ past' = "asked"
    /\ UNCHANGED <<mined, sub, next, snapshot, delivered>>

FaultPastFound ==
    /\ past = "asked"
    /\ past' = "found" /\ snapshot' = mined + 1
    /\ UNCHANGED <<mined, sub, next, delivered>>

(* The node looks the past logs up, until its latest block.                   *)
PastFound ==
    /\ past = "asked"
    /\ past' = "found" /\ snapshot' = mined
    /\ UNCHANGED <<mined, sub, next, delivered>>

Logs(n) == [i \in 1..n |-> i]

(* They are emitted, whatever arrived before them.                            *)
PastDelivered ==
    /\ past = "found"
    /\ past' = "done"
    /\ delivered' = delivered \o Logs(snapshot)
    /\ UNCHANGED <<mined, sub, next, snapshot>>

(* The request fails, and 'error' is emitted.                                 *)
PastFails ==
    /\ past = "asked"
    /\ past' = "failed"
    /\ UNCHANGED <<mined, sub, next, snapshot, delivered>>

Next ==
    \/ LogMined \/ Subscribe \/ StreamOpened \/ Registered \/ SubscribeFails
    \/ Notified \/ Unsubscribe
    \/ AskForPast \/ PastFound \/ PastDelivered \/ PastFails

Spec == Init /\ [][Next]_vars

-----------------------------------------------------------------------------
Elements(logs) == {logs[i] : i \in DOMAIN logs}

Received == Elements(delivered)

(* "web3.js will retrieve logs beginning from this point, backfilling the     *)
(* response as necessary": once the past logs are in and no notification is   *)
(* outstanding, every log on the chain was delivered.                         *)
NothingLost ==
    past = "done" /\ sub = "registered" /\ next > mined =>
       1..mined \subseteq Received

(* Why no log is lost: the past is asked for once the stream is registered,   *)
(* the logs notified before that are part of the past that is found, and the  *)
(* later ones are delivered when they are notified.                           *)
NothingSlips ==
    /\ next <= mined + 1 /\ snapshot <= mined
    /\ past # "idle" => sub \in {"registered", "off"}
    /\ past \in {"found", "done"} => 1..(next - 1) \subseteq (1..snapshot) \cup Received
    /\ past = "done" => 1..snapshot \subseteq Received

Inv == TypeOK /\ NothingSlips

-----------------------------------------------------------------------------
(* What comments, tests and documents say and the code does not do.           *)

(* "Fires on each incoming event with the event object as argument": no log   *)
(* is delivered twice.                                                        *)
DeliveredOnce ==
    \A i, j \in DOMAIN delivered : delivered[i] = delivered[j] => i = j

(* "this will send `qrl_unsubscribe` to stop the subscription": nothing is    *)
(* delivered after unsubscribe().                                             *)
SilentAfterUnsubscribe == [][sub = "off" => delivered' = delivered]_vars
=============================================================================
