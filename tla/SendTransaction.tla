--------------------------- MODULE SendTransaction ---------------------------
(* One sendTransaction() or sendSignedTransaction() call of web3-qrl: the     *)
(* PromiEvent it returns, the two races it runs (sending the transaction,     *)
(* waiting for its receipt), each against a timer and a block-number watch,   *)
(* and the resources those races leave armed. An RPC call, a timer and a      *)
(* subscription each end in a step of their own.                              *)
EXTENDS Naturals

VARIABLES
    options,        \* of the call and its context, see Options
    pc,             \* where execute() is suspended
    settled,        \* the flag succeedOnce and failOnce share
    promise,        \* the promise of the PromiEvent
    errorEvents,    \* 'error' events its listener received
    timer,          \* the rejectIfTimeout() timer of each race
    watch,          \* the block-timeout watch of each race
    fallback,       \* whether the watch's blockHeaderTimeout would still revert to polling
    raced,          \* the races whose Promise.race() has been reached
    poller,         \* pollTillDefined() on the receipt
    receipt,        \* the receipt it obtained
    confirming,     \* whether confirmations are being watched
    unhandled       \* what was rejected with nobody to handle it

progress == <<pc, settled, promise, errorEvents, timer, watch, fallback, raced,
              poller, receipt, confirming, unhandled>>
vars == <<options, progress>>

Races == {"send", "receipt"}
Setup(r) == IF r = "send" THEN "sendSetup" ELSE "receiptSetup"
Racing(r) == IF r = "send" THEN "sending" ELSE "waiting"

(* useSubscription: useSubscriptionWhenCheckingBlockTimeout, on a provider    *)
(* that supports subscriptions; resolver: a transactionResolver is given;     *)
(* bigint: the caller's returnFormat has numbers formatted as bigints, as the *)
(* default has; errorListener: what the PromiEvent's 'error' listener does.   *)
Options == [useSubscription : BOOLEAN, resolver : BOOLEAN, bigint : BOOLEAN,
            errorListener : {"none", "ok", "throws"}]

TypeOK ==
    /\ options \in Options
    /\ pc \in {"prepare", "sendSetup", "sending", "receiptSetup", "waiting",
               "deciding", "explaining", "normalizing", "done"}
    /\ settled \in BOOLEAN
    /\ promise \in {"pending", "fulfilled", "rejected"}
    /\ errorEvents \in 0..2
    /\ timer \in [Races -> {"off", "armed", "fired"}]
    /\ watch \in [Races -> {"off", "subscription", "polling"}]
    /\ fallback \in [Races -> BOOLEAN]
    /\ raced \subseteq Races
    /\ poller \in {"off", "on", "received", "failed"}
    /\ receipt \in {"none", "ok", "reverted"}
    /\ confirming \in BOOLEAN
    /\ unhandled \subseteq {"timer", "poller", "confirmation"}

(* Nothing runs, and nothing has settled.                                     *)
Quiet ==
    /\ options \in Options
    /\ settled = FALSE /\ promise = "pending" /\ errorEvents = 0
    /\ timer = [r \in Races |-> "off"]
    /\ watch = [r \in Races |-> "off"]
    /\ fallback = [r \in Races |-> FALSE]
    /\ raced = {}
    /\ poller = "off" /\ receipt = "none"
    /\ confirming = FALSE /\ unhandled = {}

Init == pc = "prepare" /\ Quiet

-----------------------------------------------------------------------------
(* Emitting 'error' runs the listener, if there is one, inside emit().        *)
EmitError == errorEvents' = IF options.errorListener = "none" THEN errorEvents ELSE errorEvents + 1

(* failOnce(error, errorEvent): the flag is set first, then the event is      *)
(* emitted, then the promise is rejected. A listener that throws leaves       *)
(* failOnce before the rejection; the catch it lands in calls failOnce again, *)
(* which returns at once.                                                     *)
FailOnce(withEvent) ==
    IF settled THEN UNCHANGED <<settled, promise, errorEvents>>
    ELSE /\ settled' = TRUE
         /\ IF withEvent THEN EmitError ELSE UNCHANGED errorEvents
         /\ promise' = IF withEvent /\ options.errorListener = "throws" THEN promise ELSE "rejected"

SucceedOnce ==
    /\ promise' = IF settled THEN promise ELSE "fulfilled"
    /\ settled' = TRUE
    /\ UNCHANGED errorEvents

(* The catch block of execute(): a ContractExecutionError under handleRevert  *)
(* is explained by another RPC call first; RPC errors are emitted, any other  *)
(* error only rejects.                                                        *)
Catch ==
    \/ pc' = "normalizing" /\ UNCHANGED <<settled, promise, errorEvents>>
    \/ pc' = "done" /\ \E withEvent \in BOOLEAN : FailOnce(withEvent)

(* getTransactionError() answers, or throws into the last-resort guard.       *)
Normalized ==
    /\ pc = "normalizing"
    /\ pc' = "done"
    /\ \E withEvent \in BOOLEAN : FailOnce(withEvent)
    /\ UNCHANGED <<timer, watch, fallback, raced, poller, receipt, confirming, unhandled>>

FaultPrepareUnarmed ==
    /\ pc = "prepare"
    /\ pc' = "sendSetup"
    /\ UNCHANGED <<settled, promise, errorEvents, timer, watch, fallback, raced, poller,
                   receipt, confirming, unhandled>>

(* Formatting, gas pricing and the revert check; on success                   *)
(* trySendTransaction() arms its timer before it looks up the block number.   *)
Prepare ==
    /\ pc = "prepare"
    /\ \/ /\ pc' = "sendSetup"
          /\ timer' = [timer EXCEPT !["send"] = "armed"]
          /\ UNCHANGED <<settled, promise, errorEvents>>
       \/ pc' = "done" /\ FailOnce(TRUE) /\ UNCHANGED timer
       \/ Catch /\ UNCHANGED timer
    /\ UNCHANGED <<watch, fallback, raced, poller, receipt, confirming, unhandled>>

-----------------------------------------------------------------------------
(* rejectIfBlockTimeout() resolves with a watch, by subscription where that   *)
(* is enabled and works and by polling otherwise; Promise.race() starts.      *)
SetupDone(r) ==
    /\ pc = Setup(r)
    /\ pc' = Racing(r)
    /\ raced' = raced \cup {r}
    /\ \/ /\ watch' = [watch EXCEPT ![r] = "polling"]
          /\ UNCHANGED fallback
       \/ /\ options.useSubscription
          /\ watch' = [watch EXCEPT ![r] = "subscription"]
          /\ fallback' = [fallback EXCEPT ![r] = TRUE]
    /\ UNCHANGED <<settled, promise, errorEvents, timer, poller, receipt, confirming, unhandled>>

(* Its first getBlockNumber() fails: the error leaves before the try block    *)
(* whose finally would clear the timer.                                       *)
SetupFails(r) ==
    /\ pc = Setup(r)
    /\ Catch
    /\ UNCHANGED <<timer, watch, fallback, raced, poller, receipt, confirming, unhandled>>

(* The timer rejects its promise, which nobody handles before the race.       *)
TimerFires(r) ==
    /\ timer[r] = "armed"
    /\ timer' = [timer EXCEPT ![r] = "fired"]
    /\ unhandled' = IF r \in raced THEN unhandled ELSE unhandled \cup {"timer"}
    /\ UNCHANGED <<pc, settled, promise, errorEvents, watch, fallback, raced, poller,
                   receipt, confirming>>

(* The finally block of a race: the timer and the watch are cleared, the      *)
(* watch's own blockHeaderTimeout timer is not.                               *)
Finally(r) ==
    /\ timer' = [timer EXCEPT ![r] = "off"]
    /\ watch' = [watch EXCEPT ![r] = "off"]

(* A race is lost: to the timer, to the block timeout, to the RPC error of    *)
(* the transaction, or to the poller's error. A listener of 'sent' or of      *)
(* 'transactionHash' that throws leaves as the failure of the first race does *)
(* and for the same catch block.                                              *)
RaceFails(r) ==
    /\ pc = Racing(r)
    /\ \/ timer[r] = "fired"
       \/ watch[r] # "off"
       \/ r = "send"
       \/ r = "receipt" /\ poller = "failed"
    /\ Finally(r)
    /\ Catch
    /\ UNCHANGED <<fallback, raced, poller, receipt, confirming, unhandled>>

(* The node returned the transaction hash: 'sent' and 'transactionHash' are   *)
(* emitted and waitForTransactionReceipt() starts polling before its own      *)
(* timer and watch are set up.                                                *)
SendAnswered ==
    /\ pc = "sending"
    /\ watch' = [watch EXCEPT !["send"] = "off"]
    /\ timer' = [timer EXCEPT !["send"] = "off", !["receipt"] = "armed"]
    /\ poller' = "on"
    /\ pc' = "receiptSetup"
    /\ UNCHANGED <<settled, promise, errorEvents, fallback, raced, receipt, confirming, unhandled>>

(* A poll finds the receipt; the poller stops itself.                         *)
PollFinds ==
    /\ poller = "on"
    /\ poller' = "received"
    /\ receipt' \in {"ok", "reverted"}
    /\ UNCHANGED <<pc, settled, promise, errorEvents, timer, watch, fallback, raced,
                   confirming, unhandled>>

(* A poll fails: getTransactionReceipt() is returned, not awaited, inside the *)
(* try, so its rejection passes the catch and stops the poller.               *)
PollFails ==
    /\ poller = "on"
    /\ poller' = "failed"
    /\ unhandled' = IF "receipt" \in raced THEN unhandled ELSE unhandled \cup {"poller"}
    /\ UNCHANGED <<pc, settled, promise, errorEvents, timer, watch, fallback, raced,
                   receipt, confirming>>

ReceiptReceived ==
    /\ pc = "waiting"
    /\ poller = "received"
    /\ Finally("receipt")
    /\ pc' = "deciding"
    /\ UNCHANGED <<settled, promise, errorEvents, fallback, raced, poller, receipt,
                   confirming, unhandled>>

FaultSucceedAnyway ==
    /\ pc = "deciding"
    /\ SucceedOnce
    /\ pc' = "done"
    /\ confirming' \in BOOLEAN
    /\ UNCHANGED <<timer, watch, fallback, raced, poller, receipt, unhandled>>

(* After the 'receipt' event: the caller's resolver, if given, decides; a     *)
(* status equal to BigInt(0) is explained by one more RPC call, the receipt   *)
(* having been formatted with the caller's returnFormat when it was read;     *)
(* anything else fulfils the promise. Then confirmations are watched if there *)
(* is a listener for them. A listener or a resolver that throws ends in the   *)
(* catch block.                                                               *)
Decide ==
    /\ pc = "deciding"
    /\ \/ /\ receipt = "reverted" /\ options.bigint /\ ~options.resolver
          /\ pc' = "explaining"
          /\ UNCHANGED <<settled, promise, errorEvents, confirming>>
       \/ /\ receipt = "ok" \/ options.resolver \/ ~options.bigint
          /\ SucceedOnce
          /\ pc' = "done"
          /\ confirming' \in BOOLEAN
       \/ Catch /\ UNCHANGED confirming
    /\ UNCHANGED <<timer, watch, fallback, raced, poller, receipt, unhandled>>

(* The reason of the revert is known, or could not be obtained. Confirmations *)
(* of a reverted transaction are watched too.                                 *)
Explain ==
    /\ pc = "explaining"
    /\ \/ /\ FailOnce(TRUE)
          /\ pc' = "done"
          /\ confirming' \in (IF options.errorListener = "throws" THEN {FALSE} ELSE BOOLEAN)
       \/ Catch /\ UNCHANGED confirming
    /\ UNCHANGED <<timer, watch, fallback, raced, poller, receipt, unhandled>>

-----------------------------------------------------------------------------
(* A block header arrives by subscription: no need to fall back any more.     *)
HeaderArrives(r) ==
    /\ watch[r] = "subscription" /\ fallback[r]
    /\ fallback' = [fallback EXCEPT ![r] = FALSE]
    /\ UNCHANGED <<pc, settled, promise, errorEvents, timer, watch, raced, poller,
                   receipt, confirming, unhandled>>

(* revertToPolling(): by the subscription's error, or by blockHeaderTimeout,  *)
(* whose timer is not among the resources that clean() clears.                *)
RevertToPolling(r) ==
    /\ fallback[r] \/ watch[r] = "subscription"
    /\ fallback' = [fallback EXCEPT ![r] = FALSE]
    /\ watch' = [watch EXCEPT ![r] = "polling"]
    /\ UNCHANGED <<pc, settled, promise, errorEvents, timer, raced, poller, receipt,
                   confirming, unhandled>>

(* A watch left polling after its race stops when its block count is reached. *)
StrayWatchEnds(r) ==
    /\ pc # Racing(r) /\ watch[r] = "polling"
    /\ watch' = [watch EXCEPT ![r] = "off"]
    /\ UNCHANGED <<pc, settled, promise, errorEvents, timer, fallback, raced, poller,
                   receipt, confirming, unhandled>>

(* watchTransactionByPolling() cannot fetch a block: it emits 'error' on the  *)
(* PromiEvent, and emit() throws if nobody listens or if the listener does.   *)
ConfirmationFails ==
    /\ confirming
    /\ confirming' = FALSE
    /\ EmitError
    /\ unhandled' = IF options.errorListener = "ok" THEN unhandled ELSE unhandled \cup {"confirmation"}
    /\ UNCHANGED <<pc, settled, promise, timer, watch, fallback, raced, poller, receipt>>

ConfirmationsDone ==
    /\ confirming
    /\ confirming' = FALSE
    /\ UNCHANGED <<pc, settled, promise, errorEvents, timer, watch, fallback, raced,
                   poller, receipt, unhandled>>

Steps ==
    \/ Prepare \/ Normalized \/ SendAnswered \/ PollFinds \/ PollFails
    \/ ReceiptReceived \/ Decide \/ Explain \/ ConfirmationFails \/ ConfirmationsDone
    \/ \E r \in Races : \/ SetupDone(r) \/ SetupFails(r) \/ TimerFires(r) \/ RaceFails(r)
                        \/ HeaderArrives(r) \/ RevertToPolling(r) \/ StrayWatchEnds(r)

Next == Steps /\ UNCHANGED options

Spec == Init /\ [][Next]_vars

(* Timers fire, and the RPC calls execute() awaits outside a race settle (the *)
(* providers bound every request). Inside a race only the timer is certain.   *)
Fairness ==
    /\ WF_progress(Prepare) /\ WF_progress(Normalized)
    /\ WF_progress(Decide) /\ WF_progress(Explain)
    /\ \A r \in Races :
          /\ WF_progress(SetupDone(r) \/ SetupFails(r))
          /\ WF_progress(TimerFires(r))
          /\ WF_progress(timer[r] = "fired" /\ RaceFails(r))

FairSpec == Spec /\ Fairness

-----------------------------------------------------------------------------
(* The PromiEvent settles, however the RPC calls, timers and watches fall:    *)
(* "the PromiEvent must still settle rather than hang". An 'error' listener   *)
(* that throws defeats it.                                                    *)
Settles ==
    pc = "prepare" /\ options.errorListener # "throws" ~> promise # "pending"

(* It is fulfilled only on a receipt, and, without a resolver and with        *)
(* numbers as bigints, only on one that says the transaction succeeded; no    *)
(* 'error' event precedes the settlement.                                     *)
OutcomeMatchesReceipt ==
    /\ promise = "fulfilled" =>
          poller = "received" /\ (receipt = "ok" \/ options.resolver \/ ~options.bigint)
    /\ promise = "pending" /\ options.errorListener # "throws" => errorEvents = 0

Idle(r) == timer[r] = "off" /\ watch[r] = "off" /\ ~fallback[r]

(* With block timeouts checked by polling, a transaction that succeeds leaves *)
(* no timer, no block watch and no receipt poller behind.                     *)
SuccessLeavesNothing ==
    promise = "fulfilled" /\ ~options.useSubscription => poller # "on" /\ \A r \in Races : Idle(r)

-----------------------------------------------------------------------------
(* Why these hold. Only failOnce() and the end of the watch for confirmations *)
(* emit 'error', each once, and a promise that is pending although `settled'  *)
(* is set has a listener that threw.                                          *)
SettledOnce ==
    /\ settled => pc = "done"
    /\ ~settled => promise = "pending" /\ ~confirming
    /\ settled /\ options.errorListener # "throws" => promise # "pending"
    /\ errorEvents <= (IF settled THEN 1 ELSE 0)
                      + (IF settled /\ ~confirming THEN 1 ELSE 0)

(* The promise is fulfilled only after a receipt was received, and by then    *)
(* every race has cleared its timer; without a subscription it has cleared    *)
(* its watch as well.                                                         *)
RacesInOrder ==
    /\ pc \in {"deciding", "explaining"} => poller = "received"
    /\ promise = "fulfilled" => pc = "done" /\ poller = "received"
    /\ pc \in {"prepare", "sendSetup", "sending"} => timer["receipt"] = "off"
    /\ pc \in {"receiptSetup", "waiting", "deciding", "explaining"} \/ promise = "fulfilled" =>
          timer["send"] = "off"
    /\ pc \in {"deciding", "explaining"} \/ promise = "fulfilled" => timer["receipt"] = "off"
    /\ ~options.useSubscription =>
          \A r \in Races : ~fallback[r] /\ (watch[r] # "off" => watch[r] = "polling" /\ pc = Racing(r))

Inv == TypeOK /\ SettledOnce /\ RacesInOrder /\ OutcomeMatchesReceipt

-----------------------------------------------------------------------------
(* What comments, tests and documents say and the code does not do.           *)

(* "just clear the resources before raising it to the caller function": once  *)
(* the race for the receipt is over, nothing of it is still running.          *)
RaceLeavesNothing ==
    pc = "done" /\ "receipt" \in raced => poller # "on" /\ \A r \in Races : Idle(r)

(* "Should throw TransactionRevertInstructionError because of contract revert"*)
(* and "Specifies how the return data should be formatted": whatever format   *)
(* the caller asks for, a transaction that reverted does not fulfil.          *)
RevertRejects == promise = "fulfilled" /\ ~options.resolver => receipt = "ok"

(* "the `error` event is emitted at most once".                               *)
ErrorEmittedAtMostOnce == errorEvents <= 1

(* "Attach error handling to the async work so that a failed block fetch does *)
(* not turn into an unhandled promise rejection": the error of a confirmation *)
(* poll is always delivered to somebody.                                      *)
ConfirmationErrorHandled == "confirmation" \notin unhandled
=============================================================================
