---------------------------- MODULE MCTransactions ----------------------------
(* Model-checking instance of the three stages of a transaction: it is        *)
(* prepared and signed, sent until its receipt is there, and watched for      *)
(* confirmations. The stages share no state, so a behaviour exercises one of  *)
(* them, `part', while the others have nothing to do. Transactions are        *)
(* prepared one by one in the part "sign", and in "overlap" at the same time. *)
EXTENDS Naturals

CONSTANTS
    Calls, WithSeed, FillGasPrice, DefaultCommon, DefaultAccount,
    MaxMined, Varied,                                       \* TransactionSigning
    ConfirmationBlocks, MaxOverlap, MaxHead                 \* Confirmations

VARIABLES
    part,
    calls, hasCommon, count,
    options, pc, settled, promise, errorEvents, timer, watch, fallback, raced,
    poller, receipt, confirming, unhandled,
    failing, head, sub, seen, needToWatchLater, headerTimer, pollers, confirmed

signingVars == <<calls, hasCommon, count>>
sendVars    == <<options, pc, settled, promise, errorEvents, timer, watch, fallback,
                 raced, poller, receipt, confirming, unhandled>>
watchVars   == <<failing, head, sub, seen, needToWatchLater, headerTimer, pollers, confirmed>>
mcVars      == <<part, signingVars, sendVars, watchVars>>

oneByOne == part # "overlap"

Signing == INSTANCE TransactionSigning
Send    == INSTANCE SendTransaction
Watch   == INSTANCE Confirmations WITH timer <- headerTimer, poller <- pollers

ASSUME ConstantsAssumption == Signing!ConstantsOK /\ Watch!ConstantsOK

DefaultOptions == [useSubscription |-> FALSE, resolver |-> FALSE, bigint |-> TRUE,
                   errorListener |-> "ok"]

MCInit ==
    /\ part \in {"sign", "overlap", "send", "watch"}
    /\ Signing!Init
    /\ IF part = "send" THEN Send!Init
       ELSE options = DefaultOptions /\ pc = "done" /\ Send!Quiet
    /\ IF part = "watch" THEN Watch!Init ELSE Watch!NotWatched
    /\ part \in {"send", "watch"} => hasCommon = CHOOSE v \in DefaultCommon : TRUE
    /\ part = "overlap" => ~hasCommon

(* Bound: transactions prepared at the same time differ in sender and nonce.  *)
Plain ==
    {tx \in Signing!Transactions :
        /\ ~tx.clash /\ ~tx.common /\ ~tx.chain /\ ~tx.hardfork /\ ~tx.gas
        /\ tx.chainId = Signing!Absent /\ tx.fees = "both" /\ tx.type = "0x2"}

Overlapping == \E c \in Calls : Signing!Begin(c, Plain) \/ Signing!GoOn(c)

MCNext ==
    \/ part = "sign" /\ UNCHANGED <<part, sendVars, watchVars>> /\ Signing!Next
    \/ part = "overlap" /\ UNCHANGED <<part, sendVars, watchVars>> /\ Overlapping
    \/ part = "send" /\ Send!Next /\ UNCHANGED <<part, signingVars, watchVars>>
    \/ part = "watch" /\ Watch!Next /\ UNCHANGED <<part, signingVars, sendVars>>

MCSpec == MCInit /\ [][MCNext]_mcVars /\ Send!Fairness /\ Watch!Fairness

-----------------------------------------------------------------------------
(* A transaction that succeeds leaves no timer, no block watch and no receipt *)
(* poller behind if block timeouts are checked by polling, a confirmation n   *)
(* is emitted only if the chain holds n blocks from the receipt's on; see     *)
(* SendTransaction and Confirmations. The other conjuncts say why these and   *)
(* the properties below hold, and the variables keep their types.             *)
Inv ==
    /\ Signing!Inv /\ Send!Inv /\ Watch!Inv
    /\ Send!SuccessLeavesNothing /\ Watch!ConfirmationsBacked

(* Without a defaultCommon, a well-formed transaction is refused only if a    *)
(* request to the node failed, and what is signed is signed for the chain it  *)
(* asks for, or for the node's; see TransactionSigning.                       *)
WellFormedIsSigned == Signing!WellFormedIsSigned /\ Signing!SignedForItsChain

(* The nonce that is filled in leaves no gap, and is the next one of the      *)
(* account if each transaction is mined before the next is prepared.          *)
NextNonceIsUsed == Signing!NextNonceIsUsed

(* The PromiEvent is fulfilled only on a receipt that says so, if numbers are *)
(* formatted as bigints, and no 'error' event precedes its settlement; see    *)
(* SendTransaction.                                                           *)
OutcomeMatchesReceipt == Send!OutcomeMatchesReceipt

(* The PromiEvent settles, however RPC calls, timers and watches fall, and    *)
(* transactionConfirmationBlocks are confirmed in the end, whichever way the  *)
(* watch starts or falls back, unless a request to the node fails.            *)
SettlesAndConfirms == Send!Settles /\ Watch!ConfirmedEventually
=============================================================================
