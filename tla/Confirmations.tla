---------------------------- MODULE Confirmations ----------------------------
(* The watch for confirmations that sendTransaction() leaves running once it  *)
(* has a receipt: by a newHeads subscription with its two fallbacks, or by    *)
(* polling for one block after the other. Blocks are numbered from the block  *)
(* of the receipt, which is block 0.                                          *)
EXTENDS Naturals, Sequences, SequencesExt

CONSTANTS
    ConfirmationBlocks,     \* transactionConfirmationBlocks
    MaxOverlap,             \* requests of one poller in flight together: 1 if
                            \* an answer always comes before the next tick
    MaxHead                 \* bound: blocks after the receipt's

ConstantsOK ==
    /\ ConfirmationBlocks \in Nat /\ MaxHead \in Nat
    /\ MaxOverlap \in Nat \ {0}

VARIABLES
    failing,            \* whether block requests and qrl_unsubscribe may fail
    head,               \* the newest block of the node
    sub,                \* the newHeads subscription
    seen,               \* height after lastCaughtBlockHash; 0 before any
    needToWatchLater,
    timer,              \* whether the blockHeaderTimeout timer is armed
    poller,             \* the pollers started so far, in order
    confirmed           \* the largest number a 'confirmation' event carried

vars == <<failing, head, sub, seen, needToWatchLater, timer, poller, confirmed>>

(* watchTransactionByPolling(): its counter, its interval, and the blocks it  *)
(* asked for and has no answer about.                                         *)
NewPoller == [count |-> 1, ticking |-> TRUE, asked |-> <<>>]

Pollers == [count : Nat \ {0}, ticking : BOOLEAN, asked : Seq(Nat \ {0})]

TypeOK ==
    /\ failing \in BOOLEAN
    /\ head \in 0..MaxHead
    /\ sub \in {"none", "asking", "on", "leaving", "erring", "gone"}
    /\ seen \in 0..(MaxHead + 1)
    /\ needToWatchLater \in BOOLEAN /\ timer \in BOOLEAN
    /\ poller \in Seq(Pollers)
    /\ confirmed \in Nat

(* watchTransactionForConfirmations() with a usable receipt: the first        *)
(* confirmation is emitted at once. The provider may support subscriptions.   *)
Watch(subscriptions) ==
    /\ seen = 0 /\ needToWatchLater = TRUE
    /\ sub = IF subscriptions THEN "asking" ELSE "none"
    /\ timer = subscriptions
    /\ poller = IF subscriptions THEN <<>> ELSE <<NewPoller>>
    /\ confirmed = 1

Init ==
    /\ failing \in BOOLEAN
    /\ head \in 0..MaxHead
    /\ \E subscriptions \in BOOLEAN : Watch(subscriptions)

(* No watch was started: the receipt is not usable, or nobody listens.        *)
NotWatched ==
    /\ failing = FALSE /\ head = MaxHead
    /\ seen = 0 /\ needToWatchLater = FALSE /\ sub = "none" /\ timer = FALSE
    /\ poller = <<>> /\ confirmed = 0

Emit(n) == confirmed' = IF n > confirmed THEN n ELSE confirmed

BlockMined ==
    /\ head < MaxHead
    /\ head' = head + 1
    /\ UNCHANGED <<failing, sub, seen, needToWatchLater, timer, poller, confirmed>>

-----------------------------------------------------------------------------
(* The interval of poller p fires. The call that finds the count reached      *)
(* clears the interval and still asks for one more block.                     *)
Enough(p) == poller[p].count >= ConfirmationBlocks

Tick(p) ==
    /\ poller[p].ticking
    /\ Len(poller[p].asked) < MaxOverlap
    /\ poller' = [poller EXCEPT ![p].ticking = ~Enough(p),
                                ![p].asked = Append(@, poller[p].count)]
    /\ UNCHANGED <<failing, head, sub, seen, needToWatchLater, timer, confirmed>>

(* The i-th request of poller p is answered. The count is raised by one,      *)
(* whatever block the answer is about.                                        *)
FaultAnswer(p, i) ==
    /\ poller' = [poller EXCEPT ![p].asked = RemoveAt(@, i), ![p].count = @ + 1]
    /\ Emit(poller[p].count + 1)
    /\ UNCHANGED <<failing, head, sub, seen, needToWatchLater, timer>>

Answer(p, i) ==
    /\ IF poller[p].asked[i] <= head
       THEN /\ poller' = [poller EXCEPT ![p].asked = RemoveAt(@, i), ![p].count = @ + 1]
            /\ Emit(poller[p].count + 1)
       ELSE /\ poller' = [poller EXCEPT ![p].asked = RemoveAt(@, i)]
            /\ UNCHANGED confirmed
    /\ UNCHANGED <<failing, head, sub, seen, needToWatchLater, timer>>

AnswerFails(p, i) ==
    /\ failing
    /\ poller' = [poller EXCEPT ![p].asked = RemoveAt(@, i), ![p].ticking = FALSE]
    /\ UNCHANGED <<failing, head, sub, seen, needToWatchLater, timer, confirmed>>

-----------------------------------------------------------------------------
Subscribed ==
    /\ sub = "asking"
    /\ sub' = "on"
    /\ UNCHANGED <<failing, head, seen, needToWatchLater, timer, poller, confirmed>>

SubscribeFails ==
    /\ sub = "asking"
    /\ sub' = "gone"
    /\ needToWatchLater' = FALSE
    /\ poller' = Append(poller, NewPoller)
    /\ UNCHANGED <<failing, head, seen, timer, confirmed>>

(* 'data' with the header of block h. The block is taken for a repetition if  *)
(* it has the parent of the last one. The handler unsubscribes at the end,    *)
(* and goes on handling headers while that call is out.                       *)
Data(h) ==
    /\ sub \in {"on", "leaving", "erring"}
    /\ h + 1 >= seen /\ h <= head
    /\ needToWatchLater' = FALSE
    /\ IF seen = h + 1 THEN UNCHANGED <<seen, confirmed, sub>>
       ELSE /\ seen' = h + 1
            /\ Emit(h + 1)
            /\ sub' = IF h + 1 >= ConfirmationBlocks /\ sub = "on" THEN "leaving" ELSE sub
    /\ UNCHANGED <<failing, head, timer, poller>>

(* The last unsubscribe call is answered; if it failed, nobody handles it.    *)
Left ==
    /\ sub = "leaving"
    /\ sub' \in IF failing THEN {"on", "gone"} ELSE {"gone"}
    /\ UNCHANGED <<failing, head, seen, needToWatchLater, timer, poller, confirmed>>

(* 'error' (which nothing in the repository emits on a newHeads subscription; *)
(* applications may): the handler awaits the removal of the subscription.     *)
SubscriptionError ==
    /\ sub = "on"
    /\ sub' = "erring"
    /\ UNCHANGED <<failing, head, seen, needToWatchLater, timer, poller, confirmed>>

RevertToPolling ==
    /\ sub = "erring"
    /\ sub' = "gone"
    /\ needToWatchLater' = FALSE
    /\ poller' = Append(poller, NewPoller)
    /\ UNCHANGED <<failing, head, seen, timer, confirmed>>

(* The removal is rejected, and the handler goes no further.                  *)
RemovalRejected ==
    /\ sub = "erring" /\ failing
    /\ sub' = "gone"
    /\ UNCHANGED <<failing, head, seen, needToWatchLater, timer, poller, confirmed>>

BlockHeaderTimeout ==
    /\ timer
    /\ timer' = FALSE
    /\ poller' = IF needToWatchLater THEN Append(poller, NewPoller) ELSE poller
    /\ UNCHANGED <<failing, head, sub, seen, needToWatchLater, confirmed>>

-----------------------------------------------------------------------------
Polls ==
    \E p \in DOMAIN poller :
       \/ Tick(p)
       \/ \E i \in DOMAIN poller[p].asked : Answer(p, i)

Reverts == Subscribed \/ RevertToPolling \/ BlockHeaderTimeout

Next ==
    \/ BlockMined \/ Polls \/ Reverts
    \/ SubscribeFails \/ Left \/ SubscriptionError \/ RemovalRejected
    \/ \E h \in 0..MaxHead : Data(h)
    \/ \E p \in DOMAIN poller : \E i \in DOMAIN poller[p].asked : AnswerFails(p, i)

Spec == Init /\ [][Next]_vars

(* Blocks are mined, timers fire, requests are answered and, as long as it is *)
(* on, the subscription reports every new head.                               *)
Fairness ==
    /\ WF_vars(BlockMined) /\ WF_vars(Reverts)
    /\ \A p \in 1..2 :
          /\ WF_vars(p \in DOMAIN poller /\ Tick(p))
          /\ WF_vars(p \in DOMAIN poller /\ \E i \in DOMAIN poller[p].asked : Answer(p, i))
    /\ WF_vars(sub = "on" /\ seen # head + 1 /\ Data(head))

FairSpec == Spec /\ Fairness

-----------------------------------------------------------------------------
(* "the transaction has already been included in at least one block, so we    *)
(* start with 1": a confirmation event with number n is emitted only if the   *)
(* chain holds n blocks from the receipt's on.                                *)
ConfirmationsBacked == confirmed <= head + 1

(* "as a fallback, if the subscription failed for any reason": once the chain *)
(* is long enough, transactionConfirmationBlocks are confirmed, whichever way *)
(* the watch starts or falls back, unless a request to the node fails.        *)
ConfirmedEventually ==
    ~failing /\ confirmed = 1 ~> confirmed >= ConfirmationBlocks

-----------------------------------------------------------------------------
(* Why it holds: each of the two fallbacks is used up by the poller it        *)
(* starts, and where an answer comes before the next tick, the one block that *)
(* a poller asked for is the one it counts.                                   *)
FallbacksLeft ==
    Len(poller) + (IF sub \in {"asking", "on", "leaving", "erring"} THEN 1 ELSE 0)
                + (IF timer THEN 1 ELSE 0) <= 2

AsksInStep ==
    \A p \in DOMAIN poller :
       /\ Len(poller[p].asked) <= MaxOverlap
       /\ MaxOverlap = 1 => \A i \in DOMAIN poller[p].asked : poller[p].asked[i] = poller[p].count

Inv ==
    /\ TypeOK /\ FallbacksLeft /\ AsksInStep
    /\ MaxOverlap = 1 => ConfirmationsBacked

-----------------------------------------------------------------------------
(* What comments, tests and documents say and the code does not do.           *)

(* "stay true except if the data arrived, or if watching started after an     *)
(* error had occurred": the two fallbacks never both start a poller.          *)
OnePoller == Len(poller) <= 1
=============================================================================
