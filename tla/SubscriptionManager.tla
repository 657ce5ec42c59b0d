------------------------- MODULE SubscriptionManager -------------------------
(* Web3SubscriptionManager and the Web3Subscription objects it registers,     *)
(* over a Web3RequestManager whose provider can be replaced at any time.      *)
(* Every await of the code separates two steps here: a subscribe or           *)
(* unsubscribe call occupies a slot of `calls' from the moment its request is *)
(* handed to a provider until its last continuation has run.                  *)
EXTENDS Naturals, FiniteSets, Functions

CONSTANTS
    Subs,           \* Web3Subscription objects
    Providers,      \* provider objects
    Streaming,      \* the providers that support subscriptions
    Ids,            \* subscription ids the nodes issue, each of them once
    Slots,          \* bound: calls under way at a time
    MaxListeners,   \* bound: listeners the manager leaves on one provider
    NoSub, NoId, NoProvider, Idle

ASSUME ConstantsAssumption ==
    /\ Streaming \subseteq Providers
    /\ NoSub \notin Subs /\ NoId \notin Ids /\ NoProvider \notin Providers
    /\ MaxListeners \in Nat \ {0}

VARIABLES
    provider,       \* requestManager.provider
    listeners,      \* message listeners this manager has put on each provider
    subs,           \* manager._subscriptions
    id,             \* the _id of each subscription object
    calls,          \* addSubscription and removeSubscription calls under way
    source,         \* the provider whose node issued an id
    live,           \* ids whose stream the node still serves
    emitted         \* 'data' events caused by the latest notification

vars == <<provider, listeners, subs, id, calls, source, live, emitted>>

Subscribing == [kind : {"subscribe"}, sub : Subs, at : Providers,
                stage : {"sent", "answered"}]
(* `awaited' is FALSE for the removals that a change of provider starts: they *)
(* belong to an event handler and no caller can wait for them.                *)
Unsubscribing == [kind : {"unsubscribe"}, sub : Subs, at : Providers,
                  stage : {"sent", "answered"}, of : Ids, awaited : BOOLEAN]
Call == Subscribing \cup Unsubscribing

ASSUME IdleAssumption == Idle \notin Call

TypeOK ==
    /\ provider \in Providers \cup {NoProvider}
    /\ listeners \in [Providers -> 0..MaxListeners]
    /\ subs \in [Ids -> Subs \cup {NoSub}]
    /\ id \in [Subs -> Ids \cup {NoId}]
    /\ calls \in [Slots -> Call \cup {Idle}]
    /\ source \in [Ids -> Providers \cup {NoProvider}]
    /\ live \subseteq Ids
    /\ emitted \in 0..MaxListeners

Busy == {c \in Slots : calls[c] # Idle}
Registered == {i \in Ids : subs[i] # NoSub}

(* Bound: an unused id remains for every qrl_subscribe request under way.     *)
IdsLeft ==
    Cardinality({i \in Ids : source[i] = NoProvider})
       > Cardinality({c \in Busy : calls[c].kind = "subscribe" /\ calls[c].stage = "sent"})

(* new Web3SubscriptionManager(requestManager, ...) on an initial provider.   *)
Init ==
    /\ provider \in Providers
    /\ listeners = [p \in Providers |-> IF p = provider /\ p \in Streaming THEN 1 ELSE 0]
    /\ subs = [i \in Ids |-> NoSub]
    /\ id = [s \in Subs |-> NoId]
    /\ calls = [c \in Slots |-> Idle]
    /\ source = [i \in Ids |-> NoProvider]
    /\ live = {}
    /\ emitted = 0

-----------------------------------------------------------------------------
(* addSubscription(sub): refused without a provider that supports             *)
(* subscriptions, or if sub is registered under its present id; otherwise the *)
(* qrl_subscribe request leaves on the present provider.                      *)
Subscribe(s) ==
    /\ IdsLeft
    /\ provider \in Streaming
    /\ ~(id[s] # NoId /\ id[s] \in Registered)
    /\ \E c \in Slots \ Busy :
          calls' = [calls EXCEPT ![c] = [kind |-> "subscribe", sub |-> s,
                                         at |-> provider, stage |-> "sent"]]
    /\ UNCHANGED <<provider, listeners, subs, id, source, live, emitted>>

Sent(c, kind) == calls[c] # Idle /\ calls[c].kind = kind /\ calls[c].stage = "sent"
Answered(c, kind) == calls[c] # Idle /\ calls[c].kind = kind /\ calls[c].stage = "answered"
Answer(c) == calls' = [calls EXCEPT ![c].stage = "answered"]
Finish(c) == calls' = [calls EXCEPT ![c] = Idle]

(* The node opens a stream under an id it never used before (external).       *)
OpenStream(c, i) ==
    /\ source[i] = NoProvider
    /\ source' = [source EXCEPT ![i] = calls[c].at]
    /\ live' = live \cup {i}

(* sendSubscriptionRequest() resumes with the id the node issued.             *)
SubscribeAnswered(c) ==
    /\ Sent(c, "subscribe")
    /\ \E i \in Ids : OpenStream(c, i) /\ id' = [id EXCEPT ![calls[c].sub] = i]
    /\ Answer(c)
    /\ UNCHANGED <<provider, listeners, subs, emitted>>

(* addSubscription() resumes: it registers sub under the id sub has by now,   *)
(* or throws if the id is gone.                                               *)
SubscribeRegisters(c) ==
    /\ Answered(c, "subscribe")
    /\ LET s == calls[c].sub IN
          subs' = IF id[s] = NoId THEN subs ELSE [subs EXCEPT ![id[s]] = s]
    /\ Finish(c)
    /\ UNCHANGED <<provider, listeners, id, source, live, emitted>>

(* The request is rejected, or its answer is lost after the node opened the   *)
(* stream: the call rejects and nothing is stored.                            *)
SubscribeFails(c) ==
    /\ Sent(c, "subscribe")
    /\ \/ UNCHANGED <<source, live>>
       \/ \E i \in Ids : OpenStream(c, i)
    /\ Finish(c)
    /\ UNCHANGED <<provider, listeners, subs, id, emitted>>

-----------------------------------------------------------------------------
(* Whether removeSubscription(s) gets as far as sending qrl_unsubscribe; with *)
(* no id, an id that is not registered or no provider it throws instead.      *)
Removable(s) == id[s] # NoId /\ id[s] \in Registered /\ provider # NoProvider

RemovalOf(s, awaited) == [kind |-> "unsubscribe", sub |-> s, at |-> provider,
                          stage |-> "sent", of |-> id[s], awaited |-> awaited]

(* manager.unsubscribe(condition) over the entries E of the map: one          *)
(* removeSubscription per entry, all of them started before any is awaited.   *)
Remove(E, awaited) ==
    LET sending == {i \in E : Removable(subs[i])} IN
    \E slot \in Injection(sending, Slots \ Busy) :
       calls' = [c \in Slots |-> IF c \in Range(slot)
                                 THEN RemovalOf(subs[CHOOSE i \in sending : slot[i] = c], awaited)
                                 ELSE calls[c]]

(* subscription.unsubscribe(): silently nothing without an id.                *)
Unsubscribe(s) ==
    /\ Removable(s)
    /\ \E c \in Slots \ Busy : calls' = [calls EXCEPT ![c] = RemovalOf(s, TRUE)]
    /\ UNCHANGED <<provider, listeners, subs, id, source, live, emitted>>

(* manager.unsubscribe(condition), the condition being any choice of entries. *)
UnsubscribeMany ==
    /\ \E E \in SUBSET Registered : E # {} /\ Remove(E, TRUE)
    /\ UNCHANGED <<provider, listeners, subs, id, source, live, emitted>>

FaultDeleteBeforeAnswer(c) ==
    /\ Sent(c, "unsubscribe")
    /\ subs' = [subs EXCEPT ![calls[c].of] = NoSub]
    /\ Answer(c)
    /\ UNCHANGED <<provider, listeners, id, source, live, emitted>>

(* The node of the provider the request went to stops the stream; then        *)
(* sendUnsubscribeRequest() resumes and forgets whatever id sub has by now.   *)
UnsubscribeAnswered(c) ==
    /\ Sent(c, "unsubscribe")
    /\ calls[c].of \in live /\ source[calls[c].of] = calls[c].at
    /\ live' = live \ {calls[c].of}
    /\ id' = [id EXCEPT ![calls[c].sub] = NoId]
    /\ Answer(c)
    /\ UNCHANGED <<provider, listeners, subs, source, emitted>>

(* removeSubscription() resumes and deletes the id it captured at the start.  *)
UnsubscribeRemoves(c) ==
    /\ Answered(c, "unsubscribe")
    /\ subs' = [subs EXCEPT ![calls[c].of] = NoSub]
    /\ Finish(c)
    /\ UNCHANGED <<provider, listeners, id, source, live, emitted>>

(* The node does not serve that stream, so it answers with an error; or the   *)
(* request or its answer is lost. removeSubscription() rejects and neither    *)
(* the map nor the id changes.                                                *)
UnsubscribeFails(c) ==
    /\ Sent(c, "unsubscribe")
    /\ LET served == calls[c].of \in live /\ source[calls[c].of] = calls[c].at IN
          UNCHANGED live \/ (served /\ live' = live \ {calls[c].of})
    /\ Finish(c)
    /\ UNCHANGED <<provider, listeners, subs, id, source, emitted>>

-----------------------------------------------------------------------------
FaultDeaf(p) == listeners
(* listenToProviderEvents(): one more listener on a provider that supports    *)
(* subscriptions. No listener is ever taken off a provider again.             *)
Listening(p) ==
    IF p \in Streaming THEN [listeners EXCEPT ![p] = @ + 1] ELSE listeners

FaultClearOnly(p) ==
    /\ p \in Streaming => listeners[p] < MaxListeners
    /\ provider' = p
    /\ subs' = [i \in Ids |-> NoSub]
    /\ listeners' = Listening(p)
    /\ UNCHANGED <<id, source, live, emitted, calls>>

(* requestManager.setProvider(p): BEFORE_PROVIDER_CHANGE starts removing every*)
(* subscription on the provider being replaced and is not awaited;            *)
(* PROVIDER_CHANGED clears the map and listens to the new provider.           *)
SetProvider(p) ==
    /\ p \in Streaming => listeners[p] < MaxListeners
    /\ Remove(Registered, FALSE)
    /\ provider' = p
    /\ subs' = [i \in Ids |-> NoSub]
    /\ listeners' = Listening(p)
    /\ UNCHANGED <<id, source, live, emitted>>

(* messageListener(): each listener on the provider the notification comes    *)
(* from looks the id up in the map as it is now.                              *)
Notification(i) ==
    /\ i \in live
    /\ emitted' = IF i \in Registered THEN listeners[source[i]] ELSE 0
    /\ UNCHANGED <<provider, listeners, subs, id, calls, source, live>>

(* What the application calls on a subscription, or on the managers.          *)
Uses(s) == Subscribe(s) \/ Unsubscribe(s)
Manages == UnsubscribeMany \/ \E p \in Providers \cup {NoProvider} : SetProvider(p)

Next ==
    \/ Manages
    \/ \E s \in Subs : Uses(s)
    \/ \E c \in Slots :
          \/ SubscribeAnswered(c) \/ SubscribeRegisters(c) \/ SubscribeFails(c)
          \/ UnsubscribeAnswered(c) \/ UnsubscribeRemoves(c) \/ UnsubscribeFails(c)
    \/ \E i \in Ids : Notification(i)

Spec == Init /\ [][Next]_vars

-----------------------------------------------------------------------------
Heard(i) == source[i] \in Providers /\ listeners[source[i]] > 0

(* A subscription the manager has registered can hear its stream: there is a  *)
(* listener on the provider that serves it, even when the provider was        *)
(* replaced between the request and its answer.                               *)
RegisteredIsHeard == \A i \in Registered : Heard(i)

(* The inductive invariant behind RegisteredIsHeard and                       *)
(* DroppedOnlyWhenStopped: the ids subscriptions hold are heard, and so is    *)
(* every provider a subscribe call went to; only ids already issued are live  *)
(* or being unsubscribed, and an answered unsubscribe means a stopped stream. *)
Inv ==
    /\ TypeOK
    /\ RegisteredIsHeard
    /\ \A s \in Subs : id[s] # NoId => Heard(id[s])
    /\ \A c \in Busy : calls[c].kind = "subscribe" => listeners[calls[c].at] > 0
    /\ provider \in Streaming => listeners[provider] > 0
    /\ \A i \in live : source[i] # NoProvider
    /\ \A c \in Busy : calls[c].kind = "unsubscribe" =>
          /\ source[calls[c].of] # NoProvider
          /\ calls[c].stage = "answered" => calls[c].of \notin live

(* The manager lets go of a registered subscription only once the node has    *)
(* stopped its stream, or when the provider is replaced: a failed             *)
(* qrl_unsubscribe leaves it registered and able to be unsubscribed again.    *)
DroppedOnlyWhenStopped ==
    [][\A i \in Ids : i \in Registered /\ subs'[i] = NoSub =>
          i \notin live \/ \E p \in Providers \cup {NoProvider} : SetProvider(p)]_vars

-----------------------------------------------------------------------------
(* What comments, tests and documents say and the code does not do.           *)

(* "this will send `qrl_unsubscribe` to stop the subscription": when nothing  *)
(* is under way, unsubscribe() of a registered subscription has an id to send *)
(* and sends it to the node that serves the stream.                           *)
UnsubscribeReachesNode ==
    Busy = {} => \A i \in Registered : id[subs[i]] = i /\ source[i] = provider

(* One notification of a node causes at most one 'data' event on the          *)
(* subscription it belongs to ("Fires on each incoming block header").        *)
DeliveredAtMostOnce == emitted <= 1
=============================================================================
