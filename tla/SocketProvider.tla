--------------------------- MODULE SocketProvider ---------------------------
(***************************************************************************)
(* The request table and the connection life cycle of the WebSocket        *)
(* provider: packages/web3-utils/src/socket_provider.ts with the WebSocket  *)
(* specialisation of packages/web3-providers-ws/src/index.ts, the           *)
(* `_onConnect' of web3_eip1193_provider.ts and the chunk parser of         *)
(* chunk_response_parser.ts.                                                *)
(*                                                                         *)
(* Every handler of the provider runs to completion on the JavaScript       *)
(* event loop, so a handler, a timer callback or a call of the public API   *)
(* is one action.  The environment is the peer and the `ws' library (a      *)
(* socket opens, fails, closes, answers late, twice or never) and the       *)
(* callers, who issue and abort requests and call connect, disconnect and   *)
(* reset at any moment.                                                     *)
(*                                                                         *)
(* `_connectionStatus' is not modelled: WebSocketProvider.getStatus never   *)
(* reads it.  A socket is numbered in order of creation; the one held in    *)
(* `_socketConnection' is always the newest.                                *)
(***************************************************************************)
EXTENDS Integers, FiniteSets

CONSTANTS
    Callers,       \* calls of `request' that callers may make, each made once
    CallerIds,     \* JSON-RPC ids the callers choose; two calls may choose the same
    MaxSockets,    \* bound: sockets opened in one behaviour
    MaxInFlight,   \* maxInFlightRequests
    MaxAttempts,   \* reconnectOptions.maxAttempts
    AutoReconnect, \* reconnectOptions.autoReconnect
    NoItem         \* the absence of an entry in a queue

\* Sockets in order of creation.
Sockets == 1 .. MaxSockets

\* The two requests `_onConnect' issues when a socket opens (qrl_chainId and
\* qrl_accounts).  They take their ids from the shared counter of toPayload,
\* so an id is identified with its request.
Handshakes == {"chainId", "accounts"} \X Sockets

\* SocketRequestItem objects, and the keys of the two queues.
Items == Callers \cup Handshakes
Ids == CallerIds \cup Handshakes

ASSUME CallersAssumption ==
    /\ IsFiniteSet(Callers)
    /\ Callers \cap Handshakes = {}
    /\ NoItem \notin Items
ASSUME IdsAssumption ==
    /\ IsFiniteSet(CallerIds)
    /\ CallerIds \cap Handshakes = {}
ASSUME BoundsAssumption ==
    /\ MaxSockets \in Nat \ {0}
    /\ MaxInFlight \in Nat \ {0}
    /\ MaxAttempts \in Nat
    /\ AutoReconnect \in BOOLEAN

VARIABLES
    readyState,    \* readyState of each socket, "none" before it is created
    listening,     \* its open, message and close listeners are attached
    errorListener, \* its error listener: "off", "on", or "emitted" / "swallowed"
                   \* once the socket has reported its (single) error
    cur,           \* the socket in `_socketConnection'
    connTimer,     \* `_connectionTimer' is armed
    isReconnecting,    \* `isReconnecting'; the backoff timer is armed iff it holds
    reconnectAttempts, \* `_reconnectAttempts'
    lastChunk,     \* socket the stored partial message came from, 0 if none
    chunkTimer,    \* `lastChunkTimeout' is armed; with autoReconnect its callback
                   \* returns at once, and it is left out
    pending,       \* `_pendingRequestsQueue'
    sent,          \* `_sentRequestsQueue'
    owned,         \* ids of the item's RequestLifecycle, {} once it is deleted
    deadline,      \* the item's abort composition is armed and listened to
    outcome,       \* the item's deferred promise
    peak           \* `_peakInFlight'

socketVars == <<readyState, errorListener, cur>>
timerVars == <<connTimer, isReconnecting, reconnectAttempts>>
parserVars == <<lastChunk, chunkTimer>>
tableVars == <<pending, sent, owned, deadline, outcome, peak>>
vars == <<socketVars, listening, timerVars, parserVars, tableVars>>

Outcomes == {"unused", "waiting", "resolved", "rejected"}

TypeOK ==
    /\ readyState \in [Sockets -> {"none", "connecting", "open", "closing", "closed"}]
    /\ listening \in [Sockets -> BOOLEAN]
    /\ errorListener \in [Sockets -> {"off", "on", "emitted", "swallowed"}]
    /\ cur \in Sockets
    /\ connTimer \in BOOLEAN
    /\ isReconnecting \in BOOLEAN
    /\ reconnectAttempts \in 0 .. MaxAttempts
    /\ lastChunk \in Sockets \cup {0}
    /\ chunkTimer \in BOOLEAN
    /\ pending \in [Ids -> Items \cup {NoItem}]
    /\ sent \in [Ids -> Items \cup {NoItem}]
    /\ owned \in [Items -> SUBSET Ids]
    /\ deadline \in [Items -> BOOLEAN]
    /\ outcome \in [Items -> Outcomes]
    /\ peak \in Nat

-----------------------------------------------------------------------------
(* The queues.                                                              *)

KeysOf(queue) == {id \in Ids : queue[id] # NoItem}
ItemsOf(queue) == {queue[id] : id \in KeysOf(queue)}

InFlight == Cardinality(KeysOf(pending)) + Cardinality(KeysOf(sent))

\* `_sentRequestsQueue.get(id) ?? _pendingRequestsQueue.get(id)'.
Lookup(id) == IF sent[id] # NoItem THEN sent[id] ELSE pending[id]

\* Fault: only one of the ids of a batch is deleted.
ReleasedPrimaryOnly(queue, S) ==
    [id \in Ids |-> IF \E i \in S : owned[i] # {} /\ id = CHOOSE x \in owned[i] : TRUE
                   THEN NoItem ELSE queue[id]]

\* A queue after `delete' of every id the lifecycles of the items S own.
Released(queue, S) ==
    [id \in Ids |-> IF \E i \in S : id \in owned[i] THEN NoItem ELSE queue[id]]

\* _settleRequest for each item of S: release all its ids, dispose of its
\* deadline, delete its lifecycle, settle its promise if nothing has yet.
\* Settling never raises the in-flight count, so `peak' stays.
Settle(S, how) ==
    /\ pending' = Released(pending, S)
    /\ sent' = Released(sent, S)
    /\ owned' = [i \in Items |-> IF i \in S THEN {} ELSE owned[i]]
    /\ deadline' = [i \in Items |-> deadline[i] /\ i \notin S]
    /\ outcome' = [i \in Items |->
                    IF i \in S /\ outcome[i] = "waiting" THEN how ELSE outcome[i]]
    /\ UNCHANGED peak

\* Fault: the queues are emptied and the promises forgotten.
ForgetAll ==
    /\ pending' = [id \in Ids |-> NoItem]
    /\ sent' = [id \in Ids |-> NoItem]
    /\ UNCHANGED <<owned, deadline, outcome, peak>>

\* _rejectAllRequests.
RejectAll == Settle(ItemsOf(pending) \cup ItemsOf(sent), "rejected")

-----------------------------------------------------------------------------
(* The connection.                                                          *)

\* WebSocketProvider.getStatus, for the socket states rs.
StatusIn(rs) ==
    CASE rs[cur] = "connecting" -> "connecting"
      [] rs[cur] = "open"       -> "connected"
      [] OTHER                  -> "disconnected"
Status == StatusIn(readyState)

\* connect(), from the socket states rs and listeners ls: a new WebSocket with
\* all its listeners.  The listeners of the socket it replaces stay.
Connect(rs, ls) ==
    /\ cur < MaxSockets
    /\ cur' = cur + 1
    /\ readyState' = [rs EXCEPT ![cur + 1] = "connecting"]
    /\ listening' = [ls EXCEPT ![cur + 1] = TRUE]
    /\ errorListener' = [errorListener EXCEPT ![cur + 1] = "on"]
    /\ connTimer' = TRUE

\* _removeSocketListeners: the error listener is kept.
Deafen == listening' = [listening EXCEPT ![cur] = FALSE]

\* _clearQueues.
ClearQueues ==
    /\ connTimer' = FALSE
    /\ RejectAll
    /\ Deafen

\* Fault: one attempt too many.
AttemptsLeftOffByOne == reconnectAttempts <= MaxAttempts

\* _reconnect has attempts left.
AttemptsLeft == reconnectAttempts < MaxAttempts

\* _reconnect: nothing while a backoff is running; otherwise the requests on the
\* wire are rejected and a backoff starts, or, with the attempts used up, the
\* provider gives up.
Reconnect ==
    \/ /\ isReconnecting
       /\ UNCHANGED <<timerVars, listening, tableVars>>
    \/ /\ ~isReconnecting
       /\ AttemptsLeft
       /\ isReconnecting' = TRUE
       /\ reconnectAttempts' = reconnectAttempts + 1
       /\ Settle(ItemsOf(sent), "rejected")
       /\ UNCHANGED <<connTimer, listening>>
    \/ /\ ~isReconnecting
       /\ ~AttemptsLeft
       /\ ClearQueues
       /\ UNCHANGED <<isReconnecting, reconnectAttempts>>

-----------------------------------------------------------------------------
(* The constructor has called connect() once.                               *)

Init ==
    /\ readyState = [s \in Sockets |-> IF s = 1 THEN "connecting" ELSE "none"]
    /\ listening = [s \in Sockets |-> s = 1]
    /\ errorListener = [s \in Sockets |-> IF s = 1 THEN "on" ELSE "off"]
    /\ cur = 1
    /\ connTimer = TRUE
    /\ isReconnecting = FALSE
    /\ reconnectAttempts = 0
    /\ lastChunk = 0
    /\ chunkTimer = FALSE
    /\ pending = [id \in Ids |-> NoItem]
    /\ sent = [id \in Ids |-> NoItem]
    /\ owned = [i \in Items |-> {}]
    /\ deadline = [i \in Items |-> FALSE]
    /\ outcome = [i \in Items |-> "unused"]
    /\ peak = 0

-----------------------------------------------------------------------------
(* Calls of the public API.                                                 *)

\* Fault: a batch is counted as one slot.
AdmissibleAsOneSlot(I) ==
    /\ \A id \in I : pending[id] = NoItem /\ sent[id] = NoItem
    /\ InFlight + 1 <= MaxInFlight

\* The checks of request(): no id of I is in flight and I fits under the cap.
Admissible(I) ==
    /\ \A id \in I : pending[id] = NoItem /\ sent[id] = NoItem
    /\ InFlight + Cardinality(I) <= MaxInFlight

\* A request() that finds the socket gone reopens it first.
ReconnectForRequest ==
    \/ /\ Status = "disconnected"
       /\ Connect(readyState, listening)
    \/ /\ Status # "disconnected"
       /\ UNCHANGED <<socketVars, listening, connTimer>>

\* A queue with item i entered under the ids I.
Enter(queue, i, I) == [id \in Ids |-> IF id \in I THEN i ELSE queue[id]]

\* Fault: the deadline is armed only for a request that is written at once.
RegisterUnarmed(i, I) ==
    /\ owned' = [owned EXCEPT ![i] = I]
    /\ deadline' = [deadline EXCEPT ![i] = Status = "connected"]
    /\ outcome' = [outcome EXCEPT ![i] = "waiting"]
    /\ UNCHANGED peak

\* The lifecycle of an admitted request: its ids, its deadline, its promise.
Register(i, I) ==
    /\ owned' = [owned EXCEPT ![i] = I]
    /\ deadline' = [deadline EXCEPT ![i] = TRUE]
    /\ outcome' = [outcome EXCEPT ![i] = "waiting"]
    /\ peak' = IF InFlight + Cardinality(I) > peak THEN InFlight + Cardinality(I) ELSE peak

\* request() admitted while the socket is (or has just been put) in its
\* handshake: parked.
RequestParked(i, I) ==
    /\ outcome[i] = "unused"
    /\ Status # "connected"
    /\ ReconnectForRequest
    /\ Admissible(I)
    /\ pending' = Enter(pending, i, I)
    /\ Register(i, I)
    /\ UNCHANGED <<isReconnecting, reconnectAttempts, parserVars, sent>>

\* request() admitted on an open socket: written at once.
RequestSent(i, I) ==
    /\ outcome[i] = "unused"
    /\ Status = "connected"
    /\ Admissible(I)
    /\ sent' = Enter(sent, i, I)
    /\ Register(i, I)
    /\ UNCHANGED <<socketVars, listening, timerVars, parserVars, pending>>

\* The same, but the payload cannot be serialised: _sendToSocket throws and the
\* request is settled by the catch clause.
RequestUnsendable(i, I) ==
    /\ outcome[i] = "unused"
    /\ Status = "connected"
    /\ Admissible(I)
    /\ outcome' = [outcome EXCEPT ![i] = "rejected"]
    /\ peak' = IF InFlight + Cardinality(I) > peak THEN InFlight + Cardinality(I) ELSE peak
    /\ UNCHANGED <<socketVars, listening, timerVars, parserVars,
                   pending, sent, owned, deadline>>

\* request() refused (malformed ids, an id in flight, the cap, an aborted
\* signal): nothing is booked, but a lost socket has been reopened by then.
RequestRefused ==
    /\ Status = "disconnected"
    /\ Connect(readyState, listening)
    /\ UNCHANGED <<isReconnecting, reconnectAttempts, parserVars, tableVars>>

\* The deadline of request i passes, or its caller aborts it: onAbort settles
\* whatever the primary id finds.
RequestAborted(i) ==
    /\ deadline[i]
    /\ \E id \in owned[i] :
          LET found == Lookup(id)
          IN  IF found = NoItem THEN UNCHANGED tableVars
                                ELSE Settle({found}, "rejected")
    /\ UNCHANGED <<socketVars, listening, timerVars, parserVars>>

\* connect() called by the user.
UserConnect ==
    /\ Connect(readyState, listening)
    /\ UNCHANGED <<isReconnecting, reconnectAttempts, parserVars, tableVars>>

\* disconnect().  A backoff that is running is not cancelled.
UserDisconnect ==
    /\ connTimer' = FALSE
    /\ Deafen
    /\ readyState' = IF Status = "disconnected" THEN readyState
                     ELSE [readyState EXCEPT ![cur] = "closing"]
    /\ RejectAll
    /\ UNCHANGED <<errorListener, cur, isReconnecting, reconnectAttempts, parserVars>>

\* reset().
UserReset ==
    /\ connTimer' = FALSE
    /\ RejectAll
    /\ reconnectAttempts' = 0
    /\ listening' = [listening EXCEPT ![cur] = TRUE]
    /\ errorListener' = [errorListener EXCEPT ![cur] = IF @ = "off" THEN "on" ELSE @]
    /\ UNCHANGED <<readyState, cur, isReconnecting, parserVars>>

-----------------------------------------------------------------------------
(* Events of a socket.                                                      *)

\* A socket nobody listens to any more completes its handshake.
SocketOpensUnheard(s) ==
    /\ readyState[s] = "connecting"
    /\ ~listening[s]
    /\ readyState' = [readyState EXCEPT ![s] = "open"]
    /\ UNCHANGED <<errorListener, cur, listening, timerVars, parserVars, tableVars>>

\* The handshake requests the cap admits when socket s opens: chainId first.
AdmittedHandshakes(s) ==
    IF InFlight >= MaxInFlight THEN {}
    ELSE IF InFlight + 1 = MaxInFlight THEN {<<"chainId", s>>}
    ELSE {<<"chainId", s>>, <<"accounts", s>>}

\* _onConnect when `_socketConnection' is open: the handshake requests go out
\* and _sendPendingRequests promotes every parked request to the sent queue;
\* the requests F turn out not to be serialisable and are settled instead.
SocketOpens(s, F) ==
    /\ readyState[s] = "connecting"
    /\ listening[s]
    /\ readyState' = [readyState EXCEPT ![s] = "open"]
    /\ StatusIn(readyState') = "connected"
    /\ F \subseteq ItemsOf(pending)
    /\ LET H == AdmittedHandshakes(s)
           K == (ItemsOf(pending) \ F) \cup H
       IN  /\ pending' = [id \in Ids |-> NoItem]
           /\ sent' = [id \in Ids |->
                         IF id \in H THEN id
                         ELSE IF pending[id] \in K THEN pending[id]
                         ELSE sent[id]]
           /\ owned' = [i \in Items |->
                          IF i \in H THEN {i} ELSE IF i \in F THEN {} ELSE owned[i]]
           /\ deadline' = [i \in Items |-> (deadline[i] \/ i \in H) /\ i \notin F]
           /\ outcome' = [i \in Items |->
                            IF i \in H THEN "waiting"
                            ELSE IF i \in F THEN "rejected" ELSE outcome[i]]
           /\ peak' = IF InFlight + Cardinality(H) > peak
                      THEN InFlight + Cardinality(H) ELSE peak
    /\ connTimer' = FALSE
    /\ reconnectAttempts' = 0
    /\ UNCHANGED <<errorListener, cur, listening, isReconnecting, parserVars>>

\* _onConnect run by a replaced socket while the current one is not open: the
\* handshake requests are parked (reopening a lost socket), then every parked
\* request is written to a socket that is still connecting, which throws, so
\* all of them are settled.
StaleSocketOpens(s) ==
    /\ readyState[s] = "connecting"
    /\ listening[s]
    /\ LET rs == [readyState EXCEPT ![s] = "open"]
       IN  \/ /\ StatusIn(rs) = "connecting"
              /\ readyState' = rs
              /\ connTimer' = FALSE
              /\ UNCHANGED <<errorListener, cur, listening>>
           \/ /\ StatusIn(rs) = "disconnected"
              /\ Connect(rs, listening)
    /\ LET H == AdmittedHandshakes(s)
           F == ItemsOf(pending)
       IN  /\ pending' = [id \in Ids |-> NoItem]
           /\ owned' = [i \in Items |-> IF i \in F THEN {} ELSE owned[i]]
           /\ deadline' = [i \in Items |-> deadline[i] /\ i \notin F]
           /\ outcome' = [i \in Items |-> IF i \in H \cup F THEN "rejected" ELSE outcome[i]]
           /\ peak' = IF InFlight + Cardinality(H) > peak
                      THEN InFlight + Cardinality(H) ELSE peak
           /\ UNCHANGED sent
    /\ reconnectAttempts' = 0
    /\ UNCHANGED <<isReconnecting, parserVars>>

\* The peer or the network starts to take the socket down, or its handshake fails.
SocketFails(s) ==
    /\ readyState[s] \in {"connecting", "open"}
    /\ readyState' = [readyState EXCEPT ![s] = "closing"]
    /\ UNCHANGED <<errorListener, cur, listening, timerVars, parserVars, tableVars>>

\* _onError: passed on to the application, or swallowed by the call of
\* _reconnect() that the running backoff makes a no-op.
SocketError(s) ==
    /\ readyState[s] = "closing"
    /\ errorListener[s] = "on"
    /\ errorListener' = [errorListener EXCEPT ![s] =
                           IF isReconnecting THEN "swallowed" ELSE "emitted"]
    /\ UNCHANGED <<readyState, cur, listening, timerVars, parserVars, tableVars>>

\* The close event of a socket nobody listens to.
SocketClosesUnheard(s) ==
    /\ readyState[s] = "closing"
    /\ ~listening[s]
    /\ readyState' = [readyState EXCEPT ![s] = "closed"]
    /\ UNCHANGED <<errorListener, cur, listening, timerVars, parserVars, tableVars>>

\* _onCloseEvent.  Whatever socket the event is from, the listeners it removes
\* are those of the current one.
SocketCloses(s, clean) ==
    /\ readyState[s] = "closing"
    /\ listening[s]
    /\ readyState' = [readyState EXCEPT ![s] = "closed"]
    /\ \/ /\ AutoReconnect /\ ~clean
          /\ Reconnect
          /\ UNCHANGED errorListener
       \/ /\ ~AutoReconnect \/ clean
          /\ ClearQueues
          /\ errorListener' = [errorListener EXCEPT ![cur] = IF @ = "on" THEN "off" ELSE @]
          /\ UNCHANGED <<isReconnecting, reconnectAttempts>>
    /\ UNCHANGED <<cur, parserVars>>

-----------------------------------------------------------------------------
(* Messages.  A stored partial message is prepended to the next message, of  *)
(* whatever socket; with the tail of a message of another socket in front,   *)
(* nothing parses.                                                           *)

\* Fault: an answer may settle a request that was never written.
AnsweredInEitherQueue(id) == Lookup(id)

\* The request an answer with this id settles: only one that is on the wire.
Answered(id) == sent[id]

\* A message parses and answers id; `valid' is a well-formed response, `tail'
\* means that an incomplete second response follows it in the same message.
MessageAnswers(s, id, valid, tail) ==
    /\ readyState[s] = "open"
    /\ listening[s]
    /\ lastChunk \in {0, s}
    /\ lastChunk' = IF tail THEN s ELSE 0
    /\ chunkTimer' = (tail /\ ~AutoReconnect)
    /\ IF Answered(id) = NoItem
       THEN UNCHANGED tableVars
       ELSE Settle({Answered(id)}, IF valid THEN "resolved" ELSE "rejected")
    /\ UNCHANGED <<socketVars, listening, timerVars>>

\* A message leaves the parser with a partial response and no complete one:
\* taken for a lost connection.
MessagePartial(s) ==
    /\ readyState[s] = "open"
    /\ listening[s]
    /\ lastChunk' = IF lastChunk = 0 THEN s ELSE lastChunk
    /\ chunkTimer' = ~AutoReconnect
    /\ \/ AutoReconnect /\ Reconnect
       \/ ~AutoReconnect /\ UNCHANGED <<timerVars, listening, tableVars>>
    /\ UNCHANGED socketVars

\* The partial message outgrows MAX_CHUNK_BYTES: dropped, the queues are
\* cleared, and the message counts as a lost connection.  An application
\* listener for 'error' is assumed.
MessageOverflows(s) ==
    /\ readyState[s] = "open"
    /\ listening[s]
    /\ lastChunk # 0
    /\ lastChunk' = 0
    /\ ClearQueues
    /\ \/ /\ AutoReconnect /\ ~isReconnecting /\ AttemptsLeft
          /\ isReconnecting' = TRUE
          /\ reconnectAttempts' = reconnectAttempts + 1
       \/ /\ ~AutoReconnect \/ isReconnecting \/ ~AttemptsLeft
          /\ UNCHANGED <<isReconnecting, reconnectAttempts>>
    /\ UNCHANGED <<socketVars, chunkTimer>>

-----------------------------------------------------------------------------
(* Timers.                                                                  *)

\* The rest of a partial message did not arrive in time.
ChunkTimeout ==
    /\ chunkTimer
    /\ chunkTimer' = FALSE
    /\ ClearQueues
    /\ UNCHANGED <<socketVars, isReconnecting, reconnectAttempts, lastChunk>>

\* The backoff ends: the current socket is replaced.
BackoffEnds ==
    /\ isReconnecting
    /\ Connect(readyState, [listening EXCEPT ![cur] = FALSE])
    /\ isReconnecting' = FALSE
    /\ UNCHANGED <<reconnectAttempts, parserVars, tableVars>>

\* connectionTimeout passes.
ConnectionTimeout ==
    /\ connTimer
    /\ connTimer' = FALSE
    /\ IF Status = "connected" THEN UNCHANGED tableVars ELSE RejectAll
    /\ UNCHANGED <<socketVars, listening, isReconnecting, reconnectAttempts, parserVars>>

-----------------------------------------------------------------------------

Request ==
    \E i \in Callers, I \in (SUBSET CallerIds) \ {{}} :
        RequestParked(i, I) \/ RequestSent(i, I) \/ RequestUnsendable(i, I)

SocketEvent ==
    \E s \in Sockets :
        \/ SocketOpensUnheard(s)
        \/ \E F \in SUBSET Callers : SocketOpens(s, F)
        \/ StaleSocketOpens(s)
        \/ SocketFails(s)
        \/ SocketError(s)
        \/ SocketClosesUnheard(s)
        \/ \E clean \in BOOLEAN : SocketCloses(s, clean)
        \/ \E id \in Ids, valid, tail \in BOOLEAN : MessageAnswers(s, id, valid, tail)
        \/ MessagePartial(s)
        \/ MessageOverflows(s)

Next ==
    \/ Request
    \/ RequestRefused
    \/ \E i \in Items : RequestAborted(i)
    \/ UserConnect
    \/ UserDisconnect
    \/ UserReset
    \/ SocketEvent
    \/ ChunkTimeout
    \/ BackoffEnds
    \/ ConnectionTimeout

\* Node's timers fire: the deadline of a request, and nothing else, is relied on.
Fairness == \A i \in Items : WF_vars(RequestAborted(i))

Spec == Init /\ [][Next]_vars /\ Fairness

-----------------------------------------------------------------------------
(* Safety.                                                                  *)

\* The request's promise has been settled.
Settled(i) == outcome[i] \in {"resolved", "rejected"}

\* What _settleRequest is "the single cleanup primitive" for: a request is
\* waiting exactly as long as its deadline is armed and its lifecycle exists,
\* it then holds each id it owns and no other, and a request that is settled
\* (or not yet made) holds no slot in either queue.
Bookkeeping ==
    \A i \in Items :
        /\ outcome[i] = "waiting" <=> deadline[i]
        /\ outcome[i] = "waiting" <=> owned[i] # {}
        /\ \A id \in Ids : id \in owned[i] <=> (pending[id] = i \/ sent[id] = i)

\* The ids of a batch are parked together or on the wire together: the promotion
\* of _sendPendingRequests and every release moves all of them, and no id is in
\* both queues.
BatchMovesTogether ==
    \A i \in Items :
        \/ \A id \in owned[i] : pending[id] = i /\ sent[id] = NoItem
        \/ \A id \in owned[i] : sent[id] = i /\ pending[id] = NoItem

\* The cap of maxInFlightRequests holds over both queues together, whatever
\* mixture of batches, promotions and handshake requests fills them, and
\* getDiagnostics never reports a peak below the present load or above the cap.
InFlightWithinCap == InFlight <= peak /\ peak <= MaxInFlight

\* An id is in one queue at most.
OneQueuePerId == \A id \in Ids : pending[id] = NoItem \/ sent[id] = NoItem

\* Callers take the ids they chose, a handshake request its own.
OwnIdsOnly ==
    /\ \A i \in Callers : owned[i] \subseteq CallerIds
    /\ \A h \in Handshakes : owned[h] \subseteq {h}

\* A socket that has not opened has issued no handshake request, and a socket
\* that is not yet created has no state.
FreshSockets ==
    /\ \A s \in Sockets : s > cur => readyState[s] = "none"
    /\ \A h \in Handshakes : readyState[h[2]] \in {"none", "connecting"} => outcome[h] = "unused"

\* The inductive invariant: the bookkeeping and the cap survive every step only
\* together with who may own which id, in which queue, and from when on.
Inv ==
    /\ TypeOK
    /\ Bookkeeping
    /\ OneQueuePerId
    /\ OwnIdsOnly
    /\ FreshSockets
    /\ BatchMovesTogether
    /\ InFlightWithinCap

\* No request stays parked behind a handshake that is over: while the provider
\* listens to an open current socket, the pending queue is empty.
NothingParkedBehindOpenSocket ==
    readyState[cur] = "open" /\ listening[cur] => KeysOf(pending) = {}

\* Only a request on the wire is resolved, and it leaves the wire only by being
\* settled: no late answer reaches a parked request, and no step puts a sent one
\* back into the pending queue or forgets it.
SentUntilSettled ==
    [][\A i \in Items :
          /\ outcome[i] # "resolved" /\ outcome'[i] = "resolved" => i \in ItemsOf(sent)
          /\ i \in ItemsOf(sent) => i \in ItemsOf(sent') \/ outcome'[i] # "waiting"]_vars

\* No request is lost between the queues: none is parked behind an open socket
\* and none leaves the wire but by being settled (socket_provider.ts:802, :853).
NoneForgotten == []NothingParkedBehindOpenSocket /\ SentUntilSettled

-----------------------------------------------------------------------------
(* Liveness.                                                                *)

\* "The returned promise always settles ... A connected peer that simply never
\* replies is bounded by the deadline armed here": whatever the peer, the
\* network and the reconnection do.
EveryRequestSettles == \A i \in Items : outcome[i] = "waiting" ~> Settled(i)

-----------------------------------------------------------------------------
(* Refinement.                                                              *)

\* An id is held by the request that either queue maps it to.
Table == INSTANCE RequestTable WITH holder <- [id \in Ids |-> Lookup(id)]

\* The two queues, their promotions, releases and teardowns implement one table
\* of requests in which ids change hands only through admission and settlement
\* (_settleRequest: "every terminal path for a request goes through here").
ImplementsRequestTable == Table!Spec

-----------------------------------------------------------------------------
(* What the comments say and the code does not do.                          *)

\* socket_provider.ts, in the connection timer: "A handshake that never completes
\* must not strand the requests queued behind it, whether or not their own 120s
\* deadline has elapsed": a request is parked behind a handshake only while the
\* connection timer is armed.
HandshakeBounded ==
    KeysOf(pending) # {} /\ readyState[cur] = "connecting" => connTimer

\* socket_provider.ts, _onError: "do not emit error while trying to reconnect":
\* no error of the current socket reaches the application between the first reconnection
\* attempt and the connection that ends it (which resets the counter).
NoErrorWhileReconnecting ==
    [][\A s \in Sockets :
          s = cur /\ listening[s] /\ errorListener[s] # errorListener'[s]
            /\ errorListener'[s] = "emitted" => reconnectAttempts = 0]_vars

=============================================================================
