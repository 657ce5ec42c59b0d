----------------------------- MODULE BatchRequest -----------------------------
(* Web3BatchRequest: requests are added one by one, each with a deferred      *)
(* promise, and execute() sends all of them in one JSON-RPC batch. The        *)
(* response, the failure of the provider and the batch timeout race with each *)
(* other, with further add() calls and with a second execute().               *)
EXTENDS Integers, FiniteSets, DeferredPromise

CONSTANTS
    Entries,        \* bound: add() calls, named by the promises they return
    Executions,     \* bound: execute() calls
    Timeouts,       \* the `timeout' options of execute()
    Numerals,       \* numbers that are ids, as numbers or written as strings
    Names,          \* ids that are not numerals: UUIDs
    NaN, None

(* A JSON-RPC id is a number or a string; 1 and "1" are different ids.        *)
Ids == ({"number"} \X Numerals) \cup ({"string"} \X (Numerals \cup Names))

ConstantsOK ==
    /\ IsFiniteSet(Entries) /\ Timeouts \subseteq Int
    /\ NaN \notin Numerals /\ Names \cap Numerals = {} /\ None \notin Ids

(* Number(id), as the response check applies it: "1" gives 1, a UUID NaN.     *)
NumberOf(i) == IF i[2] \in Numerals THEN i[2] ELSE NaN

(* An element of a response as isResponseWithResult() and                     *)
(* isResponseWithError() take it: one with neither member, or with both, is   *)
(* neither. Web3BaseProviders are held to answer with results and errors,     *)
(* EIP-1193 and legacy providers are not.                                     *)
Elements == [id : Ids, says : {"result", "error", "neither"}]

VARIABLES
    requests,       \* the promises _requests holds
    idOf,           \* the id of each request: its key in _requests
    entry,          \* the deferred promise add() returned for each request
    execution,      \* the deferred promise of each execute() call
    sent,           \* the executions whose sendBatch() is unanswered
    got,            \* the id of the element whose result fulfilled a request
    passedOver,     \* what an accepted response had in place of an answer
    failed          \* executions whose sendBatch() rejected

vars == <<requests, idOf, entry, execution, sent, got, passedOver, failed>>

TypeOK ==
    /\ requests \subseteq Entries
    /\ idOf \in [Entries -> Ids \cup {None}]
    /\ \A e \in requests : idOf[e] # None
    /\ entry \in [Entries -> Deferred]
    /\ execution \in [Executions -> Deferred]
    /\ sent \subseteq Executions
    /\ got \in [Entries -> Ids \cup {None}]
    /\ passedOver \in [Entries -> SUBSET Elements]
    /\ failed \subseteq Executions

Init ==
    /\ requests = {}
    /\ idOf = [e \in Entries |-> None]
    /\ entry = [e \in Entries |-> NewDeferred(0, FALSE)]
    /\ execution = [x \in Executions |-> NewDeferred(0, FALSE)]
    /\ sent = {}
    /\ got = [e \in Entries |-> None]
    /\ passedOver = [e \in Entries |-> {}]
    /\ failed = {}

-----------------------------------------------------------------------------
(* add(request), under an id of the application's or a new one. The entry     *)
(* that _requests had under this id is overwritten and reached no more.       *)
Add(e, i) ==
    /\ idOf[e] = None
    /\ idOf' = [idOf EXCEPT ![e] = i]
    /\ requests' = {f \in requests : idOf[f] # i} \cup {e}
    /\ UNCHANGED <<entry, execution, sent, got, passedOver, failed>>

FaultLazyTimer(timeout) == NewDeferred(timeout, FALSE)

(* The deferred promise execute() makes: its batch timer starts at once.      *)
NewExecution(timeout) == NewDeferred(timeout, TRUE)

(* execute(): an empty batch resolves at once; otherwise the timer starts and *)
(* the batch is handed to the request manager.                                *)
Execute(x, timeout) ==
    /\ requests # {}
    /\ x \notin sent /\ execution[x] = NewDeferred(0, FALSE)
    /\ execution' = [execution EXCEPT ![x] = NewExecution(timeout)]
    /\ sent' = sent \cup {x}
    /\ UNCHANGED <<requests, idOf, entry, got, passedOver, failed>>

(* _abortAllRequests(): rejects the promise of every request in the map.      *)
AbortAllRequests ==
    entry' = [e \in Entries |-> IF e \in requests THEN Reject(entry[e]) ELSE entry[e]]

(* The size check compares with the requests present when the response comes. *)
AcceptsSize(list) == Cardinality(DOMAIN list) = Cardinality(requests)

FaultSubsetOfIds(list) ==
    \A k \in DOMAIN list : \E e \in requests : NumberOf(idOf[e]) = NumberOf(list[k].id)

(* Both lists of numbers are sorted and compared as JSON text, where NaN is   *)
(* null and equals itself: each number occurs as often in one as in the other.*)
AcceptsIds(list) ==
    \A n \in Numerals \cup {NaN} :
       Cardinality({k \in DOMAIN list : NumberOf(list[k].id) = n})
          = Cardinality({e \in requests : NumberOf(idOf[e]) = n})

(* A response whose size or ids do not fit aborts every request, and the      *)
(* execution rejects with a ResponseError.                                    *)
RefuseResponse(x) ==
    /\ AbortAllRequests
    /\ execution' = [execution EXCEPT ![x] = Reject(@)]
    /\ UNCHANGED <<got, passedOver>>

FaultByNumber(list, e) ==
    {k \in DOMAIN list : /\ list[k].says # "neither"
                         /\ NumberOf(list[k].id) = NumberOf(idOf[e])}

(* The elements that settle a request: _requests.get(res.id) finds it by the  *)
(* id itself, type and all, and the element is a result or an error.          *)
Answers(list, e) == {k \in DOMAIN list : list[k].says # "neither" /\ list[k].id = idOf[e]}

(* Each element in turn settles its request; after the first, another one     *)
(* with the same id only overwrites the state field.                          *)
AcceptResponse(x, list) ==
    LET first(e) == CHOOSE k \in Answers(list, e) : \A l \in Answers(list, e) : k <= l
        last(e)  == CHOOSE k \in Answers(list, e) : \A l \in Answers(list, e) : l <= k
        by(d, k) == IF list[k].says = "result" THEN Resolve(d) ELSE Reject(d)
        settled  == {e \in requests : Answers(list, e) # {}}
        alike(e) == {list[k] : k \in {l \in DOMAIN list : NumberOf(list[l].id) = NumberOf(idOf[e])}}
    IN
    /\ entry' = [e \in Entries |->
                   IF e \in settled THEN by(by(entry[e], first(e)), last(e)) ELSE entry[e]]
    /\ got' = [e \in Entries |->
                 IF e \in settled /\ ~IsSettled(entry[e]) /\ list[first(e)].says = "result"
                 THEN list[first(e)].id ELSE got[e]]
    /\ passedOver' = [e \in Entries |->
                        IF e \in requests \ settled THEN alike(e) ELSE passedOver[e]]
    /\ execution' = [execution EXCEPT ![x] = Resolve(@)]

(* sendBatch() resolves with a list.                                          *)
Response(x) ==
    /\ x \in sent
    /\ sent' = sent \ {x}
    /\ \E n \in 0..Cardinality(requests) : \E list \in [1..n -> Elements] :
          IF AcceptsSize(list) /\ AcceptsIds(list)
          THEN AcceptResponse(x, list)
          ELSE RefuseResponse(x)
    /\ UNCHANGED <<requests, idOf, failed>>

(* sendBatch() rejects, or resolves with null or with a list that has a null  *)
(* in it, of which no id can be read: only the execution learns of it.        *)
SendFails(x) ==
    /\ x \in sent
    /\ sent' = sent \ {x}
    /\ execution' = [execution EXCEPT ![x] = Reject(@)]
    /\ failed' = failed \cup {x}
    /\ UNCHANGED <<requests, idOf, entry, got, passedOver>>

FaultTimeoutAlone(x) ==
    /\ TimesOut(execution[x])
    /\ execution' = [execution EXCEPT ![x] = Reject(@)]
    /\ UNCHANGED <<requests, idOf, entry, sent, got, passedOver, failed>>

(* The batch timer fires: the execution rejects with OperationTimeoutError    *)
(* and its catch handler aborts every request.                                *)
Timeout(x) ==
    /\ TimesOut(execution[x])
    /\ execution' = [execution EXCEPT ![x] = Reject(@)]
    /\ AbortAllRequests
    /\ UNCHANGED <<requests, idOf, sent, got, passedOver, failed>>

Next ==
    \/ \E e \in Entries, i \in Ids : Add(e, i)
    \/ \E x \in Executions, timeout \in Timeouts : Execute(x, timeout)
    \/ \E x \in Executions : Response(x) \/ SendFails(x) \/ Timeout(x)

Spec == Init /\ [][Next]_vars

(* Only the timer is sure to fire: the provider may never answer.             *)
Fairness == \A x \in Executions : WF_vars(Timeout(x))

FairSpec == Spec /\ Fairness

-----------------------------------------------------------------------------
(* However an execution settles, unless the provider itself rejects, it takes *)
(* every request of the batch with it, also those added after it was sent. The *)
(* one way for a request to be left pending is a response that passes the     *)
(* checks with an element of the same number in place of its own: of another  *)
(* id ("1" for 1, or one UUID for another), or with neither result nor error. *)
NoRequestLeftBehind ==
    [][\A x \in Executions : ~IsSettled(execution[x]) /\ IsSettled(execution'[x]) /\ x \notin failed' =>
          \A e \in requests : IsSettled(entry'[e]) \/ passedOver'[e] # {}]_vars

(* A request of a batch that is being executed with a timeout settles in the  *)
(* end, also when the provider never answers: but for a rejection by the      *)
(* provider, a request passed over as above and one whose id is added again,  *)
(* only an outcome that reaches the requests clears the batch timer.          *)
ExecutedRequestsSettle ==
    \A x \in Executions : \A e \in Entries :
       (x \in sent /\ execution[x].timeout > 0 /\ ~IsSettled(execution[x]) /\ e \in requests) ~>
          IsSettled(entry[e]) \/ x \in failed \/ passedOver[e] # {} \/ e \notin requests

(* Whatever order the elements come in, whichever execution they answer and   *)
(* however their ids look, a request is fulfilled with the result that has    *)
(* its own id.                                                                *)
EachGetsItsOwn ==
    \A e \in Entries : entry[e].promise = "fulfilled" => got[e] = idOf[e]

(* A promise that no add() has returned yet is pending.                       *)
Inv == TypeOK /\ EachGetsItsOwn /\ \A e \in Entries : idOf[e] = None => ~IsSettled(entry[e])

-----------------------------------------------------------------------------
(* What comments, tests and documents say and the code does not do.           *)

(* "should throw error if response ids does not match": a response that is    *)
(* accepted has the id of each request.                                       *)
AcceptedIdsMatch ==
    \A e \in Entries : passedOver[e] # {} => \E r \in passedOver[e] : r.id = idOf[e]

(* "Returns the current state of the promise": the state getter of a deferred *)
(* promise agrees with the promise.                                           *)
StateIsCurrent == \A e \in Entries : entry[e].state = entry[e].promise
=============================================================================
