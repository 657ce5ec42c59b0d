---------------------------- MODULE RequestManager ----------------------------
(* Web3RequestManager.send() and sendBatch(): which of the five provider      *)
(* interfaces is used, how the provider hands its answer back, and how        *)
(* _processJsonRpcResponse() turns any value at all into the settlement of    *)
(* the caller's promise. One request at a time: requests do not share state.  *)
EXTENDS Naturals

CONSTANTS
    UseSpecification,   \* whether useRpcCallSpecification may be switched on
    LateCallbacks       \* whether callback providers may call back later than
                        \* the call that started the request

ConstantsOK == UseSpecification \in BOOLEAN /\ LateCallbacks \in BOOLEAN

VARIABLES
    provider,       \* what the provider object offers
    batch,          \* sendBatch() rather than send()
    spec,           \* useRpcCallSpecification
    state,          \* "idle", "sent" or "answered"
    answer,         \* the value the provider handed back
    rejected,       \* whether it came on the error path
    outcome         \* the settlement of the caller's promise

vars == <<provider, batch, spec, state, answer, rejected, outcome>>

Provider == [web3 : BOOLEAN, request : {"none", "async", "plain"},
             send : BOOLEAN, sendAsync : BOOLEAN]

-----------------------------------------------------------------------------
(* The values a provider can hand back, as far as the code tells them apart.  *)
(* An `error' member is none, null, or an object: its code may be one of the  *)
(* RPC specification, its message may say "revert".                           *)
RpcErrors == {"plain", "revert", "rpc", "rpcRevert"}
Responses == [shape : {"response"}, id : {"own", "other", "none"},
              result : {"absent", "null", "value"},
              error : {"absent", "null"} \cup RpcErrors]
Lists == [shape : {"list"}, valid : BOOLEAN]
ErrorObjects == [shape : {"error"}, revert : BOOLEAN]
Nullish == [shape |-> "nullish"]
OtherValue == [shape |-> "other"]
Values == Responses \cup Lists \cup ErrorObjects \cup {Nullish, OtherValue}

IsResponseWithResult(v) ==
    /\ v.shape = "response" /\ v.id # "none"
    /\ v.result # "absent" /\ v.error \in {"absent", "null"}

IsResponseWithError(v) ==
    /\ v.shape = "response" /\ v.id # "none"
    /\ v.result \in {"absent", "null"} /\ v.error # "absent"

IsBatchResponse(v) == v.shape = "list" /\ v.valid

(* _isJsonRpcResponse(): what came out of an error path and is processed like *)
(* a response. Nullish values count.                                          *)
IsJsonRpcResponse(v) ==
    v = Nullish \/ IsBatchResponse(v) \/ IsResponseWithError(v) \/ IsResponseWithResult(v)

(* How one of the manager's functions ends.                                   *)
Error(what) == [error |-> what]
Return(v) == [ends |-> "returns", with |-> v]
Throw(what) == [ends |-> "throws", with |-> Error(what)]

(* _buildNonJsonRpcError(): Errors surface as they are, unless they say       *)
(* "revert"; anything else is wrapped in a ProviderError.                     *)
NonJsonRpcError(v) ==
    IF v.shape # "error" THEN "ProviderError"
    ELSE IF v.revert THEN "ContractExecutionError" ELSE "OriginalError"

(* _buildResponse(): the bare value as the result, or as the error, of a      *)
(* response with the request's own id.                                        *)
BuildResponse(v, onError) ==
    LET given == IF v = Nullish THEN "null" ELSE "value" IN
    [shape |-> "response", id |-> "own",
     result |-> IF onError THEN "absent" ELSE given,
     error |-> IF ~onError THEN "absent" ELSE IF v = Nullish THEN "null" ELSE "plain"]

(* What a response with an error member throws. A null error member fails     *)
(* where its code, or its message, is read.                                   *)
ErrorThrown(v) ==
    IF v.error = "null" THEN "TypeError"
    ELSE IF spec /\ v.error \in {"rpc", "rpcRevert"} THEN "RpcError"
    ELSE IF v.error \in {"revert", "rpcRevert"} THEN "ContractExecutionError"
    ELSE "InvalidResponseError"

FaultIgnoreErrorMember(v, legacy, onError) ==
    IF IsResponseWithResult(v) THEN Return(v)
    ELSE IF v.shape = "response" THEN Return(BuildResponse(v, FALSE))
    ELSE IF v = Nullish THEN Return(BuildResponse(v, onError))
    ELSE Throw("ResponseError")

(* _processJsonRpcResponse(). The order of the tests is the code's.           *)
Process(v, legacy, onError) ==
    IF v = Nullish THEN Return(BuildResponse(v, onError))
    ELSE IF IsResponseWithError(v) THEN Throw(ErrorThrown(v))
    ELSE IF IsResponseWithResult(v) THEN Return(v)
    ELSE IF v.shape = "error" THEN Throw(NonJsonRpcError(v))
    ELSE IF ~legacy /\ batch /\ IsBatchResponse(v) THEN Return(v)
    ELSE IF legacy /\ batch THEN IF onError THEN Throw("RawResponse") ELSE Return(v)
    ELSE IF legacy THEN Return(BuildResponse(v, onError))
    ELSE Throw("ResponseError")

-----------------------------------------------------------------------------
(* The settlement of the caller's promise: send() returns the result of a     *)
(* response that has one and throws on any other; sendBatch() passes on what  *)
(* it gets.                                                                   *)
Settled(how, with) == [how |-> how, with |-> with]
Finish(end) ==
    IF end.ends = "throws" THEN Settled("rejected", end.with)
    ELSE IF batch \/ IsResponseWithResult(end.with) THEN Settled("resolved", end.with)
    ELSE Settled("rejected", Error("ResponseError"))

(* The interface _sendRequest() picks; the first test that holds wins.        *)
Interface ==
    IF provider.web3 THEN "web3"
    ELSE IF provider.request = "async" THEN "eip1193"
    ELSE IF provider.request = "plain" THEN "request"
    ELSE IF provider.send THEN "send"
    ELSE IF provider.sendAsync THEN "sendAsync"
    ELSE "none"

(* The value was thrown: it is processed if it looks like a response.         *)
Caught(v, legacy, onError) ==
    IF IsJsonRpcResponse(v) THEN Process(v, legacy, onError) ELSE Throw(NonJsonRpcError(v))

(* A promise of the provider settled. The errors that Process() throws inside *)
(* then() reach catch(), which passes Errors on unchanged.                    *)
ByPromise(v, onError) ==
    IF Interface = "web3"
    THEN Finish(IF onError THEN Caught(v, FALSE, FALSE) ELSE Process(v, FALSE, FALSE))
    ELSE LET end == IF onError THEN Caught(v, TRUE, TRUE) ELSE Process(v, TRUE, FALSE) IN
         IF Interface = "request" /\ onError /\ end.ends = "returns"
         THEN Settled("rejected", end.with)
         ELSE Finish(end)

(* The provider called back. Process() runs before resolve() or reject() is   *)
(* called, so what it throws reaches the Promise executor if the callback ran *)
(* inside it, and nobody at all if it came later.                             *)
ByCallback(v, onError, late) ==
    LET end == IF onError THEN Caught(v, TRUE, TRUE) ELSE Process(v, TRUE, FALSE)
        refused == onError /\ ~IsJsonRpcResponse(v)
    IN
    IF Interface = "send" /\ ~onError /\ v = Nullish THEN Settled("rejected", Error("ResponseError"))
    ELSE IF end.ends = "throws" /\ late /\ ~refused THEN Settled("pending", end.with)
    ELSE IF end.ends = "returns" /\ onError THEN Settled("rejected", end.with)
    ELSE Finish(end)

-----------------------------------------------------------------------------
Init ==
    /\ provider \in Provider
    /\ batch \in BOOLEAN
    /\ spec \in BOOLEAN /\ (spec => UseSpecification)
    /\ state = "idle"
    /\ answer = Nullish /\ rejected = FALSE
    /\ outcome = Settled("pending", Nullish)

(* Without a provider, or without any of the five interfaces, send() throws a *)
(* ProviderError.                                                             *)
Unsupported ==
    /\ state = "idle" /\ Interface = "none"
    /\ state' = "answered"
    /\ outcome' = Settled("rejected", Error("ProviderError"))
    /\ UNCHANGED <<provider, batch, spec, answer, rejected>>

Send ==
    /\ state = "idle" /\ Interface # "none"
    /\ state' = "sent"
    /\ UNCHANGED <<provider, batch, spec, answer, rejected, outcome>>

Answered(v, onError) ==
    /\ state = "sent"
    /\ state' = "answered"
    /\ answer' = v /\ rejected' = onError
    /\ UNCHANGED <<provider, batch, spec>>

(* The promise settles that request() or sendAsync() returned.                *)
PromiseSettles(v, onError) ==
    /\ Interface # "send"
    /\ Answered(v, onError)
    /\ outcome' = ByPromise(v, onError)

(* The callback is called, with a truthy error or with a response.            *)
CallbackCalled(v, onError, late) ==
    /\ Interface \in {"request", "send"}
    /\ onError => v # Nullish
    /\ late => LateCallbacks
    /\ Answered(v, onError)
    /\ outcome' = ByCallback(v, onError, late)

Next ==
    \/ Unsupported \/ Send
    \/ \E v \in Values, onError \in BOOLEAN :
          \/ PromiseSettles(v, onError)
          \/ \E late \in BOOLEAN : CallbackCalled(v, onError, late)

Spec == Init /\ [][Next]_vars

-----------------------------------------------------------------------------
HasError(v) == v.shape = "response" /\ v.error \in RpcErrors

(* "If there is error in the response, will throw an error": send() never     *)
(* resolves on an answer that carries an error, whichever interface and path  *)
(* it took, unless that answer is no valid JSON-RPC response and a legacy     *)
(* interface takes it for a bare result.                                      *)
ErrorResponsesNeverResolve ==
    ~batch /\ outcome.how = "resolved" /\ HasError(answer) =>
       Interface # "web3" /\ ~IsResponseWithError(answer)

(* sendTransaction() decodes a revert only if it meets a                      *)
(* ContractExecutionError: an error response that says "revert" becomes one   *)
(* on every interface, unless the RPC specification names it otherwise.       *)
RevertsAreRecognised ==
    (/\ state = "answered" /\ outcome.how # "pending"
     /\ IsResponseWithError(answer)
     /\ answer.error \in IF spec THEN {"revert"} ELSE {"revert", "rpcRevert"})
    => outcome.how = "rejected" /\ outcome.with = Error("ContractExecutionError")

(* "invokes its callback asynchronously (as real providers do) ... It must    *)
(* now settle as a single rejected Promise": once the provider has answered,  *)
(* the caller's promise is settled. It holds of providers that return         *)
(* promises or call back before the call that started the request returns.    *)
AnswersSettle == state = "answered" => outcome.how # "pending"

-----------------------------------------------------------------------------
(* Why these hold: what the caller got is what the functions above make of    *)
(* the answer, for the interface that was picked when it was sent.            *)
FromPromise ==
    Interface # "send" /\ outcome = ByPromise(answer, rejected)

FromCallback ==
    /\ Interface \in {"request", "send"} /\ (rejected => answer # Nullish)
    /\ \E late \in BOOLEAN : (late => LateCallbacks) /\ outcome = ByCallback(answer, rejected, late)

Inv ==
    /\ state \in {"idle", "sent", "answered"}
    /\ state # "answered" => outcome = Settled("pending", Nullish) /\ answer = Nullish
    /\ state = "answered" =>
          \/ FromPromise \/ FromCallback
          \/ /\ Interface = "none" /\ answer = Nullish
             /\ outcome = Settled("rejected", Error("ProviderError"))

-----------------------------------------------------------------------------
(* What comments, tests and documents say and the code does not do.           *)

(* 'JSON RPC consider "null" as valid response': a response that the JSON-RPC *)
(* predicate takes for one with a result is returned to the caller.           *)
ResultsAreReturned ==
    state = "answered" /\ ~batch /\ ~rejected /\ IsResponseWithResult(answer) =>
       outcome.how = "resolved" /\ outcome.with = answer

(* "if (response.id && payload.id !== response.id) throw": a response to some *)
(* other request is not taken for the answer.                                 *)
OnlyOwnResponses ==
    outcome.how = "resolved" /\ answer.shape = "response" => answer.id # "other"
=============================================================================
