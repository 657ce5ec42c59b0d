------------------------------ MODULE MCRequests ------------------------------
(* Model-checking instance of the components that a request passes through    *)
(* and that share no state: the request manager, a batch, the HTTP provider   *)
(* and the contexts that own the request manager. A behaviour exercises one   *)
(* of them, `part', while the others stay in an initial state.                *)
EXTENDS Naturals, FiniteSets

CONSTANTS
    UseSpecification, LateCallbacks,                        \* RequestManager
    Entries, Executions, Timeouts, Numerals, Names, NaN, None,  \* BatchRequest
    MaxResponseBytes, MaxBody,                              \* HttpProvider
    Contexts, Root, Parents, Writers, Hardforks, Settings, Providers, NoCommon

VARIABLES
    part,
    provider, batch, spec, state, answer, rejected, outcome,
    requests, idOf, entry, execution, sent, got, passedOver, failed,
    caller, request, header, phase, ok, body, received, kept, ended, hooked,
    cause, result,
    made, config, listeners, manager, providerOf, rpcSpec

managerVars == <<provider, batch, spec, state, answer, rejected, outcome>>
batchVars   == <<requests, idOf, entry, execution, sent, got, passedOver, failed>>
httpVars    == <<caller, request, header, phase, ok, body, received, kept, ended,
                 hooked, cause, result>>
contextVars == <<made, config, listeners, manager, providerOf, rpcSpec>>
mcVars      == <<part, managerVars, batchVars, httpVars, contextVars>>

Manager == INSTANCE RequestManager
Batch   == INSTANCE BatchRequest
Http    == INSTANCE HttpProvider WITH sent <- received, outcome <- result
Ctx     == INSTANCE Context WITH provider <- providerOf

ASSUME ConstantsAssumption ==
    Manager!ConstantsOK /\ Batch!ConstantsOK /\ Http!ConstantsOK /\ Ctx!ConstantsOK

(* A component that is not exercised starts in one of its initial states.     *)
MCInit ==
    /\ part \in {"manager", "batch", "http", "context"}
    /\ Manager!Init /\ Batch!Init /\ Http!Init /\ Ctx!Init
    /\ part # "manager" =>
          /\ provider = [web3 |-> TRUE, request |-> "async", send |-> FALSE, sendAsync |-> FALSE]
          /\ ~batch /\ ~spec
    /\ part # "http" => caller = "none"
    /\ part # "context" =>
          /\ config[Root] = CHOOSE cfg \in Ctx!Configs : cfg.defaultCommon = NoCommon
          /\ \E p \in Providers : providerOf = [c \in Contexts |-> p]
                                  /\ p = CHOOSE q \in Providers : TRUE

MCNext ==
    \/ part = "manager" /\ Manager!Next /\ UNCHANGED <<part, batchVars, httpVars, contextVars>>
    \/ part = "batch" /\ Batch!Next /\ UNCHANGED <<part, managerVars, httpVars, contextVars>>
    \/ part = "http" /\ Http!Next /\ UNCHANGED <<part, managerVars, batchVars, contextVars>>
    \/ part = "context" /\ Ctx!Next /\ UNCHANGED <<part, managerVars, batchVars, httpVars>>

MCSpec ==
    /\ MCInit /\ [][MCNext]_mcVars
    /\ Batch!Fairness /\ Http!Fairness

-----------------------------------------------------------------------------
(* request() of the HTTP provider returns only what the node sent in full,    *)
(* holds no more than maxResponseBytes of it, names the deadline that really  *)
(* ended it, and leaves no timer and no listener behind; see HttpProvider.    *)
(* The other conjuncts say why the properties below hold, and the variables   *)
(* of every component keep their types.                                       *)
Inv == Http!Inv /\ Batch!Inv /\ Ctx!Inv /\ Manager!Inv

(* An answer that carries an error never resolves send(), and one that says   *)
(* "revert" becomes the ContractExecutionError that sendTransaction() looks   *)
(* for, whichever interface of the provider it came through.                  *)
ErrorsSurface == Manager!ErrorResponsesNeverResolve /\ Manager!RevertsAreRecognised

(* An execution of a batch that settles takes every request with it, unless   *)
(* the provider rejected or the response has a look-alike in place of the     *)
(* request's own element; see BatchRequest.                                   *)
NoRequestLeftBehind == Batch!NoRequestLeftBehind

(* Every request of a batch being executed with a timeout, but for the cases  *)
(* BatchRequest names, and every request of the HTTP provider settles in the  *)
(* end, also when the node never answers: the timer of the batch and the      *)
(* deadlines of the provider see to it.                                       *)
RequestsSettle == Batch!ExecutedRequestsSettle /\ Http!RequestSettles

(* A request of a batch is fulfilled with the result that has its own id,     *)
(* whatever else the response holds; see BatchRequest.                        *)
EachGetsItsOwn == Batch!EachGetsItsOwn

(* A caller that aborts the read of a web stream sees its own reason.         *)
ErrorNamesCause == Http!CallerReasonPropagates

(* Every context that was made from the root, and from no other, and is not   *)
(* written to itself has the root's configuration, and no defaultCommon for   *)
(* another hardfork than its default; all have the provider set last.         *)
ContextsAgree == Ctx!ConfigsAgree /\ Ctx!ProvidersAgree /\ Ctx!HardforksMatch
=============================================================================
