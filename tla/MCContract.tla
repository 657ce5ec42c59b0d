------------------------------ MODULE MCContract ------------------------------
(* Model-checking instance of the contracts: what a Contract object keeps,    *)
(* its interface, and what it sends; the log subscription its events and      *)
(* web3.qrl.subscribe() share; the name service, made of contract calls; and  *)
(* the methods of web3.qrl that read.                                         *)
(* They have no state in common: a behaviour exercises one of them, `part'.   *)
EXTENDS LogBackfill, TLC

CONSTANTS
    Functions, Events, Params, MaxFragments, MaxSets,   \* of ContractInterface
    Addresses, Created, Users, Codes, OptionChanges,    \* of ContractCalls
    Askers, Checkers, Nodes, ReverseName, Resolvers, MaxEvents, MaxTime,    \* of Qrns
    MaxHead, BlockChanges, BaseFees,                    \* of Readers
    Null

Symmetry == Permutations(Codes)

VARIABLES part,
    jsonInterface, overloads, sets, made, pastCall,
    options, dataInputFill, config, held, sent, mining, changes,
    registry, supports, events, call, seen, had,
    synced, network, clock, check, lastSyncCheck, detectedAddress, reported,
    defaultBlock, blockChanges, fees, reading, asked

interfaceVars == <<jsonInterface, overloads, sets, made, pastCall>>
callVars == <<options, dataInputFill, config, held, sent, mining, changes>>
nameVars == <<registry, supports, events, call, seen, had>>
networkVars == <<synced, network, clock, check, lastSyncCheck, detectedAddress, reported>>
readVars == <<defaultBlock, blockChanges, fees, reading, asked>>
mcVars == <<part, vars, interfaceVars, callVars, nameVars, networkVars, readVars>>

MCFunctions ==
    {[kind |-> "function", name |-> n, inputs |-> t] :
        n \in {"f"}, t \in {<<"uint">>, <<"bytes">>, <<"string">>, <<"uint", "uint">>}}
    \cup {[kind |-> "function", name |-> "g", inputs |-> <<"uint">>]}
MCEvents == {[kind |-> "event", name |-> "e", inputs |-> t] : t \in {<<"uint">>, <<"bytes">>}}
MCParams == {<<"number">>, <<"hex">>, <<"text">>, <<"number", "number">>, <<"text", "number">>,
             <<>>, <<"hex", "hex", "text">>}

Interface == INSTANCE ContractInterface WITH past <- pastCall

Calls == INSTANCE ContractCalls WITH MaxChanges <- OptionChanges

NameService == INSTANCE Qrns WITH Reverse <- ReverseName

Reads == INSTANCE Readers WITH
            MaxChanges <- BlockChanges, changes <- blockChanges, call <- reading

ASSUME InstancesAssumption ==
    /\ Interface!ConstantsOK /\ Calls!ConstantsOK
    /\ NameService!ConstantsOK /\ Reads!ConstantsOK

(* The parts that do not run start somewhere.                                 *)
MCInit ==
    /\ part \in {"logs", "interface", "calls", "names", "network", "reads"}
    /\ part # "logs" => mined = 0
    /\ part # "interface" => jsonInterface = CHOOSE abis \in Interface!Interfaces : TRUE
    /\ part # "calls" =>
          /\ options = [address |-> Null, from |-> Null, input |-> Null, data |-> Null]
          /\ config = [contractDataInputFill |-> "input", defaultAccount |-> Null]
          /\ dataInputFill = "input"
    /\ part # "names" => registry = [n \in Nodes |-> "zero"]
    /\ part # "network" => synced = TRUE /\ network = "main"
    /\ part # "reads" => fees = [n \in {0} |-> 0]
    /\ Init /\ Interface!Init /\ Calls!Init /\ NameService!Init /\ Reads!Init

(* A method object asked for, a transaction that no deployment waits for, and *)
(* the outcome of a read leave nothing behind that a later step looks at, and *)
(* a deployment that is mined nothing that a call looks at: what follows them *)
(* follows the state before as well, and is explored from there.              *)
NothingAsked ==
    /\ part = "interface" => made = Interface!None /\ pastCall = Interface!None
    /\ part = "calls" => sent = Calls!NothingSent /\ mining = Null
    /\ part = "reads" => reading.at \notin {"done", "failed", "refused"}

MCNext ==
    \/ part = "logs" /\ Next
       /\ UNCHANGED <<part, interfaceVars, callVars, nameVars, networkVars, readVars>>
    \/ part = "interface" /\ NothingAsked /\ Interface!Next
       /\ UNCHANGED <<part, vars, callVars, nameVars, networkVars, readVars>>
    \/ part = "calls"
       /\ \/ NothingAsked /\ Calls!Next
          \/ mining # Null /\ (Calls!SetOption \/ Calls!Deployed)
       /\ UNCHANGED <<part, vars, interfaceVars, nameVars, networkVars, readVars>>
    \/ part = "names" /\ NameService!Names
       /\ UNCHANGED <<part, vars, interfaceVars, callVars, readVars>>
    \/ part = "network" /\ NameService!Network
       /\ UNCHANGED <<part, vars, interfaceVars, callVars, readVars>>
    \/ part = "reads" /\ NothingAsked /\ Reads!Next
       /\ UNCHANGED <<part, vars, interfaceVars, callVars, nameVars, networkVars>>

MCSpec == MCInit /\ [][MCNext]_mcVars

-----------------------------------------------------------------------------
(* A method object is made with a function of its name. If that is the only   *)
(* one, or one of the name has as many inputs as there are parameters, what   *)
(* it encodes is valid for it, also after the interface has been set again;   *)
(* parameters are refused only if no function of the name in the interface    *)
(* takes them, and call the only one that does as long as the interface was   *)
(* not set again (contract.ts).                                               *)
SelectedFits == Interface!TypeOK /\ Interface!SelectedFits /\ Interface!OnlyFitIsTaken

(* What a method or deploy() object sends is the call or the code that it was *)
(* made for, whatever options are set between, and it is refused only for a   *)
(* stated want (contract.ts, utils.ts).                                       *)
SentAsMeant == Calls!TypeOK /\ Calls!SentAsMeant

(* A name is answered for by a contract that was its resolver, and had the    *)
(* interface, while it was asked for; a network found in sync was said to be, *)
(* at most an hour ago (resolver.ts, qrns.ts); and what web3.qrl reads is of  *)
(* the block that the reference, or the default of the time of the call,      *)
(* named while it was asked for (rpc_method_wrappers_readers.ts).             *)
AnswersAreCurrent == NameService!Inv /\ Reads!Inv

(* What comments and documents say and the code does not do.                  *)
DeployCreates == Calls!DeployCreates
InputWins == Calls!InputWins
MethodHasTarget == Calls!MethodHasTarget
FilledAsChosen == Calls!FilledAsChosen
=============================================================================
