---------------------------- MODULE ContractCalls ----------------------------
(* What a Contract object sends: its options and their fallbacks, the two     *)
(* names (`data' and `input') its call data can have, the object deploy()     *)
(* returns, which keeps the options of its time, and the new contract.        *)
EXTENDS Naturals

CONSTANTS
    Addresses,      \* addresses of contracts, the deployed one included
    Created,        \* the address that a deployment is given
    Users,          \* accounts
    Codes,          \* byte codes
    MaxChanges,     \* bound: options set after construction
    Null            \* undefined

Payloads == {[call |-> TRUE]} \cup [create : Codes]
Thrown == [thrown |-> TRUE]
Constructor(fits) == [type |-> "constructor", fits |-> fits]
Function == [type |-> "function", fits |-> TRUE]

ConstantsOK ==
    /\ Created \in Addresses /\ MaxChanges \in Nat
    /\ Null \notin Addresses \cup Users \cup Codes
    /\ Null \notin {Thrown} \cup Payloads
    /\ Null \notin {Function, Constructor(TRUE), Constructor(FALSE)}
    /\ Null \notin {"call", "list", "send", "deploy", "estimate"}

Fills == {"data", "input", "both"}
Orelse(x, y) == IF x = Null THEN y ELSE x
Maybe(S) == S \cup {Null}

OptionSet == [address : Maybe(Addresses), from : Maybe(Users),
              input : Maybe(Codes), data : Maybe(Codes)]

(* The options of one call: PayableCallOptions, as far as they matter here.   *)
CallOptions == [from : Maybe(Users), input : Maybe(Codes), data : {Null}]

VARIABLES
    options,        \* contract.options
    dataInputFill,  \* _dataInputFill
    config,         \* contractDataInputFill and defaultAccount of the context
    held,           \* the object the application holds: deploy()'s, or a method's
    sent,           \* the last transaction sent or refused, and by what
    mining,         \* the deployment that is waited for: TRUE if it has a receiver
    changes         \* options set so far

vars == <<options, dataInputFill, config, held, sent, mining, changes>>

NoObject == [abi |-> Null]
MethodObject == [abi |-> Function]
DeployObjects == [abi : {Constructor(TRUE), Constructor(FALSE)},
                  options : {o \in OptionSet : o.input # Null \/ o.data # Null}]
NothingSent == [how |-> Null]

-----------------------------------------------------------------------------
(* encodeMethodABI(): a constructor's arguments follow the byte code, a       *)
(* function's its selector, whatever code is handed in.                       *)
EncodeMethodABI(abi, deployData) ==
    IF ~abi.fits \/ (abi.type = "constructor" /\ deployData = Null) THEN Thrown
    ELSE IF abi.type = "constructor" THEN [create |-> deployData] ELSE [call |-> TRUE]

(* dataInputEncodeMethodHelper(): each name that is present is replaced by    *)
(* the call data, both if both are to be filled, and the configured one if    *)
(* neither is.                                                                *)
DataInputEncodeMethodHelper(tx, abi, fill) ==
    LET Encoded(x, y) == IF x # Null \/ fill = "both"
                         THEN EncodeMethodABI(abi, Orelse(x, y)) ELSE Null
        data  == Encoded(tx.data, tx.input)
        input == Encoded(tx.input, tx.data)
        plain == EncodeMethodABI(abi, Null)
    IN  IF data # Null \/ input # Null THEN [data |-> data, input |-> input]
        ELSE IF fill = "data" THEN [data |-> plain, input |-> Null]
        ELSE [data |-> Null, input |-> plain]

(* mergeDeep() of the contract's options and the call's.                      *)
Merged(contract, opts) ==
    [to    |-> contract.address,
     from  |-> Orelse(opts.from, contract.from),
     input |-> Orelse(opts.input, contract.input),
     data  |-> Orelse(opts.data, contract.data)]

TxParams(contract, opts, abi, fill) ==
    LET tx      == Merged(contract, opts)
        payload == DataInputEncodeMethodHelper(tx, abi, fill)
    IN  IF Thrown \in {payload.data, payload.input} THEN Thrown
        ELSE [tx EXCEPT !.data = payload.data, !.input = payload.input]

(* getSendTxParams(): an address is not needed when there is byte code.       *)
GetSendTxParams(contract, opts, abi, fill) ==
    LET deploymentCall == Orelse(Orelse(opts.input, opts.data), Orelse(contract.input, contract.data))
    IN  IF \/ deploymentCall = Null /\ contract.address = Null
           \/ Merged(contract, opts).from = Null
        THEN Thrown ELSE TxParams(contract, opts, abi, fill)

(* getQRLTxCallParams()                                                       *)
GetQRLTxCallParams(contract, opts, abi, fill) ==
    IF contract.address = Null THEN Thrown ELSE TxParams(contract, opts, abi, fill)

(* getCreateAccessListParams()                                                *)
GetCreateAccessListParams(contract, opts, abi, fill) ==
    IF contract.address = Null \/ Merged(contract, opts).from = Null
    THEN Thrown ELSE TxParams(contract, opts, abi, fill)

(* getEstimateGasParams(): nothing is required.                               *)
GetEstimateGasParams(contract, opts, abi, fill) == TxParams(contract, opts, abi, fill)

(* formatTransaction(), on the way of each of them to the node.               *)
FormatTransaction(tx) ==
    IF tx = Thrown \/ (tx.data # Null /\ tx.input # Null /\ tx.data # tx.input)
    THEN Thrown ELSE tx

-----------------------------------------------------------------------------
(* The constructor: refused with both kinds of byte code, unless both are     *)
(* filled by configuration.                                                   *)
Constructible(opts, cfg) ==
    opts.data = Null \/ opts.input = Null \/ cfg.contractDataInputFill = "both"

FillOf(chosen, cfg) ==
    IF cfg.contractDataInputFill = "both" THEN "both"
    ELSE Orelse(chosen, cfg.contractDataInputFill)

TypeOK ==
    /\ options \in OptionSet
    /\ dataInputFill \in Fills
    /\ config \in [contractDataInputFill : Fills, defaultAccount : Maybe(Users)]
    /\ held \in {NoObject, MethodObject} \cup DeployObjects
    /\ mining \in {Null, TRUE, FALSE}
    /\ changes \in 0..MaxChanges

Init ==
    /\ options \in OptionSet
    /\ config \in [contractDataInputFill : Fills, defaultAccount : Maybe(Users)]
    /\ Constructible(options, config)
    /\ \E chosen \in Maybe(Fills) : dataInputFill = FillOf(chosen, config)
    /\ held = NoObject /\ sent = NothingSent /\ mining = Null /\ changes = 0

(* contract.options[key] = value                                              *)
SetOption ==
    /\ changes < MaxChanges
    /\ \E k \in DOMAIN options :
          \E v \in Maybe(CASE k = "address" -> Addresses [] k = "from" -> Users [] OTHER -> Codes) :
             options' = [options EXCEPT ![k] = v]
    /\ options' # options
    /\ changes' = changes + 1
    /\ sent' = NothingSent
    /\ UNCHANGED <<dataInputFill, config, held, mining>>

(* contract.methods.f(...)                                                    *)
Method ==
    /\ held' = MethodObject
    /\ sent' = NothingSent
    /\ UNCHANGED <<options, dataInputFill, config, mining, changes>>

(* contract.deploy({input, data, arguments}): the object keeps the options of *)
(* the contract as they are now, with the byte code that was found.           *)
Deploy ==
    /\ \E input, data \in Maybe(Codes), fits \in BOOLEAN :
          LET code == [options EXCEPT !.input = Orelse(input, options.input),
                                      !.data  = Orelse(data, options.data)]
          IN  /\ code.input # Null \/ code.data # Null
              /\ held' = [abi |-> Constructor(fits), options |-> code]
    /\ sent' = NothingSent
    /\ UNCHANGED <<options, dataInputFill, config, mining, changes>>

-----------------------------------------------------------------------------
Deploying == held.abi # Null /\ held.abi.type = "constructor"
Calling == held.abi # Null /\ held.abi.type = "function"

Sends(how, opts, tx) ==
    /\ sent' = [how |-> how, opts |-> opts, tx |-> FormatTransaction(tx)]
    /\ mining' = IF how = "deploy" /\ sent'.tx # Thrown THEN sent'.tx.to # Null ELSE mining
    /\ UNCHANGED <<options, dataInputFill, config, held, changes>>

(* _contractMethodCall(): the only one that fills as the contract was told.   *)
Call(opts) ==
    /\ Calling
    /\ Sends("call", opts,
             GetQRLTxCallParams([options EXCEPT !.from = Orelse(options.from, config.defaultAccount)],
                                opts, held.abi, dataInputFill))

(* _contractMethodCreateAccessList()                                          *)
CreateAccessList(opts) ==
    /\ Calling
    /\ Sends("list", opts,
             GetCreateAccessListParams([options EXCEPT !.from = Orelse(options.from, config.defaultAccount)],
                                       opts, held.abi, config.contractDataInputFill))

(* _contractMethodSend(): the byte code under `input' is not for a method.    *)
Send(opts) ==
    /\ Calling
    /\ Sends("send", opts,
             GetSendTxParams([options EXCEPT !.from = Orelse(options.from, config.defaultAccount),
                                             !.input = Null],
                             opts, held.abi, config.contractDataInputFill))

FaultDeploySend(opts) ==        \* the contract's options of now
    /\ Deploying
    /\ Sends("deploy", opts,
             GetSendTxParams([options EXCEPT !.from = Orelse(options.from, config.defaultAccount)],
                             opts, held.abi, config.contractDataInputFill))

(* _contractMethodDeploySend()                                                *)
DeploySend(opts) ==
    /\ Deploying
    /\ Sends("deploy", opts,
             GetSendTxParams([held.options EXCEPT !.from = Orelse(held.options.from, config.defaultAccount)],
                             opts, held.abi, config.contractDataInputFill))

(* _contractMethodEstimateGas(), of a method or a deployment.                 *)
EstimateGas(opts) ==
    /\ held # NoObject
    /\ Sends("estimate", opts,
             GetEstimateGasParams(IF Deploying THEN held.options ELSE options,
                                  opts, held.abi, config.contractDataInputFill))

(* clone(): a new contract with the options and the fill of this one, from    *)
(* which the application goes on.                                             *)
Cloned(address) ==
    /\ Constructible(options, config)
    /\ options' = [options EXCEPT !.address = address]
    /\ dataInputFill' = FillOf(dataInputFill, config)
    /\ held' = NoObject /\ sent' = NothingSent /\ mining' = Null
    /\ UNCHANGED <<config, changes>>

Clone == Cloned(options.address)

(* The transactionResolver of deploy().send(): the receipt of a creation has  *)
(* the address of the new contract, that of any other transaction none. The   *)
(* promise is rejected if the receipt says that the transaction failed, or if *)
(* the options cannot be cloned any more.                                     *)
Deployed ==
    /\ mining # Null
    /\ \/ Constructible(options, config) /\ Cloned(IF mining THEN Null ELSE Created)
       \/ mining' = Null /\ UNCHANGED <<options, dataInputFill, config, held, sent, changes>>

Next ==
    \/ SetOption \/ Method \/ Deploy \/ Clone \/ Deployed
    \/ \E opts \in CallOptions :
          Call(opts) \/ CreateAccessList(opts) \/ Send(opts) \/ DeploySend(opts) \/ EstimateGas(opts)

Spec == Init /\ [][Next]_vars

-----------------------------------------------------------------------------
(* The byte code that deploy() found, unless the options of send() replace    *)
(* it; encodeABI() of the object has it, too.                                 *)
CodesMeant ==
    LET o == held.options
    IN  IF sent.opts.input # Null THEN {sent.opts.input, o.data} \ {Null}
        ELSE {o.input, o.data} \ {Null}

CodeMeant == Orelse(sent.opts.input, Orelse(held.options.input, held.options.data))

Payload(tx) == Orelse(tx.input, tx.data)

Required ==
    LET address == options.address # Null
        from    == Null \notin {sent.opts.from} \/ Null \notin {(IF Deploying THEN held.options ELSE options).from}
                   \/ config.defaultAccount # Null
    IN  CASE sent.how = "call"     -> address
          [] sent.how = "list"     -> address /\ from
          [] sent.how = "send"     -> (address \/ options.data # Null \/ sent.opts.input # Null) /\ from
          [] sent.how = "deploy"   -> from
          [] sent.how = "estimate" -> TRUE

(* What a method object sends is the call it was made for, to the contract's  *)
(* address at the time, whichever names of the call data are configured or in *)
(* use and whatever byte code the contract carries; what deploy()'s object    *)
(* sends creates the contract from the code deploy() found, though the        *)
(* contract's options have changed since. It is refused only for want of a    *)
(* sender or address, of fitting arguments, or for two different codes.       *)
SentAsMeant ==
    sent.how # Null =>
       IF sent.tx = Thrown
       THEN ~Required \/ (Deploying /\ (~held.abi.fits \/ CodesMeant # {CodeMeant}))
       ELSE /\ Required
            /\ sent.tx.to = (IF Deploying THEN held.options ELSE options).address
            /\ Payload(sent.tx) = IF Deploying THEN [create |-> CodeMeant] ELSE [call |-> TRUE]
            /\ sent.tx.from \in {sent.opts.from, (IF Deploying THEN held.options ELSE options).from,
                                 config.defaultAccount}

-----------------------------------------------------------------------------
(* What comments and documents say and the code does not do.                  *)

(* "Call this function to deploy the contract to the blockchain": it creates  *)
(* one. With an address in its options, the contract sends its code there.    *)
DeployCreates == sent.how = "deploy" /\ sent.tx # Thrown => sent.tx.to = Null

(* "If input is used, data will be ignored": different ones are refused.      *)
InputWins == sent.how = "deploy" /\ held.abi.fits /\ Required => sent.tx # Thrown

(* A method is called at an address: with `data' in its options and no        *)
(* address, the contract sends the call as a creation.                        *)
MethodHasTarget == sent.how = "send" /\ sent.tx # Thrown => sent.tx.to # Null

(* "this will make calls default to `data`, `input` or `both`": only call()   *)
(* does.                                                                      *)
FilledAsChosen ==
    sent.how \in {"send", "list", "estimate"} /\ Calling /\ sent.tx # Thrown
    /\ options.data = Null /\ options.input = Null /\ sent.opts.input = Null =>
       CASE dataInputFill = "data"  -> sent.tx.input = Null
         [] dataInputFill = "input" -> sent.tx.data = Null
         [] dataInputFill = "both"  -> Null \notin {sent.tx.data, sent.tx.input}
=============================================================================
