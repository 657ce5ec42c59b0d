-------------------------- MODULE TransactionSigning --------------------------
(* prepareTransactionForSigning(): what is missing in a transaction is        *)
(* filled in from the context and, one awaited request after the other, from  *)
(* the node; the result is validated and handed to the signer. Several calls  *)
(* for one signing account run concurrently.                                  *)
EXTENDS Naturals, FiniteSets, Sequences, SequencesExt

CONSTANTS
    Calls,          \* calls of prepareTransactionForSigning()
    WithSeed,       \* whether the seed is passed; accounts.signTransaction() does not
    FillGasPrice,   \* the values of fillGasPrice that are used
    DefaultCommon,  \* the values that context.defaultCommon takes (set or not)
    DefaultAccount, \* context.defaultAccount: "signer", "other" or "none"
    MaxMined,       \* bound: transactions that are mined
    Varied          \* fields of the transaction that the application may set

ConstantsOK ==
    /\ WithSeed \in BOOLEAN /\ MaxMined \in Nat
    /\ FillGasPrice \subseteq BOOLEAN /\ DefaultCommon \in (SUBSET BOOLEAN) \ {{}}
    /\ DefaultAccount \in {"signer", "other", "none"}
    /\ Varied \subseteq {"from", "nonce", "data", "common", "chain", "hardfork",
                         "chainId", "gas", "fees", "type"}

Absent      == 0    \* a nullish number
NodeChain   == 1    \* the chain id of the node
CustomChain == 2    \* the chain id of a custom chain, in a Common
GivenNonce  == 2    \* a nonce that the application chooses

May(field, values, default) == IF field \in Varied THEN values ELSE {default}

(* Transactions as an application passes them, by what is present. `clash':   *)
(* both data and input are given, and differ. Only one hardfork and one       *)
(* built-in chain exist, so those are present or absent.                      *)
Transactions ==
    [from     : May("from", {"none", "signer", "other"}, "signer"),
     nonce    : May("nonce", {Absent, GivenNonce}, Absent),
     clash    : May("data", BOOLEAN, FALSE),
     common   : May("common", BOOLEAN, FALSE),
     chain    : May("chain", BOOLEAN, FALSE),
     hardfork : May("hardfork", BOOLEAN, FALSE),
     chainId  : May("chainId", {Absent, NodeChain, CustomChain}, Absent),
     gas      : May("gas", BOOLEAN, FALSE),
     fees     : May("fees", {"none", "one", "both"}, "both"),
     type     : May("type", {"0x1", "0x2"}, "0x2")]

Accounts == {"signer", "other"}
Stages   == <<"chainId", "networkId", "fees", "gas">>

VARIABLES
    oneByOne,       \* whether the application waits for each transaction to be
                    \* mined before it prepares the next; it never changes
    calls,          \* each call: where it is, what it was given and has filled in
    hasCommon,      \* whether context.defaultCommon is set
    count           \* the node's transaction count of each account, plus 1

vars == <<oneByOne, calls, hasCommon, count>>

Idle == [pc |-> "idle"]
At(c, pc) == calls[c].pc = pc
Goto(c, call) == calls' = [calls EXCEPT ![c] = call]
Refuse(c, call, why) == Goto(c, [call EXCEPT !.pc = "refused", !.why = why])

-----------------------------------------------------------------------------
(* A transaction while it is filled in, and a call from its first request on. *)
Drafts ==
    [from : {"none"} \cup Accounts, nonce : Nat, clash : BOOLEAN,
     common : BOOLEAN, chain : BOOLEAN, hardfork : BOOLEAN,
     chainId : {Absent, NodeChain, CustomChain}, gas : BOOLEAN,
     fees : {"none", "one", "both"}, type : {"0x1", "0x2"}]

Begun ==
    [pc : {"nonce", "signed", "mined", "refused"} \cup Range(Stages),
     given : Transactions, tx : Drafts, fill : BOOLEAN, defaulted : BOOLEAN,
     why : {"none", "from", "nonce", "data", "type", "invalid", "rpc"}]

TypeOK ==
    /\ oneByOne \in BOOLEAN
    /\ calls \in [Calls -> {Idle} \cup Begun]
    /\ hasCommon \in DefaultCommon
    /\ count \in [Accounts -> 1..(MaxMined + 1)]

Init ==
    /\ oneByOne \in BOOLEAN
    /\ calls = [c \in Calls |-> Idle]
    /\ hasCommon \in DefaultCommon
    /\ count = [a \in Accounts |-> 1]

-----------------------------------------------------------------------------
(* validateTransactionForSigning() and TransactionFactory.fromTxData()        *)
Valid(t) ==
    /\ t.common => t.chainId \in {Absent, CustomChain}
    /\ ~(t.common /\ t.chain /\ t.hardfork)
    /\ t.chain = t.hardfork
    /\ t.gas /\ t.fees = "both"
    /\ t.chainId # Absent
    /\ t.type = "0x2"

(* What the builder asks the node for (no defaultNetworkId is set).           *)
Needs(call, stage) ==
    CASE stage = "chainId"   -> call.tx.chainId = Absent /\ ~call.tx.common
      [] stage = "networkId" -> TRUE
      [] stage = "fees"      -> call.fill
      [] stage = "gas"       -> ~call.tx.gas

(* The builder goes on after stage i, until it has to wait or is done.        *)
Proceed(c, call, i) ==
    LET waits == {j \in (i + 1)..Len(Stages) : Needs(call, Stages[j])}
        j     == CHOOSE k \in waits : \A l \in waits : k <= l
    IN  CASE waits = {} ->
                IF Valid(call.tx) THEN Goto(c, [call EXCEPT !.pc = "signed"])
                                  ELSE Refuse(c, call, "invalid")
          [] waits # {} /\ Stages[j] = "fees" /\ call.tx.type # "0x2" -> Refuse(c, call, "type")
          [] OTHER -> Goto(c, [call EXCEPT !.pc = Stages[j]])

FaultFilled(tx) ==
    [tx EXCEPT !.common   = @ \/ hasCommon,
               !.chain    = @ \/ ~tx.common]

(* The chain is filled in from the context: its defaultCommon, and in any     *)
(* case its default chain and hardfork.                                       *)
Filled(tx) ==
    [tx EXCEPT !.common   = @ \/ hasCommon,
               !.chain    = @ \/ ~tx.common,
               !.hardfork = @ \/ ~tx.common]

(* The part of the builder between the nonce and the next request.            *)
Build(c, call) ==
    IF call.tx.clash
    THEN Refuse(c, call, "data")
    ELSE Proceed(c, [call EXCEPT !.tx = Filled(@), !.defaulted = ~call.tx.common /\ hasCommon], 0)

-----------------------------------------------------------------------------
FaultSender(tx) == IF tx.from # "none" THEN tx.from ELSE DefaultAccount

(* The account whose nonce is used, if the transaction names none.            *)
Sender(tx) ==
    IF tx.from # "none" THEN tx.from
    ELSE IF WithSeed THEN "signer" ELSE DefaultAccount

(* The call, up to the first request.                                         *)
Begin(c, transactions) ==
    /\ At(c, "idle")
    /\ oneByOne => \A d \in Calls : At(d, "idle")
    /\ \E tx \in transactions, fill \in FillGasPrice :
          LET from == Sender(tx)
              call == [pc |-> "nonce", given |-> tx, tx |-> [tx EXCEPT !.from = from],
                       fill |-> fill, defaulted |-> FALSE, why |-> "none"]
          IN  CASE WithSeed /\ tx.from = "other" -> Refuse(c, call, "from")
                [] ~(WithSeed /\ tx.from = "other") /\ tx.nonce # Absent -> Build(c, call)
                [] OTHER -> IF from = "none" THEN Refuse(c, call, "nonce") ELSE Goto(c, call)
    /\ UNCHANGED <<oneByOne, hasCommon, count>>

UnderWay(c) == calls[c].pc \notin {"idle", "refused", "mined"}

FaultCountsPending(c) ==
    LET ahead == Cardinality({d \in Calls \ {c} : UnderWay(d) /\ ~At(d, "nonce")})
    IN  /\ At(c, "nonce")
        /\ Build(c, [calls[c] EXCEPT !.tx.nonce = count[calls[c].tx.from] + ahead])
        /\ UNCHANGED <<oneByOne, hasCommon, count>>

(* getTransactionCount() answers.                                             *)
NonceAnswered(c) ==
    /\ At(c, "nonce")
    /\ Build(c, [calls[c] EXCEPT !.tx.nonce = count[calls[c].tx.from]])
    /\ UNCHANGED <<oneByOne, hasCommon, count>>

(* getChainId(), getId(), getBlock() or estimateGas() answers.                *)
Answered(c, i) ==
    /\ At(c, Stages[i])
    /\ LET call == calls[c]
           tx   == CASE Stages[i] = "chainId"   -> [call.tx EXCEPT !.chainId = NodeChain]
                     [] Stages[i] = "networkId" -> call.tx
                     [] Stages[i] = "fees"      -> [call.tx EXCEPT !.fees = "both"]
                     [] Stages[i] = "gas"       -> [call.tx EXCEPT !.gas = TRUE]
       IN  Proceed(c, [call EXCEPT !.tx = tx], i)
    /\ UNCHANGED <<oneByOne, hasCommon, count>>

(* Any of the requests fails, and so does the call.                           *)
RequestFails(c) ==
    /\ calls[c].pc \in {"nonce"} \cup Range(Stages)
    /\ Refuse(c, calls[c], "rpc")
    /\ UNCHANGED <<oneByOne, hasCommon, count>>

(* The transaction is broadcast and mined: the node takes it only with the    *)
(* next nonce of the account whose key signed it.                             *)
Mined(c) ==
    /\ At(c, "signed")
    /\ calls[c].tx.nonce = count["signer"] /\ count["signer"] <= MaxMined
    /\ calls' = [calls EXCEPT ![c].pc = "mined"]
    /\ count' = [count EXCEPT !["signer"] = @ + 1]
    /\ UNCHANGED <<oneByOne, hasCommon>>

(* A call that has ended makes room for another.                              *)
Ended(c) ==
    /\ calls[c].pc \in IF oneByOne THEN {"refused", "mined"} ELSE {"refused", "signed", "mined"}
    /\ calls' = [calls EXCEPT ![c] = Idle]
    /\ UNCHANGED <<oneByOne, hasCommon, count>>

(* context.defaultCommon is set or reset while calls wait.                    *)
SetDefaultCommon(v) ==
    /\ v # hasCommon
    /\ hasCommon' = v
    /\ UNCHANGED <<oneByOne, calls, count>>

GoOn(c) ==
    \/ NonceAnswered(c)
    \/ \E i \in DOMAIN Stages : Answered(c, i)
    \/ RequestFails(c)
    \/ Mined(c) \/ Ended(c)

Next ==
    \/ \E c \in Calls : Begin(c, Transactions) \/ GoOn(c)
    \/ \E v \in DefaultCommon : SetDefaultCommon(v)

Spec == Init /\ [][Next]_vars

-----------------------------------------------------------------------------
Done(c) == calls[c].pc \in {"signed", "mined"}

(* The transactions that can be signed: the rest follows from the context and *)
(* the node. A Common stands alone, and its chain id is repeated.             *)
WellFormed(call) ==
    LET tx == call.given
    IN  /\ WithSeed => tx.from # "other"
        /\ Sender(tx) # "none" \/ tx.nonce # Absent
        /\ ~tx.clash /\ tx.type = "0x2"
        /\ tx.fees = "both" \/ call.fill
        /\ tx.common => tx.chainId = CustomChain /\ ~tx.chain /\ ~tx.hardfork

(* What the builder fills in passes the validation that follows: without a    *)
(* defaultCommon, a well-formed transaction is refused only if a request to   *)
(* the node failed.                                                           *)
WellFormedIsSigned ==
    \A c \in Calls :
       At(c, "refused") /\ calls[c].why # "rpc" /\ ~calls[c].defaulted => ~WellFormed(calls[c])

(* A transaction is signed for the chain it asks for, and for the node's if   *)
(* it asks for none; never for two chains at once.                            *)
SignedForItsChain ==
    \A c \in Calls : Done(c) =>
       /\ calls[c].tx.chainId = IF calls[c].given.chainId # Absent
                                THEN calls[c].given.chainId ELSE NodeChain
       /\ calls[c].tx.common => calls[c].tx.chainId = CustomChain

(* "Otherwise the tx would be signed by the seed's key while claiming a       *)
(* different sender": the nonce that is filled in is that of the signer.      *)
NonceOfSigner ==
    \A c \in Calls :
       Done(c) /\ calls[c].given.nonce = Absent => calls[c].tx.from = "signer"

(* A nonce that is filled in leaves no gap behind which the transaction would *)
(* wait for ever, however many calls prepare at a time, are refused or end;   *)
(* and it is the next one of the account, not one already used, if each       *)
(* transaction is mined before the next is prepared.                          *)
NextNonceIsUsed ==
    \A c \in Calls :
       At(c, "signed") /\ calls[c].given.nonce = Absent =>
          /\ calls[c].tx.nonce <= count["signer"]
          /\ oneByOne => calls[c].tx.nonce = count["signer"]

-----------------------------------------------------------------------------
(* Why these hold. What was given stays in the transaction, and what the      *)
(* stages behind a call filled in is there.                                   *)
Given(call) ==
    /\ call.tx.from = Sender(call.given)
    /\ call.tx.type = call.given.type
    /\ \/ call.tx.chainId = call.given.chainId
       \/ call.given.chainId = Absent /\ call.tx.chainId = NodeChain
    /\ call.given.nonce # Absent => call.tx.nonce = call.given.nonce
    /\ call.given.fees = "both" => call.tx.fees = "both"
    /\ WithSeed /\ call.pc # "refused" => call.tx.from = "signer"

Untouched(call) ==
    /\ call.tx.from # "none" /\ call.given.nonce = Absent /\ ~call.defaulted
    /\ call.tx = [call.given EXCEPT !.from = call.tx.from]

Built(call) ==
    /\ ~call.tx.clash
    /\ ~call.defaulted => call.tx.common = call.given.common
    /\ call.tx.chain = (call.given.chain \/ ~call.given.common)
    /\ call.tx.hardfork = (call.given.hardfork \/ ~call.given.common)

Reached(call) ==
    /\ call.pc = "nonce" => Untouched(call)
    /\ call.pc \in Range(Stages) \cup {"signed", "mined"} => Built(call)
    /\ call.pc = "chainId" => call.tx.chainId = Absent
    /\ call.pc \in {"networkId", "fees", "gas"} => call.tx.chainId # Absent \/ call.tx.common
    /\ call.pc = "gas" /\ call.fill => call.tx.fees = "both"
    /\ call.pc \in {"signed", "mined"} => Valid(call.tx)
    /\ call.pc = "refused" /\ call.why # "rpc" /\ ~call.defaulted => ~WellFormed(call)

Traced == \A c \in Calls : ~At(c, "idle") => Given(calls[c]) /\ Reached(calls[c])

(* An application that waits has at most one call under way, so that the node *)
(* mines nothing between the answer to getTransactionCount() and the signing. *)
NonceIsNext ==
    /\ oneByOne => \A c, d \in Calls : UnderWay(c) /\ UnderWay(d) => c = d
    /\ WithSeed => \A c \in Calls :
          UnderWay(c) /\ ~At(c, "nonce") /\ calls[c].given.nonce = Absent =>
             /\ calls[c].tx.nonce <= count["signer"]
             /\ oneByOne => calls[c].tx.nonce = count["signer"]

Inv == TypeOK /\ Traced /\ NonceIsNext

-----------------------------------------------------------------------------
(* What comments, tests and documents say and the code does not do.           *)

(* "if defaultcommon is specified, use that": a well-formed transaction is    *)
(* signed with a defaultCommon as it is without.                              *)
DefaultCommonIsUsed ==
    \A c \in Calls :
       At(c, "refused") /\ calls[c].why # "rpc" => ~WellFormed(calls[c])
=============================================================================
