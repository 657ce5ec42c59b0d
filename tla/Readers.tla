-------------------------------- MODULE Readers --------------------------------
(* The methods of web3.qrl that read: how a block is named in the many forms  *)
(* an application may use, or by the default block, how the request names it  *)
(* (by hash, number or tag), and what comes of the answer. calculateFeeData() *)
(* makes two requests, between which blocks may be mined and the default      *)
(* changed.                                                                   *)
EXTENDS Integers

CONSTANTS
    MaxHead,        \* bound: blocks after the first
    MaxChanges,     \* bound: defaultBlock set
    BaseFees        \* base fees of blocks; \in Nat

ConstantsOK == {MaxHead, MaxChanges} \subseteq Nat /\ BaseFees \subseteq Nat

None == -1                      \* null, undefined, or a hash of no block

(* Block references. `hex' has an odd number of digits, `evenHex' an even one;*)
(* `array' is a Uint8Array of a hash, `long' has more bytes than a hash has.  *)
(* The tags `pending' and `safe' are treated as the others.                   *)
Tags == {"earliest", "latest", "finalized"}
Ref(as, n, tag) == [as |-> as, n |-> n, tag |-> tag]
TagRefs == {Ref("tag", None, t) : t \in Tags}
NumberRefs == [as : {"number", "decimal", "hex", "evenHex"}, n : 0..MaxHead + 1, tag : {""}]
                  \cup {Ref("number", -1, "")}
HashRefs == [as : {"hash", "array"}, n : 0..MaxHead + 1, tag : {""}] \cup {Ref("long", None, "")}
BlockNumberOrTag == TagRefs \cup NumberRefs
Undefined == Ref("undefined", None, "")

(* The methods by what they take: a block number or tag, also a block hash,   *)
(* the hash of a transaction, or nothing. Each stands for the ones it is      *)
(* mapped with, which differ in their other parameters.                       *)
StateReaders == {"getBalance", "getTransactionCount"}
BlockReaders == {"getBlock", "getTransactionFromBlock"}
HashReaders == {"getTransaction", "getTransactionReceipt"}

VARIABLES
    defaultBlock,   \* of the configuration
    changes,        \* times it was set
    fees,           \* external: [block -> base fee, or None]; its domain, the chain
    call,           \* where the call of the application is
    asked           \* history: the reference, the default filled in, and the head then

vars == <<defaultBlock, changes, fees, call, asked>>

Head == CHOOSE n \in DOMAIN fees : n + 1 \notin DOMAIN fees

Resting == [at |-> "rest"]

TypeOK ==
    /\ defaultBlock \in BlockNumberOrTag /\ changes \in 0..MaxChanges
    /\ \E head \in 0..MaxHead : fees \in [0..head -> BaseFees \cup {None}]
    /\ call.at \in {"rest", "read", "hash", "logs", "fees", "tip", "done", "refused", "failed"}
    /\ call.at # "rest" => asked.ref \in BlockNumberOrTag \cup HashRefs /\ asked.head \in 0..Head

Init ==
    /\ defaultBlock = Ref("tag", None, "latest") /\ changes = 0
    /\ fees \in [{0} -> BaseFees \cup {None}]
    /\ call = Resting /\ asked = Resting

-----------------------------------------------------------------------------
IsBytes(ref) == ref.as \in {"evenHex", "hash", "array", "long"}

(* bytes32, formatted: what is shorter than a hash is padded to one.          *)
HashRequest(ref) == [by |-> "hash", n |-> IF ref.as \in {"hash", "array"} THEN ref.n ELSE None, tag |-> ""]

(* A tag, or the number in any of its forms.                                  *)
NumberRequest(ref) == IF ref.as = "tag" THEN [by |-> "tag", n |-> None, tag |-> ref.tag]
                      ELSE [by |-> "number", n |-> ref.n, tag |-> ""]

(* getBlock(), getBlockTransactionCount() and getTransactionFromBlock()       *)
BlockRequest(method, ref) ==
    IF method \notin StateReaders /\ IsBytes(ref) THEN HashRequest(ref) ELSE NumberRequest(ref)

(* What the validation of the RPC methods refuses: what is too long for       *)
(* bytes32, and negative numbers.                                             *)
InvalidHash(ref) == ref.as = "long"
InvalidNumber(request) == request.by = "number" /\ request.n < 0

Invalid(request, ref) ==
    IF request.by = "hash" THEN InvalidHash(ref) ELSE InvalidNumber(request)

(* The default parameter of every method with a block.                        *)
OrDefault(ref) == IF ref = Undefined THEN defaultBlock ELSE ref

-----------------------------------------------------------------------------
(* One call is followed; another has nothing in common with it.               *)
Idle == call.at = "rest"

Asking(method, ref) ==
    LET block   == OrDefault(ref)
        request == BlockRequest(method, block)
    IN  /\ Idle
        /\ call' = IF Invalid(request, block) THEN [at |-> "refused", method |-> method]
                   ELSE [at |-> IF method = "calculateFeeData" THEN "fees" ELSE "read",
                         method |-> method, request |-> request]
        /\ asked' = [ref |-> IF ref = Undefined THEN defaultBlock ELSE ref, head |-> Head]
        /\ UNCHANGED <<defaultBlock, changes, fees>>

(* A question about the state at a block.                                     *)
ReadState(method, ref) == method \in StateReaders /\ Asking(method, ref)

(* A question about a block.                                                  *)
ReadBlock(method, ref) == method \in BlockReaders /\ Asking(method, ref)

(* A question about a transaction, whose hash is padded likewise.             *)
ReadTransaction(method, ref) ==
    /\ Idle
    /\ LET request == HashRequest(ref)
       IN  call' = IF Invalid(request, ref) THEN [at |-> "refused", method |-> method]
                   ELSE [at |-> "hash", method |-> method, request |-> request]
    /\ asked' = [ref |-> ref, head |-> Head]
    /\ UNCHANGED <<defaultBlock, changes, fees>>

(* getPastLogs(): numbers become hex, text is left as it is, and the node     *)
(* has a default of its own for what is missing.                              *)
OrLatest(ref) == IF ref = Undefined THEN Ref("tag", None, "latest") ELSE ref

LogBound(ref) ==
    IF ref.as = "decimal" THEN [by |-> "text", n |-> ref.n, tag |-> ""]
    ELSE NumberRequest(OrLatest(ref))

GetLogs(fromBlock, toBlock) ==
    LET from == LogBound(fromBlock)
        to   == LogBound(toBlock)
    IN  /\ Idle
        /\ call' = IF Invalid(from, fromBlock) \/ Invalid(to, toBlock)
                   THEN [at |-> "refused", method |-> "getLogs"]
                   ELSE [at |-> "logs", method |-> "getLogs", from |-> from, to |-> to]
        /\ asked' = [ref |-> OrLatest(fromBlock), to |-> OrLatest(toBlock), head |-> Head]
        /\ UNCHANGED <<defaultBlock, changes, fees>>

(* calculateFeeData() begins with getBlock(undefined).                        *)
CalculateFeeData == Asking("calculateFeeData", Undefined)

-----------------------------------------------------------------------------
(* The node (external).                                                       *)
TagNumber(tag, head) ==
    CASE tag = "earliest" -> 0 [] tag = "latest" -> head [] OTHER -> IF head = 0 THEN 0 ELSE head - 1

Resolved(request) ==
    IF request.by = "tag" THEN TagNumber(request.tag, Head)
    ELSE IF request.n \in DOMAIN fees THEN request.n ELSE None

Mine(fee) ==
    /\ Head < MaxHead
    /\ fees' = [n \in 0..Head + 1 |-> IF n = Head + 1 THEN fee ELSE fees[n]]
    /\ UNCHANGED <<defaultBlock, changes, call, asked>>

SetDefaultBlock(ref) ==
    /\ changes < MaxChanges
    /\ defaultBlock' = ref
    /\ changes' = changes + 1
    /\ UNCHANGED <<fees, call, asked>>

Settles(fields) == call' = fields /\ UNCHANGED <<defaultBlock, changes, fees, asked>>

(* The answer, of a block or of the state at it; there is no state at a block *)
(* that does not exist, but a null block, and a null transaction, come back.  *)
Answered ==
    /\ call.at = "read"
    /\ LET block == Resolved(call.request)
       IN  Settles(IF block = None /\ call.method \in StateReaders
                   THEN [at |-> "failed", method |-> call.method]
                   ELSE [at |-> "done", method |-> call.method, block |-> block])

TransactionAnswered ==
    /\ call.at = "hash"
    /\ Settles([at |-> "done", method |-> call.method, hash |-> call.request.n])

(* The logs of the blocks in between; the node wants hex.                     *)
LogsAnswered ==
    /\ call.at = "logs"
    /\ LET from == Resolved(call.from)
           to   == Resolved(call.to)
       IN  Settles(IF None \in {from, to} \/ "text" \in {call.from.by, call.to.by}
                   THEN [at |-> "failed", method |-> "getLogs"]
                   ELSE [at |-> "done", method |-> "getLogs", blocks |-> from..to])

(* The block is there; the priority fee is asked for.                         *)
FeesAnswered ==
    /\ call.at = "fees"
    /\ LET block == Resolved(call.request)
       IN  Settles([at |-> "tip", method |-> call.method,
                    base |-> IF block = None THEN None ELSE fees[block]])

(* A base fee of zero counts as none; the alternative is for a node that has  *)
(* no answer.                                                                 *)
FeeData(base, tip, factor, alternative) ==
    IF base \in {None, 0} THEN [base |-> base, tip |-> tip, max |-> None]
    ELSE LET paid == IF tip = None THEN alternative ELSE tip
         IN  [base |-> base, tip |-> paid, max |-> base * factor + paid]

(* The answer, or the error that is ignored, of the second request.           *)
TipAnswered(tip) ==
    /\ call.at = "tip"
    /\ Settles([at |-> "done", method |-> call.method, data |-> FeeData(call.base, tip, 2, 1)])

(* Any request but that one may fail, and the call with it.                   *)
Fails ==
    /\ call.at \in {"read", "hash", "logs", "fees"}
    /\ Settles([at |-> "failed", method |-> call.method])

Next ==
    \/ \E fee \in BaseFees \cup {None} : Mine(fee)
    \/ \E ref \in BlockNumberOrTag : SetDefaultBlock(ref)
    \/ \E m \in StateReaders, ref \in BlockNumberOrTag \cup {Undefined} : ReadState(m, ref)
    \/ \E m \in BlockReaders, ref \in BlockNumberOrTag \cup HashRefs \cup {Undefined} : ReadBlock(m, ref)
    \/ \E m \in HashReaders, ref \in HashRefs : ReadTransaction(m, ref)
    \/ \E from, to \in BlockNumberOrTag \cup {Undefined} : GetLogs(from, to)
    \/ CalculateFeeData
    \/ Answered \/ TransactionAnswered \/ LogsAnswered \/ FeesAnswered \/ Fails
    \/ \E tip \in {None} \cup BaseFees : TipAnswered(tip)

Spec == Init /\ [][Next]_vars

-----------------------------------------------------------------------------
(* The blocks that a reference means at some time during the call.            *)
Meant(ref) ==
    IF ref.as = "tag" THEN {TagNumber(ref.tag, head) : head \in asked.head..Head}
    ELSE {ref.n} \cap DOMAIN fees

(* An answer is of the block that was asked for, in whatever form, or that    *)
(* bore the tag during the call, and of the default block as it was when the  *)
(* method was called; nothing is refused that means a block. A block number   *)
(* in hex with an even number of digits is taken for a hash, see below.       *)
ReadsAsAsked ==
    /\ call.at = "done" /\ call.method \in BlockReaders \cup StateReaders =>
          \/ call.method \in BlockReaders /\ asked.ref.as = "evenHex"
          \/ call.block \in Meant(asked.ref)
          \/ call.block = None /\ asked.ref.n \notin 0..asked.head
    /\ call.at = "done" /\ call.method \in HashReaders => call.hash = asked.ref.n
    /\ call.at = "done" /\ call.method = "getLogs" =>
          \E from \in Meant(asked.ref), to \in Meant(asked.to) : call.blocks = from..to
    /\ call.at = "refused" => asked.ref \in {Ref("number", -1, ""), Ref("long", None, "")}
                              \/ (call.method = "getLogs" /\ asked.to = Ref("number", -1, ""))

BaseAsAsked(base) ==
    \/ asked.ref.as = "evenHex"
    \/ base \in {fees[n] : n \in Meant(asked.ref)}
    \/ base = None /\ asked.ref.n \notin 0..asked.head

(* The fees of calculateFeeData() belong together, though read one after the  *)
(* other: the base fee is of a block that the default meant, the maximum pays *)
(* it and the tip that is returned with it, and is missing only with it.      *)
FeesAddUp ==
    call.at = "done" /\ call.method = "calculateFeeData" =>
       LET d == call.data
       IN  /\ BaseAsAsked(d.base)
           /\ d.max = None <=> d.base \in {None, 0}
           /\ d.max # None => d.tip # None /\ d.max >= d.base + d.tip

(* Why: what is requested names the block that was asked for, and the base    *)
(* fee that waits for a priority fee is already that of such a block.         *)
RequestedAsAsked ==
    /\ call.at = "read" =>
          /\ call.method \in StateReaders \cup BlockReaders
          /\ call.request = BlockRequest(call.method, asked.ref)
          /\ ~Invalid(call.request, asked.ref)
          /\ call.method \in StateReaders => asked.ref \in BlockNumberOrTag
    /\ call.at = "fees" =>
          /\ call.method = "calculateFeeData" /\ asked.ref \in BlockNumberOrTag
          /\ call.request = BlockRequest(call.method, asked.ref)
    /\ call.at = "hash" =>
          /\ call.method \in HashReaders /\ asked.ref \in HashRefs /\ asked.ref.as # "long"
          /\ call.request = HashRequest(asked.ref)
    /\ call.at = "logs" =>
          /\ call.method = "getLogs" /\ {asked.ref, asked.to} \subseteq BlockNumberOrTag
          /\ call.from = LogBound(asked.ref) /\ call.to = LogBound(asked.to)
    /\ call.at = "tip" =>
          /\ call.method = "calculateFeeData"
          /\ call.base \in BaseFees \cup {None} /\ BaseAsAsked(call.base)

(* The inductive invariant of the readers.                                    *)
Inv == TypeOK /\ RequestedAsAsked /\ ReadsAsAsked /\ FeesAddUp

-----------------------------------------------------------------------------
(* "block The {@link BlockNumberOrTag} (defaults to ...) or block hash of the *)
(* desired block": '0x10' asks for the block whose hash ends in 10.           *)
NumbersAreNumbers ==
    call.at = "done" /\ call.method \in BlockReaders /\ asked.ref.as = "evenHex" =>
       call.block \in Meant(asked.ref) \/ asked.ref.n \notin 0..asked.head

(* "if the `block.baseFeePerGas` is available, then EIP-1559 is supported and *)
(* we can calculate": not if it is zero.                                      *)
ZeroIsAvailable ==
    call.at = "done" /\ call.method = "calculateFeeData" /\ call.data.base # None => call.data.max # None

(* "Calculates the current Fee Data.": that of the default block.             *)
FeesAreCurrent ==
    call.at = "done" /\ call.method = "calculateFeeData" =>
       call.data.base \in {fees[n] : n \in asked.head..Head}

(* A block number as text is a block number to every method, but getPastLogs()*)
(* sends it as it is.                                                         *)
LogBoundsAreHex == call.at = "logs" => "text" \notin {call.from.by, call.to.by}
===============================================================================
