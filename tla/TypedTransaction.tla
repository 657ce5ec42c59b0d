--------------------------- MODULE TypedTransaction ---------------------------
(* Transaction classes of web3-qrl-accounts: a transaction is made from data, *)
(* signed, serialised, and parsed and attributed to its sender by whoever     *)
(* receives it. A byte is a digit below Base; a signature, a public key and a *)
(* descriptor are one opaque byte; a hash is what was hashed. Whoever holds   *)
(* the serialised transaction may alter it.                                   *)
EXTENDS Integers, Sequences, FiniteSets, SequencesExt

CONSTANTS
    TxDatas,        \* the data transactions are made from
    Options,        \* the options they are made with
    Seeds,          \* seeds; the key and the address of a seed are the seed
    Base,           \* values of a byte
    MaxUint64, MaxInteger,
    AddressBytes, SlotBytes, WordBytes, MaxInitCodeSize,
    Price           \* gas of "tx", "txCreation", "zero", "nonZero", "word", "address", "slot"

Byte == 0..(Base - 1)

(* Data that are not signed yet. Their chain id may be missing.               *)
Unsigned ==
    [chainId : Nat \cup {-1}, nonce : Nat, maxPriorityFeePerGas : Nat, maxFeePerGas : Nat,
     gasLimit : Nat, to : Seq(Byte), value : Nat, data : Seq(Byte),
     accessList : Seq(Seq(Byte) \X Seq(Seq(Byte))), descriptor : {<<>>}, extraParams : Seq(Byte),
     signature : {<<>>}, publicKey : {<<>>}]

ConstantsOK ==
    /\ {Base, MaxUint64, MaxInteger, AddressBytes, SlotBytes, WordBytes, MaxInitCodeSize} \subseteq Nat
    /\ Base > 1 /\ WordBytes > 0
    /\ TxDatas \subseteq Unsigned
    /\ Options \subseteq [unlimited : BOOLEAN, common : Nat \cup {-1}]

VARIABLES
    data,           \* the array the transaction's data was given in
    options,        \* allowUnlimitedInitCodeSize and the chain of a Common
    tx,             \* the transaction, as a sequence of at most one
    hashed,         \* cache.hash, as a sequence of at most one
    signed,         \* what was signed: seed and fields
    returned,       \* the transaction that was given away
    wire,           \* the serialised transaction: type and values
    parsed,         \* what became of it, or of the JSON form
    sender          \* recoverTransaction()

vars == <<data, options, tx, hashed, signed, returned, wire, parsed, sender>>

Descriptor == <<"ML-DSA-87">>
Mainnet == 1
Absent == -1        \* a chain id that is not given

-----------------------------------------------------------------------------
FaultUnpadded(n) ==
    LET bytes[k \in 0..n] == IF k < Base THEN <<k>> ELSE Append(bytes[k \div Base], k % Base)
    IN  bytes[n]

(* bigIntToUnpaddedUint8Array(), and uint8ArrayToBigInt().                    *)
Unpadded(n) ==
    LET bytes[k \in 0..n] == IF k = 0 THEN <<>> ELSE Append(bytes[k \div Base], k % Base)
    IN  bytes[n]

ToBigInt(bytes) ==
    LET value[k \in 0..Len(bytes)] == IF k = 0 THEN 0 ELSE Base * value[k - 1] + bytes[k]
    IN  value[Len(bytes)]

(* verifyAccessList(), of items <<address, slots>>.                           *)
AccessListOK(list) ==
    \A i \in DOMAIN list : /\ Len(list[i]) = 2
                           /\ Len(list[i][1]) = AddressBytes
                           /\ \A s \in DOMAIN list[i][2] : Len(list[i][2][s]) = SlotBytes

(* _getCommon(): a given chain id must be that of a given Common.             *)
ChainIds(id, common) == IF id = Absent THEN IF common = Absent THEN {Mainnet} ELSE {common}
                        ELSE IF common \in {Absent, id} THEN {id} ELSE {}

(* The constructors of BaseTransaction and FeeMarketEIP1559Transaction: every *)
(* transaction they do not refuse, of which there is one at most.             *)
New(d, o) ==
    {[d EXCEPT !.chainId = id] : id \in
        IF /\ Len(d.to) \in {0, AddressBytes}
           /\ d.value <= MaxInteger
           /\ d.gasLimit <= MaxUint64
           /\ d.nonce < MaxUint64
           /\ d.to = <<>> => o.unlimited \/ Len(d.data) <= MaxInitCodeSize
           /\ AccessListOK(d.accessList)
           /\ d.maxFeePerGas <= MaxInteger /\ d.maxPriorityFeePerGas <= MaxInteger
           /\ d.gasLimit * d.maxFeePerGas <= MaxInteger
           /\ d.maxFeePerGas >= d.maxPriorityFeePerGas
        THEN ChainIds(d.chainId, o.common) ELSE {}}

NoOptions == [unlimited |-> FALSE, common |-> Absent]

(* raw().                                                                     *)
Raw(t) == <<Unpadded(t.chainId), Unpadded(t.nonce), Unpadded(t.maxPriorityFeePerGas),
            Unpadded(t.maxFeePerGas), Unpadded(t.gasLimit), t.to, Unpadded(t.value), t.data,
            t.accessList, t.descriptor, t.extraParams, t.signature, t.publicKey>>

FaultGetMessageToSign(t, descriptor, extraParams) ==
    SubSeq(Raw(t), 1, 8) \o <<descriptor, extraParams>>

GetMessageToSign(t, descriptor, extraParams) ==
    SubSeq(Raw(t), 1, 9) \o <<descriptor, extraParams>>

Numeric == {1, 2, 3, 4, 5, 7}

(* fromValuesArray(), without options.                                        *)
FromValuesArray(values) ==
    IF \/ Len(values) \notin {11, 13}
       \/ \E i \in Numeric : values[i] # <<>> /\ values[i][1] = 0
    THEN {}
    ELSE LET value(i) == IF i <= Len(values) THEN values[i] ELSE <<>>
         IN  New([chainId |-> ToBigInt(values[1]), nonce |-> ToBigInt(values[2]),
                  maxPriorityFeePerGas |-> ToBigInt(values[3]), maxFeePerGas |-> ToBigInt(values[4]),
                  gasLimit |-> ToBigInt(values[5]), to |-> values[6], value |-> ToBigInt(values[7]),
                  data |-> values[8], accessList |-> values[9], descriptor |-> value(10),
                  extraParams |-> value(11), signature |-> value(12), publicKey |-> value(13)], NoOptions)

(* TransactionFactory.fromSerializedData() and fromSerializedTx().            *)
FromSerialized(w) == IF w.type = 2 THEN FromValuesArray(w.values) ELSE {}

(* getBaseFee() and getDataFee(), with the access list's.                     *)
GetBaseFee(t) ==
    LET cost == [i \in DOMAIN t.data |-> IF t.data[i] = 0 THEN Price["zero"] ELSE Price["nonZero"]]
        slots == [i \in DOMAIN t.accessList |->
                    Price["address"] + Price["slot"] * Len(t.accessList[i][2])]
        words == (Len(t.data) + WordBytes - 1) \div WordBytes
        sum(s) == FoldLeft(LAMBDA a, b : a + b, 0, s)
    IN  Price["tx"] + sum(cost) + sum(slots)
        + IF t.to = <<>> THEN Price["txCreation"] + Price["word"] * words ELSE 0

(* getUpfrontCost().                                                          *)
GetUpfrontCost(t, baseFee) ==
    LET most == t.maxFeePerGas - baseFee
        tip == IF t.maxPriorityFeePerGas < most THEN t.maxPriorityFeePerGas ELSE most
    IN  t.gasLimit * (tip + baseFee) + t.value

IsSigned(t) == t.descriptor # <<>> /\ t.signature # <<>> /\ t.publicKey # <<>>

(* verifySignature(): an unsigned transaction, another descriptor, another    *)
(* key or another message do not verify. ML-DSA-87 is external.               *)
VerifySignature(t) ==
    /\ IsSigned(t) /\ t.descriptor = Descriptor
    /\ t.signature[1].by = t.publicKey[1]
    /\ t.signature[1].of = GetMessageToSign(t, t.descriptor, t.extraParams)

Validate(t) == GetBaseFee(t) <= t.gasLimit /\ (IsSigned(t) => VerifySignature(t))

(* sign(): the fields go through the constructor again, with the signature.   *)
Signed(t, seed) ==
    New([t EXCEPT !.descriptor = Descriptor, !.extraParams = <<>>, !.publicKey = <<seed>>,
                  !.signature = <<[by |-> seed, of |-> GetMessageToSign(t, Descriptor, <<>>)]>>],
        [options EXCEPT !.common = t.chainId])

-----------------------------------------------------------------------------
Init ==
    /\ data = <<>> /\ options = NoOptions
    /\ tx = <<>> /\ hashed = <<>> /\ signed = {} /\ returned = <<>>
    /\ wire = <<>> /\ parsed = {} /\ sender = {}

(* The transaction with its data as it is now.                                *)
Tx == [tx[1] EXCEPT !.data = data]

(* fromTxData(), the factory's included: the data is kept, not copied.        *)
FromTxData(d, type, o) ==
    /\ tx = <<>>
    /\ type = 2
    /\ \E t \in New(d, o) : tx' = <<t>>
    /\ data' = d.data /\ options' = o
    /\ UNCHANGED <<hashed, signed, returned, wire, parsed, sender>>

(* The caller reuses the array it gave the data in.                           *)
Overwrite(b) ==
    /\ tx # <<>> /\ data # <<>> /\ data[1] # b
    /\ data' = [data EXCEPT ![1] = b]
    /\ UNCHANGED <<options, tx, hashed, signed, returned, wire, parsed, sender>>

(* sign(): a new object, with an empty cache.                                 *)
Sign(seed) ==
    /\ tx # <<>> /\ signed = {}
    /\ \E t \in Signed(Tx, seed) : tx' = <<t>>
    /\ signed' = {[by |-> seed, fields |-> SubSeq(Raw(Tx), 1, 9) \o <<Descriptor, <<>>>>]}
    /\ hashed' = <<>>
    /\ UNCHANGED <<data, options, returned, wire, parsed, sender>>

Serialize(t) == wire' = <<[type |-> 2, values |-> Raw(t)]>>

(* signTransaction(): signs, validates and serialises without a pause; the    *)
(* signed object is not the caller's.                                         *)
SignTransaction(seed) ==
    /\ tx # <<>> /\ signed = {} /\ returned = <<>>
    /\ \E t \in Signed(Tx, seed) : Validate(t) /\ Serialize(t) /\ returned' = <<t>>
    /\ signed' = {[by |-> seed, fields |-> SubSeq(Raw(Tx), 1, 9) \o <<Descriptor, <<>>>>]}
    /\ UNCHANGED <<data, options, tx, hashed, parsed, sender>>

(* hash() of a frozen transaction, computed once.                             *)
Hash ==
    /\ tx # <<>> /\ IsSigned(tx[1]) /\ hashed = <<>>
    /\ hashed' = <<Raw(Tx)>>
    /\ UNCHANGED <<data, options, tx, signed, returned, wire, parsed, sender>>

Serializes ==
    /\ tx # <<>> /\ returned = <<>>
    /\ Serialize(Tx) /\ returned' = <<Tx>>
    /\ UNCHANGED <<data, options, tx, hashed, signed, parsed, sender>>

Unread == wire # <<>> /\ parsed = {} /\ sender = {}

(* What the values may be altered to: a number with a zero in front or        *)
(* another number, another address, key or list, an empty value.              *)
Altered(i) ==
    LET old == wire[1].values[i]
    IN  IF i \in Numeric THEN {<<0>> \o old, <<1>>, <<>>}
        ELSE IF i = 6 THEN {<<>>, [k \in 1..AddressBytes |-> 0]}
        ELSE IF i = 8 THEN {<<>>, <<1>>}
        ELSE IF i = 13 THEN {<<>>} \cup {<<s>> : s \in Seeds}
        ELSE {<<>>}

Alter ==
    /\ Unread /\ returned # <<>>
    /\ wire[1].values = Raw(returned[1])
    /\ LET w == wire[1] IN
       \/ \E i \in DOMAIN w.values : \E v \in Altered(i) :
             wire' = <<[w EXCEPT !.values = [w.values EXCEPT ![i] = v]]>>
       \/ \E n \in {11, 12} : wire' = <<[w EXCEPT !.values = SubSeq(@, 1, n)]>>
       \/ wire' = <<[w EXCEPT !.type = 1]>>
    /\ UNCHANGED <<data, options, tx, hashed, signed, returned, parsed, sender>>

Parse ==
    /\ Unread
    /\ parsed' = FromSerialized(wire[1])
    /\ UNCHANGED <<data, options, tx, hashed, signed, returned, wire, sender>>

(* recoverTransaction().                                                      *)
RecoverTransaction ==
    /\ Unread
    /\ parsed' = {t \in FromSerialized(wire[1]) : VerifySignature(t)}
    /\ sender' = {t.publicKey[1] : t \in parsed'}
    /\ UNCHANGED <<data, options, tx, hashed, signed, returned, wire>>

(* toJSON(), which leaves out what is absent, then fromTxData() of it.        *)
ThroughJSON ==
    /\ tx # <<>> /\ returned = <<>>
    /\ returned' = <<Tx>>
    /\ parsed' = New(Tx, NoOptions)
    /\ UNCHANGED <<data, options, tx, hashed, signed, wire, sender>>

Next ==
    \/ \E d \in TxDatas, type \in {0, 2}, o \in Options : FromTxData(d, type, o)
    \/ \E b \in Byte : Overwrite(b)
    \/ \E seed \in Seeds : Sign(seed) \/ SignTransaction(seed)
    \/ Hash \/ Serializes \/ Alter \/ Parse \/ RecoverTransaction \/ ThroughJSON

Spec == Init /\ [][Next]_vars

-----------------------------------------------------------------------------
Unaltered(t) == wire # <<>> => wire[1] = [type |-> 2, values |-> Raw(t)]

(* A transaction is received as it was sent, field by field, through the wire *)
(* and through JSON; it is refused only if its init code needed the option    *)
(* the receiver does not have. One that signTransaction() returned is         *)
(* recovered to its signer, has gas for its data, and costs at most its       *)
(* maximum fee at any base fee.                                               *)
ReceivedAsSent ==
    returned # <<>> =>
        LET t == returned[1] IN
        /\ Unaltered(t) =>
              /\ parsed \subseteq {t}
              /\ FromValuesArray(Raw(t)) = IF options.unlimited /\ t.to = <<>>
                                           THEN New(t, NoOptions) ELSE {t}
              /\ sender \subseteq {k \in Seeds : t.publicKey = <<k>>}
        /\ (tx # <<>> /\ IsSigned(t) /\ ~IsSigned(tx[1])) =>
              /\ Validate(t)
              /\ t.publicKey[1] \in {s.by : s \in signed}
              /\ \A fee \in 0..MaxInteger :
                    GetUpfrontCost(t, fee) <= t.gasLimit * t.maxFeePerGas + t.value

(* Whoever a received transaction is attributed to has signed every field of  *)
(* it, whatever was done to it on the way (recoverTransaction).               *)
SenderSignedIt ==
    \A k \in sender : \A t \in parsed :
        [by |-> k, fields |-> SubSeq(Raw(t), 1, 11)] \in signed

-----------------------------------------------------------------------------
(* What comments, tests and documents say and the code does not do.           *)

(* "A transaction object by default gets frozen along initialization. This    *)
(* gives you strong additional security guarantees on the consistency of the  *)
(* tx parameters." (tx/types.ts:40): the cached hash is that of the           *)
(* transaction.                                                               *)
HashOfTransaction == hashed # <<>> => hashed[1] = Raw(Tx)
===============================================================================
