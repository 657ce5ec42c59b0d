------------------------------ MODULE MCAccounts ------------------------------
(* Model-checking instance of web3-qrl-accounts: the wallet, the accounts and *)
(* keystores it holds, Common and the transaction classes. They share no      *)
(* state that changes: a behaviour exercises one of them, `part'. In the      *)
(* wallet, account objects a and b spell the same address differently, c has  *)
(* an address of its own.                                                     *)
EXTENDS Wallet, Integers

CONSTANTS a, b, c, x, y

(* The constants of Keystore, Common and TypedTransaction.                    *)
CONSTANTS Seeds, Junk, Passwords, Bounds, Params, KeyBytes, MaxKeystores,
    Lists, GenesisHashes, MaxCommons, MaxBlock, MaxTime,
    TxDatas, Options, Base, MaxUint64, MaxInteger, AddressBytes, SlotBytes, WordBytes,
    MaxInitCodeSize, Price

MCKeyOf == [e \in {a, b, c} |-> IF e = c THEN y ELSE x]

VARIABLES part,
    array, account, job, keystores, opened, signatures,
    forkLists, commons,
    data, options, tx, hashed, signed, returned, wire, parsed, sender

keystoreVars == <<array, account, job, keystores, opened, signatures>>
commonVars == <<forkLists, commons>>
txVars == <<data, options, tx, hashed, signed, returned, wire, parsed, sender>>
mcVars == <<part, vars, keystoreVars, commonVars, txVars>>

-----------------------------------------------------------------------------
(* One Argon2id parameter below, at and above its bounds, the others within.  *)
MCBounds == [m |-> [min |-> 2, max |-> 3], t |-> [min |-> 2, max |-> 3],
             p |-> [min |-> 1, max |-> 2], dklen |-> [min |-> 1, max |-> 3]]
Usual == [m |-> 2, t |-> 2, p |-> 1, dklen |-> 2]
MCParams == {Usual} \cup {[Usual EXCEPT !.m = n] : n \in {1, 3, 4}}
                    \cup {[Usual EXCEPT !.dklen = n] : n \in {0, 1}}

MCPasswords == {<<1>>, <<0, 1>>, <<1, 1>>}

Ks == INSTANCE Keystore

-----------------------------------------------------------------------------
(* Hardforks after the first: by block, by time, at the same block or without *)
(* a date.                                                                    *)
Unhashed == [genesis |-> "none", marks |-> <<>>]
Fork(n, block, time) == [name |-> n, block |-> block, time |-> time, hash |-> Unhashed]
Dates == {<<0, -1>>, <<1, -1>>, <<-1, 1>>, <<-1, 2>>, <<-1, -1>>}
MCLists == {<<Fork("zond", 0, -1), Fork("f", s[1], s[2]), Fork("g", t[1], t[2])>> :
               s \in Dates, t \in Dates}

Cm == INSTANCE Common

-----------------------------------------------------------------------------
(* A transaction that is accepted, and its variations in one or two fields.   *)
Plain == [chainId |-> 1, nonce |-> 0, maxPriorityFeePerGas |-> 1, maxFeePerGas |-> 2,
          gasLimit |-> 6, to |-> <<1, 0>>, value |-> 2, data |-> <<0, 1>>, accessList |-> <<>>,
          descriptor |-> <<>>, extraParams |-> <<>>, signature |-> <<>>, publicKey |-> <<>>]

Variations(d) ==
    {[d EXCEPT !.chainId = n] : n \in {-1, 0, 2}}
    \cup {[d EXCEPT !.nonce = n] : n \in {6, 7}}
    \cup {[d EXCEPT !.maxPriorityFeePerGas = n] : n \in {0, 2, 3}}
    \cup {[d EXCEPT !.maxFeePerGas = n] : n \in {1, 3}}
    \cup {[d EXCEPT !.gasLimit = n] : n \in {3, 7, 8}}
    \cup {[d EXCEPT !.to = n] : n \in {<<>>, <<1>>}}
    \cup {[d EXCEPT !.value = n] : n \in {0, 15, 16}}
    \cup {[d EXCEPT !.data = n] : n \in {<<>>, <<1>>, <<1, 0, 1>>}}
    \cup {[d EXCEPT !.accessList = n] : n \in {<<<<<<1, 1>>, <<<<0>>>>>>>>, <<<<<<1>>, <<>>>>>>}}
    \cup {[d EXCEPT !.extraParams = <<1>>]}

MCTxDatas ==
    {Plain} \cup Variations(Plain)
            \cup {[Plain EXCEPT !.to = <<>>, !.data = n, !.chainId = 2] : n \in {<<>>, <<1>>, <<1, 0, 1>>}}
MCOptions == {[unlimited |-> u, common |-> n] : u \in BOOLEAN, n \in {-1, 2}}
MCPrice == [i \in {"tx", "txCreation", "zero", "nonZero", "word", "address", "slot"} |->
              IF i \in {"tx", "nonZero"} THEN 2 ELSE 1]

Tt == INSTANCE TypedTransaction

ASSUME InstancesAssumption == Ks!ConstantsOK /\ Cm!ConstantsOK /\ Tt!ConstantsOK

-----------------------------------------------------------------------------
MCInit ==
    /\ part \in {"wallet", "keystores", "common", "transactions"}
    /\ Init /\ Ks!Init /\ Cm!Init /\ Tt!Init
    /\ part # "keystores" => array = CHOOSE s \in Seeds : TRUE

MCNext ==
    \/ part = "wallet" /\ Next /\ UNCHANGED <<part, keystoreVars, commonVars, txVars>>
    \/ part = "keystores" /\ Ks!Next /\ UNCHANGED <<part, vars, commonVars, txVars>>
    \/ part = "common" /\ Cm!Next /\ UNCHANGED <<part, vars, keystoreVars, txVars>>
    \/ part = "transactions" /\ Tt!Next /\ UNCHANGED <<part, vars, keystoreVars, commonVars>>

MCSpec == MCInit /\ [][MCNext]_mcVars

-----------------------------------------------------------------------------
(* What account.encrypt() has made opens with its password to its account,    *)
(* whatever the application did to its array meanwhile, and an edited         *)
(* keystore opens to no account it does not name (account.ts).                *)
KeystoresOpen == Ks!KeystoresOpen

(* The hardfork found for a block and a time is the last one reached, those   *)
(* active on a block are the ones up to it, the block said to come next is    *)
(* where the answer changes, and a fork hash on record finds a hardfork of    *)
(* the block or time it was computed for (common.ts).                         *)
ForksAgree == Cm!ScheduleAgrees /\ Cm!ForkHashNamesFork

(* A transaction is received as it was sent, through the wire and JSON, and a *)
(* signed one is recovered to its signer (eip1559Transaction.ts).             *)
ReceivedAsSent == Tt!ReceivedAsSent

(* Whoever a received transaction is attributed to has signed every field of  *)
(* it (recoverTransaction of account.ts).                                     *)
SenderSignedIt == Tt!SenderSignedIt

(* What comments say and the code does not do.                                *)
ForkHashesAreOwn == Cm!ForkHashesAreOwn
HashOfTransaction == Tt!HashOfTransaction
SignsAsItself == Ks!SignsAsItself
EncryptsWhatWasGiven == Ks!EncryptsWhatWasGiven
===============================================================================
