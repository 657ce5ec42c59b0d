--------------------------- MODULE TransactionProofs ---------------------------
(* Proofs about the three stages of a transaction, for every value of the     *)
(* constants: its preparation and signing by any number of concurrent calls,  *)
(* its sending, and the watch for its confirmations. The invariants of the    *)
(* stages are carried over to the composition that TLC checks.                *)
EXTENDS MCTransactions, Integers, SequenceTheorems, TLAPS

-----------------------------------------------------------------------------
(* TransactionSigning.                                                        *)

(* The types of the constants.                                               *)
LEMMA SigningConstants ==
  /\ WithSeed \in BOOLEAN /\ MaxMined \in Nat
  /\ FillGasPrice \subseteq BOOLEAN /\ DefaultCommon \subseteq BOOLEAN
  /\ DefaultAccount \in {"signer", "other", "none"}
BY ConstantsAssumption DEF ConstantsAssumption, Signing!ConstantsOK

(* The stages that ask the node for something, in order.                     *)
LEMMA StageNames ==
  /\ DOMAIN Signing!Stages = 1..4 /\ Len(Signing!Stages) = 4
  /\ Signing!Stages[1] = "chainId" /\ Signing!Stages[2] = "networkId"
  /\ Signing!Stages[3] = "fees" /\ Signing!Stages[4] = "gas"
  /\ Signing!Range(Signing!Stages) = {"chainId", "networkId", "fees", "gas"}
<1>1. /\ DOMAIN Signing!Stages = 1..4 /\ Len(Signing!Stages) = 4
      /\ Signing!Stages[1] = "chainId" /\ Signing!Stages[2] = "networkId"
      /\ Signing!Stages[3] = "fees" /\ Signing!Stages[4] = "gas"
  BY DEF Signing!Stages
<1>2. Signing!Range(Signing!Stages) = {"chainId", "networkId", "fees", "gas"}
  <2> HIDE DEF Signing!Stages
  <2> QED BY <1>1 DEF Signing!Range
<1> QED BY <1>1, <1>2

(* When each of them does.                                                   *)
LEMMA Needing ==
  ASSUME NEW call
  PROVE  /\ Signing!Needs(call, "chainId") <=> call.tx.chainId = Signing!Absent /\ ~call.tx.common
         /\ Signing!Needs(call, "networkId")
         /\ Signing!Needs(call, "fees") <=> call.fill
         /\ Signing!Needs(call, "gas") <=> ~call.tx.gas
BY DEF Signing!Needs

(* The fields of a transaction that is filled in, and of a call.              *)
LEMMA DraftFields ==
  ASSUME NEW tx \in Signing!Drafts
  PROVE  /\ tx.from \in {"none", "signer", "other"} /\ tx.nonce \in Nat
         /\ tx.clash \in BOOLEAN /\ tx.common \in BOOLEAN /\ tx.chain \in BOOLEAN
         /\ tx.hardfork \in BOOLEAN /\ tx.gas \in BOOLEAN
         /\ tx.chainId \in {0, 1, 2} /\ tx.fees \in {"none", "one", "both"}
         /\ tx.type \in {"0x1", "0x2"}
BY DEF Signing!Drafts, Signing!Accounts, Signing!Absent, Signing!NodeChain, Signing!CustomChain

(* What an application passes is a draft already.                            *)
LEMMA GivenFields ==
  ASSUME NEW tx \in Signing!Transactions
  PROVE  tx \in Signing!Drafts /\ tx.nonce \in {0, 2}
<1> USE DEF Signing!May
<1>1. /\ Signing!May("from", {"none", "signer", "other"}, "signer") \subseteq {"none", "signer", "other"}
      /\ Signing!May("fees", {"none", "one", "both"}, "both") \subseteq {"none", "one", "both"}
      /\ Signing!May("type", {"0x1", "0x2"}, "0x2") \subseteq {"0x1", "0x2"}
  OBVIOUS
<1>2. /\ Signing!May("nonce", {Signing!Absent, Signing!GivenNonce}, Signing!Absent) \subseteq {0, 2}
      /\ Signing!May("chainId", {Signing!Absent, Signing!NodeChain, Signing!CustomChain}, Signing!Absent)
           \subseteq {0, 1, 2}
  BY DEF Signing!Absent, Signing!NodeChain, Signing!CustomChain, Signing!GivenNonce
<1>3. \A field : Signing!May(field, BOOLEAN, FALSE) \subseteq BOOLEAN
  OBVIOUS
<1> USE DEF Signing!Transactions
<1> HIDE DEF Signing!May
<1>4. /\ tx.from \in {"none", "signer", "other"} /\ tx.fees \in {"none", "one", "both"}
      /\ tx.type \in {"0x1", "0x2"}
  BY <1>1
<1>5. tx.nonce \in {0, 2} /\ tx.chainId \in {0, 1, 2}
  BY <1>2
<1>6. /\ tx.clash \in BOOLEAN /\ tx.common \in BOOLEAN /\ tx.chain \in BOOLEAN
      /\ tx.hardfork \in BOOLEAN /\ tx.gas \in BOOLEAN
  BY <1>3
<1>7. tx = [from |-> tx.from, nonce |-> tx.nonce, clash |-> tx.clash, common |-> tx.common,
            chain |-> tx.chain, hardfork |-> tx.hardfork, chainId |-> tx.chainId,
            gas |-> tx.gas, fees |-> tx.fees, type |-> tx.type]
  OBVIOUS
<1> HIDE DEF Signing!Transactions
<1> QED
  BY <1>4, <1>5, <1>6, <1>7 DEF Signing!Drafts, Signing!Accounts, Signing!Absent,
     Signing!NodeChain, Signing!CustomChain

(* The fields of a call that has begun.                                      *)
LEMMA CallFields ==
  ASSUME NEW call \in Signing!Begun
  PROVE  /\ call.pc \in {"nonce", "signed", "mined", "refused", "chainId", "networkId", "fees", "gas"}
         /\ call.given \in Signing!Transactions /\ call.tx \in Signing!Drafts
         /\ call.fill \in BOOLEAN /\ call.defaulted \in BOOLEAN
         /\ call.why \in {"none", "from", "nonce", "data", "type", "invalid", "rpc"}
BY StageNames DEF Signing!Begun

(* Refusing a call, and moving on to another stage, keep what it has.         *)
LEMMA Moving ==
  ASSUME NEW call \in Signing!Begun,
         NEW pc_ \in {"nonce", "signed", "mined", "refused", "chainId", "networkId", "fees", "gas"}
  PROVE  LET r == [call EXCEPT !.pc = pc_]
         IN  /\ r \in Signing!Begun /\ r.pc = pc_
             /\ r.given = call.given /\ r.tx = call.tx /\ r.fill = call.fill
             /\ r.defaulted = call.defaulted /\ r.why = call.why
<1> DEFINE r == [call EXCEPT !.pc = pc_]
<1>1. r \in Signing!Begun
  BY StageNames DEF Signing!Begun
<1>2. r.pc = pc_
  BY DEF Signing!Begun
<1>3. /\ r.given = call.given /\ r.tx = call.tx /\ r.fill = call.fill
      /\ r.defaulted = call.defaulted /\ r.why = call.why
  BY DEF Signing!Begun
<1> QED BY <1>1, <1>2, <1>3

(* A refusal notes its reason, and keeps what the call has.                  *)
LEMMA Refusing ==
  ASSUME NEW call \in Signing!Begun,
         NEW why \in {"from", "nonce", "data", "type", "invalid", "rpc"}
  PROVE  LET r == [call EXCEPT !.pc = "refused", !.why = why]
         IN  /\ r \in Signing!Begun /\ r.pc = "refused" /\ r.why = why
             /\ r.given = call.given /\ r.tx = call.tx /\ r.fill = call.fill
             /\ r.defaulted = call.defaulted
<1> DEFINE r == [call EXCEPT !.pc = "refused", !.why = why]
<1>1. r \in Signing!Begun
  BY StageNames DEF Signing!Begun
<1>2. r.pc = "refused" /\ r.why = why
  BY DEF Signing!Begun
<1>3. /\ r.given = call.given /\ r.tx = call.tx /\ r.fill = call.fill
      /\ r.defaulted = call.defaulted
  BY DEF Signing!Begun
<1> QED BY <1>1, <1>2, <1>3

(* Where the builder goes after stage i: to the end, or to the first of the   *)
(* later stages that has something to ask for.                                *)
LEMMA Proceeding ==
  ASSUME NEW c, NEW call \in Signing!Begun, NEW i \in 0..4, Signing!Proceed(c, call, i)
  PROVE  \E r \in Signing!Begun :
            /\ calls' = [calls EXCEPT ![c] = r]
            /\ r.given = call.given /\ r.tx = call.tx /\ r.fill = call.fill
            /\ r.defaulted = call.defaulted
            /\ \/ /\ \A k \in (i + 1)..4 : ~Signing!Needs(call, Signing!Stages[k])
                  /\ \/ r.pc = "signed" /\ Signing!Valid(call.tx)
                     \/ r.pc = "refused" /\ ~Signing!Valid(call.tx)
               \/ r.pc = "refused" /\ call.tx.type # "0x2"
               \/ \E j \in (i + 1)..4 :
                     /\ r.pc = Signing!Stages[j] /\ Signing!Needs(call, Signing!Stages[j])
                     /\ \A k \in (i + 1)..(j - 1) : ~Signing!Needs(call, Signing!Stages[k])
<1> DEFINE waits == {j \in (i + 1)..Len(Signing!Stages) : Signing!Needs(call, Signing!Stages[j])}
           j == CHOOSE k \in waits : \A l \in waits : k <= l
<1>1. waits = {j_ \in (i + 1)..4 : Signing!Needs(call, Signing!Stages[j_])}
  BY StageNames
<1>2. \/ /\ waits = {}
         /\ IF Signing!Valid(call.tx) THEN Signing!Goto(c, [call EXCEPT !.pc = "signed"])
                                      ELSE Signing!Refuse(c, call, "invalid")
      \/ waits # {} /\ call.tx.type # "0x2" /\ Signing!Refuse(c, call, "type")
      \/ waits # {} /\ Signing!Goto(c, [call EXCEPT !.pc = Signing!Stages[j]])
  BY DEF Signing!Proceed
<1> HIDE DEF waits, j
<1>3. CASE waits = {}
  <2>1. \A k \in (i + 1)..4 : ~Signing!Needs(call, Signing!Stages[k])
    BY <1>1, <1>3
  <2>2. CASE Signing!Valid(call.tx)
    <3>1. calls' = [calls EXCEPT ![c] = [call EXCEPT !.pc = "signed"]]
      BY <1>2, <1>3, <2>2 DEF Signing!Goto
    <3> DEFINE r == [call EXCEPT !.pc = "signed"]
    <3>2. /\ r \in Signing!Begun /\ r.pc = "signed"
          /\ r.given = call.given /\ r.tx = call.tx /\ r.fill = call.fill
          /\ r.defaulted = call.defaulted
      BY Moving
    <3> HIDE DEF r
    <3>3. calls' = [calls EXCEPT ![c] = r]
      BY <3>1 DEF r
    <3> QED BY <3>2, <3>3, <2>1, <2>2
  <2>3. CASE ~Signing!Valid(call.tx)
    <3>1. calls' = [calls EXCEPT ![c] = [call EXCEPT !.pc = "refused", !.why = "invalid"]]
      BY <1>2, <1>3, <2>3 DEF Signing!Goto, Signing!Refuse
    <3> DEFINE r == [call EXCEPT !.pc = "refused", !.why = "invalid"]
    <3>2. /\ r \in Signing!Begun /\ r.pc = "refused"
          /\ r.given = call.given /\ r.tx = call.tx /\ r.fill = call.fill
          /\ r.defaulted = call.defaulted
      BY Refusing
    <3> HIDE DEF r
    <3>3. calls' = [calls EXCEPT ![c] = r]
      BY <3>1 DEF r
    <3> QED BY <3>2, <3>3, <2>1, <2>3
  <2> QED BY <2>2, <2>3
<1>4. CASE waits # {} /\ call.tx.type # "0x2" /\ Signing!Refuse(c, call, "type")
  <2>1. calls' = [calls EXCEPT ![c] = [call EXCEPT !.pc = "refused", !.why = "type"]]
    BY <1>4 DEF Signing!Goto, Signing!Refuse
  <2> DEFINE r == [call EXCEPT !.pc = "refused", !.why = "type"]
  <2>2. /\ r \in Signing!Begun /\ r.pc = "refused"
        /\ r.given = call.given /\ r.tx = call.tx /\ r.fill = call.fill
        /\ r.defaulted = call.defaulted
    BY Refusing
  <2> HIDE DEF r
  <2>3. calls' = [calls EXCEPT ![c] = r]
    BY <2>1 DEF r
  <2> QED BY <2>2, <2>3, <1>4
<1>5. CASE waits # {} /\ Signing!Goto(c, [call EXCEPT !.pc = Signing!Stages[j]])
  <2>1. \E k \in waits : \A l \in waits : k <= l
    <3>1. waits \subseteq 1..4
      BY <1>1
    <3> QED BY <1>5, <3>1
  <2>2. j \in waits /\ \A l \in waits : j <= l
    BY <2>1 DEF j
  <2>3. /\ j \in (i + 1)..4 /\ Signing!Needs(call, Signing!Stages[j])
        /\ \A k \in (i + 1)..(j - 1) : ~Signing!Needs(call, Signing!Stages[k])
    BY <2>2, <1>1
  <2>4. Signing!Stages[j] \in {"nonce", "signed", "mined", "refused",
                               "chainId", "networkId", "fees", "gas"}
    <3>1. j \in {1, 2, 3, 4}
      BY <2>3
    <3> HIDE DEF j
    <3> QED BY <3>1, StageNames
  <2>5. PICK s \in {"nonce", "signed", "mined", "refused", "chainId", "networkId", "fees", "gas"} :
             s = Signing!Stages[j]
    BY <2>4
  <2> DEFINE r == [call EXCEPT !.pc = s]
  <2>6. calls' = [calls EXCEPT ![c] = r]
    BY <1>5, <2>5 DEF Signing!Goto
  <2>7. /\ r \in Signing!Begun /\ r.pc = s
        /\ r.given = call.given /\ r.tx = call.tx /\ r.fill = call.fill
        /\ r.defaulted = call.defaulted
    <3>1. r \in Signing!Begun
      BY StageNames DEF Signing!Begun
    <3>2. r.pc = s
      BY DEF Signing!Begun
    <3>3. /\ r.given = call.given /\ r.tx = call.tx /\ r.fill = call.fill
          /\ r.defaulted = call.defaulted
      BY DEF Signing!Begun
    <3> QED BY <3>1, <3>2, <3>3
  <2> HIDE DEF r
  <2> QED BY <2>3, <2>5, <2>6, <2>7
<1> QED BY <1>2, <1>3, <1>4, <1>5

(* What a call that is not refused carries over from what it was given, and   *)
(* what it has obtained once the stages up to i are behind it.                *)
Carried(call) ==
  Signing!Given(call) /\ (WithSeed => call.tx.from = "signer")

Behind(call, i) ==
  /\ i >= 1 => call.tx.chainId # 0 \/ call.tx.common
  /\ i >= 3 /\ call.fill => call.tx.fees = "both"
  /\ i >= 4 => call.tx.gas

(* A well-formed transaction that has obtained all of it is valid.            *)
LEMMA CompleteIsValid ==
  ASSUME NEW call \in Signing!Begun, Carried(call), Signing!Built(call), Behind(call, 4),
         ~call.defaulted, Signing!WellFormed(call)
  PROVE  Signing!Valid(call.tx)
<1> DEFINE tx == call.tx
           given == call.given
<1>1. /\ tx.clash \in BOOLEAN /\ tx.common \in BOOLEAN /\ tx.chain \in BOOLEAN
      /\ tx.hardfork \in BOOLEAN /\ tx.gas \in BOOLEAN
      /\ given.common \in BOOLEAN /\ given.chain \in BOOLEAN /\ given.hardfork \in BOOLEAN
  BY CallFields, DraftFields, GivenFields
<1>2. /\ given.fees = "both" \/ call.fill
      /\ given.type = "0x2"
      /\ given.common => given.chainId = 2 /\ ~given.chain /\ ~given.hardfork
  BY DEF Signing!WellFormed, Signing!CustomChain
<1>3. /\ tx.type = given.type
      /\ tx.chainId = given.chainId \/ (given.chainId = 0 /\ tx.chainId = 1)
      /\ given.fees = "both" => tx.fees = "both"
  BY DEF Carried, Signing!Given, Signing!Absent, Signing!NodeChain
<1>4. tx.common = given.common
  BY DEF Signing!Built
<1>5. tx.chain = (given.chain \/ ~given.common) /\ tx.hardfork = (given.hardfork \/ ~given.common)
  BY DEF Signing!Built
<1>6. /\ tx.chainId # 0 \/ tx.common
      /\ call.fill => tx.fees = "both"
      /\ tx.gas
  BY DEF Behind
<1> HIDE DEF tx, given
<1>7. tx.type = "0x2" /\ tx.fees = "both" /\ tx.gas
  BY <1>2, <1>3, <1>6
<1>8. tx.common => tx.chainId = 2 /\ ~tx.chain /\ ~tx.hardfork
  BY <1>1, <1>2, <1>3, <1>4, <1>5
<1>9. ~tx.common => tx.chain /\ tx.hardfork /\ tx.chainId # 0
  BY <1>1, <1>4, <1>5, <1>6
<1> QED
  BY <1>1, <1>7, <1>8, <1>9 DEF tx, Signing!Valid, Signing!Absent, Signing!CustomChain

(* Where a call is once it went on after stage i, and why it may be there.    *)
LEMMA GoingOn ==
  ASSUME NEW c, NEW call \in Signing!Begun, NEW i \in 0..4, Signing!Proceed(c, call, i),
         Carried(call), Signing!Built(call), Behind(call, i)
  PROVE  \E r \in Signing!Begun :
            /\ calls' = [calls EXCEPT ![c] = r]
            /\ r.given = call.given /\ r.tx = call.tx
            /\ r.pc \in {"signed", "refused", "chainId", "networkId", "fees", "gas"}
            /\ Signing!Given(r) /\ Signing!Reached(r)
<1>1. PICK r \in Signing!Begun :
            /\ calls' = [calls EXCEPT ![c] = r]
            /\ r.given = call.given /\ r.tx = call.tx /\ r.fill = call.fill
            /\ r.defaulted = call.defaulted
            /\ \/ /\ \A k \in (i + 1)..4 : ~Signing!Needs(call, Signing!Stages[k])
                  /\ \/ r.pc = "signed" /\ Signing!Valid(call.tx)
                     \/ r.pc = "refused" /\ ~Signing!Valid(call.tx)
               \/ r.pc = "refused" /\ call.tx.type # "0x2"
               \/ \E j \in (i + 1)..4 :
                     /\ r.pc = Signing!Stages[j] /\ Signing!Needs(call, Signing!Stages[j])
                     /\ \A k \in (i + 1)..(j - 1) : ~Signing!Needs(call, Signing!Stages[k])
  BY Proceeding
<1>2. Signing!Given(r)
  BY <1>1 DEF Carried, Signing!Given
<1>3. Signing!Built(r)
  BY <1>1 DEF Signing!Built
<1>4. Signing!WellFormed(r) <=> Signing!WellFormed(call)
  BY <1>1 DEF Signing!WellFormed
<1> DEFINE There ==
             /\ r.pc \in {"signed", "refused", "chainId", "networkId", "fees", "gas"}
             /\ r.pc = "chainId" => r.tx.chainId = Signing!Absent
             /\ r.pc \in {"networkId", "fees", "gas"} => r.tx.chainId # Signing!Absent \/ r.tx.common
             /\ r.pc = "gas" /\ r.fill => r.tx.fees = "both"
             /\ r.pc = "signed" => Signing!Valid(r.tx)
             /\ r.pc = "refused" /\ r.why # "rpc" /\ ~r.defaulted => ~Signing!WellFormed(r)
<1>5. ASSUME \A k \in (i + 1)..4 : ~Signing!Needs(call, Signing!Stages[k]),
             \/ r.pc = "signed" /\ Signing!Valid(call.tx)
             \/ r.pc = "refused" /\ ~Signing!Valid(call.tx)
      PROVE  There
  <2>1. CASE r.pc = "signed" /\ Signing!Valid(call.tx)
    BY <1>1, <2>1
  <2>2. CASE r.pc = "refused" /\ ~Signing!Valid(call.tx)
    <3>1. i >= 2
      <4>1. CASE i < 2
        <5>1. ~Signing!Needs(call, Signing!Stages[2])
          BY <1>5, <4>1
        <5> QED BY <5>1, StageNames, Needing
      <4> QED BY <4>1
    <3>2. /\ call.tx.chainId # 0 \/ call.tx.common
          /\ i >= 3 /\ call.fill => call.tx.fees = "both"
          /\ i = 4 => call.tx.gas
      BY <3>1 DEF Behind
    <3>3. i = 2 => ~call.fill
      <4>1. i = 2 => ~Signing!Needs(call, Signing!Stages[3])
        BY <1>5
      <4> QED BY <4>1, StageNames, Needing
    <3>4. i < 4 => call.tx.gas
      <4>1. i < 4 => ~Signing!Needs(call, Signing!Stages[4])
        BY <1>5
      <4> QED BY <4>1, StageNames, Needing
    <3>5. call.tx.gas
      BY <3>2, <3>4
    <3>6. call.fill => call.tx.fees = "both"
      BY <3>1, <3>2, <3>3
    <3>7. Behind(call, 4)
      BY <3>2, <3>5, <3>6 DEF Behind
    <3>8. ~call.defaulted => ~Signing!WellFormed(call)
      BY <2>2, <3>7, CompleteIsValid
    <3> QED BY <1>1, <1>4, <2>2, <3>8
  <2> QED BY <1>5, <2>1, <2>2
<1>6. ASSUME r.pc = "refused", call.tx.type # "0x2" PROVE There
  <2>1. ~Signing!WellFormed(call)
    BY <1>6 DEF Carried, Signing!Given, Signing!WellFormed
  <2> QED BY <1>4, <1>6, <2>1
<1>7. ASSUME NEW j \in (i + 1)..4,
             r.pc = Signing!Stages[j], Signing!Needs(call, Signing!Stages[j]),
             \A k \in (i + 1)..(j - 1) : ~Signing!Needs(call, Signing!Stages[k])
      PROVE  There
  <2>1. CASE j = 1
    <3>1. r.pc = "chainId" /\ call.tx.chainId = Signing!Absent
      BY <1>7, <2>1, StageNames, Needing
    <3> QED BY <1>1, <3>1
  <2>2. CASE j # 1
    <3>1. call.tx.chainId # Signing!Absent \/ call.tx.common
      <4>1. CASE i = 0
        <5>1. ~Signing!Needs(call, Signing!Stages[1])
          BY <1>7, <2>2, <4>1
        <5> QED BY <5>1, StageNames, Needing
      <4>2. CASE i # 0
        BY <4>2 DEF Behind, Signing!Absent
      <4> QED BY <4>1, <4>2
    <3>2. j \in {2, 3, 4}
      BY <2>2
    <3>3. r.pc \in {"networkId", "fees", "gas"}
      BY <1>7, <3>2, StageNames
    <3>4. r.pc = "gas" => j = 4
      BY <1>7, <3>2, StageNames
    <3>5. j = 4 /\ call.fill => call.tx.fees = "both"
      <4>1. CASE i < 3
        <5>1. j = 4 => ~Signing!Needs(call, Signing!Stages[3])
          BY <1>7, <4>1
        <5> QED BY <5>1, StageNames, Needing
      <4>2. CASE i >= 3
        BY <4>2 DEF Behind
      <4> QED BY <4>1, <4>2
    <3> QED BY <1>1, <3>1, <3>3, <3>4, <3>5
  <2> QED BY <2>1, <2>2
<1>8. There
  <2> HIDE DEF There
  <2> QED BY <1>1, <1>5, <1>6, <1>7
<1>9. Signing!Reached(r)
  BY <1>3, <1>8, StageNames DEF Signing!Reached
<1> QED BY <1>1, <1>2, <1>8, <1>9

-----------------------------------------------------------------------------
(* A call of which something is known has begun.                              *)
LEMMA CallBegan ==
  ASSUME Signing!Inv, NEW c \in Calls, calls[c].pc # "idle"
  PROVE  /\ calls[c] \in Signing!Begun
         /\ Signing!Given(calls[c]) /\ Signing!Reached(calls[c])
BY DEF Signing!Inv, Signing!TypeOK, Signing!Traced, Signing!At, Signing!Idle

(* One call changes, and is traced again.                                     *)
LEMMA OneCall ==
  ASSUME Signing!Inv, NEW c \in Calls, NEW r \in Signing!Begun \cup {Signing!Idle},
         calls' = [calls EXCEPT ![c] = r],
         r.pc # "idle" => Signing!Given(r) /\ Signing!Reached(r)
  PROVE  /\ calls' \in [Calls -> {Signing!Idle} \cup Signing!Begun]
         /\ calls'[c] = r /\ \A d \in Calls \ {c} : calls'[d] = calls[d]
         /\ Signing!Traced'
<1>1. calls \in [Calls -> {Signing!Idle} \cup Signing!Begun] /\ Signing!Traced
  BY DEF Signing!Inv, Signing!TypeOK
<1> HIDE DEF Signing!Idle, Signing!Begun
<1>2. /\ calls' \in [Calls -> {Signing!Idle} \cup Signing!Begun]
      /\ calls'[c] = r /\ \A d \in Calls \ {c} : calls'[d] = calls[d]
  BY <1>1
<1>3. \A d \in Calls : calls'[d].pc # "idle" => Signing!Given(calls'[d]) /\ Signing!Reached(calls'[d])
  BY <1>1, <1>2 DEF Signing!Traced, Signing!At
<1>4. ASSUME NEW d \in Calls
      PROVE  /\ Signing!Given(calls[d])' <=> Signing!Given(calls'[d])
             /\ Signing!Reached(calls[d])' <=> Signing!Reached(calls'[d])
  BY DEF Signing!Given, Signing!Reached, Signing!Untouched, Signing!Built, Signing!WellFormed,
         Signing!Sender, Signing!Valid
<1>5. Signing!Traced'
  BY <1>3, <1>4 DEF Signing!Traced, Signing!At
<1> QED BY <1>2, <1>5

(* A nonce that leaves no gap to the next one of its account, and is the next *)
(* one if transactions are prepared one by one.                               *)
FollowsOn(nonce, next) == nonce <= next /\ (oneByOne => nonce = next)

(* The signer's count never falls.                                            *)
CountGrows ==
  /\ count["signer"] \in Nat /\ count'["signer"] \in Nat
  /\ count["signer"] <= count'["signer"]

LEMMA CountStays == ASSUME Signing!Inv, UNCHANGED count PROVE CountGrows
<1>1. count["signer"] \in 1..(MaxMined + 1)
  BY DEF Signing!Inv, Signing!TypeOK, Signing!Accounts
<1> QED BY <1>1, SigningConstants DEF CountGrows

(* The nonces, when one call goes on and the account's count does not fall.   *)
LEMMA NonceOfOne ==
  ASSUME Signing!Inv, NEW c \in Calls, NEW r, CountGrows,
         calls'[c] = r, \A d \in Calls \ {c} : calls'[d] = calls[d], UNCHANGED oneByOne,
         oneByOne => \A d \in Calls \ {c} : ~Signing!UnderWay(d),
         \/ r.pc \in {"idle", "refused", "mined"}
         \/ r.pc = "nonce"
         \/ WithSeed /\ r.given.nonce = Signing!Absent =>
               FollowsOn(r.tx.nonce, count'["signer"])
  PROVE  Signing!NonceIsNext'
<1>1. oneByOne' => \A d \in Calls : Signing!UnderWay(d)' => d = c
  BY DEF Signing!UnderWay
<1>2. ASSUME WithSeed, NEW d \in Calls, Signing!UnderWay(d)', ~Signing!At(d, "nonce")',
             calls'[d].given.nonce = Signing!Absent
      PROVE  FollowsOn(calls'[d].tx.nonce, count'["signer"])
  <2>1. CASE d = c
    <3>1. r.pc \notin {"idle", "refused", "mined", "nonce"}
      BY <1>2, <2>1 DEF Signing!UnderWay, Signing!At
    <3> QED BY <1>2, <2>1, <3>1
  <2>2. CASE d # c
    <3>1. calls'[d] = calls[d] /\ Signing!UnderWay(d) /\ ~Signing!At(d, "nonce")
      BY <1>2, <2>2 DEF Signing!UnderWay, Signing!At
    <3>2. ~oneByOne
      BY <2>2, <3>1
    <3>3. calls[d].tx.nonce <= count["signer"]
      BY <1>2, <3>1 DEF Signing!Inv, Signing!NonceIsNext
    <3>4. calls[d].tx.nonce \in Nat
      BY <3>1, CallBegan, DraftFields DEF Signing!UnderWay, Signing!Begun
    <3> QED BY <3>1, <3>2, <3>3, <3>4 DEF FollowsOn, CountGrows
  <2> QED BY <2>1, <2>2
<1> QED BY <1>1, <1>2 DEF Signing!NonceIsNext, FollowsOn

(* An application that waits has no other call under way.                    *)
LEMMA OthersWait ==
  ASSUME Signing!Inv, NEW c \in Calls, Signing!UnderWay(c)
  PROVE  oneByOne => \A d \in Calls \ {c} : ~Signing!UnderWay(d)
BY DEF Signing!Inv, Signing!NonceIsNext

(* No call has begun.                                                        *)
LEMMA SigningInit == Signing!Init => Signing!Inv
<1> SUFFICES ASSUME Signing!Init PROVE Signing!Inv
  OBVIOUS
<1>1. oneByOne \in BOOLEAN /\ calls = [c \in Calls |-> Signing!Idle] /\ hasCommon \in DefaultCommon
  BY DEF Signing!Init
<1>2. count \in [Signing!Accounts -> 1..(MaxMined + 1)]
  <2>1. 1 \in 1..(MaxMined + 1)
    BY SigningConstants
  <2> QED BY <2>1 DEF Signing!Init
<1>3. Signing!TypeOK
  BY <1>1, <1>2 DEF Signing!TypeOK
<1>4. \A c \in Calls : calls[c].pc = "idle"
  BY <1>1 DEF Signing!Idle
<1>5. Signing!Traced /\ Signing!NonceIsNext
  BY <1>4 DEF Signing!Traced, Signing!At, Signing!NonceIsNext, Signing!UnderWay
<1> QED BY <1>3, <1>5 DEF Signing!Inv

-----------------------------------------------------------------------------
(* The chain of a transaction is filled in, and nothing else of it changes.   *)
LEMMA Filling ==
  ASSUME NEW tx \in Signing!Drafts, hasCommon \in BOOLEAN
  PROVE  /\ Signing!Filled(tx) \in Signing!Drafts
         /\ Signing!Filled(tx).common = (tx.common \/ hasCommon)
         /\ Signing!Filled(tx).chain = (tx.chain \/ ~tx.common)
         /\ Signing!Filled(tx).hardfork = (tx.hardfork \/ ~tx.common)
         /\ Signing!Filled(tx).from = tx.from /\ Signing!Filled(tx).nonce = tx.nonce
         /\ Signing!Filled(tx).clash = tx.clash /\ Signing!Filled(tx).chainId = tx.chainId
         /\ Signing!Filled(tx).gas = tx.gas /\ Signing!Filled(tx).fees = tx.fees
         /\ Signing!Filled(tx).type = tx.type
<1>1. PICK a \in BOOLEAN : a = (tx.common \/ hasCommon)
  OBVIOUS
<1>2. PICK b \in BOOLEAN : b = (tx.chain \/ ~tx.common)
  OBVIOUS
<1>3. PICK d \in BOOLEAN : d = (tx.hardfork \/ ~tx.common)
  OBVIOUS
<1>4. Signing!Filled(tx) = [tx EXCEPT !.common = a, !.chain = b, !.hardfork = d]
  BY <1>1, <1>2, <1>3 DEF Signing!Filled
<1> DEFINE u == [tx EXCEPT !.common = a, !.chain = b, !.hardfork = d]
<1>5. u \in Signing!Drafts
  BY DEF Signing!Drafts
<1>6. u.common = a /\ u.chain = b /\ u.hardfork = d
  BY DEF Signing!Drafts
<1>7. /\ u.from = tx.from /\ u.nonce = tx.nonce /\ u.clash = tx.clash
      /\ u.chainId = tx.chainId /\ u.gas = tx.gas /\ u.fees = tx.fees /\ u.type = tx.type
  BY DEF Signing!Drafts
<1> HIDE DEF u
<1>8. Signing!Filled(tx) = u
  BY <1>4 DEF u
<1> QED BY <1>1, <1>2, <1>3, <1>5, <1>6, <1>7, <1>8

(* The builder up to its first request: the data are checked, the chain is    *)
(* filled in.                                                                 *)
LEMMA Building ==
  ASSUME NEW c, NEW call \in Signing!Begun, Signing!Build(c, call), hasCommon \in BOOLEAN,
         Carried(call), call.tx.clash = call.given.clash, call.tx.common = call.given.common,
         call.tx.chain = call.given.chain, call.tx.hardfork = call.given.hardfork
  PROVE  \E r \in Signing!Begun :
            /\ calls' = [calls EXCEPT ![c] = r]
            /\ r.given = call.given /\ r.tx.nonce = call.tx.nonce
            /\ r.pc \in {"signed", "refused", "chainId", "networkId", "fees", "gas"}
            /\ Signing!Given(r) /\ Signing!Reached(r)
<1>1. CASE call.tx.clash
  <2> DEFINE r == [call EXCEPT !.pc = "refused", !.why = "data"]
  <2>1. /\ r \in Signing!Begun /\ r.pc = "refused"
        /\ r.given = call.given /\ r.tx = call.tx
    BY Refusing
  <2>2. calls' = [calls EXCEPT ![c] = r]
    BY <1>1 DEF Signing!Build, Signing!Refuse, Signing!Goto
  <2> HIDE DEF r
  <2>3. ~Signing!WellFormed(r)
    BY <1>1, <2>1 DEF Signing!WellFormed
  <2>4. Signing!Reached(r)
    BY <2>1, <2>3, StageNames DEF Signing!Reached
  <2>5. Signing!Given(r)
    BY <2>1 DEF Carried, Signing!Given
  <2> QED BY <2>1, <2>2, <2>4, <2>5
<1>2. CASE ~call.tx.clash
  <2>1. PICK b \in BOOLEAN : b = (~call.tx.common /\ hasCommon)
    OBVIOUS
  <2> DEFINE tx == Signing!Filled(call.tx)
             filled == [call EXCEPT !.tx = tx, !.defaulted = b]
  <2>2. call.tx \in Signing!Drafts
    BY CallFields
  <2>3. /\ tx \in Signing!Drafts
        /\ tx.common = (call.tx.common \/ hasCommon)
        /\ tx.chain = (call.tx.chain \/ ~call.tx.common)
        /\ tx.hardfork = (call.tx.hardfork \/ ~call.tx.common)
        /\ tx.from = call.tx.from /\ tx.nonce = call.tx.nonce /\ tx.clash = call.tx.clash
        /\ tx.chainId = call.tx.chainId /\ tx.fees = call.tx.fees /\ tx.type = call.tx.type
    BY <2>2, Filling
  <2>4. Signing!Proceed(c, [call EXCEPT !.tx = Signing!Filled(@),
                                        !.defaulted = ~call.tx.common /\ hasCommon], 0)
    BY <1>2 DEF Signing!Build
  <2>5. Signing!Proceed(c, filled, 0)
    BY <2>1, <2>4
  <2> HIDE DEF tx
  <2>6. /\ filled \in Signing!Begun /\ filled.tx = tx /\ filled.defaulted = b
        /\ filled.given = call.given
    <3>1. tx \in Signing!Drafts
      BY <2>3
    <3>2. filled \in Signing!Begun
      BY <3>1 DEF Signing!Begun
    <3>3. filled.tx = tx /\ filled.given = call.given
      BY DEF Signing!Begun
    <3>4. filled.defaulted = b
      BY DEF Signing!Begun
    <3> QED BY <3>2, <3>3, <3>4
  <2> HIDE DEF filled
  <2>7. Carried(filled)
    BY <2>3, <2>6 DEF Carried, Signing!Given
  <2>8. Signing!Built(filled)
    <3>1. /\ call.tx.common \in BOOLEAN /\ call.tx.chain \in BOOLEAN
          /\ call.tx.hardfork \in BOOLEAN
      BY <2>2, DraftFields
    <3>2. ~filled.tx.clash
      BY <1>2, <2>3, <2>6
    <3>3. ~filled.defaulted => filled.tx.common = filled.given.common
      BY <2>1, <2>3, <2>6, <3>1
    <3>4. /\ filled.tx.chain = (filled.given.chain \/ ~filled.given.common)
          /\ filled.tx.hardfork = (filled.given.hardfork \/ ~filled.given.common)
      BY <2>3, <2>6
    <3> QED BY <3>2, <3>3, <3>4 DEF Signing!Built
  <2>9. Behind(filled, 0)
    BY DEF Behind
  <2> QED BY <2>3, <2>5, <2>6, <2>7, <2>8, <2>9, GoingOn
<1> QED BY <1>1, <1>2

-----------------------------------------------------------------------------
(* The sender is settled first, and nothing else of the transaction changes. *)
LEMMA SettingFrom ==
  ASSUME NEW tx \in Signing!Transactions, NEW from \in {"none", "signer", "other"}
  PROVE  LET u == [tx EXCEPT !.from = from]
         IN  /\ u \in Signing!Drafts /\ u.from = from /\ u.nonce = tx.nonce /\ u.clash = tx.clash
             /\ u.common = tx.common /\ u.chain = tx.chain /\ u.hardfork = tx.hardfork
             /\ u.chainId = tx.chainId /\ u.gas = tx.gas /\ u.fees = tx.fees /\ u.type = tx.type
             /\ u = [tx EXCEPT !.from = u.from]
<1> DEFINE u == [tx EXCEPT !.from = from]
<1>0. tx \in Signing!Drafts
  BY GivenFields
<1>1. u \in Signing!Drafts
  BY <1>0 DEF Signing!Drafts, Signing!Accounts
<1>2. u.from = from
  BY <1>0 DEF Signing!Drafts
<1>3. /\ u.nonce = tx.nonce /\ u.clash = tx.clash
      /\ u.common = tx.common /\ u.chain = tx.chain /\ u.hardfork = tx.hardfork
      /\ u.chainId = tx.chainId /\ u.gas = tx.gas /\ u.fees = tx.fees /\ u.type = tx.type
  BY <1>0 DEF Signing!Drafts
<1>4. u = [tx EXCEPT !.from = u.from]
  <2> HIDE DEF u
  <2>1. u = [tx EXCEPT !.from = from]
    BY DEF u
  <2> QED BY <2>1, <1>2
<1> QED BY <1>1, <1>2, <1>3, <1>4

(* A call begins: refused, built at once, or waiting for its nonce.          *)
LEMMA BeginStep ==
  ASSUME Signing!Inv, NEW c \in Calls, NEW transactions \in SUBSET Signing!Transactions,
         Signing!Begin(c, transactions)
  PROVE  Signing!Inv'
<1>1. PICK tx \in Signing!Transactions, fill \in FillGasPrice :
          LET from == Signing!Sender(tx)
              call == [pc |-> "nonce", given |-> tx, tx |-> [tx EXCEPT !.from = from],
                       fill |-> fill, defaulted |-> FALSE, why |-> "none"]
          IN  CASE WithSeed /\ tx.from = "other" -> Signing!Refuse(c, call, "from")
                [] ~(WithSeed /\ tx.from = "other") /\ tx.nonce # Signing!Absent ->
                     Signing!Build(c, call)
                [] OTHER -> IF from = "none" THEN Signing!Refuse(c, call, "nonce")
                                             ELSE Signing!Goto(c, call)
  BY DEF Signing!Begin
<1>2. /\ UNCHANGED <<oneByOne, hasCommon, count>>
      /\ oneByOne => \A d \in Calls \ {c} : ~Signing!UnderWay(d)
  BY DEF Signing!Begin, Signing!UnderWay, Signing!At
<1>3. hasCommon \in BOOLEAN
  BY SigningConstants DEF Signing!Inv, Signing!TypeOK
<1> DEFINE from == Signing!Sender(tx)
           draft == [tx EXCEPT !.from = from]
           call == [pc |-> "nonce", given |-> tx, tx |-> draft,
                    fill |-> fill, defaulted |-> FALSE, why |-> "none"]
<1>4. tx \in Signing!Drafts /\ tx.from \in {"none", "signer", "other"}
  BY GivenFields, DraftFields
<1>5. from \in {"none", "signer", "other"}
  BY <1>4, SigningConstants DEF Signing!Sender
<1>6. \/ WithSeed /\ tx.from = "other" /\ Signing!Refuse(c, call, "from")
      \/ ~(WithSeed /\ tx.from = "other") /\ tx.nonce # Signing!Absent /\ Signing!Build(c, call)
      \/ /\ ~(WithSeed /\ tx.from = "other") /\ tx.nonce = Signing!Absent
         /\ from = "none" /\ Signing!Refuse(c, call, "nonce")
      \/ /\ ~(WithSeed /\ tx.from = "other") /\ tx.nonce = Signing!Absent
         /\ from # "none" /\ Signing!Goto(c, call)
  <2> HIDE DEF call
  <2> QED BY <1>1 DEF call
<1>7. from = Signing!Sender(tx)
  OBVIOUS
<1> HIDE DEF from
<1>8. /\ draft \in Signing!Drafts /\ draft.from = from /\ draft.nonce = tx.nonce
      /\ draft.clash = tx.clash
      /\ draft.common = tx.common /\ draft.chain = tx.chain /\ draft.hardfork = tx.hardfork
      /\ draft.chainId = tx.chainId /\ draft.fees = tx.fees /\ draft.type = tx.type
      /\ draft = [tx EXCEPT !.from = draft.from]
  BY <1>5, SettingFrom
<1> HIDE DEF draft
<1>9. call \in Signing!Begun
  BY <1>8, SigningConstants DEF Signing!Begun
<1>10. /\ call.pc = "nonce" /\ call.given = tx /\ call.tx = draft /\ call.defaulted = FALSE
  OBVIOUS
<1> HIDE DEF call
<1>11. /\ call.tx.from = Signing!Sender(call.given) /\ call.tx.type = call.given.type
       /\ call.tx.chainId = call.given.chainId /\ call.tx.nonce = call.given.nonce
       /\ call.tx.fees = call.given.fees /\ call.tx.clash = call.given.clash
       /\ call.tx.common = call.given.common /\ call.tx.chain = call.given.chain
       /\ call.tx.hardfork = call.given.hardfork
  BY <1>7, <1>8, <1>10
<1>12. ~(WithSeed /\ tx.from = "other") => (WithSeed => call.tx.from = "signer")
  BY <1>4, <1>10, <1>11 DEF Signing!Sender
<1>13. ~(WithSeed /\ tx.from = "other") => Carried(call)
  BY <1>11, <1>12 DEF Carried, Signing!Given
<1>14. ASSUME NEW r \in Signing!Begun, calls' = [calls EXCEPT ![c] = r],
              Signing!Given(r), Signing!Reached(r), r.given = tx,
              r.pc \in {"refused", "nonce"} \/ tx.nonce # Signing!Absent
       PROVE  Signing!Inv'
  <2>1. /\ calls' \in [Calls -> {Signing!Idle} \cup Signing!Begun]
        /\ calls'[c] = r /\ \A d \in Calls \ {c} : calls'[d] = calls[d]
        /\ Signing!Traced'
    BY <1>14, OneCall
  <2>2. Signing!TypeOK'
    BY <2>1, <1>2 DEF Signing!Inv, Signing!TypeOK
  <2>3. Signing!NonceIsNext'
    BY <1>2, <1>14, <2>1, CountStays, NonceOfOne
  <2> QED BY <2>1, <2>2, <2>3 DEF Signing!Inv
<1>15. ASSUME NEW why \in {"from", "nonce", "data", "type", "invalid", "rpc"},
              Signing!Refuse(c, call, why), ~Signing!WellFormed(call)
       PROVE  Signing!Inv'
  <2> DEFINE r == [call EXCEPT !.pc = "refused", !.why = why]
  <2>1. /\ r \in Signing!Begun
        /\ r.pc = "refused" /\ r.given = call.given /\ r.tx = call.tx /\ r.fill = call.fill
    <3>1. r \in Signing!Begun
      BY <1>9, StageNames DEF Signing!Begun
    <3>2. r.pc = "refused"
      BY <1>9 DEF Signing!Begun
    <3>3. r.given = call.given /\ r.tx = call.tx /\ r.fill = call.fill
      BY <1>9 DEF Signing!Begun
    <3> QED BY <3>1, <3>2, <3>3
  <2>2. calls' = [calls EXCEPT ![c] = r]
    BY <1>15 DEF Signing!Refuse, Signing!Goto
  <2> HIDE DEF r
  <2>3. ~Signing!WellFormed(r)
    BY <1>15, <2>1 DEF Signing!WellFormed
  <2>4. Signing!Reached(r)
    BY <2>1, <2>3, StageNames DEF Signing!Reached
  <2>5. Signing!Given(r)
    BY <1>11, <2>1 DEF Signing!Given
  <2> QED BY <1>10, <1>14, <2>1, <2>2, <2>4, <2>5
<1>16. CASE WithSeed /\ tx.from = "other" /\ Signing!Refuse(c, call, "from")
  <2>1. ~Signing!WellFormed(call)
    BY <1>10, <1>16 DEF Signing!WellFormed
  <2> QED BY <1>15, <1>16, <2>1
<1>17. CASE ~(WithSeed /\ tx.from = "other") /\ tx.nonce # Signing!Absent /\ Signing!Build(c, call)
  <2>1. \E r \in Signing!Begun :
            /\ calls' = [calls EXCEPT ![c] = r]
            /\ r.given = call.given /\ r.tx.nonce = call.tx.nonce
            /\ r.pc \in {"signed", "refused", "chainId", "networkId", "fees", "gas"}
            /\ Signing!Given(r) /\ Signing!Reached(r)
    BY <1>3, <1>9, <1>11, <1>13, <1>17, Building
  <2> QED BY <2>1, <1>10, <1>14, <1>17
<1>18. CASE tx.nonce = Signing!Absent /\ from = "none" /\ Signing!Refuse(c, call, "nonce")
  <2>1. ~Signing!WellFormed(call)
    BY <1>7, <1>10, <1>18 DEF Signing!WellFormed
  <2> QED BY <1>15, <1>18, <2>1
<1>19. CASE /\ ~(WithSeed /\ tx.from = "other") /\ tx.nonce = Signing!Absent
            /\ from # "none" /\ Signing!Goto(c, call)
  <2>1. Signing!Given(call)
    BY <1>13, <1>19 DEF Carried
  <2>2. Signing!Untouched(call)
    BY <1>8, <1>10, <1>19 DEF Signing!Untouched
  <2>3. Signing!Reached(call)
    BY <1>10, <2>2, StageNames DEF Signing!Reached
  <2> QED BY <1>9, <1>10, <1>14, <1>19, <2>1, <2>3 DEF Signing!Goto
<1> QED BY <1>6, <1>16, <1>17, <1>18, <1>19

(* The nonce is there: it is the count of the sender.                        *)
LEMMA NonceStep == ASSUME Signing!Inv, NEW c \in Calls, Signing!NonceAnswered(c) PROVE Signing!Inv'
<1> DEFINE old == calls[c]
<1>1. /\ old.pc = "nonce" /\ UNCHANGED <<oneByOne, hasCommon, count>>
      /\ Signing!Build(c, [old EXCEPT !.tx.nonce = count[old.tx.from]])
  BY DEF Signing!NonceAnswered, Signing!At
<1>2. /\ old \in Signing!Begun /\ Signing!Given(old) /\ Signing!Reached(old)
      /\ hasCommon \in BOOLEAN /\ count \in [Signing!Accounts -> 1..(MaxMined + 1)]
  BY <1>1, CallBegan, SigningConstants DEF Signing!Inv, Signing!TypeOK
<1>3. oneByOne => \A d \in Calls \ {c} : ~Signing!UnderWay(d)
  BY <1>1, OthersWait DEF Signing!UnderWay
<1> HIDE DEF old
<1>4. Signing!Untouched(old)
  BY <1>1, <1>2 DEF Signing!Reached
<1>5. old.given \in Signing!Transactions /\ old.tx \in Signing!Drafts
  BY <1>2, CallFields
<1>6. old.tx.from \in Signing!Accounts
  BY <1>4, <1>5, DraftFields DEF Signing!Untouched, Signing!Accounts
<1>7. count[old.tx.from] \in Nat
  BY <1>2, <1>6, SigningConstants
<1>8. PICK n \in Nat : n = count[old.tx.from]
  BY <1>7
<1> DEFINE tx == [old.tx EXCEPT !.nonce = n]
           call == [old EXCEPT !.tx = tx]
<1>9. tx \in Signing!Drafts
  BY <1>5 DEF Signing!Drafts
<1>10. tx.nonce = n
  BY <1>5 DEF Signing!Drafts
<1>11. /\ tx.from = old.tx.from /\ tx.clash = old.tx.clash /\ tx.common = old.tx.common
       /\ tx.chain = old.tx.chain /\ tx.hardfork = old.tx.hardfork
       /\ tx.chainId = old.tx.chainId /\ tx.fees = old.tx.fees /\ tx.type = old.tx.type
  BY <1>5 DEF Signing!Drafts
<1>12. Signing!Build(c, call)
  BY <1>1, <1>8
<1> HIDE DEF tx
<1>13. call \in Signing!Begun
  BY <1>2, <1>9 DEF Signing!Begun
<1>14. call.tx = tx /\ call.given = old.given /\ call.pc = "nonce"
  BY <1>1, <1>2 DEF Signing!Begun
<1> HIDE DEF call
<1>15. /\ call.tx.clash = call.given.clash /\ call.tx.common = call.given.common
       /\ call.tx.chain = call.given.chain /\ call.tx.hardfork = call.given.hardfork
  <2> DEFINE from == old.tx.from
             u == [old.given EXCEPT !.from = from]
  <2>1. old.tx = u
    BY <1>4 DEF Signing!Untouched
  <2>2. old.given \in Signing!Drafts
    BY <1>5, GivenFields
  <2>3. /\ u.clash = old.given.clash /\ u.common = old.given.common
        /\ u.chain = old.given.chain /\ u.hardfork = old.given.hardfork
    BY <2>2 DEF Signing!Drafts
  <2> HIDE DEF u
  <2> QED BY <2>1, <2>3, <1>11, <1>14
<1>16. Carried(call)
  <2>1. WithSeed => old.tx.from = "signer"
    BY <1>1, <1>2 DEF Signing!Given
  <2> QED BY <2>1, <1>2, <1>4, <1>11, <1>14 DEF Carried, Signing!Given, Signing!Untouched
<1>17. PICK r \in Signing!Begun :
            /\ calls' = [calls EXCEPT ![c] = r]
            /\ r.given = call.given /\ r.tx.nonce = call.tx.nonce
            /\ r.pc \in {"signed", "refused", "chainId", "networkId", "fees", "gas"}
            /\ Signing!Given(r) /\ Signing!Reached(r)
  BY <1>2, <1>12, <1>13, <1>15, <1>16, Building
<1>18. /\ calls' \in [Calls -> {Signing!Idle} \cup Signing!Begun]
       /\ calls'[c] = r /\ \A d \in Calls \ {c} : calls'[d] = calls[d]
       /\ Signing!Traced'
  BY <1>17, OneCall
<1>19. Signing!TypeOK'
  BY <1>1, <1>18 DEF Signing!Inv, Signing!TypeOK
<1>20. WithSeed => r.tx.nonce = count'["signer"]
  BY <1>1, <1>8, <1>10, <1>11, <1>14, <1>16, <1>17 DEF Carried
<1>21. Signing!NonceIsNext'
  <2>1. CountGrows
    BY <1>1, CountStays
  <2>2. WithSeed => FollowsOn(r.tx.nonce, count'["signer"])
    BY <1>20, <2>1 DEF FollowsOn, CountGrows
  <2> QED BY <1>1, <1>3, <1>18, <2>1, <2>2, NonceOfOne
<1> QED BY <1>18, <1>19, <1>21 DEF Signing!Inv

(* The answer to a request of stage i is filled in before the builder goes on.*)
LEMMA Answering ==
  ASSUME Signing!Inv, NEW c \in Calls, NEW i \in 1..4, Signing!Answered(c, i)
  PROVE  \E call \in Signing!Begun :
            /\ Signing!Proceed(c, call, i) /\ Carried(call) /\ Signing!Built(call)
            /\ Behind(call, i)
            /\ call.given = calls[c].given /\ call.tx.nonce = calls[c].tx.nonce
<1> DEFINE old == calls[c]
<1>1. /\ old.pc = Signing!Stages[i]
      /\ LET tx == CASE Signing!Stages[i] = "chainId"   -> [old.tx EXCEPT !.chainId = Signing!NodeChain]
                     [] Signing!Stages[i] = "networkId" -> old.tx
                     [] Signing!Stages[i] = "fees"      -> [old.tx EXCEPT !.fees = "both"]
                     [] Signing!Stages[i] = "gas"       -> [old.tx EXCEPT !.gas = TRUE]
         IN  Signing!Proceed(c, [old EXCEPT !.tx = tx], i)
  BY DEF Signing!Answered, Signing!At
<1>2. i \in {1, 2, 3, 4}
  OBVIOUS
<1>3. old.pc \in {"chainId", "networkId", "fees", "gas"}
  BY <1>1, <1>2, StageNames
<1>4. old \in Signing!Begun /\ Signing!Given(old) /\ Signing!Reached(old)
  BY <1>3, CallBegan
<1> HIDE DEF old
<1>5. /\ Signing!Built(old) /\ (WithSeed => old.tx.from = "signer")
      /\ old.pc = "chainId" => old.tx.chainId = Signing!Absent
      /\ old.pc \in {"networkId", "fees", "gas"} => old.tx.chainId # Signing!Absent \/ old.tx.common
      /\ old.pc = "gas" /\ old.fill => old.tx.fees = "both"
  BY <1>3, <1>4, StageNames DEF Signing!Reached, Signing!Given
<1>6. old.tx \in Signing!Drafts
  BY <1>4, CallFields
<1>7. PICK tx \in Signing!Drafts :
         /\ Signing!Proceed(c, [old EXCEPT !.tx = tx], i)
         /\ tx.from = old.tx.from /\ tx.nonce = old.tx.nonce /\ tx.clash = old.tx.clash
         /\ tx.common = old.tx.common /\ tx.chain = old.tx.chain
         /\ tx.hardfork = old.tx.hardfork /\ tx.type = old.tx.type
         /\ tx.chainId = IF i = 1 THEN Signing!NodeChain ELSE old.tx.chainId
         /\ tx.fees = IF i = 3 THEN "both" ELSE old.tx.fees
         /\ i = 4 => tx.gas
  <2>1. CASE i = 1
    <3> DEFINE tx == [old.tx EXCEPT !.chainId = Signing!NodeChain]
    <3>1. Signing!Proceed(c, [old EXCEPT !.tx = tx], i)
      BY <1>1, <2>1, StageNames DEF old
    <3>2. tx \in Signing!Drafts
      BY <1>6 DEF Signing!Drafts
    <3>3. tx.chainId = Signing!NodeChain
      BY <1>6 DEF Signing!Drafts
    <3>4. /\ tx.from = old.tx.from /\ tx.nonce = old.tx.nonce /\ tx.clash = old.tx.clash
          /\ tx.common = old.tx.common /\ tx.chain = old.tx.chain
          /\ tx.hardfork = old.tx.hardfork /\ tx.type = old.tx.type /\ tx.fees = old.tx.fees
      BY <1>6 DEF Signing!Drafts
    <3> HIDE DEF tx
    <3> QED BY <2>1, <3>1, <3>2, <3>3, <3>4
  <2>2. CASE i = 2
    <3>1. Signing!Proceed(c, [old EXCEPT !.tx = old.tx], i)
      BY <1>1, <2>2, StageNames DEF old
    <3> QED BY <1>6, <2>2, <3>1
  <2>3. CASE i = 3
    <3> DEFINE tx == [old.tx EXCEPT !.fees = "both"]
    <3>1. Signing!Proceed(c, [old EXCEPT !.tx = tx], i)
      BY <1>1, <2>3, StageNames DEF old
    <3>2. tx \in Signing!Drafts
      BY <1>6 DEF Signing!Drafts
    <3>3. tx.fees = "both"
      BY <1>6 DEF Signing!Drafts
    <3>4. /\ tx.from = old.tx.from /\ tx.nonce = old.tx.nonce /\ tx.clash = old.tx.clash
          /\ tx.common = old.tx.common /\ tx.chain = old.tx.chain
          /\ tx.hardfork = old.tx.hardfork /\ tx.type = old.tx.type /\ tx.chainId = old.tx.chainId
      BY <1>6 DEF Signing!Drafts
    <3> HIDE DEF tx
    <3> QED BY <2>3, <3>1, <3>2, <3>3, <3>4
  <2>4. CASE i = 4
    <3> DEFINE tx == [old.tx EXCEPT !.gas = TRUE]
    <3>1. Signing!Proceed(c, [old EXCEPT !.tx = tx], i)
      BY <1>1, <2>4, StageNames DEF old
    <3>2. tx \in Signing!Drafts
      BY <1>6 DEF Signing!Drafts
    <3>3. tx.gas
      BY <1>6 DEF Signing!Drafts
    <3>4. /\ tx.from = old.tx.from /\ tx.nonce = old.tx.nonce /\ tx.clash = old.tx.clash
          /\ tx.common = old.tx.common /\ tx.chain = old.tx.chain
          /\ tx.hardfork = old.tx.hardfork /\ tx.type = old.tx.type /\ tx.chainId = old.tx.chainId
          /\ tx.fees = old.tx.fees
      BY <1>6 DEF Signing!Drafts
    <3> HIDE DEF tx
    <3> QED BY <2>4, <3>1, <3>2, <3>3, <3>4
  <2> QED BY <1>2, <2>1, <2>2, <2>3, <2>4
<1> DEFINE call == [old EXCEPT !.tx = tx]
<1>8. call \in Signing!Begun
  BY <1>4 DEF Signing!Begun
<1>9. /\ call.tx = tx /\ call.given = old.given /\ call.fill = old.fill
      /\ call.defaulted = old.defaulted
  BY <1>4 DEF Signing!Begun
<1>10. Signing!Proceed(c, call, i)
  BY <1>7
<1> HIDE DEF call
<1>11. Signing!Built(call)
  BY <1>5, <1>7, <1>9 DEF Signing!Built
<1>12. old.pc = "chainId" <=> i = 1
  BY <1>1, <1>2, StageNames
<1>13. Carried(call)
  <2>1. \/ call.tx.chainId = call.given.chainId
        \/ call.given.chainId = Signing!Absent /\ call.tx.chainId = Signing!NodeChain
    <3>1. \/ old.tx.chainId = old.given.chainId
          \/ old.given.chainId = Signing!Absent /\ old.tx.chainId = Signing!NodeChain
      BY <1>4 DEF Signing!Given
    <3>2. CASE i = 1
      BY <1>5, <1>7, <1>9, <1>12, <3>1, <3>2 DEF Signing!Absent, Signing!NodeChain
    <3>3. CASE i # 1
      BY <1>7, <1>9, <3>1, <3>3
    <3> QED BY <3>2, <3>3
  <2>2. call.given.fees = "both" => call.tx.fees = "both"
    BY <1>4, <1>7, <1>9 DEF Signing!Given
  <2> QED BY <2>1, <2>2, <1>4, <1>5, <1>7, <1>9 DEF Carried, Signing!Given
<1>14. Behind(call, i)
  <2>1. call.tx.chainId # 0 \/ call.tx.common
    <3>1. CASE i = 1
      BY <1>7, <1>9, <3>1 DEF Signing!NodeChain
    <3>2. CASE i # 1
      BY <1>3, <1>5, <1>7, <1>9, <1>12, <3>2 DEF Signing!Absent
    <3> QED BY <3>1, <3>2
  <2>2. i >= 3 /\ call.fill => call.tx.fees = "both"
    <3>1. CASE i = 3
      BY <1>7, <1>9, <3>1
    <3>2. CASE i = 4
      <4>1. old.pc = "gas"
        BY <1>1, <3>2, StageNames
      <4> QED BY <1>5, <1>7, <1>9, <3>2, <4>1
    <3> QED BY <1>2, <3>1, <3>2
  <2>3. i >= 4 => call.tx.gas
    BY <1>7, <1>9
  <2> QED BY <2>1, <2>2, <2>3 DEF Behind
<1> QED BY <1>7, <1>8, <1>9, <1>10, <1>11, <1>13, <1>14 DEF old

(* A later answer leaves the nonce alone.                                    *)
LEMMA AnsweredStep ==
  ASSUME Signing!Inv, NEW c \in Calls, NEW i \in 1..4, Signing!Answered(c, i)
  PROVE  Signing!Inv'
<1>1. PICK call \in Signing!Begun :
            /\ Signing!Proceed(c, call, i) /\ Carried(call) /\ Signing!Built(call)
            /\ Behind(call, i)
            /\ call.given = calls[c].given /\ call.tx.nonce = calls[c].tx.nonce
  BY Answering
<1>2. PICK r \in Signing!Begun :
            /\ calls' = [calls EXCEPT ![c] = r]
            /\ r.given = call.given /\ r.tx = call.tx
            /\ r.pc \in {"signed", "refused", "chainId", "networkId", "fees", "gas"}
            /\ Signing!Given(r) /\ Signing!Reached(r)
  BY <1>1, GoingOn
<1>3. /\ calls' \in [Calls -> {Signing!Idle} \cup Signing!Begun]
      /\ calls'[c] = r /\ \A d \in Calls \ {c} : calls'[d] = calls[d]
      /\ Signing!Traced'
  BY <1>2, OneCall
<1>4. calls[c].pc \in {"chainId", "networkId", "fees", "gas"} /\ UNCHANGED <<oneByOne, hasCommon, count>>
  <2>1. calls[c].pc = Signing!Stages[i] /\ UNCHANGED <<oneByOne, hasCommon, count>>
    BY DEF Signing!Answered, Signing!At
  <2>2. i \in {1, 2, 3, 4}
    OBVIOUS
  <2> QED BY <2>1, <2>2, StageNames
<1>5. Signing!TypeOK'
  BY <1>3, <1>4 DEF Signing!Inv, Signing!TypeOK
<1>6. Signing!UnderWay(c) /\ ~Signing!At(c, "nonce")
  BY <1>4 DEF Signing!UnderWay, Signing!At
<1>7. WithSeed /\ r.given.nonce = Signing!Absent => FollowsOn(r.tx.nonce, count'["signer"])
  BY <1>1, <1>2, <1>4, <1>6 DEF Signing!Inv, Signing!NonceIsNext, FollowsOn
<1>8. Signing!NonceIsNext'
  BY <1>3, <1>4, <1>6, <1>7, CountStays, OthersWait, NonceOfOne
<1> QED BY <1>3, <1>5, <1>8 DEF Signing!Inv

(* A refusal by the node is always allowed.                                  *)
LEMMA FailsStep ==
  ASSUME Signing!Inv, NEW c \in Calls, Signing!RequestFails(c) PROVE Signing!Inv'
<1> DEFINE old == calls[c]
           r == [old EXCEPT !.pc = "refused", !.why = "rpc"]
<1>1. /\ old.pc \in {"nonce", "chainId", "networkId", "fees", "gas"}
      /\ UNCHANGED <<oneByOne, hasCommon, count>>
      /\ calls' = [calls EXCEPT ![c] = r]
  BY StageNames DEF Signing!RequestFails, Signing!Refuse, Signing!Goto
<1>2. old \in Signing!Begun /\ Signing!Given(old)
  BY <1>1, CallBegan
<1>3. oneByOne => \A d \in Calls \ {c} : ~Signing!UnderWay(d)
  BY <1>1, OthersWait DEF Signing!UnderWay
<1> HIDE DEF old
<1>4. r \in Signing!Begun
  BY <1>2, StageNames DEF Signing!Begun
<1>5. r.pc = "refused" /\ r.why = "rpc" /\ r.given = old.given /\ r.tx = old.tx
  BY <1>2 DEF Signing!Begun
<1> HIDE DEF r
<1>6. Signing!Given(r)
  BY <1>2, <1>5 DEF Signing!Given
<1>7. Signing!Reached(r)
  BY <1>5, StageNames DEF Signing!Reached
<1>8. /\ calls' \in [Calls -> {Signing!Idle} \cup Signing!Begun]
      /\ calls'[c] = r /\ \A d \in Calls \ {c} : calls'[d] = calls[d]
      /\ Signing!Traced'
  BY <1>1, <1>4, <1>6, <1>7, OneCall
<1>9. Signing!TypeOK'
  BY <1>1, <1>8 DEF Signing!Inv, Signing!TypeOK
<1>10. Signing!NonceIsNext'
  BY <1>1, <1>3, <1>5, <1>8, CountStays, NonceOfOne
<1> QED BY <1>8, <1>9, <1>10 DEF Signing!Inv

(* The account's count grows when a call is mined, and no other is under way  *)
(* if transactions are prepared one by one.                                   *)
LEMMA MinedStep ==
  ASSUME Signing!Inv, NEW c \in Calls, Signing!Mined(c) PROVE Signing!Inv'
<1> DEFINE old == calls[c]
           r == [old EXCEPT !.pc = "mined"]
<1>1. /\ old.pc = "signed" /\ UNCHANGED <<oneByOne, hasCommon>>
      /\ count["signer"] <= MaxMined /\ count' = [count EXCEPT !["signer"] = @ + 1]
  BY DEF Signing!Mined, Signing!At
<1>2. old \in Signing!Begun /\ Signing!Given(old) /\ Signing!Reached(old)
  BY <1>1, CallBegan
<1>3. oneByOne => \A d \in Calls \ {c} : ~Signing!UnderWay(d)
  BY <1>1, OthersWait DEF Signing!UnderWay
<1>4. calls' = [calls EXCEPT ![c] = r]
  <2>1. calls \in [Calls -> {Signing!Idle} \cup Signing!Begun]
    BY DEF Signing!Inv, Signing!TypeOK
  <2> QED BY <2>1 DEF Signing!Mined
<1> HIDE DEF old
<1>5. r \in Signing!Begun
  BY <1>2 DEF Signing!Begun
<1>6. /\ r.pc = "mined" /\ r.given = old.given /\ r.tx = old.tx
      /\ r.defaulted = old.defaulted
  BY <1>2 DEF Signing!Begun
<1> HIDE DEF r
<1>7. Signing!Given(r)
  BY <1>1, <1>2, <1>6 DEF Signing!Given
<1>8. Signing!Reached(r)
  <2>1. Signing!Built(old) /\ Signing!Valid(old.tx)
    BY <1>1, <1>2 DEF Signing!Reached
  <2>2. Signing!Built(r)
    BY <1>6, <2>1 DEF Signing!Built
  <2> QED BY <1>6, <2>1, <2>2 DEF Signing!Reached
<1>9. /\ calls' \in [Calls -> {Signing!Idle} \cup Signing!Begun]
      /\ calls'[c] = r /\ \A d \in Calls \ {c} : calls'[d] = calls[d]
      /\ Signing!Traced'
  BY <1>4, <1>5, <1>7, <1>8, OneCall
<1>10. Signing!TypeOK'
  <2>1. count \in [Signing!Accounts -> 1..(MaxMined + 1)]
    BY DEF Signing!Inv, Signing!TypeOK
  <2>2. count["signer"] \in 1..(MaxMined + 1)
    BY <2>1 DEF Signing!Accounts
  <2>3. count["signer"] + 1 \in 1..(MaxMined + 1)
    BY <1>1, <2>2, SigningConstants
  <2>4. count' \in [Signing!Accounts -> 1..(MaxMined + 1)]
    BY <1>1, <2>1, <2>3
  <2> QED BY <1>1, <1>9, <2>4 DEF Signing!Inv, Signing!TypeOK
<1>11. Signing!NonceIsNext'
  <2>1. CountGrows
    <3>1. count["signer"] \in 1..(MaxMined + 1) /\ count \in [Signing!Accounts -> 1..(MaxMined + 1)]
      BY DEF Signing!Inv, Signing!TypeOK, Signing!Accounts
    <3>2. count'["signer"] = count["signer"] + 1
      BY <1>1, <3>1 DEF Signing!Accounts
    <3> QED BY <3>1, <3>2, SigningConstants DEF CountGrows
  <2> QED BY <1>1, <1>3, <1>6, <1>9, <2>1, NonceOfOne
<1> QED BY <1>9, <1>10, <1>11 DEF Signing!Inv

(* A call that ended is forgotten.                                           *)
LEMMA EndedStep ==
  ASSUME Signing!Inv, NEW c \in Calls, Signing!Ended(c) PROVE Signing!Inv'
<1>1. /\ calls' = [calls EXCEPT ![c] = Signing!Idle] /\ UNCHANGED <<oneByOne, hasCommon, count>>
      /\ calls[c].pc \in {"refused", "signed", "mined"}
      /\ oneByOne => calls[c].pc # "signed"
  BY DEF Signing!Ended
<1>2. Signing!Idle.pc = "idle"
  BY DEF Signing!Idle
<1>3. /\ calls' \in [Calls -> {Signing!Idle} \cup Signing!Begun]
      /\ calls'[c] = Signing!Idle /\ \A d \in Calls \ {c} : calls'[d] = calls[d]
      /\ Signing!Traced'
  BY <1>1, <1>2, OneCall
<1>4. Signing!TypeOK'
  BY <1>1, <1>3 DEF Signing!Inv, Signing!TypeOK
<1>5. Signing!NonceIsNext'
  <2>1. ~Signing!UnderWay(c)'
    BY <1>2, <1>3 DEF Signing!UnderWay
  <2>2. ASSUME NEW d \in Calls, Signing!UnderWay(d)'
        PROVE  d # c /\ calls'[d] = calls[d] /\ Signing!UnderWay(d)
    BY <1>3, <2>1, <2>2 DEF Signing!UnderWay
  <2>3. UNCHANGED count /\ Signing!NonceIsNext
    BY <1>1 DEF Signing!Inv
  <2> QED BY <1>1, <2>2, <2>3 DEF Signing!NonceIsNext, Signing!At
<1> QED BY <1>3, <1>4, <1>5 DEF Signing!Inv

(* Every step of prepareTransactionForSigning() preserves the invariant.     *)
LEMMA SigningStep == Signing!Inv /\ [Signing!Next]_(Signing!vars) => Signing!Inv'
<1> SUFFICES ASSUME Signing!Inv, [Signing!Next]_(Signing!vars) PROVE Signing!Inv'
  OBVIOUS
<1>1. ASSUME UNCHANGED <<oneByOne, calls, count>>, hasCommon' \in DefaultCommon PROVE Signing!Inv'
  <2>1. Signing!TypeOK'
    BY <1>1 DEF Signing!Inv, Signing!TypeOK
  <2>2. Signing!NonceIsNext'
    BY <1>1 DEF Signing!Inv, Signing!NonceIsNext, Signing!UnderWay, Signing!At
  <2>3. Signing!Traced'
    <3>1. \A d \in Calls : calls'[d].pc # "idle" => Signing!Given(calls[d]) /\ Signing!Reached(calls[d])
      BY <1>1 DEF Signing!Inv, Signing!Traced, Signing!At
    <3>2. ASSUME NEW d \in Calls
          PROVE  /\ Signing!Given(calls[d])' <=> Signing!Given(calls[d])
                 /\ Signing!Reached(calls[d])' <=> Signing!Reached(calls[d])
      BY <1>1 DEF Signing!Given, Signing!Reached, Signing!Untouched, Signing!Built,
         Signing!WellFormed, Signing!Sender, Signing!Valid
    <3> QED BY <3>1, <3>2 DEF Signing!Traced, Signing!At
  <2> QED BY <2>1, <2>2, <2>3 DEF Signing!Inv
<1>2. CASE UNCHANGED Signing!vars
  BY <1>1, <1>2 DEF Signing!vars, Signing!Inv, Signing!TypeOK
<1>3. ASSUME NEW v \in DefaultCommon, Signing!SetDefaultCommon(v) PROVE Signing!Inv'
  BY <1>1, <1>3 DEF Signing!SetDefaultCommon
<1>4. ASSUME NEW c \in Calls, Signing!GoOn(c) PROVE Signing!Inv'
  <2>1. ASSUME NEW i \in DOMAIN Signing!Stages, Signing!Answered(c, i) PROVE Signing!Inv'
    BY <2>1, StageNames, AnsweredStep
  <2> QED BY <1>4, <2>1, NonceStep, FailsStep, MinedStep, EndedStep DEF Signing!GoOn
<1> QED BY <1>2, <1>3, <1>4, BeginStep DEF Signing!Next

(* So do the steps of calls that prepare at the same time.                   *)
LEMMA OverlapStep == Signing!Inv /\ Overlapping => Signing!Inv'
<1> SUFFICES ASSUME Signing!Inv, NEW c \in Calls,
                    Signing!Begin(c, Plain) \/ Signing!GoOn(c)
             PROVE  Signing!Inv'
  BY DEF Overlapping
<1>1. CASE Signing!Begin(c, Plain)
  BY <1>1, BeginStep DEF Plain
<1>2. CASE Signing!GoOn(c)
  BY <1>2, SigningStep DEF Signing!Next
<1> QED BY <1>1, <1>2

(* Hence the invariant holds of preparing alone, for calls that overlap and   *)
(* differ in any field as well as for calls one by one.                       *)
LEMMA SigningHolds == Signing!Spec => []Signing!Inv
BY SigningInit, SigningStep, PTL DEF Signing!Spec

(* What is signed carries what was asked for.                                 *)
LEMMA InvSigns == Signing!Inv => Signing!WellFormedIsSigned /\ Signing!SignedForItsChain
<1> SUFFICES ASSUME Signing!Inv PROVE Signing!WellFormedIsSigned /\ Signing!SignedForItsChain
  OBVIOUS
<1>1. Signing!WellFormedIsSigned
  BY DEF Signing!Inv, Signing!Traced, Signing!Reached, Signing!WellFormedIsSigned, Signing!At
<1>2. ASSUME NEW c \in Calls, Signing!Done(c)
      PROVE  /\ calls[c].tx.chainId = IF calls[c].given.chainId # Signing!Absent
                                      THEN calls[c].given.chainId ELSE Signing!NodeChain
             /\ calls[c].tx.common => calls[c].tx.chainId = Signing!CustomChain
  <2>1. /\ Signing!Given(calls[c]) /\ Signing!Valid(calls[c].tx)
    BY <1>2 DEF Signing!Inv, Signing!Traced, Signing!Reached, Signing!At, Signing!Done
  <2> QED BY <2>1 DEF Signing!Given, Signing!Valid
<1> QED BY <1>1, <1>2 DEF Signing!SignedForItsChain

(* The nonce of a transaction that is signed is the account's next.           *)
LEMMA InvNonces == Signing!Inv /\ WithSeed => Signing!NextNonceIsUsed
BY DEF Signing!Inv, Signing!NonceIsNext, Signing!NextNonceIsUsed, Signing!UnderWay, Signing!At

-----------------------------------------------------------------------------
(* SendTransaction.                                                           *)

(* The event-emitting ends of a call: what failOnce() and the catch block     *)
(* that calls it make of the settlement, while execute() still runs.          *)
LEMMA FailingOnce ==
  ASSUME Send!Inv, pc # "done", NEW w \in BOOLEAN, Send!FailOnce(w)
  PROVE  /\ settled' = TRUE /\ promise' \in {"pending", "rejected"}
         /\ options.errorListener # "throws" => promise' = "rejected"
         /\ errorEvents' \in 0..1
<1>1. ~settled /\ promise = "pending" /\ errorEvents = 0
  <2>1. ~settled /\ promise = "pending" /\ ~confirming
    BY DEF Send!Inv, Send!SettledOnce
  <2>2. errorEvents \in 0..2
    BY DEF Send!Inv, Send!TypeOK
  <2> QED BY <2>1, <2>2 DEF Send!Inv, Send!SettledOnce
<1>2. errorEvents' \in {errorEvents, errorEvents + 1}
  BY <1>1 DEF Send!FailOnce, Send!EmitError
<1>3. /\ settled' = TRUE
      /\ promise' = IF w /\ options.errorListener = "throws" THEN promise ELSE "rejected"
  BY <1>1 DEF Send!FailOnce
<1> QED BY <1>1, <1>2, <1>3

(* The catch block asks for a reason first, or fails at once.                *)
LEMMA Catching ==
  ASSUME Send!Inv, pc # "done", Send!Catch
  PROVE  \/ pc' = "normalizing" /\ UNCHANGED <<settled, promise, errorEvents>>
         \/ /\ pc' = "done"
            /\ settled' = TRUE /\ promise' \in {"pending", "rejected"}
            /\ options.errorListener # "throws" => promise' = "rejected"
            /\ errorEvents' \in 0..1
<1>1. CASE pc' = "normalizing" /\ UNCHANGED <<settled, promise, errorEvents>>
  BY <1>1
<1>2. ASSUME NEW w \in BOOLEAN, pc' = "done", Send!FailOnce(w)
      PROVE  /\ settled' = TRUE /\ promise' \in {"pending", "rejected"}
             /\ options.errorListener # "throws" => promise' = "rejected"
             /\ errorEvents' \in 0..1
  BY <1>2, FailingOnce
<1> QED BY <1>1, <1>2 DEF Send!Catch

(* The settlement after a step of execute(): it goes on, fails or succeeds.   *)
LEMMA Settlement ==
  ASSUME Send!Inv, pc # "done", UNCHANGED options,
         \/ pc' # "done" /\ UNCHANGED <<settled, promise, errorEvents, confirming>>
         \/ /\ pc' = "done" /\ confirming' \in BOOLEAN
            /\ settled' = TRUE /\ promise' \in {"pending", "rejected", "fulfilled"}
            /\ options.errorListener # "throws" => promise' # "pending"
            /\ errorEvents' \in 0..1
  PROVE  /\ Send!SettledOnce'
         /\ settled' \in BOOLEAN /\ promise' \in {"pending", "rejected", "fulfilled"}
         /\ errorEvents' \in 0..2 /\ confirming' \in BOOLEAN
         /\ pc' # "done" => promise' # "fulfilled"
         /\ promise' = "pending" /\ options'.errorListener # "throws" => errorEvents' = 0
<1>1. ~settled /\ promise = "pending" /\ errorEvents = 0 /\ confirming = FALSE
  <2>1. ~settled /\ promise = "pending" /\ ~confirming
    BY DEF Send!Inv, Send!SettledOnce
  <2>2. errorEvents \in 0..2 /\ confirming \in BOOLEAN
    BY DEF Send!Inv, Send!TypeOK
  <2> QED BY <2>1, <2>2 DEF Send!Inv, Send!SettledOnce
<1>2. CASE pc' # "done"
  <2>1. settled' = FALSE /\ promise' = "pending" /\ errorEvents' = 0 /\ confirming' = FALSE
    BY <1>1, <1>2
  <2>2. Send!SettledOnce'
    BY <2>1 DEF Send!SettledOnce
  <2>3. errorEvents' \in 0..2
    BY <2>1
  <2> QED BY <2>1, <2>2, <2>3
<1>3. CASE pc' = "done"
  BY <1>1, <1>3 DEF Send!SettledOnce
<1> QED BY <1>2, <1>3

(* The steps of timers, watches and pollers settle nothing.                   *)
LEMMA NothingSettles ==
  ASSUME Send!Inv, UNCHANGED <<options, pc, settled, promise, errorEvents, confirming>>
  PROVE  /\ Send!SettledOnce'
         /\ settled' \in BOOLEAN /\ promise' \in {"pending", "rejected", "fulfilled"}
         /\ errorEvents' \in 0..2 /\ confirming' \in BOOLEAN
         /\ pc' # "done" => promise' # "fulfilled"
         /\ promise' = "pending" /\ options'.errorListener # "throws" => errorEvents' = 0
BY DEF Send!Inv, Send!TypeOK, Send!SettledOnce, Send!RacesInOrder, Send!OutcomeMatchesReceipt

(* Every step of sendTransaction() preserves the invariant.                  *)
LEMMA SendStep == Send!Inv /\ [Send!Next]_(Send!vars) => Send!Inv'
<1> SUFFICES ASSUME Send!Inv, [Send!Next]_(Send!vars) PROVE Send!Inv'
  OBVIOUS
<1>a. Send!TypeOK /\ Send!RacesInOrder /\ Send!OutcomeMatchesReceipt
  BY DEF Send!Inv
<1> DEFINE Settled ==
             /\ Send!SettledOnce'
             /\ settled' \in BOOLEAN /\ promise' \in {"pending", "rejected", "fulfilled"}
             /\ errorEvents' \in 0..2 /\ confirming' \in BOOLEAN
             /\ pc' # "done" => promise' # "fulfilled"
             /\ promise' = "pending" /\ options'.errorListener # "throws" => errorEvents' = 0
           (* What the catch block leaves.                                    *)
           Caught == \/ pc' = "normalizing" /\ UNCHANGED <<settled, promise, errorEvents>>
                     \/ /\ pc' = "done"
                        /\ settled' = TRUE /\ promise' \in {"pending", "rejected"}
                        /\ options.errorListener # "throws" => promise' = "rejected"
                        /\ errorEvents' \in 0..1
<1>b. ASSUME Settled, Send!RacesInOrder',
             options' = options, pc' \in {"prepare", "sendSetup", "sending", "receiptSetup",
                 "waiting", "deciding", "explaining", "normalizing", "done"},
             timer' \in [Send!Races -> {"off", "armed", "fired"}],
             watch' \in [Send!Races -> {"off", "subscription", "polling"}],
             fallback' \in [Send!Races -> BOOLEAN], raced' \subseteq Send!Races,
             poller' \in {"off", "on", "received", "failed"},
             receipt' \in {"none", "ok", "reverted"},
             unhandled' \subseteq {"timer", "poller", "confirmation"},
             promise' = "fulfilled" => receipt' = "ok" \/ options'.resolver \/ ~options'.bigint
      PROVE  Send!Inv'
  <2>1. Send!TypeOK'
    BY <1>b, <1>a DEF Send!TypeOK
  <2>2. Send!OutcomeMatchesReceipt'
    BY <1>b DEF Send!OutcomeMatchesReceipt, Send!RacesInOrder
  <2> QED BY <1>b, <2>1, <2>2 DEF Send!Inv
<1>c. /\ options \in Send!Options
      /\ timer \in [Send!Races -> {"off", "armed", "fired"}]
      /\ watch \in [Send!Races -> {"off", "subscription", "polling"}]
      /\ fallback \in [Send!Races -> BOOLEAN] /\ raced \subseteq Send!Races
      /\ poller \in {"off", "on", "received", "failed"} /\ receipt \in {"none", "ok", "reverted"}
      /\ unhandled \subseteq {"timer", "poller", "confirmation"}
      /\ pc \in {"prepare", "sendSetup", "sending", "receiptSetup", "waiting",
                 "deciding", "explaining", "normalizing", "done"}
      /\ promise \in {"pending", "rejected", "fulfilled"} /\ confirming \in BOOLEAN
  BY <1>a DEF Send!TypeOK
<1>d. promise = "fulfilled" => pc = "done" /\ (receipt = "ok" \/ options.resolver \/ ~options.bigint)
  BY <1>a DEF Send!RacesInOrder, Send!OutcomeMatchesReceipt
<1>1. CASE UNCHANGED Send!vars
  <2>1. UNCHANGED <<options, pc, settled, promise, errorEvents, timer, watch, fallback, raced,
                    poller, receipt, confirming, unhandled>>
    BY <1>1 DEF Send!vars, Send!progress
  <2> QED
    BY <2>1 DEF Send!Inv, Send!TypeOK, Send!SettledOnce, Send!RacesInOrder, Send!OutcomeMatchesReceipt, Send!Racing
<1>2. ASSUME UNCHANGED options, Send!Prepare PROVE Send!Inv'
  <2>1. /\ pc = "prepare" /\ UNCHANGED <<watch, fallback, raced, poller, receipt, confirming, unhandled>>
        /\ \/ /\ pc' = "sendSetup" /\ timer' = [timer EXCEPT !["send"] = "armed"]
              /\ UNCHANGED <<settled, promise, errorEvents>>
           \/ Caught /\ UNCHANGED timer
    <3>1. CASE pc' = "done" /\ Send!FailOnce(TRUE)
      BY <1>2, <3>1, FailingOnce DEF Send!Prepare
    <3>2. CASE Send!Catch
      BY <1>2, <3>2, Catching DEF Send!Prepare
    <3> HIDE DEF Caught
    <3> QED BY <1>2, <3>1, <3>2 DEF Send!Prepare
  <2>2. Settled
    BY <1>2, <2>1, <1>c, Settlement
  <2>3. Send!RacesInOrder'
    BY <1>2, <2>1, <1>a, <1>c DEF Send!RacesInOrder, Send!Racing, Send!Races
  <2>4. promise' # "fulfilled"
    BY <2>1, <1>d
  <2> HIDE DEF Settled
  <2> QED BY <1>2, <2>1, <2>2, <2>3, <2>4, <1>b, <1>c
<1>3. ASSUME UNCHANGED options, Send!Normalized PROVE Send!Inv'
  <2>1. /\ pc = "normalizing" /\ pc' = "done"
        /\ UNCHANGED <<timer, watch, fallback, raced, poller, receipt, confirming, unhandled>>
        /\ \E w \in BOOLEAN : Send!FailOnce(w)
    BY <1>3 DEF Send!Normalized
  <2>c. Caught
    BY <2>1, FailingOnce
  <2>2. Settled
    BY <1>3, <2>1, <2>c, <1>c, Settlement
  <2>3. Send!RacesInOrder'
    BY <1>3, <2>1, <2>c, <1>a, <1>c DEF Send!RacesInOrder, Send!Racing, Send!Races
  <2>4. promise' = "fulfilled" => receipt' = "ok" \/ options'.resolver \/ ~options'.bigint
    BY <2>1, <2>c, <1>d
  <2> HIDE DEF Settled
  <2> QED BY <1>3, <2>1, <2>c, <2>2, <2>3, <2>4, <1>b, <1>c
<1>4. ASSUME NEW r \in Send!Races, UNCHANGED options, Send!SetupDone(r) PROVE Send!Inv'
  <2>1. /\ pc = Send!Setup(r) /\ pc' = Send!Racing(r) /\ raced' = raced \cup {r}
        /\ \/ watch' = [watch EXCEPT ![r] = "polling"] /\ fallback' = fallback
           \/ /\ options.useSubscription /\ watch' = [watch EXCEPT ![r] = "subscription"]
              /\ fallback' = [fallback EXCEPT ![r] = TRUE]
        /\ UNCHANGED <<settled, promise, errorEvents, timer, poller, receipt, confirming, unhandled>>
    BY <1>4 DEF Send!SetupDone
  <2>p. /\ r = "send" => pc = "sendSetup" /\ pc' = "sending"
        /\ r = "receipt" => pc = "receiptSetup" /\ pc' = "waiting"
    BY <2>1 DEF Send!Setup, Send!Racing, Send!Races
  <2>2. Settled
    BY <1>4, <2>1, <2>p, <1>c, Settlement DEF Send!Races
  <2>3. Send!RacesInOrder'
    BY <1>4, <2>1, <2>p, <1>a, <1>c DEF Send!RacesInOrder, Send!Racing, Send!Races
  <2>4. promise' # "fulfilled" /\ pc' \in {"sending", "waiting"}
    BY <2>1, <2>p, <1>d DEF Send!Races
  <2>5. /\ watch' \in [Send!Races -> {"off", "subscription", "polling"}]
        /\ fallback' \in [Send!Races -> BOOLEAN] /\ raced' \subseteq Send!Races
    BY <2>1, <1>c
  <2> HIDE DEF Settled
  <2> QED BY <1>4, <2>1, <2>2, <2>3, <2>4, <2>5, <1>b, <1>c
<1>5. ASSUME NEW r \in Send!Races, UNCHANGED options, Send!SetupFails(r) PROVE Send!Inv'
  <2>1. /\ pc \in {"sendSetup", "receiptSetup"} /\ Send!Catch
        /\ UNCHANGED <<timer, watch, fallback, raced, poller, receipt, confirming, unhandled>>
    BY <1>5, <1>c DEF Send!SetupFails, Send!Setup
  <2>c. Caught
    BY <2>1, Catching
  <2>2. Settled
    BY <1>5, <2>1, <2>c, <1>c, Settlement
  <2>3. Send!RacesInOrder'
    BY <1>5, <2>1, <2>c, <1>a, <1>c DEF Send!RacesInOrder, Send!Racing, Send!Races
  <2>4. promise' = "fulfilled" => receipt' = "ok" \/ options'.resolver \/ ~options'.bigint
    BY <2>1, <2>c, <1>d
  <2> HIDE DEF Settled
  <2> QED BY <1>5, <2>1, <2>c, <2>2, <2>3, <2>4, <1>b, <1>c
<1>6. ASSUME NEW r \in Send!Races, UNCHANGED options, Send!TimerFires(r) PROVE Send!Inv'
  <2>1. /\ timer[r] = "armed" /\ timer' = [timer EXCEPT ![r] = "fired"]
        /\ unhandled' \in {unhandled, unhandled \cup {"timer"}}
        /\ UNCHANGED <<pc, settled, promise, errorEvents, watch, fallback, raced, poller,
                       receipt, confirming>>
    BY <1>6, <1>c DEF Send!TimerFires
  <2>2. Settled
    BY <1>6, <2>1, NothingSettles
  <2>3. Send!RacesInOrder'
    BY <1>6, <2>1, <1>a, <1>c DEF Send!RacesInOrder, Send!Racing, Send!Races
  <2>4. promise' = "fulfilled" => receipt' = "ok" \/ options'.resolver \/ ~options'.bigint
    BY <1>6, <2>1, <1>d
  <2> HIDE DEF Settled
  <2> QED BY <1>6, <2>1, <2>2, <2>3, <2>4, <1>b, <1>c
<1>7. ASSUME NEW r \in Send!Races, UNCHANGED options, Send!RaceFails(r) PROVE Send!Inv'
  <2>1. /\ pc = Send!Racing(r) /\ pc # "done" /\ Send!Catch
        /\ timer' = [timer EXCEPT ![r] = "off"] /\ watch' = [watch EXCEPT ![r] = "off"]
        /\ UNCHANGED <<fallback, raced, poller, receipt, confirming, unhandled>>
    BY <1>7, <1>c DEF Send!RaceFails, Send!Finally, Send!Racing
  <2>c. Caught
    BY <2>1, Catching
  <2>2. Settled
    BY <1>7, <2>1, <2>c, <1>c, Settlement
  <2>3. Send!RacesInOrder'
    BY <1>7, <2>1, <2>c, <1>a, <1>c DEF Send!RacesInOrder, Send!Racing, Send!Races
  <2>4. promise' = "fulfilled" => receipt' = "ok" \/ options'.resolver \/ ~options'.bigint
    BY <2>1, <2>c, <1>d
  <2> HIDE DEF Settled
  <2> QED BY <1>7, <2>1, <2>c, <2>2, <2>3, <2>4, <1>b, <1>c
<1>8. ASSUME UNCHANGED options, Send!SendAnswered PROVE Send!Inv'
  <2>1. /\ pc = "sending" /\ pc' = "receiptSetup" /\ poller' = "on"
        /\ watch' = [watch EXCEPT !["send"] = "off"]
        /\ timer' = [timer EXCEPT !["send"] = "off", !["receipt"] = "armed"]
        /\ UNCHANGED <<settled, promise, errorEvents, fallback, raced, receipt, confirming, unhandled>>
    BY <1>8 DEF Send!SendAnswered
  <2>2. Settled
    BY <1>8, <2>1, Settlement
  <2>3. Send!RacesInOrder'
    BY <1>8, <2>1, <1>a, <1>c, <1>d DEF Send!RacesInOrder, Send!Racing, Send!Races
  <2>4. promise' # "fulfilled"
    BY <2>1, <1>d
  <2> HIDE DEF Settled
  <2> QED BY <1>8, <2>1, <2>2, <2>3, <2>4, <1>b, <1>c
<1>9. ASSUME UNCHANGED options, Send!PollFinds PROVE Send!Inv'
  <2>1. /\ poller = "on" /\ poller' = "received" /\ receipt' \in {"ok", "reverted"}
        /\ promise # "fulfilled"
        /\ UNCHANGED <<pc, settled, promise, errorEvents, timer, watch, fallback, raced,
                       confirming, unhandled>>
    BY <1>9, <1>a DEF Send!PollFinds, Send!RacesInOrder
  <2>2. Settled
    BY <1>9, <2>1, NothingSettles
  <2>3. Send!RacesInOrder'
    BY <1>9, <2>1, <1>a, <1>c DEF Send!RacesInOrder, Send!Racing, Send!Races
  <2>4. promise' = "fulfilled" => receipt' = "ok" \/ options'.resolver \/ ~options'.bigint
    BY <1>9, <2>1, <1>d
  <2> HIDE DEF Settled
  <2> QED BY <1>9, <2>1, <2>2, <2>3, <2>4, <1>b, <1>c
<1>10. ASSUME UNCHANGED options, Send!PollFails PROVE Send!Inv'
  <2>1. /\ poller = "on" /\ poller' = "failed" /\ promise # "fulfilled"
        /\ unhandled' \in {unhandled, unhandled \cup {"poller"}}
        /\ UNCHANGED <<pc, settled, promise, errorEvents, timer, watch, fallback, raced,
                       receipt, confirming>>
    BY <1>10, <1>a DEF Send!PollFails, Send!RacesInOrder
  <2>2. Settled
    BY <1>10, <2>1, NothingSettles
  <2>3. Send!RacesInOrder'
    BY <1>10, <2>1, <1>a, <1>c DEF Send!RacesInOrder, Send!Racing, Send!Races
  <2>4. promise' = "fulfilled" => receipt' = "ok" \/ options'.resolver \/ ~options'.bigint
    BY <1>10, <2>1, <1>d
  <2> HIDE DEF Settled
  <2> QED BY <1>10, <2>1, <2>2, <2>3, <2>4, <1>b, <1>c
<1>11. ASSUME UNCHANGED options, Send!ReceiptReceived PROVE Send!Inv'
  <2>1. /\ pc = "waiting" /\ pc' = "deciding" /\ poller = "received"
        /\ timer' = [timer EXCEPT !["receipt"] = "off"] /\ watch' = [watch EXCEPT !["receipt"] = "off"]
        /\ UNCHANGED <<settled, promise, errorEvents, fallback, raced, poller, receipt,
                       confirming, unhandled>>
    BY <1>11 DEF Send!ReceiptReceived, Send!Finally
  <2>2. Settled
    BY <1>11, <2>1, Settlement
  <2>4. promise' # "fulfilled"
    BY <2>1, <1>d
  <2>3. Send!RacesInOrder'
    BY <1>11, <2>1, <2>4, <1>a, <1>c DEF Send!RacesInOrder, Send!Racing, Send!Races
  <2> HIDE DEF Settled
  <2> QED BY <1>11, <2>1, <2>2, <2>3, <2>4, <1>b, <1>c
<1>12. ASSUME UNCHANGED options, Send!Decide PROVE Send!Inv'
  <2>1. /\ pc = "deciding" /\ UNCHANGED <<timer, watch, fallback, raced, poller, receipt, unhandled>>
        /\ \/ pc' = "explaining" /\ UNCHANGED <<settled, promise, errorEvents, confirming>>
           \/ /\ receipt = "ok" \/ options.resolver \/ ~options.bigint
              /\ Send!SucceedOnce /\ pc' = "done" /\ confirming' \in BOOLEAN
           \/ Send!Catch /\ UNCHANGED confirming
    BY <1>12 DEF Send!Decide
  <2>c. \/ pc' = "explaining" /\ UNCHANGED <<settled, promise, errorEvents, confirming>>
        \/ /\ receipt = "ok" \/ options.resolver \/ ~options.bigint
           /\ pc' = "done" /\ settled' = TRUE /\ promise' = "fulfilled"
           /\ errorEvents' \in 0..1 /\ confirming' \in BOOLEAN
        \/ Caught /\ UNCHANGED confirming
    <3>1. CASE /\ receipt = "ok" \/ options.resolver \/ ~options.bigint
               /\ Send!SucceedOnce /\ pc' = "done" /\ confirming' \in BOOLEAN
      <4>1. ~settled /\ errorEvents <= 0 /\ errorEvents \in 0..2
        BY <2>1 DEF Send!Inv, Send!SettledOnce, Send!TypeOK
      <4>2. settled' = TRUE /\ promise' = "fulfilled" /\ errorEvents' = errorEvents
        BY <3>1, <4>1 DEF Send!SucceedOnce
      <4>3. errorEvents' \in 0..1
        BY <4>1, <4>2
      <4> QED BY <3>1, <4>2, <4>3
    <3>2. CASE Send!Catch /\ UNCHANGED confirming
      <4>1. Caught
        BY <2>1, <3>2, Catching
      <4> QED BY <3>2, <4>1
    <3> HIDE DEF Caught
    <3> QED BY <2>1, <3>1, <3>2
  <2>2. Settled
    BY <1>12, <2>1, <2>c, <1>c, Settlement
  <2>3. Send!RacesInOrder'
    BY <1>12, <2>1, <2>c, <1>a, <1>c DEF Send!RacesInOrder, Send!Racing, Send!Races
  <2>4. promise' = "fulfilled" => receipt' = "ok" \/ options'.resolver \/ ~options'.bigint
    BY <1>12, <2>1, <2>c, <1>d
  <2>5. pc' \in {"explaining", "normalizing", "done"}
    BY <2>c
  <2> HIDE DEF Settled
  <2> QED BY <1>12, <2>1, <2>2, <2>3, <2>4, <2>5, <1>b, <1>c
<1>13. ASSUME UNCHANGED options, Send!Explain PROVE Send!Inv'
  <2>1. /\ pc = "explaining" /\ UNCHANGED <<timer, watch, fallback, raced, poller, receipt, unhandled>>
        /\ \/ Send!FailOnce(TRUE) /\ pc' = "done" /\ confirming' \in BOOLEAN
           \/ Send!Catch /\ UNCHANGED confirming
    BY <1>13 DEF Send!Explain
  <2>c. Caught /\ (UNCHANGED confirming \/ (pc' = "done" /\ confirming' \in BOOLEAN))
    <3>1. CASE Send!FailOnce(TRUE) /\ pc' = "done" /\ confirming' \in BOOLEAN
      BY <2>1, <3>1, FailingOnce
    <3>2. CASE Send!Catch /\ UNCHANGED confirming
      <4>1. Caught
        BY <2>1, <3>2, Catching
      <4> HIDE DEF Caught
      <4> QED BY <3>2, <4>1
    <3> HIDE DEF Caught
    <3> QED BY <2>1, <3>1, <3>2
  <2>2. Settled
    <3>1. confirming \in BOOLEAN
      BY <1>a DEF Send!TypeOK
    <3> QED BY <1>13, <2>1, <2>c, <3>1, Settlement
  <2>3. Send!RacesInOrder'
    BY <1>13, <2>1, <2>c, <1>a, <1>c DEF Send!RacesInOrder, Send!Racing, Send!Races
  <2>4. promise' = "fulfilled" => receipt' = "ok" \/ options'.resolver \/ ~options'.bigint
    BY <2>1, <2>c, <1>d
  <2>5. pc' \in {"normalizing", "done"}
    BY <2>c
  <2> HIDE DEF Settled
  <2> QED BY <1>13, <2>1, <2>2, <2>3, <2>4, <2>5, <1>b, <1>c
<1>14. ASSUME NEW r \in Send!Races, UNCHANGED options, Send!HeaderArrives(r) PROVE Send!Inv'
  <2>1. /\ fallback' = [fallback EXCEPT ![r] = FALSE]
        /\ UNCHANGED <<pc, settled, promise, errorEvents, timer, watch, raced, poller,
                       receipt, confirming, unhandled>>
    BY <1>14, <1>c DEF Send!HeaderArrives
  <2>2. Settled
    BY <1>14, <2>1, NothingSettles
  <2>3. Send!RacesInOrder'
    BY <1>14, <2>1, <1>a, <1>c DEF Send!RacesInOrder, Send!Racing, Send!Races
  <2>4. promise' = "fulfilled" => receipt' = "ok" \/ options'.resolver \/ ~options'.bigint
    BY <1>14, <2>1, <1>d
  <2> HIDE DEF Settled
  <2> QED BY <1>14, <2>1, <2>2, <2>3, <2>4, <1>b, <1>c
<1>15. ASSUME NEW r \in Send!Races, UNCHANGED options, Send!RevertToPolling(r) PROVE Send!Inv'
  <2>1. /\ fallback[r] \/ watch[r] = "subscription"
        /\ fallback' = [fallback EXCEPT ![r] = FALSE] /\ watch' = [watch EXCEPT ![r] = "polling"]
        /\ UNCHANGED <<pc, settled, promise, errorEvents, timer, raced, poller, receipt,
                       confirming, unhandled>>
    BY <1>15, <1>c DEF Send!RevertToPolling
  <2>2. Settled
    BY <1>15, <2>1, NothingSettles
  <2>3. Send!RacesInOrder'
    BY <1>15, <2>1, <1>a, <1>c DEF Send!RacesInOrder, Send!Racing, Send!Races
  <2>4. promise' = "fulfilled" => receipt' = "ok" \/ options'.resolver \/ ~options'.bigint
    BY <1>15, <2>1, <1>d
  <2> HIDE DEF Settled
  <2> QED BY <1>15, <2>1, <2>2, <2>3, <2>4, <1>b, <1>c
<1>16. ASSUME NEW r \in Send!Races, UNCHANGED options, Send!StrayWatchEnds(r) PROVE Send!Inv'
  <2>1. /\ watch' = [watch EXCEPT ![r] = "off"]
        /\ UNCHANGED <<pc, settled, promise, errorEvents, timer, fallback, raced, poller,
                       receipt, confirming, unhandled>>
    BY <1>16, <1>c DEF Send!StrayWatchEnds
  <2>2. Settled
    BY <1>16, <2>1, NothingSettles
  <2>3. Send!RacesInOrder'
    BY <1>16, <2>1, <1>a, <1>c DEF Send!RacesInOrder, Send!Racing, Send!Races
  <2>4. promise' = "fulfilled" => receipt' = "ok" \/ options'.resolver \/ ~options'.bigint
    BY <1>16, <2>1, <1>d
  <2> HIDE DEF Settled
  <2> QED BY <1>16, <2>1, <2>2, <2>3, <2>4, <1>b, <1>c
<1>17. ASSUME UNCHANGED options, Send!ConfirmationFails \/ Send!ConfirmationsDone PROVE Send!Inv'
  <2>1. /\ confirming /\ confirming' = FALSE
        /\ errorEvents' \in {errorEvents, errorEvents + 1}
        /\ errorEvents' = errorEvents \/ options.errorListener # "none"
        /\ unhandled' \in {unhandled, unhandled \cup {"confirmation"}}
        /\ UNCHANGED <<pc, settled, promise, timer, watch, fallback, raced, poller, receipt>>
    BY <1>17 DEF Send!ConfirmationFails, Send!ConfirmationsDone, Send!EmitError
  <2>2. Settled
    <3>1. /\ settled = TRUE /\ pc = "done"
          /\ options.errorListener # "throws" => promise # "pending"
      BY <2>1 DEF Send!Inv, Send!SettledOnce
    <3>2. errorEvents <= 1 /\ errorEvents \in 0..2
      BY <2>1, <3>1 DEF Send!Inv, Send!SettledOnce, Send!TypeOK
    <3>3. errorEvents' \in 0..2
      BY <2>1, <3>2
    <3>4. Send!SettledOnce'
      BY <1>17, <2>1, <3>1, <3>3 DEF Send!SettledOnce
    <3> QED BY <1>17, <2>1, <3>1, <3>3, <3>4, <1>c
  <2>3. Send!RacesInOrder'
    BY <1>17, <2>1, <1>a, <1>c DEF Send!RacesInOrder, Send!Racing, Send!Races
  <2>4. promise' = "fulfilled" => receipt' = "ok" \/ options'.resolver \/ ~options'.bigint
    BY <1>17, <2>1, <1>d
  <2> HIDE DEF Settled
  <2> QED BY <1>17, <2>1, <2>2, <2>3, <2>4, <1>b, <1>c
<1> QED
  BY <1>1, <1>2, <1>3, <1>4, <1>5, <1>6, <1>7, <1>8, <1>9, <1>10, <1>11, <1>12, <1>13, <1>14,
     <1>15, <1>16, <1>17 DEF Send!Next, Send!Steps

(* In the composition a call that is not made has nothing to settle either.   *)
LEMMA SendInit == Send!Quiet /\ pc \in {"prepare", "done"} => Send!Inv
<1> SUFFICES ASSUME Send!Quiet, pc \in {"prepare", "done"} PROVE Send!Inv
  OBVIOUS
<1>1. Send!TypeOK
  <2>1. settled \in BOOLEAN /\ confirming \in BOOLEAN
    BY DEF Send!Quiet
  <2>2. /\ timer \in [Send!Races -> {"off", "armed", "fired"}]
        /\ watch \in [Send!Races -> {"off", "subscription", "polling"}]
        /\ fallback \in [Send!Races -> BOOLEAN]
    BY DEF Send!Quiet
  <2>3. errorEvents \in 0..2
    BY DEF Send!Quiet
  <2> QED BY <2>1, <2>2, <2>3 DEF Send!Quiet, Send!TypeOK
<1>2. Send!SettledOnce
  <2>1. settled = FALSE /\ promise = "pending" /\ errorEvents = 0 /\ confirming = FALSE
    BY DEF Send!Quiet
  <2> QED BY <2>1 DEF Send!SettledOnce
<1>3. Send!RacesInOrder
  BY DEF Send!Quiet, Send!RacesInOrder, Send!Races
<1>4. Send!OutcomeMatchesReceipt
  BY DEF Send!Quiet, Send!OutcomeMatchesReceipt
<1> QED BY <1>1, <1>2, <1>3, <1>4 DEF Send!Inv

(* A fulfilled promise has cleared both timers, and without subscriptions a   *)
(* watch ends with its race.                                                  *)
LEMMA SuccessClears == Send!Inv => Send!SuccessLeavesNothing
BY DEF Send!Inv, Send!RacesInOrder, Send!SuccessLeavesNothing, Send!Idle, Send!Racing, Send!Races

-----------------------------------------------------------------------------
(* Confirmations.                                                             *)

(* What is left of a list when an element is taken out.                       *)
LEMMA TakingOut ==
  ASSUME NEW S, NEW s \in Seq(S), NEW i \in 1..Len(s)
  PROVE  /\ Watch!RemoveAt(s, i) \in Seq(S)
         /\ Len(Watch!RemoveAt(s, i)) = Len(s) - 1
<1> DEFINE a == SubSeq(s, 1, i - 1)
           b == SubSeq(s, i + 1, Len(s))
<1>1. Len(s) \in Nat /\ \A k \in 1..Len(s) : s[k] \in S
  BY LenProperties
<1>2. a \in Seq(S) /\ Len(a) = i - 1
  BY <1>1, SubSeqProperties
<1>3. b \in Seq(S) /\ Len(b) = Len(s) - i
  BY <1>1, SubSeqProperties
<1>4. Watch!RemoveAt(s, i) = a \o b
  BY DEF Watch!RemoveAt
<1> HIDE DEF a, b
<1> QED BY <1>1, <1>2, <1>3, <1>4, ConcatProperties

(* The types of the constants.                                               *)
LEMMA WatchConstants ==
  ConfirmationBlocks \in Nat /\ MaxHead \in Nat /\ MaxOverlap \in Nat \ {0}
BY ConstantsAssumption DEF ConstantsAssumption, Watch!ConstantsOK

(* A watch that has just started, and one that was not.                      *)
LEMMA WatchInit == Watch!Init \/ Watch!NotWatched => Watch!Inv
<1> SUFFICES ASSUME Watch!Init \/ Watch!NotWatched PROVE Watch!Inv
  OBVIOUS
<1>1. Watch!NewPoller \in Watch!Pollers /\ Watch!NewPoller.asked = <<>>
  BY DEF Watch!NewPoller, Watch!Pollers
<1>2. pollers \in {<<>>, <<Watch!NewPoller>>}
  BY DEF Watch!Init, Watch!NotWatched, Watch!Watch
<1>3. /\ pollers \in Seq(Watch!Pollers)
      /\ \A p \in DOMAIN pollers : pollers[p].asked = <<>>
  <2>1. CASE pollers = <<>>
    BY <2>1
  <2>2. CASE pollers = <<Watch!NewPoller>>
    BY <2>2, <1>1, IsASeq
  <2> QED BY <1>2, <2>1, <2>2
<1>4. Watch!TypeOK
  <2>1. head \in 0..MaxHead /\ seen \in 0..(MaxHead + 1) /\ confirmed \in Nat
    BY WatchConstants DEF Watch!Init, Watch!NotWatched, Watch!Watch
  <2> QED BY <1>3, <2>1 DEF Watch!Init, Watch!NotWatched, Watch!Watch, Watch!TypeOK
<1>5. Watch!FallbacksLeft
  <2>1. CASE pollers = <<>>
    BY <2>1 DEF Watch!FallbacksLeft
  <2>2. CASE pollers = <<Watch!NewPoller>> /\ pollers # <<>>
    <3>1. sub = "none" /\ ~headerTimer
      BY <2>2 DEF Watch!Init, Watch!NotWatched, Watch!Watch
    <3> QED BY <2>2, <3>1 DEF Watch!FallbacksLeft
  <2> QED BY <1>2, <2>1, <2>2
<1>6. Watch!AsksInStep
  BY <1>3, WatchConstants DEF Watch!AsksInStep
<1>7. Watch!ConfirmationsBacked
  BY WatchConstants DEF Watch!Init, Watch!NotWatched, Watch!Watch, Watch!ConfirmationsBacked
<1> QED BY <1>4, <1>5, <1>6, <1>7 DEF Watch!Inv

(* A poller is replaced by another, or a new one is added.                    *)
LEMMA Replacing ==
  ASSUME pollers \in Seq(Watch!Pollers), NEW p \in DOMAIN pollers, NEW q \in Watch!Pollers,
         pollers' = [pollers EXCEPT ![p] = q]
  PROVE  /\ pollers' \in Seq(Watch!Pollers) /\ Len(pollers') = Len(pollers)
         /\ DOMAIN pollers' = DOMAIN pollers
         /\ pollers'[p] = q /\ \A o \in DOMAIN pollers \ {p} : pollers'[o] = pollers[o]
BY ExceptSeq

(* A new poller has asked for nothing.                                       *)
LEMMA Adding ==
  ASSUME pollers \in Seq(Watch!Pollers), pollers' = Append(pollers, Watch!NewPoller)
  PROVE  /\ pollers' \in Seq(Watch!Pollers) /\ Len(pollers') = Len(pollers) + 1
         /\ \A o \in DOMAIN pollers' : \/ o \in DOMAIN pollers /\ pollers'[o] = pollers[o]
                                       \/ pollers'[o] = Watch!NewPoller
         /\ Watch!NewPoller.asked = <<>>
<1>1. Watch!NewPoller \in Watch!Pollers /\ Watch!NewPoller.asked = <<>>
  BY DEF Watch!NewPoller, Watch!Pollers
<1> HIDE DEF Watch!NewPoller
<1> QED BY <1>1, AppendProperties, LenProperties

(* A poller is made up of its fields.                                        *)
LEMMA Fields ==
  ASSUME NEW r \in Watch!Pollers
  PROVE  r = [count |-> r.count, ticking |-> r.ticking, asked |-> r.asked]
BY DEF Watch!Pollers

(* A request of a poller is over.                                            *)
LEMMA ChangingAsked ==
  ASSUME NEW r \in Watch!Pollers, NEW a \in Seq(Nat \ {0})
  PROVE  [r EXCEPT !.asked = a] = [count |-> r.count, ticking |-> r.ticking, asked |-> a]
<1>1. [r EXCEPT !.asked = a] = [count |-> r.count, ticking |-> r.ticking, asked |-> a]
  <2> DEFINE q == [r EXCEPT !.asked = a]
  <2>1. q \in Watch!Pollers
    BY DEF Watch!Pollers
  <2>2. q.count = r.count /\ q.asked = a
    BY DEF Watch!Pollers
  <2>3. q.ticking = r.ticking
    BY DEF Watch!Pollers
  <2> HIDE DEF q
  <2>4. q = [count |-> r.count, ticking |-> r.ticking, asked |-> a]
    BY <2>1, <2>2, <2>3, Fields
  <2> QED BY <2>4 DEF q
<1> QED BY <1>1

(* A poller asks, or one of its requests is over, and its timer may be       *)
(* stopped.                                                                  *)
LEMMA ChangingTicking ==
  ASSUME NEW r \in Watch!Pollers, NEW t \in BOOLEAN, NEW a \in Seq(Nat \ {0})
  PROVE  /\ [r EXCEPT !.ticking = t, !.asked = a] = [count |-> r.count, ticking |-> t, asked |-> a]
         /\ [r EXCEPT !.asked = a, !.ticking = t] = [count |-> r.count, ticking |-> t, asked |-> a]
<1>1. [r EXCEPT !.ticking = t, !.asked = a] = [count |-> r.count, ticking |-> t, asked |-> a]
  <2> DEFINE q == [r EXCEPT !.ticking = t, !.asked = a]
  <2>1. q \in Watch!Pollers
    BY DEF Watch!Pollers
  <2>2. q.count = r.count /\ q.asked = a
    BY DEF Watch!Pollers
  <2>3. q.ticking = t
    BY DEF Watch!Pollers
  <2> HIDE DEF q
  <2>4. q = [count |-> r.count, ticking |-> t, asked |-> a]
    BY <2>1, <2>2, <2>3, Fields
  <2> QED BY <2>4 DEF q
<1>2. [r EXCEPT !.asked = a, !.ticking = t] = [count |-> r.count, ticking |-> t, asked |-> a]
  <2> DEFINE q == [r EXCEPT !.asked = a, !.ticking = t]
  <2>1. q \in Watch!Pollers
    BY DEF Watch!Pollers
  <2>2. q.count = r.count /\ q.asked = a
    BY DEF Watch!Pollers
  <2>3. q.ticking = t
    BY DEF Watch!Pollers
  <2> HIDE DEF q
  <2>4. q = [count |-> r.count, ticking |-> t, asked |-> a]
    BY <2>1, <2>2, <2>3, Fields
  <2> QED BY <2>4 DEF q
<1> QED BY <1>1, <1>2

(* A poller counts a block.                                                  *)
LEMMA ChangingCount ==
  ASSUME NEW r \in Watch!Pollers, NEW n \in Nat \ {0}, NEW a \in Seq(Nat \ {0})
  PROVE  [r EXCEPT !.asked = a, !.count = n] = [count |-> n, ticking |-> r.ticking, asked |-> a]
<1>1. [r EXCEPT !.asked = a, !.count = n] = [count |-> n, ticking |-> r.ticking, asked |-> a]
  <2> DEFINE q == [r EXCEPT !.asked = a, !.count = n]
  <2>1. q \in Watch!Pollers
    BY DEF Watch!Pollers
  <2>2. q.count = n /\ q.asked = a
    BY DEF Watch!Pollers
  <2>3. q.ticking = r.ticking
    BY DEF Watch!Pollers
  <2> HIDE DEF q
  <2>4. q = [count |-> n, ticking |-> r.ticking, asked |-> a]
    BY <2>1, <2>2, <2>3, Fields
  <2> QED BY <2>4 DEF q
<1> QED BY <1>1

(* Answers, and a tick, change one poller only.                               *)
LEMMA PollStep ==
  ASSUME Watch!Inv, NEW p \in DOMAIN pollers, NEW q \in Watch!Pollers,
         pollers' = [pollers EXCEPT ![p] = q],
         Len(q.asked) <= MaxOverlap,
         MaxOverlap = 1 => \A i \in DOMAIN q.asked : q.asked[i] = q.count,
         UNCHANGED <<failing, head, sub, seen, needToWatchLater, headerTimer>>,
         confirmed' \in Nat, MaxOverlap = 1 => confirmed' <= head + 1
  PROVE  Watch!Inv'
<1>1. Watch!TypeOK /\ Watch!FallbacksLeft /\ Watch!AsksInStep
  BY DEF Watch!Inv
<1>2. /\ pollers' \in Seq(Watch!Pollers) /\ Len(pollers') = Len(pollers)
      /\ DOMAIN pollers' = DOMAIN pollers
      /\ pollers'[p] = q /\ \A o \in DOMAIN pollers \ {p} : pollers'[o] = pollers[o]
  BY <1>1, Replacing DEF Watch!TypeOK
<1>3. Watch!TypeOK'
  BY <1>1, <1>2 DEF Watch!TypeOK
<1>4. Watch!FallbacksLeft'
  BY <1>1, <1>2 DEF Watch!FallbacksLeft
<1>5. Watch!AsksInStep'
  BY <1>1, <1>2 DEF Watch!AsksInStep
<1>6. MaxOverlap = 1 => Watch!ConfirmationsBacked'
  BY DEF Watch!ConfirmationsBacked
<1> QED BY <1>3, <1>4, <1>5, <1>6 DEF Watch!Inv

(* The two fallbacks, counted: a subscription that may still give one up, and *)
(* the timer that may.                                                        *)
SubLeft == IF sub \in {"asking", "on", "leaving", "erring"} THEN 1 ELSE 0
TimerLeft == IF headerTimer THEN 1 ELSE 0

LEMMA CountingFallbacks ==
  /\ Watch!FallbacksLeft <=> Len(pollers) + SubLeft + TimerLeft <= 2
  /\ Watch!FallbacksLeft' <=> Len(pollers') + SubLeft' + TimerLeft' <= 2
  /\ SubLeft \in 0..1 /\ TimerLeft \in 0..1 /\ SubLeft' \in 0..1 /\ TimerLeft' \in 0..1
  /\ sub \in {"asking", "on", "leaving", "erring"} => SubLeft = 1
  /\ sub' \notin {"asking", "on", "leaving", "erring"} => SubLeft' = 0
  /\ sub' = sub => SubLeft' = SubLeft
  /\ headerTimer' = headerTimer => TimerLeft' = TimerLeft
  /\ headerTimer => TimerLeft = 1
  /\ ~headerTimer' => TimerLeft' = 0
BY DEF SubLeft, TimerLeft, Watch!FallbacksLeft

(* Every step of the watch preserves the invariant.                          *)
LEMMA WatchStep == Watch!Inv /\ [Watch!Next]_(Watch!vars) => Watch!Inv'
<1> SUFFICES ASSUME Watch!Inv, [Watch!Next]_(Watch!vars) PROVE Watch!Inv'
  OBVIOUS
<1>a. Watch!TypeOK /\ Watch!FallbacksLeft /\ Watch!AsksInStep
  BY DEF Watch!Inv
<1>b. pollers \in Seq(Watch!Pollers) /\ confirmed \in Nat /\ head \in 0..MaxHead
  BY <1>a DEF Watch!TypeOK
<1>c. MaxOverlap = 1 => confirmed <= head + 1
  BY DEF Watch!Inv, Watch!ConfirmationsBacked
<1>d. \A p \in DOMAIN pollers : pollers[p] \in Watch!Pollers
  BY <1>b, ElementOfSeq
<1>1. ASSUME NEW p \in DOMAIN pollers, Watch!Tick(p) PROVE Watch!Inv'
  <2> DEFINE q == [count |-> pollers[p].count, ticking |-> ~Watch!Enough(p),
                   asked |-> Append(pollers[p].asked, pollers[p].count)]
  <2>1. /\ pollers[p].count \in Nat \ {0} /\ pollers[p].asked \in Seq(Nat \ {0})
        /\ Len(pollers[p].asked) < MaxOverlap
    BY <1>1, <1>d DEF Watch!Tick, Watch!Pollers
  <2>2. q \in Watch!Pollers
    BY <2>1, AppendProperties DEF Watch!Pollers, Watch!Enough
  <2>3. pollers' = [pollers EXCEPT ![p] = q]
    <3>1. pollers' = [pollers EXCEPT ![p] = [pollers[p] EXCEPT !.ticking = ~Watch!Enough(p),
                                        !.asked = Append(@, pollers[p].count)]]
      BY <1>1, <1>b DEF Watch!Tick
    <3>2. q = [pollers[p] EXCEPT !.ticking = ~Watch!Enough(p),
                                 !.asked = Append(@, pollers[p].count)]
      <4> DEFINE a == Append(pollers[p].asked, pollers[p].count)
                 t == ~Watch!Enough(p)
      <4>1. a \in Seq(Nat \ {0}) /\ t \in BOOLEAN
        BY <2>1, AppendProperties DEF Watch!Enough
      <4> HIDE DEF a, t
      <4>2. pollers[p] \in Watch!Pollers
        BY <1>d
      <4>3. [pollers[p] EXCEPT !.ticking = t, !.asked = a]
              = [count |-> pollers[p].count, ticking |-> t, asked |-> a]
        <5>1. CASE t = TRUE
          BY <4>1, <4>2, <5>1, ChangingTicking
        <5>2. CASE t = FALSE
          BY <4>1, <4>2, <5>2, ChangingTicking
        <5> QED BY <4>1, <5>1, <5>2
      <4> QED BY <4>3 DEF a, t
    <3> QED BY <3>1, <3>2
  <2>4. Len(q.asked) <= MaxOverlap
    BY <2>1, WatchConstants, AppendProperties, LenProperties
  <2>5. MaxOverlap = 1 => \A i \in DOMAIN q.asked : q.asked[i] = q.count
    <3> SUFFICES ASSUME MaxOverlap = 1 PROVE \A i \in DOMAIN q.asked : q.asked[i] = q.count
      OBVIOUS
    <3>1. Len(pollers[p].asked) = 0
      BY <2>1, LenProperties
    <3>2. DOMAIN q.asked = 1..1 /\ q.asked[1] = q.count
      BY <2>1, <3>1, AppendProperties, LenProperties
    <3> QED BY <3>2
  <2>6. UNCHANGED <<failing, head, sub, seen, needToWatchLater, headerTimer, confirmed>>
    BY <1>1 DEF Watch!Tick
  <2> HIDE DEF q
  <2> QED BY <1>b, <1>c, <2>2, <2>3, <2>4, <2>5, <2>6, PollStep
<1>2. ASSUME NEW p \in DOMAIN pollers, NEW i \in DOMAIN pollers[p].asked,
             Watch!Answer(p, i) \/ Watch!AnswerFails(p, i)
      PROVE  Watch!Inv'
  <2> DEFINE rest == Watch!RemoveAt(pollers[p].asked, i)
  <2>1. /\ pollers[p].count \in Nat \ {0} /\ pollers[p].ticking \in BOOLEAN
        /\ pollers[p].asked \in Seq(Nat \ {0})
        /\ Len(pollers[p].asked) <= MaxOverlap
        /\ MaxOverlap = 1 => pollers[p].asked[i] = pollers[p].count
    BY <1>a, <1>d DEF Watch!AsksInStep, Watch!Pollers
  <2>2. i \in 1..Len(pollers[p].asked)
    BY <2>1, LenProperties
  <2>3. rest \in Seq(Nat \ {0}) /\ Len(rest) = Len(pollers[p].asked) - 1
    BY <2>1, <2>2, TakingOut
  <2>4. Len(rest) <= MaxOverlap /\ (MaxOverlap = 1 => DOMAIN rest = {})
    BY <2>1, <2>2, <2>3, WatchConstants, LenProperties
  <2>5. ASSUME NEW n \in Nat \ {0}, NEW on \in BOOLEAN,
               pollers' = [pollers EXCEPT ![p] = [count |-> n, ticking |-> on, asked |-> rest]],
               UNCHANGED <<failing, head, sub, seen, needToWatchLater, headerTimer>>,
               confirmed' \in Nat, MaxOverlap = 1 => confirmed' <= head + 1
        PROVE  Watch!Inv'
    <3> DEFINE q == [count |-> n, ticking |-> on, asked |-> rest]
    <3>1. q \in Watch!Pollers /\ q.asked = rest
      BY <2>3 DEF Watch!Pollers
    <3> HIDE DEF rest
    <3>2. pollers' = [pollers EXCEPT ![p] = q]
      BY <2>5
    <3> HIDE DEF q
    <3> QED BY <2>4, <2>5, <3>1, <3>2, PollStep
  <2>6. CASE Watch!Answer(p, i) /\ pollers[p].asked[i] <= head
    <3>1. /\ pollers' = [pollers EXCEPT ![p] = [pollers[p] EXCEPT !.asked = rest, !.count = @ + 1]]
          /\ confirmed' = IF pollers[p].count + 1 > confirmed THEN pollers[p].count + 1 ELSE confirmed
          /\ UNCHANGED <<failing, head, sub, seen, needToWatchLater, headerTimer>>
      BY <2>6, <1>b DEF Watch!Answer, Watch!Emit
    <3>2. [pollers[p] EXCEPT !.asked = rest, !.count = @ + 1]
             = [count |-> pollers[p].count + 1, ticking |-> pollers[p].ticking, asked |-> rest]
      <4> DEFINE n == pollers[p].count + 1
      <4>1. n \in Nat \ {0}
        BY <2>1
      <4> HIDE DEF n, rest
      <4>2. [pollers[p] EXCEPT !.asked = rest, !.count = n]
              = [count |-> n, ticking |-> pollers[p].ticking, asked |-> rest]
        BY <4>1, <2>3, <1>d, ChangingCount
      <4> QED BY <4>2 DEF n
    <3>3. confirmed' \in Nat /\ (MaxOverlap = 1 => confirmed' <= head + 1)
      BY <3>1, <2>1, <2>6, <1>b, <1>c
    <3>4. pollers[p].count + 1 \in Nat \ {0}
      BY <2>1
    <3> HIDE DEF rest
    <3> QED BY <2>1, <2>5, <3>1, <3>2, <3>3, <3>4
  <2>7. CASE Watch!Answer(p, i) /\ ~(pollers[p].asked[i] <= head)
    <3>1. /\ pollers' = [pollers EXCEPT ![p] = [pollers[p] EXCEPT !.asked = rest]]
          /\ UNCHANGED <<failing, head, sub, seen, needToWatchLater, headerTimer, confirmed>>
      BY <2>7, <1>b DEF Watch!Answer
    <3>2. [pollers[p] EXCEPT !.asked = rest]
             = [count |-> pollers[p].count, ticking |-> pollers[p].ticking, asked |-> rest]
      <4> HIDE DEF rest
      <4> QED BY <2>3, <1>d, ChangingAsked
    <3> HIDE DEF rest
    <3> QED BY <2>1, <2>5, <3>1, <3>2, <1>b, <1>c
  <2>8. CASE Watch!AnswerFails(p, i)
    <3>1. /\ pollers' = [pollers EXCEPT ![p] = [pollers[p] EXCEPT !.asked = rest, !.ticking = FALSE]]
          /\ UNCHANGED <<failing, head, sub, seen, needToWatchLater, headerTimer, confirmed>>
      BY <2>8, <1>b DEF Watch!AnswerFails
    <3>2. [pollers[p] EXCEPT !.asked = rest, !.ticking = FALSE]
             = [count |-> pollers[p].count, ticking |-> FALSE, asked |-> rest]
      <4> HIDE DEF rest
      <4> QED BY <2>3, <1>d, ChangingTicking
    <3> HIDE DEF rest
    <3> QED BY <2>1, <2>5, <3>1, <3>2, <1>b, <1>c
  <2> QED BY <1>2, <2>6, <2>7, <2>8
<1>3. ASSUME UNCHANGED <<pollers, headerTimer>>, Watch!TypeOK',
             sub' \in {"asking", "on", "leaving", "erring"} => sub \in {"asking", "on", "leaving", "erring"},
             MaxOverlap = 1 => confirmed' <= head' + 1
      PROVE  Watch!Inv'
  <2>1. Len(pollers) \in Nat
    BY <1>b, LenProperties
  <2>2. Watch!FallbacksLeft'
    <3>1. SubLeft' <= SubLeft /\ TimerLeft' = TimerLeft /\ Len(pollers') = Len(pollers)
      BY <1>3, CountingFallbacks
    <3>2. Len(pollers) + SubLeft + TimerLeft <= 2
      BY <1>a, CountingFallbacks
    <3> QED BY <2>1, <3>1, <3>2, CountingFallbacks
  <2> QED
    BY <2>2, <1>3, <1>a DEF Watch!Inv, Watch!AsksInStep, Watch!ConfirmationsBacked
<1>4. CASE Watch!BlockMined
  <2>1. /\ head' \in 0..MaxHead /\ head' = head + 1
        /\ UNCHANGED <<failing, sub, seen, needToWatchLater, headerTimer, pollers, confirmed>>
    BY <1>4, <1>b, WatchConstants DEF Watch!BlockMined
  <2>2. Watch!TypeOK'
    BY <2>1, <1>a DEF Watch!TypeOK
  <2> QED BY <2>1, <2>2, <1>3, <1>b, <1>c
<1>5. CASE Watch!Subscribed \/ Watch!Left \/ Watch!SubscriptionError \/ Watch!RemovalRejected
  <2>1. /\ sub \in {"asking", "on", "leaving", "erring"}
        /\ sub' \in {"on", "gone", "erring"}
        /\ UNCHANGED <<failing, head, seen, needToWatchLater, headerTimer, pollers, confirmed>>
    BY <1>5 DEF Watch!Subscribed, Watch!Left, Watch!SubscriptionError, Watch!RemovalRejected
  <2>2. Watch!TypeOK'
    BY <2>1, <1>a DEF Watch!TypeOK
  <2> QED BY <2>1, <2>2, <1>3, <1>c
<1>6. ASSUME NEW h \in 0..MaxHead, Watch!Data(h) PROVE Watch!Inv'
  <2>1. /\ sub \in {"on", "leaving", "erring"} /\ h <= head /\ needToWatchLater' = FALSE
        /\ UNCHANGED <<failing, head, headerTimer, pollers>>
        /\ \/ UNCHANGED <<seen, confirmed, sub>>
           \/ /\ seen' = h + 1 /\ confirmed' = IF h + 1 > confirmed THEN h + 1 ELSE confirmed
              /\ sub' \in {"leaving", sub}
    BY <1>6 DEF Watch!Data, Watch!Emit
  <2>2. /\ confirmed' \in Nat /\ (MaxOverlap = 1 => confirmed' <= head' + 1)
        /\ seen' = seen \/ seen' \in 0..(MaxHead + 1)
    BY <2>1, <1>b, <1>c, WatchConstants
  <2>3. sub' \in {"on", "leaving", "erring"}
    BY <2>1
  <2>4. Watch!TypeOK'
    BY <2>1, <2>2, <2>3, <1>a DEF Watch!TypeOK
  <2> QED BY <2>1, <2>2, <2>3, <2>4, <1>3
<1>7. ASSUME pollers' = Append(pollers, Watch!NewPoller), needToWatchLater' \in BOOLEAN,
             sub' \in {"none", "asking", "on", "leaving", "erring", "gone"}, headerTimer' \in BOOLEAN,
             UNCHANGED <<failing, head, seen, confirmed>>, Watch!FallbacksLeft'
      PROVE  Watch!Inv'
  <2>1. Watch!TypeOK'
    BY <1>7, <1>a, <1>b, Adding DEF Watch!TypeOK
  <2>2. Watch!AsksInStep'
    BY <1>7, <1>a, <1>b, Adding, WatchConstants DEF Watch!AsksInStep
  <2>3. MaxOverlap = 1 => Watch!ConfirmationsBacked'
    BY <1>7, <1>c DEF Watch!ConfirmationsBacked
  <2> QED BY <1>7, <2>1, <2>2, <2>3 DEF Watch!Inv
<1>8. CASE Watch!SubscribeFails \/ Watch!RevertToPolling
  <2>1. /\ sub \in {"asking", "erring"} /\ sub' = "gone" /\ needToWatchLater' = FALSE
        /\ pollers' = Append(pollers, Watch!NewPoller)
        /\ UNCHANGED <<failing, head, seen, headerTimer, confirmed>>
    BY <1>8 DEF Watch!SubscribeFails, Watch!RevertToPolling
  <2>2. Len(pollers') = Len(pollers) + 1 /\ Len(pollers) \in Nat
    BY <2>1, <1>b, Adding, LenProperties
  <2>3. Watch!FallbacksLeft'
    <3>1. SubLeft = 1 /\ SubLeft' = 0 /\ TimerLeft' = TimerLeft
      BY <2>1, CountingFallbacks
    <3>2. Len(pollers) + SubLeft + TimerLeft <= 2
      BY <1>a, CountingFallbacks
    <3> QED BY <2>2, <3>1, <3>2, CountingFallbacks
  <2> QED BY <2>1, <2>3, <1>7, <1>a DEF Watch!TypeOK
<1>9. CASE Watch!BlockHeaderTimeout
  <2>1. /\ headerTimer /\ headerTimer' = FALSE
        /\ pollers' = IF needToWatchLater THEN Append(pollers, Watch!NewPoller) ELSE pollers
        /\ UNCHANGED <<failing, head, sub, seen, needToWatchLater, confirmed>>
    BY <1>9 DEF Watch!BlockHeaderTimeout
  <2>2. Len(pollers) \in Nat
    BY <1>b, LenProperties
  <2>3. CASE needToWatchLater
    <3>1. Len(pollers') = Len(pollers) + 1
      BY <2>1, <2>3, <1>b, Adding
    <3>2. Watch!FallbacksLeft'
      <4>1. TimerLeft = 1 /\ TimerLeft' = 0 /\ SubLeft' = SubLeft
        BY <2>1, CountingFallbacks
      <4>2. Len(pollers) + SubLeft + TimerLeft <= 2
        BY <1>a, CountingFallbacks
      <4> QED BY <2>2, <3>1, <4>1, <4>2, CountingFallbacks
    <3> QED BY <2>1, <2>3, <3>2, <1>7, <1>a DEF Watch!TypeOK
  <2>4. CASE ~needToWatchLater
    <3>1. Watch!TypeOK'
      BY <2>1, <2>4, <1>a DEF Watch!TypeOK
    <3>2. Watch!FallbacksLeft'
      BY <2>1, <2>2, <2>4, <1>a DEF Watch!FallbacksLeft
    <3> QED
      BY <2>1, <2>4, <3>1, <3>2, <1>a DEF Watch!Inv, Watch!AsksInStep, Watch!ConfirmationsBacked
  <2> QED BY <2>3, <2>4
<1>10. CASE UNCHANGED Watch!vars
  <2>1. UNCHANGED <<failing, head, sub, seen, needToWatchLater, headerTimer, pollers, confirmed>>
    BY <1>10 DEF Watch!vars
  <2>2. Watch!TypeOK'
    BY <2>1, <1>a DEF Watch!TypeOK
  <2> QED BY <2>1, <2>2, <1>3, <1>c
<1> QED
  BY <1>1, <1>2, <1>4, <1>5, <1>6, <1>8, <1>9, <1>10 DEF Watch!Next, Watch!Polls, Watch!Reverts

-----------------------------------------------------------------------------
(* TransactionSigning: every call keeps what it was given, has what the       *)
(* stages behind it filled in, and is refused only for a reason; with one     *)
(* transaction at a time its nonce is the account's next.                     *)
THEOREM SigningInvariant == Signing!Spec => []Signing!Inv
<1>1. Signing!Init => Signing!Inv
  BY SigningInit
<1>2. Signing!Inv /\ [Signing!Next]_(Signing!vars) => Signing!Inv'
  BY SigningStep
<1> QED BY <1>1, <1>2, PTL DEF Signing!Spec

(* SendTransaction: the PromiEvent settles once, on the outcome the receipt   *)
(* tells, and the races clear their timers and watches in order.              *)
THEOREM SendInvariant == Send!Spec => []Send!Inv
<1>1. Send!Init => Send!Inv
  BY SendInit DEF Send!Init
<1>2. Send!Inv /\ [Send!Next]_(Send!vars) => Send!Inv'
  BY SendStep
<1> QED BY <1>1, <1>2, PTL DEF Send!Spec

(* Confirmations: at most two pollers are started, and where an answer comes  *)
(* before the next tick no confirmation is emitted that the chain does not    *)
(* hold.                                                                      *)
THEOREM WatchInvariant == Watch!Spec => []Watch!Inv
<1>1. Watch!Init => Watch!Inv
  BY WatchInit
<1>2. Watch!Inv /\ [Watch!Next]_(Watch!vars) => Watch!Inv'
  BY WatchStep
<1> QED BY <1>1, <1>2, PTL DEF Watch!Spec

-----------------------------------------------------------------------------
(* The composition.                                                           *)
Parts == Signing!Inv /\ Send!Inv /\ Watch!Inv

(* Where the three stages start, including the two that have nothing to do.  *)
LEMMA PartsInit == MCInit => Parts
<1> SUFFICES ASSUME MCInit PROVE Parts
  OBVIOUS
<1>1. Signing!Inv
  BY SigningInit DEF MCInit
<1>2. Send!Inv
  BY SendInit DEF MCInit, Send!Init
<1>3. Watch!Inv
  BY WatchInit DEF MCInit
<1> QED BY <1>1, <1>2, <1>3 DEF Parts

(* A step of the composition is a step of one stage, and none of the others. *)
LEMMA PartsStep == Parts /\ [MCNext]_mcVars => Parts'
<1> SUFFICES ASSUME Parts, [MCNext]_mcVars PROVE Parts'
  OBVIOUS
<1>1. Signing!Next \/ Overlapping \/ UNCHANGED Signing!vars
  BY DEF MCNext, mcVars, signingVars, Signing!vars, oneByOne
<1>2. [Send!Next]_(Send!vars)
  BY DEF MCNext, mcVars, sendVars, Send!vars, Send!progress
<1>3. [Watch!Next]_(Watch!vars)
  BY DEF MCNext, mcVars, watchVars, Watch!vars
<1> QED BY <1>1, <1>2, <1>3, SigningStep, OverlapStep, SendStep, WatchStep DEF Parts

(* Hence the invariants of the stages hold throughout.                       *)
LEMMA PartsHold == MCSpec => []Parts
BY PartsInit, PartsStep, PTL DEF MCSpec

(* Where an answer about a block comes before the next tick (MaxOverlap = 1), *)
(* the invariants of the three stages hold together: a success leaves nothing *)
(* running and every confirmation is backed by a block.                       *)
THEOREM TransactionsInvariant == ASSUME MaxOverlap = 1 PROVE MCSpec => []Inv
<1>1. Parts => Inv
  BY SuccessClears DEF Parts, Inv, Watch!Inv
<1> QED BY <1>1, PartsHold, PTL

(* Without a defaultCommon a well-formed transaction is refused only if a     *)
(* request failed, and what is signed is signed for the chain it asks for;    *)
(* also where calls overlap that differ in any field.                         *)
THEOREM WellFormedAreSigned ==
  /\ MCSpec => []WellFormedIsSigned
  /\ Signing!Spec => []WellFormedIsSigned
<1>1. Signing!Inv => WellFormedIsSigned
  BY InvSigns DEF WellFormedIsSigned
<1>2. Parts => Signing!Inv
  BY DEF Parts
<1> QED BY <1>1, <1>2, PartsHold, SigningHolds, PTL

(* With the seed at hand, the nonce that is filled in leaves no gap, however  *)
(* many calls prepare at a time, and is the next one of the account if each   *)
(* transaction is mined before the next is prepared.                          *)
THEOREM NoncesFollow ==
  ASSUME WithSeed
  PROVE  /\ MCSpec => []NextNonceIsUsed
         /\ Signing!Spec => []NextNonceIsUsed
<1>1. Signing!Inv => NextNonceIsUsed
  BY InvNonces DEF NextNonceIsUsed
<1>2. Parts => Signing!Inv
  BY DEF Parts
<1> QED BY <1>1, <1>2, PartsHold, SigningHolds, PTL

(* The PromiEvent of sendTransaction() is fulfilled only on a receipt, and,   *)
(* with numbers as bigints and no resolver, only on one of success; no        *)
(* 'error' event precedes its settlement.                                     *)
THEOREM OutcomesMatch == MCSpec => []OutcomeMatchesReceipt
<1>1. Parts => OutcomeMatchesReceipt
  BY DEF Parts, Send!Inv, OutcomeMatchesReceipt
<1> QED BY <1>1, PartsHold, PTL

=============================================================================
