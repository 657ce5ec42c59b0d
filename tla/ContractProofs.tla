---------------------------- MODULE ContractProofs ----------------------------
(* Proofs about the log subscriptions, what a contract calls and sends, what  *)
(* the name service answers and what web3.qrl reads, for any numbers of logs, *)
(* functions, addresses, codes, names and blocks.                             *)
EXTENDS MCContract, Integers, TLAPS, FilterProofs

-----------------------------------------------------------------------------
(* Log subscriptions: no log is lost by subscribe('logs', {fromBlock}).       *)

(* What is delivered after one more log.                                      *)
LEMMA AppendReceived ==
    ASSUME NEW S, NEW s \in Seq(S), NEW e \in S
    PROVE  /\ Append(s, e) \in Seq(S)
           /\ Elements(Append(s, e)) = Elements(s) \cup {e}
<1>1. Append(s, e) \in Seq(S) /\ Len(Append(s, e)) = Len(s) + 1
  OBVIOUS
<1>2. \A i \in 1..Len(s) : Append(s, e)[i] = s[i]
  OBVIOUS
<1>3. Append(s, e)[Len(s) + 1] = e
  OBVIOUS
<1>4. DOMAIN s = 1..Len(s) /\ DOMAIN Append(s, e) = 1..(Len(s) + 1) /\ Len(s) \in Nat
  BY <1>1
<1>5. 1..(Len(s) + 1) = (1..Len(s)) \cup {Len(s) + 1}
  BY <1>4
<1>6. QED
  BY <1>1, <1>2, <1>3, <1>4, <1>5 DEF Elements

(* The program starts without a subscription.                                 *)
LEMMA InitInv == Init => Inv
BY ConstantsAssumption DEF Init, Inv, TypeOK, NothingSlips

(* Every step of web3.qrl.subscribe() keeps the invariant.                    *)
LEMMA NextInv == ~AtOnce /\ Inv /\ [Next]_vars => Inv'
<1> SUFFICES ASSUME ~AtOnce, Inv, [Next]_vars PROVE Inv'
  OBVIOUS
<1> USE ConstantsAssumption DEF Inv, TypeOK, NothingSlips
<1>1. CASE LogMined
  BY <1>1 DEF LogMined, Received
<1>2. CASE Subscribe
  BY <1>2 DEF Subscribe, Received
<1>3. CASE StreamOpened
  <2>1. past = "idle"
    BY <1>3 DEF StreamOpened
  <2>2. QED
    BY <1>3, <2>1 DEF StreamOpened, Received
<1>4. CASE Registered
  BY <1>4 DEF Registered, Received
<1>5. CASE SubscribeFails
  BY <1>5 DEF SubscribeFails, Received
<1>6. CASE Notified
  <2>1. CASE sub = "registered"
    <3>1. next \in 1..MaxLogs
      BY <1>6 DEF Notified
    <3>2. delivered' = Append(delivered, next)
      BY <1>6, <2>1 DEF Notified
    <3>3. delivered' \in Seq(1..MaxLogs) /\ Received' = Received \cup {next}
      BY <3>1, <3>2, AppendReceived DEF Received
    <3>4. 1..(next' - 1) = (1..(next - 1)) \cup {next}
      BY <1>6, <3>1 DEF Notified
    <3>5. QED
      BY <1>6, <3>1, <3>3, <3>4 DEF Notified
  <2>2. CASE sub # "registered"
    <3>1. past = "idle"
      BY <1>6, <2>2 DEF Notified
    <3>2. QED
      BY <1>6, <2>2, <3>1 DEF Notified, Received
  <2>3. QED
    BY <2>1, <2>2
<1>7. CASE Unsubscribe
  BY <1>7 DEF Unsubscribe, Received
<1>8. CASE AskForPast
  BY <1>8 DEF AskForPast, Received
<1>9. CASE PastFound
  BY <1>9 DEF PastFound, Received
<1>10. CASE PastDelivered
  <2>1. 1..snapshot \subseteq 1..MaxLogs /\ snapshot \in Nat
    OBVIOUS
  <2>2. delivered' \in Seq(1..MaxLogs) /\ Received' = Received \cup 1..snapshot
    <3> DEFINE n == snapshot
               m == Len(delivered)
    <3>1. delivered \in Seq(1..MaxLogs) /\ m \in Nat /\ DOMAIN delivered = 1..m
      OBVIOUS
    <3>2. /\ Logs(n) \in Seq(1..MaxLogs) /\ Len(Logs(n)) = n
          /\ \A i \in 1..n : Logs(n)[i] = i
      BY <2>1 DEF Logs
    <3>3. delivered' = delivered \o Logs(n)
      BY <1>10 DEF PastDelivered
    <3>4. delivered' \in Seq(1..MaxLogs) /\ DOMAIN delivered' = 1..(m + n)
      <4> HIDE ConstantsAssumption DEF Inv, TypeOK, NothingSlips
      <4>1. delivered \o Logs(n) \in Seq(1..MaxLogs)
        BY <3>1, <3>2
      <4>2. Len(delivered \o Logs(n)) = m + n
        BY <3>1, <3>2
      <4>3. QED
        BY <3>3, <4>1, <4>2
    <3>5. \A i \in 1..m : (delivered')[i] = delivered[i]
      BY <2>1, <3>1, <3>2, <3>3
    <3>6. \A i \in 1..n : m + i \in 1..(m + n) /\ (delivered')[m + i] = i
      BY <2>1, <3>1, <3>2, <3>3
    <3>7. \A i \in 1..(m + n) : i \in 1..m \/ (\E k \in 1..n : i = m + k)
      <4> SUFFICES ASSUME NEW i \in 1..(m + n), i \notin 1..m
                   PROVE  \E k \in 1..n : i = m + k
        OBVIOUS
      <4>1. i - m \in 1..n /\ i = m + (i - m)
        BY <2>1, <3>1
      <4>2. QED
        BY <4>1
    <3>8. Received' \subseteq Received \cup 1..n
      <4> SUFFICES ASSUME NEW i \in 1..(m + n) PROVE (delivered')[i] \in Received \cup 1..n
        BY <3>4 DEF Received, Elements
      <4>1. CASE i \in 1..m
        BY <4>1, <3>1, <3>5 DEF Received, Elements
      <4>2. CASE \E k \in 1..n : i = m + k
        BY <4>2, <3>6
      <4>3. QED
        BY <4>1, <4>2, <3>7
    <3>9. Received \cup 1..n \subseteq Received'
      <4>1. Received \subseteq Received'
        <5> SUFFICES ASSUME NEW i \in 1..m PROVE delivered[i] \in Received'
          BY <3>1 DEF Received, Elements
        <5>1. i \in DOMAIN delivered' /\ (delivered')[i] = delivered[i]
          BY <2>1, <3>1, <3>4, <3>5
        <5>2. QED
          BY <5>1 DEF Received, Elements
      <4>2. 1..n \subseteq Received'
        <5> SUFFICES ASSUME NEW i \in 1..n PROVE i \in Received'
          OBVIOUS
        <5>1. m + i \in DOMAIN delivered' /\ (delivered')[m + i] = i
          BY <3>4, <3>6
        <5>2. QED
          BY <5>1 DEF Received, Elements
      <4>3. QED
        BY <4>1, <4>2
    <3>10. QED
      BY <3>4, <3>8, <3>9
  <2>3. QED
    BY <1>10, <2>2 DEF PastDelivered
<1>11. CASE PastFails
  BY <1>11 DEF PastFails, Received
<1>12. CASE UNCHANGED vars
  BY <1>12 DEF vars, Received
<1>13. QED
  BY <1>1, <1>2, <1>3, <1>4, <1>5, <1>6, <1>7, <1>8, <1>9, <1>10, <1>11, <1>12 DEF Next

(* Once the past is delivered, the logs are the ones reported or fetched.     *)
LEMMA InvIsLossless == Inv => NothingLost
<1> SUFFICES ASSUME Inv, past = "done", next > mined
             PROVE  1..mined \subseteq Received
  BY DEF NothingLost
<1>1. 1..mined \subseteq 1..(next - 1)
  BY DEF Inv, TypeOK
<1> QED BY <1>1 DEF Inv, NothingSlips

(* The invariant of web3.qrl.subscribe('logs', {fromBlock}).                  *)
THEOREM InvHolds == ~AtOnce => (Spec => []Inv)
<1> SUFFICES ASSUME ~AtOnce PROVE Spec => []Inv
  OBVIOUS
<1>1. Inv /\ [Next]_vars => Inv'
  BY NextInv
<1>2. QED
  BY <1>1, InitInv, PTL DEF Spec

(* No log falls between the past logs and the subscription: setImmediate() in *)
(* web3.qrl.subscribe() asks for the past once the stream is registered.      *)
THEOREM NothingIsLost == ~AtOnce => (Spec => []NothingLost)
BY InvIsLossless, InvHolds, PTL

(* So it is for the composition: what the stream reported before the past was *)
(* fetched is part of that past, and no log falls between the two.            *)
THEOREM LogsArriveHolds == ~AtOnce => (MCSpec => []Inv /\ []NothingLost)
<1> SUFFICES ASSUME ~AtOnce PROVE MCSpec => []Inv /\ []NothingLost
  OBVIOUS
<1>1. MCInit => Inv
  BY InitInv DEF MCInit
<1>2. Inv /\ [MCNext]_mcVars => Inv'
  <2>1. [MCNext]_mcVars => [Next]_vars
    BY DEF MCNext, mcVars
  <2> QED BY <2>1, NextInv
<1>3. Inv => NothingLost
  BY InvIsLossless
<1> QED BY <1>1, <1>2, <1>3, PTL DEF MCSpec

-----------------------------------------------------------------------------
(* The interface of a contract.                                               *)

(* The inductive invariant: a table of overloads by name, which has every     *)
(* function of the interface, and no others until the interface is set again. *)
InterfaceInv ==
    /\ Interface!TypeOK
    /\ \A fr \in Elements(jsonInterface) : fr.kind = "function" => fr \in Elements(overloads[fr.name])
    /\ sets = 0 => \A n \in Interface!Names : Elements(overloads[n]) \subseteq Elements(jsonInterface)
    /\ Interface!SelectedFits /\ Interface!OnlyFitIsTaken

(* A fragment is a function or an event, and its name is a name.              *)
LEMMA FragmentIs ==
    ASSUME NEW fr \in Interface!Fragments
    PROVE  /\ fr.name \in Interface!Names
           /\ fr.kind = "function" => fr \in Functions
           /\ fr \in Functions => fr.kind = "function"
           /\ fr # Interface!Refused
<1>1. /\ Functions \subseteq Interface!Fragment("function")
      /\ Events \subseteq Interface!Fragment("event")
  BY InstancesAssumption DEF Interface!ConstantsOK
<1>2. fr \in Functions \/ fr \in Events
  BY DEF Interface!Fragments
<1>3. /\ fr.name \in Interface!Names
      /\ fr.kind = "function" => fr \in Functions
      /\ fr \in Functions => fr.kind = "function"
  BY <1>1, <1>2 DEF Interface!Fragment, Interface!Names
<1>4. fr # Interface!Refused
  <2>1. DOMAIN fr = {"kind", "name", "inputs"}
    BY <1>1, <1>2 DEF Interface!Fragment
  <2>2. DOMAIN Interface!Refused = {"how"}
    BY DEF Interface!Refused
  <2>3. "kind" # "how"
    OBVIOUS
  <2> QED BY <2>1, <2>2, <2>3
<1> QED BY <1>3, <1>4

(* An interface is an array of at least one fragment.                         *)
LEMMA InterfaceIs ==
    ASSUME NEW abis \in Interface!Interfaces
    PROVE  /\ abis \in Seq(Interface!Fragments)
           /\ \A i \in DOMAIN abis : abis[i] \in Interface!Fragments
BY InstancesAssumption DEF Interface!Interfaces, Interface!ConstantsOK

(* The filters of the interface are those of Filters.                         *)
LEMMA PickedSame ==
    ASSUME NEW s, NEW S
    PROVE  Interface!Picked(s, S) = Picked(s, S)
<1>1. Interface!InOrder(Len(s), S) = InOrder(Len(s), S)
  BY DEF Interface!InOrder, InOrder
<1> QED BY <1>1 DEF Interface!Picked, Picked

(* What an interface adds to the overloads of a name: its functions of that   *)
(* name.                                                                      *)
LEMMA NamedKeeps ==
    ASSUME NEW abis \in Interface!Interfaces, NEW n, NEW q, q = Interface!Named(abis, "function", n)
    PROVE  /\ q \in Seq(Functions)
           /\ \A fr : fr \in Elements(q) <=>
                 fr \in Elements(abis) /\ fr.kind = "function" /\ fr.name = n
<1> DEFINE S == Interface!OfName(abis, "function", n)
<1>1. abis \in Seq(Interface!Fragments) /\ DOMAIN abis = 1..Len(abis)
  BY InterfaceIs
<1>2. PICK at : /\ ListsInOrder(at, S, Len(abis))
                /\ Picked(abis, S) \in Seq(Interface!Fragments) /\ DOMAIN Picked(abis, S) = DOMAIN at
                /\ \A k \in DOMAIN at : Picked(abis, S)[k] = abis[at[k]]
  BY <1>1, PickedKeeps
<1>3. q = Picked(abis, S)
  BY PickedSame DEF Interface!Named
<1>4. \A i : i \in S <=> i \in DOMAIN abis /\ abis[i].kind = "function" /\ abis[i].name = n
  BY DEF Interface!OfName
<1> HIDE DEF S
<1>5. /\ \A k \in DOMAIN at : at[k] \in S
      /\ \A i \in DOMAIN abis : i \in S => \E k \in DOMAIN at : at[k] = i
  BY <1>1, <1>2 DEF ListsInOrder
<1>6. /\ DOMAIN q = DOMAIN at /\ \A k \in DOMAIN q : q[k] = abis[at[k]]
      /\ \A k \in DOMAIN q : at[k] \in S
  BY <1>2, <1>3, <1>5
<1>7. \A k \in DOMAIN q : q[k] \in Functions
  BY <1>4, <1>6, InterfaceIs, FragmentIs
<1>8. q \in Seq(Functions)
  BY <1>2, <1>3, <1>7
<1>9. ASSUME NEW fr \in Elements(q)
      PROVE  fr \in Elements(abis) /\ fr.kind = "function" /\ fr.name = n
  BY <1>4, <1>6, <1>9 DEF Elements
<1>10. ASSUME NEW fr \in Elements(abis), fr.kind = "function", fr.name = n
       PROVE  fr \in Elements(q)
  BY <1>4, <1>5, <1>6, <1>10 DEF Elements
<1> QED BY <1>8, <1>9, <1>10

(* Two arrays put together have the elements of both.                         *)
LEMMA Together ==
    ASSUME NEW T, NEW s \in Seq(T), NEW t \in Seq(T)
    PROVE  s \o t \in Seq(T) /\ Elements(s \o t) = Elements(s) \cup Elements(t)
<1> DEFINE st == s \o t
<1>1. /\ st \in Seq(T) /\ Len(s) \in Nat /\ Len(t) \in Nat
      /\ DOMAIN st = 1..(Len(s) + Len(t)) /\ DOMAIN s = 1..Len(s) /\ DOMAIN t = 1..Len(t)
  OBVIOUS
<1>2. /\ \A k \in 1..Len(s) : st[k] = s[k]
      /\ \A i \in 1..Len(t) : st[Len(s) + i] = t[i]
  OBVIOUS
<1>3. /\ \A k \in DOMAIN st :
            k \in 1..Len(s) \/ (k - Len(s) \in 1..Len(t) /\ k = Len(s) + (k - Len(s)))
      /\ \A i \in 1..Len(t) : Len(s) + i \in DOMAIN st
      /\ \A i \in 1..Len(s) : i \in DOMAIN st
  BY <1>1
<1> HIDE DEF st
<1>4. ASSUME NEW k \in DOMAIN st PROVE st[k] \in Elements(s) \cup Elements(t)
  BY <1>1, <1>2, <1>3, <1>4 DEF Elements
<1>5. ASSUME NEW i \in DOMAIN s PROVE s[i] \in Elements(st)
  BY <1>1, <1>2, <1>3, <1>5 DEF Elements
<1>6. ASSUME NEW i \in DOMAIN t PROVE t[i] \in Elements(st)
  BY <1>1, <1>2, <1>3, <1>6 DEF Elements
<1>7. Elements(st) \subseteq Elements(s) \cup Elements(t)
  BY <1>4 DEF Elements
<1>8. Elements(s) \subseteq Elements(st) /\ Elements(t) \subseteq Elements(st)
  BY <1>5, <1>6 DEF Elements
<1> QED BY <1>1, <1>7, <1>8 DEF st

(* What _parseAndSetJsonInterface() leaves in the table.                      *)
LEMMA CollectedKeeps ==
    ASSUME NEW abis \in Interface!Interfaces, NEW table \in [Interface!Names -> Seq(Functions)],
           NEW now, now = Interface!Collected(abis, table)
    PROVE  /\ now \in [Interface!Names -> Seq(Functions)]
           /\ \A n \in Interface!Names : \A fr : fr \in Elements(now[n]) <=>
                 \/ fr \in Elements(table[n])
                 \/ fr \in Elements(abis) /\ fr.kind = "function" /\ fr.name = n
<1>1. /\ DOMAIN now = Interface!Names
      /\ now = [n \in Interface!Names |-> now[n]]
      /\ \A n \in Interface!Names : now[n] = table[n] \o Interface!Named(abis, "function", n)
  BY DEF Interface!Collected
<1>2. ASSUME NEW n \in Interface!Names
      PROVE  /\ now[n] \in Seq(Functions)
             /\ \A fr : fr \in Elements(now[n]) <=>
                   \/ fr \in Elements(table[n])
                   \/ fr \in Elements(abis) /\ fr.kind = "function" /\ fr.name = n
  <2>1. PICK m : m = Interface!Named(abis, "function", n)
    OBVIOUS
  <2>2. /\ m \in Seq(Functions)
        /\ \A fr : fr \in Elements(m) <=>
              fr \in Elements(abis) /\ fr.kind = "function" /\ fr.name = n
    BY <2>1, NamedKeeps
  <2>3. now[n] = table[n] \o m /\ table[n] \in Seq(Functions)
    BY <1>1, <1>2, <2>1
  <2>4. now[n] \in Seq(Functions) /\ Elements(now[n]) = Elements(table[n]) \cup Elements(m)
    <3>1. now[n] = table[n] \o m
      BY <2>3
    <3>2. table[n] \in Seq(Functions)
      BY <2>3
    <3>3. m \in Seq(Functions)
      BY <2>2
    <3> QED BY <3>1, <3>2, <3>3, Together
  <2> QED BY <2>2, <2>4
<1>3. now \in [Interface!Names -> Seq(Functions)]
  BY <1>1, <1>2
<1> QED BY <1>2, <1>3

(* The least and the greatest position of an array's.                         *)
LEMMA FirstAndLast ==
    ASSUME NEW m \in Nat, NEW S, S \subseteq 1..m, S # {}
    PROVE  Interface!Min(S) \in S /\ Interface!Max(S) \in S
<1>1. S \subseteq Nat /\ S \subseteq 0..m
  OBVIOUS
<1>2. \E n \in S : \A k \in S : n <= k
  BY <1>1, LeastNumber
<1>3. \E n \in S : \A k \in S : k <= n
  BY <1>1, GreatestNumber
<1>4. \E n \in S : \A k \in S : n >= k
  BY <1>1, <1>3
<1> QED BY <1>2, <1>4 DEF Interface!Min, Interface!Max

(* An entry of contract.methods was created with a function of its name.      *)
LEMMA EntryIs ==
    ASSUME NEW abis \in Interface!Interfaces, NEW key, Interface!HasEntry(abis, "function", key),
           NEW fr, fr = Interface!Entry(abis, "function", key)
    PROVE  fr \in Elements(abis) /\ fr.kind = "function" /\ fr.name = key.name
<1> DEFINE all == Interface!OfName(abis, "function", key.name)
           sigs == {i \in all : abis[i].inputs = key.inputs}
<1>1. Len(abis) \in Nat /\ DOMAIN abis = 1..Len(abis)
  BY InterfaceIs
<1>2. all \subseteq 1..Len(abis)
  BY <1>1 DEF Interface!OfName
<1>3. PICK i \in all : key.inputs \in {Interface!Bare, abis[i].inputs}
  BY DEF Interface!HasEntry
<1>4. fr = abis[IF key.inputs = Interface!Bare THEN Interface!Max(all) ELSE Interface!Min(sigs)]
  BY DEF Interface!Entry
<1>5. \E j \in all : fr = abis[j]
  <2>1. CASE key.inputs = Interface!Bare
    <3>1. Interface!Max(all) \in all
      <4> HIDE DEF all
      <4> QED BY <1>1, <1>2, <1>3, FirstAndLast
    <3> HIDE DEF all, sigs
    <3> QED BY <1>4, <2>1, <3>1
  <2>2. CASE key.inputs # Interface!Bare
    <3>1. sigs \subseteq all /\ sigs # {}
      <4> HIDE DEF all
      <4> QED BY <1>3, <2>2
    <3>2. Interface!Min(sigs) \in sigs
      <4> HIDE DEF all, sigs
      <4>1. sigs \subseteq 1..Len(abis) /\ sigs # {}
        BY <1>2, <3>1
      <4> QED BY <1>1, <4>1, FirstAndLast
    <3> HIDE DEF all, sigs
    <3> QED BY <1>4, <2>2, <3>1, <3>2
  <2> QED BY <2>1, <2>2
<1>6. PICK j \in all : fr = abis[j]
  BY <1>5
<1>7. j \in DOMAIN abis /\ abis[j].kind = "function" /\ abis[j].name = key.name
  BY <1>6 DEF Interface!OfName
<1> QED BY <1>6, <1>7 DEF Elements

(* Parameters that are as many as the inputs are not changed by the cut.      *)
LEMMA CastKeeps ==
    ASSUME NEW fr \in Functions, NEW params \in Params, Len(fr.inputs) = Len(params)
    PROVE  Interface!Cast(fr.inputs, params) = params
<1>1. fr.inputs \in Seq({"uint", "bytes", "string"}) /\ params \in Seq({"number", "hex", "text"})
  BY InstancesAssumption DEF Interface!ConstantsOK, Interface!Fragment
<1>2. PICK q : q = fr.inputs
  OBVIOUS
<1>3. DOMAIN q = DOMAIN params
  BY <1>1, <1>2
<1>4. \A i \in DOMAIN q : Interface!Cast(q, params)[i] = params[i]
  BY <1>3 DEF Interface!Cast
<1>5. DOMAIN Interface!Cast(q, params) = DOMAIN q
  BY DEF Interface!Cast
<1>6. Interface!Cast(q, params) = [i \in DOMAIN q |-> Interface!Cast(q, params)[i]]
  BY DEF Interface!Cast
<1>7. params = [i \in DOMAIN params |-> params[i]]
  BY <1>1
<1> QED BY <1>2, <1>3, <1>4, <1>6, <1>7

(* What a call is made with is one of the overloads. Where one has as many    *)
(* inputs as there are parameters, all of these are encoded; there, and where *)
(* there is a single overload, it takes what is encoded. A call is refused    *)
(* only if none takes the parameters. All this as long as the entry was       *)
(* created with one of them.                                                  *)
LEMMA SelectedIs ==
    ASSUME NEW abis \in Seq(Functions), NEW abi \in Elements(abis), NEW params \in Params,
           NEW x, x = Interface!Selected(abi, abis, params)
    PROVE  \/ /\ x # Interface!Refused
              /\ x = [abi |-> x.abi, args |-> x.args]
              /\ x.abi \in Elements(abis)
              /\ Interface!Same(abis, params) # {} => x.args = params
              /\ Interface!Same(abis, params) # {} \/ Len(abis) = 1 =>
                    Interface!Accepts(x.abi.inputs, x.args)
           \/ x = Interface!Refused /\ \A g \in Elements(abis) : ~ Interface!Accepts(g.inputs, params)
<1> DEFINE same == Interface!Same(abis, params)
           fit == {i \in same : Interface!Accepts(abis[i].inputs, params)}
           args == Interface!Cast(abis[1].inputs, params)
<1>1. Len(abis) \in Nat /\ DOMAIN abis = 1..Len(abis)
  OBVIOUS
<1>2. /\ \A i \in DOMAIN abis : i \in same <=> Len(abis[i].inputs) = Len(params)
      /\ same \subseteq 1..Len(abis)
  BY <1>1 DEF Interface!Same
<1>3. x = IF Len(abis) = 1 \/ same = {}
          THEN IF Interface!Accepts(abi.inputs, args)
               THEN [abi |-> abis[1], args |-> args] ELSE Interface!Refused
          ELSE IF fit # {} THEN [abi |-> abis[Interface!Min(fit)], args |-> params]
               ELSE Interface!Refused
  BY DEF Interface!Selected
<1>4. \A g : Interface!Accepts(g.inputs, params) => Len(g.inputs) = Len(params)
  BY DEF Interface!Accepts
<1>5. fit \subseteq 1..Len(abis)
  BY <1>2
<1>6. \A i \in DOMAIN abis : Interface!Accepts(abis[i].inputs, params) => i \in fit
  <2> SUFFICES ASSUME NEW i \in DOMAIN abis, Interface!Accepts(abis[i].inputs, params)
               PROVE  i \in fit
    OBVIOUS
  <2>1. Len(abis[i].inputs) = Len(params)
    BY <1>4
  <2> QED BY <1>2, <2>1
<1>7. \A i \in fit : i \in DOMAIN abis /\ i \in same /\ Interface!Accepts(abis[i].inputs, params)
  BY <1>1, <1>2
<1>8. PICK a \in DOMAIN abis : abi = abis[a]
  BY DEF Elements
<1>9. 1 \in DOMAIN abis /\ abis[1] \in Elements(abis) /\ abis[1] \in Functions
  BY <1>1, <1>8 DEF Elements
<1>10. Len(abis[1].inputs) = Len(params) => args = params
  BY <1>9, CastKeeps
<1>11. \A g, h : /\ [abi |-> g, args |-> h] # Interface!Refused
                 /\ [abi |-> g, args |-> h].abi = g /\ [abi |-> g, args |-> h].args = h
  <2> TAKE g, h
  <2>1. DOMAIN [abi |-> g, args |-> h] = {"abi", "args"} /\ DOMAIN Interface!Refused = {"how"}
    BY DEF Interface!Refused
  <2>2. "abi" # "how"
    OBVIOUS
  <2> QED BY <2>1, <2>2
<1> HIDE DEF fit, same, args
<1>12. CASE Len(abis) = 1
  <2>1. a = 1 /\ \A i \in DOMAIN abis : i = 1
    BY <1>1, <1>8, <1>12
  <2>2. abi = abis[1] /\ \A g \in Elements(abis) : g = abis[1]
    BY <1>8, <2>1 DEF Elements
  <2>3. same # {} => args = params
    BY <1>1, <1>2, <1>9, <1>10, <2>1
  <2>4. CASE Interface!Accepts(abi.inputs, args)
    <3>1. x = [abi |-> abis[1], args |-> args]
      BY <1>3, <1>12, <2>4
    <3>2. x # Interface!Refused /\ x.abi = abis[1] /\ x.args = args
      BY <1>11, <3>1
    <3> QED BY <1>9, <2>2, <2>3, <2>4, <3>1, <3>2 DEF same
  <2>5. CASE ~ Interface!Accepts(abi.inputs, args)
    <3>1. x = Interface!Refused
      BY <1>3, <1>12, <2>5
    <3>2. ~ Interface!Accepts(abis[1].inputs, params)
      BY <1>4, <1>10, <2>2, <2>5
    <3> QED BY <2>2, <3>1, <3>2
  <2> QED BY <2>4, <2>5
<1>13. CASE Len(abis) # 1 /\ same = {}
  <2>1. \A i \in DOMAIN abis : ~ Interface!Accepts(abis[i].inputs, params)
    BY <1>2, <1>4, <1>13
  <2>2. x = [abi |-> abis[1], args |-> args] \/ x = Interface!Refused
    BY <1>3, <1>13
  <2>3. CASE x = [abi |-> abis[1], args |-> args]
    <3>1. x # Interface!Refused /\ x.abi = abis[1] /\ x.args = args
      BY <1>11, <2>3
    <3> QED BY <1>9, <1>13, <2>3, <3>1 DEF same
  <2> QED BY <2>1, <2>2, <2>3 DEF Elements
<1>14. CASE Len(abis) # 1 /\ same # {} /\ fit # {}
  <2>1. Interface!Min(fit) \in fit
    BY <1>1, <1>5, <1>14, FirstAndLast
  <2>2. PICK k : k = Interface!Min(fit)
    OBVIOUS
  <2>3. x = [abi |-> abis[k], args |-> params]
    BY <1>3, <1>14, <2>2
  <2>4. x # Interface!Refused /\ x.abi = abis[k] /\ x.args = params
    BY <1>11, <2>3
  <2>5. abis[k] \in Elements(abis) /\ Interface!Accepts(abis[k].inputs, params)
    BY <1>7, <2>1, <2>2 DEF Elements
  <2> QED BY <2>3, <2>4, <2>5
<1>15. CASE Len(abis) # 1 /\ same # {} /\ fit = {}
  <2>1. \A i \in DOMAIN abis : ~ Interface!Accepts(abis[i].inputs, params)
    BY <1>6, <1>15
  <2>2. x = Interface!Refused
    BY <1>3, <1>15
  <2> QED BY <2>1, <2>2 DEF Elements
<1> QED BY <1>12, <1>13, <1>14, <1>15

-----------------------------------------------------------------------------
(* contract.methods[key](...params) keeps the invariant.                      *)
LEMMA MethodFits ==
    ASSUME InterfaceInv, NEW key, NEW params \in Params, Interface!Method(key, params)
    PROVE  InterfaceInv'
<1>1. /\ UNCHANGED <<jsonInterface, overloads, sets>> /\ pastCall' = Interface!None
      /\ Interface!HasEntry(jsonInterface, "function", key)
  BY DEF Interface!Method
<1>2. /\ jsonInterface \in Interface!Interfaces
      /\ overloads \in [Interface!Names -> Seq(Functions)]
      /\ \A n \in Interface!Names : \A i \in DOMAIN overloads[n] : overloads[n][i].name = n
  BY DEF InterfaceInv, Interface!TypeOK
<1> DEFINE entry == Interface!Entry(jsonInterface, "function", key)
           x == Interface!Selected(entry, overloads[key.name], params)
<1>3. entry \in Elements(jsonInterface) /\ entry.kind = "function" /\ entry.name = key.name
  BY <1>1, <1>2, EntryIs
<1>4. made' = IF x = Interface!Refused
              THEN [how |-> "refused", key |-> key, params |-> params]
              ELSE [how |-> "made", key |-> key, params |-> params, abi |-> x.abi, args |-> x.args]
  BY DEF Interface!Method
<1> HIDE DEF entry
<1>5. /\ entry \in Interface!Fragments /\ key.name \in Interface!Names
      /\ entry \in Elements(overloads[key.name])
  <2>1. entry \in Interface!Fragments
    BY <1>2, <1>3, InterfaceIs DEF Elements
  <2> QED BY <1>3, <2>1, FragmentIs DEF InterfaceInv
<1>6. PICK abis : abis = overloads[key.name]
  OBVIOUS
<1>7. abis \in Seq(Functions) /\ entry \in Elements(abis)
  BY <1>2, <1>5, <1>6
<1>8. \/ /\ x # Interface!Refused
         /\ x.abi \in Elements(abis)
         /\ Interface!Same(abis, params) # {} => x.args = params
         /\ Interface!Same(abis, params) # {} \/ Len(abis) = 1 =>
               Interface!Accepts(x.abi.inputs, x.args)
      \/ x = Interface!Refused /\ \A g \in Elements(abis) : ~ Interface!Accepts(g.inputs, params)
  BY <1>6, <1>7, SelectedIs
<1> HIDE DEF x
<1>9. \A g \in Elements(abis) : g \in Interface!Fragments /\ g.name = key.name /\ g.kind = "function"
  <2>1. \A g \in Elements(abis) : g \in Functions /\ g.name = key.name
    BY <1>2, <1>5, <1>6, <1>7 DEF Elements
  <2> QED BY <2>1, FragmentIs DEF Interface!Fragments
<1>10. Interface!TypeOK'
  <2>1. made'.how \in {"none", "made", "refused"}
    BY <1>4
  <2>2. pastCall'.how \in {"none", "asked"}
    BY <1>1 DEF Interface!None
  <2> QED BY <1>1, <2>1, <2>2 DEF InterfaceInv, Interface!TypeOK
<1>11. \A g : g \in Interface!Candidates' <=>
          /\ g \in Elements(jsonInterface) /\ g.kind = "function" /\ g.name = made'.key.name
          /\ Interface!Accepts(g.inputs, made'.params)
  <2>1. PICK k : k = made'.key.name
    OBVIOUS
  <2>2. PICK q : q = made'.params
    OBVIOUS
  <2>3. Interface!Candidates' = {g \in Elements(jsonInterface) : g.kind = "function" /\ g.name = k
                                     /\ Interface!Accepts(g.inputs, q)}
    BY <1>1, <2>1, <2>2 DEF Interface!Candidates, Interface!Range, Elements
  <2> QED BY <2>1, <2>2, <2>3
<1>12. CASE x = Interface!Refused
  <2>1. made'.how = "refused" /\ made'.key = key /\ made'.params = params
    BY <1>4, <1>12
  <2>2. \A g \in Elements(abis) : ~ Interface!Accepts(g.inputs, params)
    BY <1>8, <1>12
  <2>3. Interface!Candidates' = {}
    <3> SUFFICES ASSUME NEW g \in Interface!Candidates' PROVE FALSE
      OBVIOUS
    <3>1. g \in Elements(jsonInterface) /\ g.kind = "function" /\ g.name = key.name
          /\ Interface!Accepts(g.inputs, params)
      BY <1>11, <2>1
    <3>2. g \in Elements(abis)
      BY <1>6, <3>1 DEF InterfaceInv
    <3> QED BY <2>2, <3>1, <3>2
  <2>4. Interface!SelectedFits' /\ Interface!OnlyFitIsTaken'
    BY <2>1, <2>3 DEF Interface!SelectedFits, Interface!OnlyFitIsTaken
  <2> QED BY <1>1, <1>10, <2>4 DEF InterfaceInv
<1>13. CASE x # Interface!Refused
  <2>1. /\ made'.how = "made" /\ made'.key = key /\ made'.params = params
        /\ made'.abi = x.abi /\ made'.args = x.args
    BY <1>4, <1>13
  <2>2. PICK fr, args : fr = x.abi /\ args = x.args
    OBVIOUS
  <2>3. /\ fr \in Elements(abis)
        /\ Interface!Same(abis, params) # {} => args = params
        /\ Interface!Same(abis, params) # {} \/ Len(abis) = 1 => Interface!Accepts(fr.inputs, args)
    BY <1>8, <1>13, <2>2
  <2>4. /\ Interface!AsMany' # {} => Interface!Same(abis, params) # {}
        /\ Len(overloads'[made'.key.name]) = Len(abis)
    <3>1. Interface!AsMany' = {g \in Elements(abis) : Len(g.inputs) = Len(params)}
      BY <1>1, <1>6, <2>1 DEF Interface!AsMany, Interface!Range, Elements
    <3> QED BY <1>1, <1>6, <2>1, <3>1 DEF Interface!Same, Elements
  <2>5. Interface!SelectedFits'
    <3>1. made'.abi.name = made'.key.name
      BY <1>9, <2>1, <2>2, <2>3
    <3>2. Interface!AsMany' # {} => made'.args = made'.params
      BY <2>1, <2>2, <2>3, <2>4
    <3>3. Interface!AsMany' # {} \/ Len(overloads'[made'.key.name]) = 1 =>
             Interface!Accepts(made'.abi.inputs, made'.args)
      BY <2>1, <2>2, <2>3, <2>4
    <3> QED BY <2>1, <3>1, <3>2, <3>3 DEF Interface!SelectedFits
  <2>6. Interface!OnlyFitIsTaken'
    <3> SUFFICES ASSUME sets = 0, NEW g \in Interface!Candidates', Interface!Candidates' = {g}
                 PROVE  fr = g
      BY <1>1, <2>1, <2>2 DEF Interface!OnlyFitIsTaken
    <3>2. g \in Elements(abis) /\ Interface!Accepts(g.inputs, params)
      BY <1>6, <1>11, <2>1 DEF InterfaceInv
    <3>3. Interface!Same(abis, params) # {}
      BY <3>2 DEF Interface!Same, Interface!Accepts, Elements
    <3>4. Interface!Accepts(fr.inputs, params)
      BY <2>3, <3>3
    <3>5. fr \in Elements(jsonInterface)
      BY <1>5, <1>6, <2>3 DEF InterfaceInv
    <3>6. fr \in Interface!Candidates'
      BY <1>9, <1>11, <2>1, <2>3, <3>4, <3>5
    <3> QED BY <3>6
  <2> QED BY <1>1, <1>10, <2>5, <2>6 DEF InterfaceInv
<1> QED BY <1>12, <1>13

(* A table that is filled for an interface keeps the invariant.               *)
LEMMA CollectedFits ==
    ASSUME jsonInterface' \in Interface!Interfaces, sets' \in 0..MaxSets,
           made' = Interface!None, pastCall' = Interface!None,
           NEW table \in [Interface!Names -> Seq(Functions)],
           \A n \in Interface!Names : \A i \in DOMAIN table[n] : table[n][i].name = n,
           sets' = 0 => \A n \in Interface!Names : Elements(table[n]) = {},
           overloads' = Interface!Collected(jsonInterface', table)
    PROVE  InterfaceInv'
<1>1. PICK abis : abis = jsonInterface'
  OBVIOUS
<1>2. PICK now : now = overloads'
  OBVIOUS
<1>3. /\ now \in [Interface!Names -> Seq(Functions)]
      /\ \A n \in Interface!Names : \A fr : fr \in Elements(now[n]) <=>
            \/ fr \in Elements(table[n])
            \/ fr \in Elements(abis) /\ fr.kind = "function" /\ fr.name = n
  BY <1>1, <1>2, CollectedKeeps
<1>4. \A n \in Interface!Names : \A i \in DOMAIN now[n] : now[n][i].name = n
  <2> SUFFICES ASSUME NEW n \in Interface!Names, NEW i \in DOMAIN now[n]
               PROVE  now[n][i].name = n
    OBVIOUS
  <2>1. now[n][i] \in Elements(now[n])
    BY DEF Elements
  <2> QED BY <1>3, <2>1 DEF Elements
<1>5. \A fr \in Elements(abis) : fr.kind = "function" => fr \in Elements(now[fr.name])
  <2>1. \A fr \in Elements(abis) : fr.name \in Interface!Names
    BY <1>1, InterfaceIs, FragmentIs DEF Elements
  <2> QED BY <1>3, <2>1
<1>6. sets' = 0 => \A n \in Interface!Names : Elements(now[n]) \subseteq Elements(abis)
  BY <1>3
<1>7. made'.how = "none" /\ pastCall'.how = "none"
  BY DEF Interface!None
<1>8. Interface!TypeOK'
  BY <1>1, <1>2, <1>3, <1>4, <1>7 DEF Interface!TypeOK
<1>9. Interface!SelectedFits' /\ Interface!OnlyFitIsTaken'
  BY <1>7 DEF Interface!SelectedFits, Interface!OnlyFitIsTaken
<1> QED BY <1>1, <1>2, <1>5, <1>6, <1>8, <1>9 DEF InterfaceInv

(* The constructor fills an empty table.                                      *)
LEMMA InterfaceBegins == Interface!Init => InterfaceInv
<1> SUFFICES ASSUME Interface!Init
             PROVE  InterfaceInv
  OBVIOUS
<1>1. /\ jsonInterface \in Interface!Interfaces
      /\ overloads = Interface!Collected(jsonInterface, Interface!Empty)
      /\ sets = 0 /\ made = Interface!None /\ pastCall = Interface!None
  BY DEF Interface!Init
<1>2. /\ Interface!Empty \in [Interface!Names -> Seq(Functions)]
      /\ \A n \in Interface!Names : Interface!Empty[n] = <<>>
  BY DEF Interface!Empty
<1>3. Elements(<<>>) = {}
  BY DEF Elements
<1>4. /\ overloads \in [Interface!Names -> Seq(Functions)]
      /\ \A n \in Interface!Names : \A fr : fr \in Elements(overloads[n]) <=>
            fr \in Elements(jsonInterface) /\ fr.kind = "function" /\ fr.name = n
  BY <1>1, <1>2, <1>3, CollectedKeeps
<1>5. \A n \in Interface!Names : \A i \in DOMAIN overloads[n] : overloads[n][i].name = n
  <2> SUFFICES ASSUME NEW n \in Interface!Names, NEW i \in DOMAIN overloads[n]
               PROVE  overloads[n][i].name = n
    OBVIOUS
  <2>1. overloads[n][i] \in Elements(overloads[n])
    BY DEF Elements
  <2> QED BY <1>4, <2>1
<1>6. \A fr \in Elements(jsonInterface) : fr.kind = "function" => fr \in Elements(overloads[fr.name])
  <2>1. \A fr \in Elements(jsonInterface) : fr.name \in Interface!Names
    BY <1>1, InterfaceIs, FragmentIs DEF Elements
  <2> QED BY <1>4, <2>1
<1>7. made.how = "none" /\ pastCall.how = "none" /\ sets \in 0..MaxSets
  BY <1>1, InstancesAssumption DEF Interface!None, Interface!ConstantsOK
<1>8. Interface!TypeOK
  BY <1>1, <1>4, <1>5, <1>7 DEF Interface!TypeOK
<1>9. Interface!SelectedFits /\ Interface!OnlyFitIsTaken
  BY <1>7 DEF Interface!SelectedFits, Interface!OnlyFitIsTaken
<1> QED BY <1>4, <1>6, <1>8, <1>9 DEF InterfaceInv

(* Every step of the interface keeps the invariant: setting it adds to the    *)
(* table, and a clone starts with a table of its own.                         *)
LEMMA InterfacePreserves == InterfaceInv /\ [Interface!Next]_(Interface!vars) => InterfaceInv'
<1> SUFFICES ASSUME InterfaceInv, [Interface!Next]_(Interface!vars)
             PROVE  InterfaceInv'
  OBVIOUS
<1>1. /\ jsonInterface \in Interface!Interfaces /\ sets \in 0..MaxSets /\ MaxSets \in Nat
      /\ overloads \in [Interface!Names -> Seq(Functions)]
      /\ \A n \in Interface!Names : \A i \in DOMAIN overloads[n] : overloads[n][i].name = n
  BY InstancesAssumption DEF InterfaceInv, Interface!TypeOK, Interface!ConstantsOK
<1>2. Interface!SetJsonInterface => InterfaceInv'
  <2> SUFFICES ASSUME Interface!SetJsonInterface PROVE InterfaceInv'
    OBVIOUS
  <2>1. /\ sets < MaxSets /\ sets' = sets + 1
        /\ jsonInterface' \in Interface!Interfaces
        /\ overloads' = Interface!Collected(jsonInterface', overloads)
        /\ made' = Interface!None /\ pastCall' = Interface!None
    BY DEF Interface!SetJsonInterface
  <2>2. sets' \in 0..MaxSets /\ sets' # 0
    BY <1>1, <2>1
  <2>3. PICK table : table = overloads
    OBVIOUS
  <2> QED BY <1>1, <2>1, <2>2, <2>3, CollectedFits
<1>3. Interface!Clone => InterfaceInv'
  <2> SUFFICES ASSUME Interface!Clone PROVE InterfaceInv'
    OBVIOUS
  <2>1. /\ jsonInterface' = jsonInterface /\ sets' = 0
        /\ overloads' = Interface!Collected(jsonInterface', Interface!Empty)
        /\ made' = Interface!None /\ pastCall' = Interface!None
    BY DEF Interface!Clone
  <2>2. /\ Interface!Empty \in [Interface!Names -> Seq(Functions)]
        /\ \A n \in Interface!Names : Interface!Empty[n] = <<>>
    BY DEF Interface!Empty
  <2>3. \A n \in Interface!Names : \A i \in DOMAIN Interface!Empty[n] : Interface!Empty[n][i].name = n
    BY <2>2
  <2>4. \A n \in Interface!Names : Elements(Interface!Empty[n]) = {}
    BY <2>2 DEF Elements
  <2>5. sets' \in 0..MaxSets
    BY <1>1, <2>1
  <2>6. PICK table : table = Interface!Empty
    OBVIOUS
  <2> QED BY <1>1, <2>1, <2>2, <2>3, <2>4, <2>5, <2>6, CollectedFits
<1>4. ASSUME NEW key, Interface!PastEvents(key)
      PROVE  InterfaceInv'
  <2>1. UNCHANGED <<jsonInterface, overloads, sets>> /\ made' = Interface!None /\ pastCall'.how = "asked"
    BY <1>4 DEF Interface!PastEvents
  <2>2. made'.how = "none"
    BY <2>1 DEF Interface!None
  <2>3. Interface!TypeOK'
    BY <2>1, <2>2 DEF InterfaceInv, Interface!TypeOK
  <2>4. Interface!SelectedFits' /\ Interface!OnlyFitIsTaken'
    BY <2>2 DEF Interface!SelectedFits, Interface!OnlyFitIsTaken
  <2> QED BY <2>1, <2>3, <2>4 DEF InterfaceInv
<1>5. CASE UNCHANGED Interface!vars
  <2>1. UNCHANGED <<jsonInterface, overloads, sets, made, pastCall>>
    BY <1>5 DEF Interface!vars
  <2> QED BY <2>1 DEF InterfaceInv, Interface!TypeOK, Interface!SelectedFits,
                      Interface!OnlyFitIsTaken, Interface!Candidates, Interface!AsMany
<1> QED BY <1>2, <1>3, <1>4, <1>5, MethodFits DEF Interface!Next

(* The interface of a contract, by itself: a call is made with a function of  *)
(* its name, which takes the parameters where one has as many inputs, however *)
(* often the interface is set.                                                *)
THEOREM InterfaceInvariant == Interface!Spec => []InterfaceInv
BY InterfaceBegins, InterfacePreserves, PTL DEF Interface!Spec

(* So it is for the composition (_createContractMethod): a method object is   *)
(* made with a function of its name; that takes what is encoded if it is the  *)
(* only one of the name or one of the name has as many inputs as there are    *)
(* parameters; and it is refused only if no function of its name takes them.  *)
THEOREM SelectedFitsHolds == MCSpec => []SelectedFits
<1>1. MCInit => InterfaceInv
  BY InterfaceBegins DEF MCInit
<1>2. InterfaceInv /\ [MCNext]_mcVars => InterfaceInv'
  <2>1. UNCHANGED interfaceVars => UNCHANGED Interface!vars
    BY DEF interfaceVars, Interface!vars
  <2>2. UNCHANGED mcVars => UNCHANGED interfaceVars
    BY DEF mcVars
  <2>3. MCNext => Interface!Next \/ UNCHANGED interfaceVars
    BY DEF MCNext
  <2> QED BY <2>1, <2>2, <2>3, InterfacePreserves
<1>3. InterfaceInv => SelectedFits
  BY DEF InterfaceInv, SelectedFits
<1> QED BY <1>1, <1>2, <1>3, PTL DEF MCSpec

-----------------------------------------------------------------------------
(* What a contract sends.                                                     *)

(* Undefined is none of the values that are compared with it.                 *)
LEMMA NullIsNothing ==
    /\ \A a \in Addresses : a # Null
    /\ \A u \in Users : u # Null
    /\ \A x \in Codes : x # Null /\ [create |-> x] # Null
    /\ [call |-> TRUE] # Null /\ Calls!Thrown # Null
    /\ Calls!Function # Null /\ \A b \in BOOLEAN : Calls!Constructor(b) # Null
    /\ \A how \in {"call", "list", "send", "deploy", "estimate"} : how # Null
<1>1. Calls!ConstantsOK
  BY InstancesAssumption
<1>2. \A x \in Codes : [create |-> x] \in Calls!Payloads
  BY DEF Calls!Payloads
<1>3. [call |-> TRUE] \in Calls!Payloads
  BY DEF Calls!Payloads
<1>4. \A b \in BOOLEAN : Calls!Constructor(b) \in {Calls!Constructor(TRUE), Calls!Constructor(FALSE)}
  OBVIOUS
<1> HIDE DEF Calls!Constructor, Calls!Function, Calls!Thrown, Calls!Payloads
<1> QED BY <1>1, <1>2, <1>3, <1>4 DEF Calls!ConstantsOK

(* A refusal is no call data, and no transaction.                             *)
LEMMA ThrownIsNothing ==
    /\ [call |-> TRUE] # Calls!Thrown
    /\ \A x : [create |-> x] # Calls!Thrown
    /\ \A to, from, input, data :
          [to |-> to, from |-> from, input |-> input, data |-> data] # Calls!Thrown
<1>1. DOMAIN Calls!Thrown = {"thrown"}
  BY DEF Calls!Thrown
<1>2. DOMAIN [call |-> TRUE] = {"call"}
  OBVIOUS
<1>3. \A x : DOMAIN [create |-> x] = {"create"}
  OBVIOUS
<1>4. \A to, from, input, data :
         DOMAIN [to |-> to, from |-> from, input |-> input, data |-> data]
            = {"to", "from", "input", "data"}
  OBVIOUS
<1>5. "call" # "thrown" /\ "create" # "thrown" /\ "to" # "thrown"
  OBVIOUS
<1>6. \A to, from, input, data :
          [to |-> to, from |-> from, input |-> input, data |-> data] # Calls!Thrown
  <2> SUFFICES ASSUME NEW to, NEW from, NEW input, NEW data,
                      [to |-> to, from |-> from, input |-> input, data |-> data] = Calls!Thrown
               PROVE  FALSE
    OBVIOUS
  <2>1. {"to", "from", "input", "data"} = {"thrown"}
    BY <1>1, <1>4
  <2> QED BY <2>1
<1> QED BY <1>1, <1>2, <1>3, <1>5, <1>6

(* The transaction that is made of the options and of its call data.          *)
LEMMA TxOfPayload ==
    ASSUME NEW contract, NEW opts, NEW abi, NEW fill, NEW data, NEW input,
           Calls!DataInputEncodeMethodHelper(Calls!Merged(contract, opts), abi, fill)
              = [data |-> data, input |-> input]
    PROVE  Calls!TxParams(contract, opts, abi, fill)
              = IF Calls!Thrown \in {data, input} THEN Calls!Thrown
                ELSE [to |-> contract.address, from |-> Calls!Orelse(opts.from, contract.from),
                      input |-> input, data |-> data]
<1> DEFINE tx == Calls!Merged(contract, opts)
           payload == Calls!DataInputEncodeMethodHelper(tx, abi, fill)
<1>1. payload.data = data /\ payload.input = input
  OBVIOUS
<1>2. Calls!TxParams(contract, opts, abi, fill)
         = IF Calls!Thrown \in {data, input} THEN Calls!Thrown
           ELSE [tx EXCEPT !.data = data, !.input = input]
  BY <1>1 DEF Calls!TxParams
<1>3. [tx EXCEPT !.data = data, !.input = input]
         = [to |-> contract.address, from |-> Calls!Orelse(opts.from, contract.from),
            input |-> input, data |-> data]
  <2> DEFINE a == contract.address
             f == Calls!Orelse(opts.from, contract.from)
             i == tx.input
             d == tx.data
             all == [to |-> a, from |-> f, input |-> i, data |-> d]
             result == [all EXCEPT !.data = data, !.input = input]
  <2>1. tx = all
    BY DEF Calls!Merged
  <2> HIDE DEF tx, a, f, i, d
  <2>2. all \in [to : {a}, from : {f}, input : {i, input}, data : {d, data}]
    OBVIOUS
  <2> HIDE DEF all
  <2>3. /\ result \in [to : {a}, from : {f}, input : {i, input}, data : {d, data}]
        /\ result.data = data /\ result.input = input
    BY <2>2
  <2> HIDE DEF result
  <2>4. /\ result = [to |-> result.to, from |-> result.from, input |-> result.input, data |-> result.data]
        /\ result.to = a /\ result.from = f
    BY <2>3
  <2>5. result = [to |-> a, from |-> f, input |-> input, data |-> data]
    BY <2>3, <2>4
  <2> QED BY <2>1, <2>5 DEF result, a, f
<1> QED BY <1>2, <1>3

(* The call data of a method: one name of it has them, or both.               *)
LEMMA MethodPayload ==
    ASSUME NEW tx, NEW fill
    PROVE  \E data, input \in {Null, [call |-> TRUE]} :
              /\ Calls!DataInputEncodeMethodHelper(tx, Calls!Function, fill)
                    = [data |-> data, input |-> input]
              /\ data # Null \/ input # Null
<1> DEFINE encoded == [call |-> TRUE]
           Encoded(x, y) == IF x # Null \/ fill = "both"
                            THEN Calls!EncodeMethodABI(Calls!Function, Calls!Orelse(x, y)) ELSE Null
<1>1. \A code : Calls!EncodeMethodABI(Calls!Function, code) = encoded
  BY DEF Calls!EncodeMethodABI, Calls!Function
<1>2. /\ Encoded(tx.data, tx.input) \in {Null, encoded}
      /\ Encoded(tx.input, tx.data) \in {Null, encoded}
  BY <1>1
<1>3. encoded # Null
  BY NullIsNothing
<1>4. Calls!DataInputEncodeMethodHelper(tx, Calls!Function, fill)
         = IF Encoded(tx.data, tx.input) # Null \/ Encoded(tx.input, tx.data) # Null
           THEN [data |-> Encoded(tx.data, tx.input), input |-> Encoded(tx.input, tx.data)]
           ELSE IF fill = "data" THEN [data |-> encoded, input |-> Null]
           ELSE [data |-> Null, input |-> encoded]
  BY <1>1 DEF Calls!DataInputEncodeMethodHelper
<1> HIDE DEF Encoded, encoded
<1>5. CASE Encoded(tx.data, tx.input) # Null \/ Encoded(tx.input, tx.data) # Null
  BY <1>2, <1>4, <1>5 DEF encoded
<1>6. CASE ~(Encoded(tx.data, tx.input) # Null \/ Encoded(tx.input, tx.data) # Null)
  <2>1. CASE fill = "data"
    BY <1>3, <1>4, <1>6, <2>1 DEF encoded
  <2>2. CASE fill # "data"
    BY <1>3, <1>4, <1>6, <2>2 DEF encoded
  <2> QED BY <2>1, <2>2
<1> QED BY <1>5, <1>6

(* The transaction of a method is a call, whatever code the options carry.    *)
LEMMA MethodTx ==
    ASSUME NEW contract, NEW opts, NEW fill, NEW tx,
           tx = Calls!FormatTransaction(Calls!TxParams(contract, opts, Calls!Function, fill))
    PROVE  /\ tx # Calls!Thrown /\ Calls!Payload(tx) = [call |-> TRUE]
           /\ tx.to = contract.address /\ tx.from = Calls!Orelse(opts.from, contract.from)
<1>1. PICK data, input \in {Null, [call |-> TRUE]} :
         /\ Calls!DataInputEncodeMethodHelper(Calls!Merged(contract, opts), Calls!Function, fill)
               = [data |-> data, input |-> input]
         /\ data # Null \/ input # Null
  BY MethodPayload
<1>2. Calls!Thrown \notin {data, input}
  BY NullIsNothing, ThrownIsNothing
<1> DEFINE built == [to |-> contract.address, from |-> Calls!Orelse(opts.from, contract.from),
                    input |-> input, data |-> data]
<1>3. Calls!TxParams(contract, opts, Calls!Function, fill) = built
  BY <1>1, <1>2, TxOfPayload
<1>4. /\ built.to = contract.address /\ built.from = Calls!Orelse(opts.from, contract.from)
      /\ built.input = input /\ built.data = data
  OBVIOUS
<1>5. built # Calls!Thrown
  BY ThrownIsNothing
<1> HIDE DEF built
<1>6. tx = built
  BY <1>1, <1>3, <1>4, <1>5 DEF Calls!FormatTransaction
<1>7. Calls!Payload(built) = [call |-> TRUE]
  BY <1>1, <1>4 DEF Calls!Payload, Calls!Orelse
<1> QED BY <1>4, <1>5, <1>6, <1>7

(* The transaction of a deployment creates the contract from the code it has  *)
(* found; it is refused for arguments that do not fit and for two codes.      *)
LEMMA DeploymentTx ==
    ASSUME NEW contract, NEW opts, NEW fill, NEW fits \in BOOLEAN, NEW tx,
           tx = Calls!FormatTransaction(
                   Calls!TxParams(contract, opts, Calls!Constructor(fits), fill)),
           opts.data = Null, opts.input \in Codes \cup {Null},
           contract.input \in Codes \cup {Null}, contract.data \in Codes \cup {Null},
           contract.input # Null \/ contract.data # Null,
           NEW code, code = Calls!Orelse(opts.input, contract.input)
    PROVE  /\ tx = Calls!Thrown <=>
                 ~fits \/ (code # Null /\ contract.data # Null /\ code # contract.data)
           /\ tx # Calls!Thrown =>
                 /\ Calls!Payload(tx) = [create |-> Calls!Orelse(code, contract.data)]
                 /\ tx.to = contract.address
                 /\ tx.from = Calls!Orelse(opts.from, contract.from)
<1> DEFINE merged == Calls!Merged(contract, opts)
           c == contract.data
           E(x) == IF fits THEN [create |-> x] ELSE Calls!Thrown
           D == IF c # Null \/ fill = "both" THEN E(Calls!Orelse(c, code)) ELSE Null
           I == IF code # Null \/ fill = "both" THEN E(Calls!Orelse(code, c)) ELSE Null
<1>1. merged.data = c /\ merged.input = code
  BY DEF Calls!Merged, Calls!Orelse
<1>2. code \in Codes \cup {Null} /\ c \in Codes \cup {Null} /\ (code # Null \/ c # Null)
  BY DEF Calls!Orelse
<1>3. Calls!Orelse(c, code) \in Codes /\ Calls!Orelse(code, c) \in Codes
  BY <1>2 DEF Calls!Orelse
<1>4. \A x \in Codes : Calls!EncodeMethodABI(Calls!Constructor(fits), x) = E(x)
  BY NullIsNothing DEF Calls!EncodeMethodABI, Calls!Constructor
<1>5. D # Null \/ I # Null
  BY <1>2, <1>3, NullIsNothing
<1>6. Calls!DataInputEncodeMethodHelper(merged, Calls!Constructor(fits), fill)
         = [data |-> D, input |-> I]
  <2> DEFINE Encoded(x, y) ==
                IF x # Null \/ fill = "both"
                THEN Calls!EncodeMethodABI(Calls!Constructor(fits), Calls!Orelse(x, y)) ELSE Null
  <2>1. Encoded(c, code) = D /\ Encoded(code, c) = I
    BY <1>3, <1>4
  <2> HIDE DEF D, I
  <2>2. Encoded(merged.data, merged.input) = D /\ Encoded(merged.input, merged.data) = I
    BY <1>1, <2>1
  <2> QED BY <1>5, <2>2 DEF Calls!DataInputEncodeMethodHelper
<1> HIDE DEF D, I, merged
<1> DEFINE built == [to |-> contract.address, from |-> Calls!Orelse(opts.from, contract.from),
                    input |-> I, data |-> D]
<1>7. Calls!TxParams(contract, opts, Calls!Constructor(fits), fill)
         = IF Calls!Thrown \in {D, I} THEN Calls!Thrown ELSE built
  BY <1>6, TxOfPayload DEF merged
<1>8. /\ built.to = contract.address /\ built.from = Calls!Orelse(opts.from, contract.from)
      /\ built.input = I /\ built.data = D
  OBVIOUS
<1>9. built # Calls!Thrown
  BY ThrownIsNothing
<1> HIDE DEF built
<1>10. CASE ~fits
  <2>1. Calls!Thrown \in {D, I}
    BY <1>2, <1>10 DEF D, I
  <2> QED BY <1>7, <1>10, <2>1 DEF Calls!FormatTransaction
<1>11. CASE fits
  <2>1. Calls!Thrown \notin {D, I}
    BY <1>11, NullIsNothing, ThrownIsNothing DEF D, I
  <2>2. tx = IF D # Null /\ I # Null /\ D # I THEN Calls!Thrown ELSE built
    BY <1>7, <1>8, <1>9, <2>1 DEF Calls!FormatTransaction
  <2>3. D # Null /\ I # Null /\ D # I <=> code # Null /\ c # Null /\ code # c
    <3>1. \A x, y : [create |-> x] = [create |-> y] <=> x = y
      <4> TAKE x, y
      <4>1. [create |-> x].create = x /\ [create |-> y].create = y
        OBVIOUS
      <4> QED BY <4>1
    <3>2. CASE code # Null /\ c # Null
      <4>1. D = [create |-> c] /\ I = [create |-> code]
        BY <3>2, <1>11 DEF D, I, Calls!Orelse
      <4> QED BY <3>1, <3>2, <4>1, <1>2, NullIsNothing
    <3>3. CASE code = Null
      <4>1. I = Null \/ I = D
        BY <3>3, <1>2 DEF D, I, Calls!Orelse
      <4> QED BY <3>3, <4>1
    <3>4. CASE c = Null
      <4>1. D = Null \/ I = D
        BY <3>4, <1>2 DEF D, I, Calls!Orelse
      <4> QED BY <3>4, <4>1
    <3> QED BY <3>2, <3>3, <3>4
  <2>4. ~(code # Null /\ c # Null /\ code # c) =>
           Calls!Payload(built) = [create |-> Calls!Orelse(code, c)]
    <3> HAVE ~(code # Null /\ c # Null /\ code # c)
    <3>1. Calls!Orelse(c, code) = Calls!Orelse(code, c)
      BY <1>2 DEF Calls!Orelse
    <3>2. [create |-> Calls!Orelse(code, c)] # Null
      BY <1>3, NullIsNothing
    <3>3. (I = Null /\ D = [create |-> Calls!Orelse(code, c)])
          \/ I = [create |-> Calls!Orelse(code, c)]
      BY <1>2, <1>5, <1>11, <3>1 DEF D, I
    <3> QED BY <1>8, <3>2, <3>3 DEF Calls!Payload, Calls!Orelse
  <2> QED BY <1>8, <1>9, <1>11, <2>2, <2>3, <2>4
<1> QED BY <1>10, <1>11

-----------------------------------------------------------------------------
(* The fields of options, and what can be held.                               *)
LEMMA OptionFields ==
    ASSUME NEW o \in Calls!OptionSet
    PROVE  /\ o.address \in Addresses \cup {Null} /\ o.from \in Users \cup {Null}
           /\ o.input \in Codes \cup {Null} /\ o.data \in Codes \cup {Null}
           /\ o = [address |-> o.address, from |-> o.from, input |-> o.input, data |-> o.data]
BY DEF Calls!OptionSet, Calls!Maybe

(* The options of a call.                                                     *)
LEMMA CallOptionFields ==
    ASSUME NEW o \in Calls!CallOptions
    PROVE  o.from \in Users \cup {Null} /\ o.input \in Codes \cup {Null} /\ o.data = Null
BY DEF Calls!CallOptions, Calls!Maybe

(* The object held is none, that of a method or that of a deployment.         *)
LEMMA HeldIs ==
    ASSUME Calls!TypeOK
    PROVE  /\ held = Calls!NoObject => ~Calls!Deploying /\ ~Calls!Calling
           /\ held = Calls!MethodObject =>
                 /\ held # Calls!NoObject /\ held.abi = Calls!Function
                 /\ Calls!Calling /\ ~Calls!Deploying
           /\ held \in Calls!DeployObjects =>
                 /\ held # Calls!NoObject /\ Calls!Deploying /\ ~Calls!Calling
                 /\ held.options \in Calls!OptionSet
                 /\ held.options.input # Null \/ held.options.data # Null
                 /\ \E fits \in BOOLEAN : held.abi = Calls!Constructor(fits) /\ held.abi.fits = fits
           /\ held = Calls!NoObject \/ held = Calls!MethodObject \/ held \in Calls!DeployObjects
<1>1. held = Calls!NoObject => held.abi = Null
  BY DEF Calls!NoObject
<1>2. held = Calls!MethodObject => held.abi = Calls!Function
  BY DEF Calls!MethodObject
<1>3. held \in Calls!DeployObjects =>
         /\ held.abi \in {Calls!Constructor(TRUE), Calls!Constructor(FALSE)}
         /\ held.options \in Calls!OptionSet
         /\ held.options.input # Null \/ held.options.data # Null
  <2> DEFINE C == {Calls!Constructor(TRUE), Calls!Constructor(FALSE)}
             O == {o \in Calls!OptionSet : o.input # Null \/ o.data # Null}
  <2>1. Calls!DeployObjects = [abi : C, options : O]
    BY DEF Calls!DeployObjects
  <2> HIDE DEF C, O
  <2>2. held \in Calls!DeployObjects => held.abi \in C /\ held.options \in O
    BY <2>1
  <2> QED BY <2>2 DEF C, O
<1>4. Calls!Function.type = "function"
  BY DEF Calls!Function
<1>5. \A b \in BOOLEAN : /\ Calls!Constructor(b).type = "constructor"
                         /\ Calls!Constructor(b).fits = b
  BY DEF Calls!Constructor
<1>6. held = Calls!NoObject \/ held = Calls!MethodObject \/ held \in Calls!DeployObjects
  BY DEF Calls!TypeOK
<1>7. held \in Calls!DeployObjects =>
         \E fits \in BOOLEAN : held.abi = Calls!Constructor(fits) /\ held.abi.fits = fits
  BY <1>3, <1>5
<1>8. held.abi # Null => held # Calls!NoObject
  BY <1>1
<1> HIDE DEF Calls!Function, Calls!Constructor, Calls!DeployObjects
<1>9. held = Calls!MethodObject =>
         /\ held # Calls!NoObject /\ held.abi = Calls!Function
         /\ Calls!Calling /\ ~Calls!Deploying
  BY <1>2, <1>4, <1>8, NullIsNothing DEF Calls!Calling, Calls!Deploying
<1>10. held \in Calls!DeployObjects =>
         held # Calls!NoObject /\ Calls!Deploying /\ ~Calls!Calling
  BY <1>3, <1>5, <1>8, NullIsNothing DEF Calls!Calling, Calls!Deploying
<1>11. held = Calls!NoObject => ~Calls!Deploying /\ ~Calls!Calling
  BY <1>1 DEF Calls!Calling, Calls!Deploying
<1> QED BY <1>3, <1>6, <1>7, <1>9, <1>10, <1>11

(* A method object sends its call, or is refused.                             *)
LEMMA MethodSent ==
    ASSUME Calls!TypeOK, held = Calls!MethodObject, UNCHANGED <<options, config, held>>,
           NEW contract, contract.address = options.address,
           contract.from \in {options.from, config.defaultAccount},
           NEW how, NEW opts, NEW fill, NEW t,
           sent' = [how |-> how, opts |-> opts, tx |-> Calls!FormatTransaction(t)],
           \/ t = Calls!Thrown /\ ~Calls!Required'
           \/ t = Calls!TxParams(contract, opts, Calls!Function, fill) /\ Calls!Required'
    PROVE  Calls!SentAsMeant'
<1>1. ~Calls!Deploying'
  BY HeldIs DEF Calls!Deploying
<1>2. sent'.tx = Calls!FormatTransaction(t) /\ sent'.opts = opts
  OBVIOUS
<1>3. CASE t = Calls!Thrown /\ ~Calls!Required'
  <2>1. sent'.tx = Calls!Thrown
    BY <1>2, <1>3 DEF Calls!FormatTransaction
  <2> QED BY <1>3, <2>1 DEF Calls!SentAsMeant
<1>4. CASE t = Calls!TxParams(contract, opts, Calls!Function, fill) /\ Calls!Required'
  <2> DEFINE tx == sent'.tx
  <2>1. /\ tx # Calls!Thrown /\ Calls!Payload(tx) = [call |-> TRUE]
        /\ tx.to = contract.address /\ tx.from = Calls!Orelse(opts.from, contract.from)
    BY <1>2, <1>4, MethodTx
  <2>2. Calls!Payload(sent.tx)' = Calls!Payload(tx)
    BY DEF Calls!Payload, Calls!Orelse
  <2>3. tx.from \in {opts.from, options.from, config.defaultAccount}
    BY <2>1 DEF Calls!Orelse
  <2> QED BY <1>1, <1>2, <1>4, <2>1, <2>2, <2>3 DEF Calls!SentAsMeant
<1> QED BY <1>3, <1>4

(* The object of deploy() sends the code that was found, or is refused.       *)
LEMMA DeploymentSent ==
    ASSUME Calls!TypeOK, held \in Calls!DeployObjects, UNCHANGED <<options, config, held>>,
           NEW contract, contract.address = held.options.address,
           contract.input = held.options.input, contract.data = held.options.data,
           contract.from \in {held.options.from, config.defaultAccount},
           NEW how, NEW opts \in Calls!CallOptions, NEW fill, NEW t,
           sent' = [how |-> how, opts |-> opts, tx |-> Calls!FormatTransaction(t)],
           \/ t = Calls!Thrown /\ ~Calls!Required'
           \/ t = Calls!TxParams(contract, opts, held.abi, fill) /\ Calls!Required'
    PROVE  Calls!SentAsMeant'
<1>1. PICK fits \in BOOLEAN : held.abi = Calls!Constructor(fits) /\ held.abi.fits = fits
  BY HeldIs
<1> DEFINE o == held.options
           code == Calls!Orelse(opts.input, o.input)
<1>2. /\ Calls!Deploying' /\ o \in Calls!OptionSet /\ (o.input # Null \/ o.data # Null)
      /\ o.input \in Codes \cup {Null} /\ o.data \in Codes \cup {Null}
      /\ opts.input \in Codes \cup {Null} /\ opts.data = Null
  BY HeldIs, OptionFields, CallOptionFields DEF Calls!Deploying
<1>3. sent'.tx = Calls!FormatTransaction(t) /\ sent'.opts = opts
  OBVIOUS
<1>4. CASE t = Calls!Thrown /\ ~Calls!Required'
  <2>1. sent'.tx = Calls!Thrown
    BY <1>3, <1>4 DEF Calls!FormatTransaction
  <2> QED BY <1>4, <2>1 DEF Calls!SentAsMeant
<1>5. CASE t = Calls!TxParams(contract, opts, held.abi, fill) /\ Calls!Required'
  <2> DEFINE tx == sent'.tx
  <2>1. /\ tx = Calls!Thrown <=>
              ~fits \/ (code # Null /\ o.data # Null /\ code # o.data)
        /\ tx # Calls!Thrown =>
              /\ Calls!Payload(tx) = [create |-> Calls!Orelse(code, o.data)]
              /\ tx.to = contract.address
              /\ tx.from = Calls!Orelse(opts.from, contract.from)
    BY <1>1, <1>2, <1>3, <1>5, DeploymentTx
  <2>2. Calls!CodeMeant' = Calls!Orelse(code, o.data)
    BY <1>3 DEF Calls!CodeMeant, Calls!Orelse
  <2>3. Calls!CodesMeant' = {code, o.data} \ {Null}
    BY <1>3 DEF Calls!CodesMeant, Calls!Orelse
  <2>4. Calls!Payload(sent.tx)' = Calls!Payload(tx)
    BY DEF Calls!Payload, Calls!Orelse
  <2>5. held'.abi.fits = fits /\ held' = held /\ options' = options /\ config' = config
    BY <1>1
  <2> HIDE DEF code
  <2>6. code # Null /\ o.data # Null /\ code # o.data => Calls!CodesMeant' # {Calls!CodeMeant'}
    BY <2>2, <2>3 DEF Calls!Orelse
  <2>7. CASE tx = Calls!Thrown
    BY <1>2, <2>1, <2>5, <2>6, <2>7 DEF Calls!SentAsMeant
  <2>8. CASE tx # Calls!Thrown
    <3>1. tx.from \in {opts.from, o.from, config.defaultAccount}
      BY <2>1, <2>8 DEF Calls!Orelse
    <3> QED BY <1>2, <1>3, <1>5, <2>1, <2>2, <2>4, <2>5, <2>8, <3>1 DEF Calls!SentAsMeant
  <2> QED BY <2>7, <2>8
<1> QED BY <1>4, <1>5

-----------------------------------------------------------------------------
(* What a send requires, in terms of the state before it.                     *)
LEMMA RequiredOf ==
    ASSUME UNCHANGED <<options, config, held>>, NEW how, NEW opts, NEW tx,
           sent' = [how |-> how, opts |-> opts, tx |-> tx],
           NEW o, o = IF Calls!Deploying THEN held.options ELSE options
    PROVE  /\ sent'.tx = tx
           /\ how = "call" => (Calls!Required' <=> options.address # Null)
           /\ how = "list" =>
                 (Calls!Required' <=>
                    /\ options.address # Null
                    /\ opts.from # Null \/ o.from # Null \/ config.defaultAccount # Null)
           /\ how = "send" =>
                 (Calls!Required' <=>
                    /\ options.address # Null \/ options.data # Null \/ opts.input # Null
                    /\ opts.from # Null \/ o.from # Null \/ config.defaultAccount # Null)
           /\ how = "deploy" =>
                 (Calls!Required' <=>
                    opts.from # Null \/ o.from # Null \/ config.defaultAccount # Null)
           /\ how = "estimate" => Calls!Required'
<1>1. sent'.how = how /\ sent'.opts = opts /\ sent'.tx = tx
  OBVIOUS
<1>2. Calls!Deploying' <=> Calls!Deploying
  BY DEF Calls!Deploying
<1> DEFINE from == opts.from # Null \/ o.from # Null \/ config.defaultAccount # Null
           address == options.address # Null
<1>3. Calls!Required' <=>
         CASE how = "call"     -> address
           [] how = "list"     -> address /\ from
           [] how = "send"     -> (address \/ options.data # Null \/ opts.input # Null) /\ from
           [] how = "deploy"   -> from
           [] how = "estimate" -> TRUE
  BY <1>1, <1>2 DEF Calls!Required
<1> QED BY <1>1, <1>3

(* call() of a method object keeps what the object was made for, and         *)
(* sends that.                                                               *)
LEMMA CallAsMeant ==
    ASSUME Calls!TypeOK, NEW opts \in Calls!CallOptions, Calls!Call(opts)
    PROVE  Calls!SentAsMeant'
<1> DEFINE contract == [options EXCEPT !.from = Calls!Orelse(options.from, config.defaultAccount)]
           t == Calls!GetQRLTxCallParams(contract, opts, held.abi, dataInputFill)
<1>1. /\ held = Calls!MethodObject /\ held.abi = Calls!Function
      /\ UNCHANGED <<options, config, held>>
      /\ sent' = [how |-> "call", opts |-> opts, tx |-> Calls!FormatTransaction(t)]
  BY HeldIs DEF Calls!Call, Calls!Sends
<1>2. options \in Calls!OptionSet
  BY DEF Calls!TypeOK
<1>3. /\ contract.address = options.address
      /\ contract.from \in {options.from, config.defaultAccount}
  BY <1>2 DEF Calls!OptionSet, Calls!Orelse
<1>4. Calls!Required' <=> options.address # Null
  BY <1>1, RequiredOf
<1> HIDE DEF contract
<1>5. \/ t = Calls!Thrown /\ ~Calls!Required'
      \/ t = Calls!TxParams(contract, opts, Calls!Function, dataInputFill) /\ Calls!Required'
  BY <1>1, <1>3, <1>4 DEF Calls!GetQRLTxCallParams
<1> HIDE DEF t
<1> QED BY <1>1, <1>3, <1>5, MethodSent

(* So does createAccessList().                                               *)
LEMMA CreateAccessListAsMeant ==
    ASSUME Calls!TypeOK, NEW opts \in Calls!CallOptions, Calls!CreateAccessList(opts)
    PROVE  Calls!SentAsMeant'
<1> DEFINE contract == [options EXCEPT !.from = Calls!Orelse(options.from, config.defaultAccount)]
           t == Calls!GetCreateAccessListParams(contract, opts, held.abi, config.contractDataInputFill)
<1>1. /\ held = Calls!MethodObject /\ held.abi = Calls!Function /\ ~Calls!Deploying
      /\ UNCHANGED <<options, config, held>>
      /\ sent' = [how |-> "list", opts |-> opts, tx |-> Calls!FormatTransaction(t)]
  BY HeldIs DEF Calls!CreateAccessList, Calls!Sends
<1>2. options \in Calls!OptionSet
  BY DEF Calls!TypeOK
<1>3. /\ contract.address = options.address
      /\ contract.from \in {options.from, config.defaultAccount}
      /\ contract.from # Null <=> options.from # Null \/ config.defaultAccount # Null
  BY <1>2 DEF Calls!OptionSet, Calls!Orelse
<1>4. Calls!Required' <=>
         /\ options.address # Null
         /\ opts.from # Null \/ options.from # Null \/ config.defaultAccount # Null
  BY <1>1, RequiredOf
<1> HIDE DEF contract
<1>5. Calls!Merged(contract, opts).from # Null <=> opts.from # Null \/ contract.from # Null
  BY DEF Calls!Merged, Calls!Orelse
<1>6. \/ t = Calls!Thrown /\ ~Calls!Required'
      \/ t = Calls!TxParams(contract, opts, Calls!Function, config.contractDataInputFill) /\ Calls!Required'
  BY <1>1, <1>3, <1>4, <1>5 DEF Calls!GetCreateAccessListParams
<1> HIDE DEF t
<1> QED BY <1>1, <1>3, <1>6, MethodSent

(* send() of a method object sends the call it was made for.                 *)
LEMMA SendAsMeant ==
    ASSUME Calls!TypeOK, NEW opts \in Calls!CallOptions, Calls!Send(opts)
    PROVE  Calls!SentAsMeant'
<1> DEFINE contract == [options EXCEPT !.from = Calls!Orelse(options.from, config.defaultAccount),
                                       !.input = Null]
           t == Calls!GetSendTxParams(contract, opts, held.abi, config.contractDataInputFill)
<1>1. /\ held = Calls!MethodObject /\ held.abi = Calls!Function /\ ~Calls!Deploying
      /\ UNCHANGED <<options, config, held>>
      /\ sent' = [how |-> "send", opts |-> opts, tx |-> Calls!FormatTransaction(t)]
  BY HeldIs DEF Calls!Send, Calls!Sends
<1>2. options \in Calls!OptionSet /\ opts.data = Null
  BY CallOptionFields DEF Calls!TypeOK
<1>3. /\ contract.address = options.address
      /\ contract.from \in {options.from, config.defaultAccount}
      /\ contract.from # Null <=> options.from # Null \/ config.defaultAccount # Null
      /\ contract.input = Null /\ contract.data = options.data
  BY <1>2 DEF Calls!OptionSet, Calls!Orelse
<1>4. Calls!Required' <=>
         /\ options.address # Null \/ options.data # Null \/ opts.input # Null
         /\ opts.from # Null \/ options.from # Null \/ config.defaultAccount # Null
  BY <1>1, RequiredOf
<1> HIDE DEF contract
<1>5. Calls!Merged(contract, opts).from # Null <=> opts.from # Null \/ contract.from # Null
  BY DEF Calls!Merged, Calls!Orelse
<1>6. Calls!Orelse(Calls!Orelse(opts.input, opts.data), Calls!Orelse(contract.input, contract.data)) # Null
         <=> opts.input # Null \/ options.data # Null
  BY <1>2, <1>3 DEF Calls!Orelse
<1>7. \/ t = Calls!Thrown /\ ~Calls!Required'
      \/ t = Calls!TxParams(contract, opts, Calls!Function, config.contractDataInputFill) /\ Calls!Required'
  BY <1>1, <1>3, <1>4, <1>5, <1>6 DEF Calls!GetSendTxParams
<1> HIDE DEF t
<1> QED BY <1>1, <1>3, <1>7, MethodSent

(* send() of a deploy() object sends the code it was made for.               *)
LEMMA DeploySendAsMeant ==
    ASSUME Calls!TypeOK, NEW opts \in Calls!CallOptions, Calls!DeploySend(opts)
    PROVE  Calls!SentAsMeant'
<1> DEFINE o == held.options
           contract == [o EXCEPT !.from = Calls!Orelse(o.from, config.defaultAccount)]
           t == Calls!GetSendTxParams(contract, opts, held.abi, config.contractDataInputFill)
<1>1. /\ held \in Calls!DeployObjects /\ Calls!Deploying
      /\ o \in Calls!OptionSet /\ (o.input # Null \/ o.data # Null)
      /\ UNCHANGED <<options, config, held>>
      /\ sent' = [how |-> "deploy", opts |-> opts, tx |-> Calls!FormatTransaction(t)]
  BY HeldIs DEF Calls!DeploySend, Calls!Sends
<1>2. opts.data = Null
  BY CallOptionFields
<1>3. /\ contract.address = o.address
      /\ contract.from \in {o.from, config.defaultAccount}
      /\ contract.from # Null <=> o.from # Null \/ config.defaultAccount # Null
      /\ contract.input = o.input /\ contract.data = o.data
  BY <1>1 DEF Calls!OptionSet, Calls!Orelse
<1>4. Calls!Required' <=> opts.from # Null \/ o.from # Null \/ config.defaultAccount # Null
  BY <1>1, RequiredOf
<1> HIDE DEF contract, o
<1>5. Calls!Merged(contract, opts).from # Null <=> opts.from # Null \/ contract.from # Null
  BY DEF Calls!Merged, Calls!Orelse
<1>6. Calls!Orelse(Calls!Orelse(opts.input, opts.data), Calls!Orelse(contract.input, contract.data)) # Null
  BY <1>1, <1>2, <1>3 DEF Calls!Orelse
<1>7. \/ t = Calls!Thrown /\ ~Calls!Required'
      \/ t = Calls!TxParams(contract, opts, held.abi, config.contractDataInputFill) /\ Calls!Required'
  BY <1>1, <1>3, <1>4, <1>5, <1>6 DEF Calls!GetSendTxParams
<1> HIDE DEF t
<1> QED BY <1>1, <1>3, <1>7, DeploymentSent DEF o

(* estimateGas() of either object asks about what the object was made for.   *)
LEMMA EstimateGasAsMeant ==
    ASSUME Calls!TypeOK, NEW opts \in Calls!CallOptions, Calls!EstimateGas(opts)
    PROVE  Calls!SentAsMeant'
<1> DEFINE contract == IF Calls!Deploying THEN held.options ELSE options
           t == Calls!GetEstimateGasParams(contract, opts, held.abi, config.contractDataInputFill)
<1>1. /\ held # Calls!NoObject
      /\ UNCHANGED <<options, config, held>>
      /\ sent' = [how |-> "estimate", opts |-> opts, tx |-> Calls!FormatTransaction(t)]
  BY DEF Calls!EstimateGas, Calls!Sends
<1>2. Calls!Required'
  BY <1>1, RequiredOf
<1>3. t = Calls!TxParams(contract, opts, held.abi, config.contractDataInputFill)
  BY DEF Calls!GetEstimateGasParams
<1> HIDE DEF t
<1>4. CASE held = Calls!MethodObject
  <2>1. contract = options /\ held.abi = Calls!Function
    BY <1>4, HeldIs
  <2> QED BY <1>1, <1>2, <1>3, <1>4, <2>1, MethodSent
<1>5. CASE held \in Calls!DeployObjects
  <2>1. contract = held.options
    BY <1>5, HeldIs
  <2> HIDE DEF contract
  <2> QED BY <1>1, <1>2, <1>3, <1>5, <2>1, DeploymentSent
<1> QED BY <1>1, <1>4, <1>5, HeldIs

-----------------------------------------------------------------------------
(* The options and the fill of a contract that is cloned.                     *)
LEMMA ClonedKeepsType ==
    ASSUME Calls!TypeOK, NEW address \in Addresses \cup {Null}, Calls!Cloned(address)
    PROVE  Calls!TypeOK' /\ sent' = Calls!NothingSent
<1>1. options' \in Calls!OptionSet
  <2>1. options \in Calls!OptionSet /\ options' = [options EXCEPT !.address = address]
    BY DEF Calls!TypeOK, Calls!Cloned
  <2> QED BY <2>1 DEF Calls!OptionSet, Calls!Maybe
<1>2. dataInputFill' \in Calls!Fills
  BY DEF Calls!TypeOK, Calls!Cloned, Calls!FillOf, Calls!Orelse, Calls!Fills
<1>3. /\ held' = Calls!NoObject /\ mining' = Null /\ sent' = Calls!NothingSent
      /\ UNCHANGED <<config, changes>>
  BY DEF Calls!Cloned
<1> QED BY <1>1, <1>2, <1>3 DEF Calls!TypeOK

(* A step that makes or sets something sends nothing.                         *)
LEMMA QuietStepKeepsType ==
    ASSUME Calls!TypeOK,
           Calls!SetOption \/ Calls!Method \/ Calls!Deploy \/ Calls!Clone \/ Calls!Deployed
    PROVE  /\ Calls!TypeOK'
           /\ sent' = Calls!NothingSent \/ UNCHANGED <<options, config, held, sent>>
<1>0. options \in Calls!OptionSet
  BY DEF Calls!TypeOK
<1>1. CASE Calls!SetOption
  <2>1. /\ changes' = changes + 1 /\ changes < OptionChanges /\ sent' = Calls!NothingSent
        /\ UNCHANGED <<dataInputFill, config, held, mining>>
    BY <1>1 DEF Calls!SetOption
  <2>2. OptionChanges \in Nat
    BY InstancesAssumption DEF Calls!ConstantsOK
  <2>3. changes' \in 0..OptionChanges
    BY <2>1, <2>2 DEF Calls!TypeOK
  <2>4. DOMAIN options = {"address", "from", "input", "data"}
    BY <1>0 DEF Calls!OptionSet
  <2>5. PICK k \in DOMAIN options :
          \E v \in Calls!Maybe(CASE k = "address" -> Addresses [] k = "from" -> Users [] OTHER -> Codes) :
             options' = [options EXCEPT ![k] = v]
    BY <1>1 DEF Calls!SetOption
  <2>6. options' \in Calls!OptionSet
    <3>1. CASE k = "address"
      <4>1. PICK v \in Calls!Maybe(Addresses) : options' = [options EXCEPT !["address"] = v]
        BY <2>5, <3>1
      <4> QED BY <1>0, <4>1 DEF Calls!OptionSet
    <3>2. CASE k = "from"
      <4>1. PICK v \in Calls!Maybe(Users) : options' = [options EXCEPT !["from"] = v]
        BY <2>5, <3>2
      <4> QED BY <1>0, <4>1 DEF Calls!OptionSet
    <3>3. CASE k = "input"
      <4>1. PICK v \in Calls!Maybe(Codes) : options' = [options EXCEPT !["input"] = v]
        BY <2>5, <3>3
      <4> QED BY <1>0, <4>1 DEF Calls!OptionSet
    <3>4. CASE k = "data"
      <4>1. PICK v \in Calls!Maybe(Codes) : options' = [options EXCEPT !["data"] = v]
        BY <2>5, <3>4
      <4> QED BY <1>0, <4>1 DEF Calls!OptionSet
    <3> QED BY <2>4, <2>5, <3>1, <3>2, <3>3, <3>4
  <2> QED BY <2>1, <2>3, <2>6 DEF Calls!TypeOK
<1>2. CASE Calls!Method
  BY <1>2 DEF Calls!Method, Calls!TypeOK
<1>3. CASE Calls!Deploy
  <2>1. PICK input \in Calls!Maybe(Codes), data \in Calls!Maybe(Codes), fits \in BOOLEAN :
          LET code == [options EXCEPT !.input = Calls!Orelse(input, options.input),
                                      !.data  = Calls!Orelse(data, options.data)]
          IN  /\ code.input # Null \/ code.data # Null
              /\ held' = [abi |-> Calls!Constructor(fits), options |-> code]
    BY <1>3 DEF Calls!Deploy
  <2> DEFINE code == [options EXCEPT !.input = Calls!Orelse(input, options.input),
                                     !.data  = Calls!Orelse(data, options.data)]
             abi == Calls!Constructor(fits)
  <2>2. code \in Calls!OptionSet
    BY <1>0 DEF Calls!OptionSet, Calls!Orelse, Calls!Maybe
  <2>3. (code.input # Null \/ code.data # Null) /\ held' = [abi |-> abi, options |-> code]
    BY <2>1
  <2>4. abi \in {Calls!Constructor(TRUE), Calls!Constructor(FALSE)}
    OBVIOUS
  <2> HIDE DEF code, abi
  <2>5. held' \in Calls!DeployObjects
    BY <2>2, <2>3, <2>4 DEF Calls!DeployObjects
  <2> QED BY <1>3, <2>5 DEF Calls!Deploy, Calls!TypeOK
<1>4. CASE Calls!Clone
  <2>1. options.address \in Addresses \cup {Null} /\ Calls!Cloned(options.address)
    BY <1>0, <1>4, OptionFields DEF Calls!Clone
  <2> QED BY <2>1, ClonedKeepsType
<1>5. CASE Calls!Deployed
  <2>1. CASE \E address \in {Null, Created} : Calls!Cloned(address)
    <3>1. {Null, Created} \subseteq Addresses \cup {Null}
      BY InstancesAssumption DEF Calls!ConstantsOK
    <3> QED BY <2>1, <3>1, ClonedKeepsType
  <2>2. CASE mining' = Null /\ UNCHANGED <<options, dataInputFill, config, held, sent, changes>>
    BY <2>2 DEF Calls!TypeOK
  <2>3. (\E address \in {Null, Created} : Calls!Cloned(address))
        \/ (mining' = Null /\ UNCHANGED <<options, dataInputFill, config, held, sent, changes>>)
    BY <1>5 DEF Calls!Deployed
  <2> QED BY <2>1, <2>2, <2>3
<1> QED BY <1>1, <1>2, <1>3, <1>4, <1>5

(* A request, or its refusal, leaves the contract as it is.                   *)
LEMMA SendKeepsType ==
    ASSUME Calls!TypeOK, NEW how, NEW opts, NEW tx, Calls!Sends(how, opts, tx)
    PROVE  Calls!TypeOK'
<1>1. mining' \in {Null, TRUE, FALSE}
  BY DEF Calls!Sends, Calls!TypeOK
<1> QED BY <1>1 DEF Calls!Sends, Calls!TypeOK

(* Every step of a contract leaves what was sent, or refused, as it was meant.*)
LEMMA CallsPreserve ==
    ASSUME Calls!TypeOK, Calls!SentAsMeant, [Calls!Next]_callVars
    PROVE  Calls!TypeOK' /\ Calls!SentAsMeant'
<1>1. ASSUME UNCHANGED <<options, config, held, sent>> PROVE Calls!SentAsMeant'
  BY <1>1 DEF Calls!SentAsMeant, Calls!Required, Calls!Deploying, Calls!CodesMeant,
              Calls!CodeMeant, Calls!Payload
<1>2. ASSUME sent' = Calls!NothingSent PROVE Calls!SentAsMeant'
  BY <1>2 DEF Calls!NothingSent, Calls!SentAsMeant
<1>3. CASE UNCHANGED callVars
  BY <1>1, <1>3 DEF callVars, Calls!TypeOK
<1>4. CASE Calls!SetOption \/ Calls!Method \/ Calls!Deploy \/ Calls!Clone \/ Calls!Deployed
  BY <1>1, <1>2, <1>4, QuietStepKeepsType
<1>5. ASSUME NEW opts \in Calls!CallOptions,
             \/ Calls!Call(opts) \/ Calls!CreateAccessList(opts) \/ Calls!Send(opts)
             \/ Calls!DeploySend(opts) \/ Calls!EstimateGas(opts)
      PROVE  Calls!TypeOK' /\ Calls!SentAsMeant'
  <2>1. \E how, tx : Calls!Sends(how, opts, tx)
    BY <1>5 DEF Calls!Call, Calls!CreateAccessList, Calls!Send, Calls!DeploySend, Calls!EstimateGas
  <2>2. Calls!TypeOK'
    BY <2>1, SendKeepsType
  <2>3. Calls!SentAsMeant'
    BY <1>5, CallAsMeant, CreateAccessListAsMeant, SendAsMeant, DeploySendAsMeant, EstimateGasAsMeant
  <2> QED BY <2>2, <2>3
<1> QED BY <1>3, <1>4, <1>5 DEF Calls!Next

(* A contract that has sent nothing has sent nothing wrong.                  *)
LEMMA CallsBegin == Calls!Init => Calls!TypeOK /\ Calls!SentAsMeant
<1> SUFFICES ASSUME Calls!Init PROVE Calls!TypeOK /\ Calls!SentAsMeant
  OBVIOUS
<1>1. dataInputFill \in Calls!Fills
  BY DEF Calls!Init, Calls!FillOf, Calls!Orelse, Calls!Maybe, Calls!Fills
<1>2. OptionChanges \in Nat
  BY InstancesAssumption DEF Calls!ConstantsOK
<1>3. Calls!TypeOK
  BY <1>1, <1>2 DEF Calls!Init, Calls!TypeOK
<1>4. Calls!SentAsMeant
  BY DEF Calls!Init, Calls!SentAsMeant, Calls!NothingSent
<1> QED BY <1>3, <1>4

(* A contract, by itself, sends what it was meant to send.                    *)
THEOREM CallsInvariant == Calls!Spec => [](Calls!TypeOK /\ Calls!SentAsMeant)
<1>1. Calls!TypeOK /\ Calls!SentAsMeant /\ [Calls!Next]_(Calls!vars) =>
         Calls!TypeOK' /\ Calls!SentAsMeant'
  BY CallsPreserve DEF Calls!vars, callVars
<1> QED BY <1>1, CallsBegin, PTL DEF Calls!Spec

(* In the composition: whatever options are set between, a method object      *)
(* sends its call and a deployment its code, or they are refused for a want.  *)
THEOREM ContractsSendAsMeant == MCSpec => []SentAsMeant
<1>1. MCInit => SentAsMeant
  BY CallsBegin DEF MCInit, SentAsMeant
<1>2. [MCNext]_mcVars => [Calls!Next]_callVars
  BY DEF MCNext, mcVars, Calls!Next
<1>3. SentAsMeant /\ [MCNext]_mcVars => SentAsMeant'
  BY <1>2, CallsPreserve DEF SentAsMeant
<1> QED BY <1>1, <1>3, PTL DEF MCSpec

-----------------------------------------------------------------------------
(* The answers of the name service.                                           *)

(* What the invariant says of one question: of what it knows, `k', of the     *)
(* resolvers its node had and of the interfaces its resolver had.             *)
QuestionSound(k, resolvers, interfaces, reg, sup) ==
    /\ k \in NameService!CallStates
    /\ k.at = "resolver" => reg[k.node] \in resolvers
    /\ k.at \in {"interface", "answer"} =>
          k.resolver \in resolvers /\ sup[k.resolver] \subseteq interfaces
    /\ k.at = "interface" => k.question \notin NameService!Unchecked
    /\ k.at = "answer" /\ k.question \notin NameService!Unchecked =>
          NameService!Questions[k.question] \in interfaces
    /\ k.at = "done" /\ k.question \notin NameService!Records =>
          /\ k.resolver \in resolvers \cap Resolvers
          /\ k.question \notin NameService!Unchecked =>
                NameService!Questions[k.question] \in interfaces

NamesOK ==
    /\ registry \in [Nodes -> NameService!Entries]
    /\ supports \in [Resolvers -> SUBSET NameService!Interfaces]
    /\ events \in 0..MaxEvents
    /\ call \in [Askers -> NameService!CallStates]
    /\ seen \in [Askers -> SUBSET NameService!Entries]
    /\ had \in [Askers -> SUBSET NameService!Interfaces]
    /\ \A c \in Askers : QuestionSound(call[c], seen[c], had[c], registry, supports)

NetworkOK ==
    /\ clock \in 0..MaxTime
    /\ check \in [Checkers -> NameService!CheckStates]
    /\ lastSyncCheck \in {Null} \cup 0..MaxTime /\ reported \in {Null} \cup 0..MaxTime
    /\ detectedAddress \in {Null, NameService!RegistryAddresses.main}
    /\ NameService!CheckedInTime /\ NameService!SyncedWhenDetected

(* The invariant of the name service, by its two parts.                       *)
LEMMA NameParts ==
    /\ NameService!Inv <=> NamesOK /\ NetworkOK
    /\ NameService!Inv' <=> NamesOK' /\ NetworkOK'
<1> HIDE DEF NameService!CallStates, NameService!CheckStates
<1>1. NameService!Inv <=> NamesOK /\ NetworkOK
  BY DEF NameService!Inv, NamesOK, NetworkOK, QuestionSound, NameService!TypeOK,
         NameService!AskedInOrder, NameService!AnsweredByItsResolver
<1>2. NameService!Inv' <=> NamesOK' /\ NetworkOK'
  BY DEF NameService!Inv, NamesOK, NetworkOK, QuestionSound, NameService!TypeOK,
         NameService!AskedInOrder, NameService!AnsweredByItsResolver
<1> QED BY <1>1, <1>2

(* One question moves on, or is asked.                                        *)
LEMMA OneMoves ==
    ASSUME NamesOK, NEW c \in Askers, NEW k,
           NEW resolvers \in SUBSET NameService!Entries,
           NEW interfaces \in SUBSET NameService!Interfaces,
           QuestionSound(k, resolvers, interfaces, registry, supports),
           UNCHANGED <<registry, supports, events>>,
           call' = [call EXCEPT ![c] = k],
           seen' = [seen EXCEPT ![c] = resolvers],
           had' = [had EXCEPT ![c] = interfaces]
    PROVE  NamesOK'
<1> USE DEF NamesOK
<1>1. k \in NameService!CallStates
  BY DEF QuestionSound
<1> HIDE DEF NameService!CallStates, NameService!Entries, NameService!Interfaces
<1>2. /\ call' \in [Askers -> NameService!CallStates]
      /\ seen' \in [Askers -> SUBSET NameService!Entries]
      /\ had' \in [Askers -> SUBSET NameService!Interfaces]
  BY <1>1
<1>3. \A d \in Askers : QuestionSound(call'[d], seen'[d], had'[d], registry, supports)
  <2> TAKE d \in Askers
  <2>1. CASE d = c
    <3>1. call'[d] = k /\ seen'[d] = resolvers /\ had'[d] = interfaces
      BY <2>1
    <3> QED BY <3>1
  <2>2. CASE d # c
    <3>1. call'[d] = call[d] /\ seen'[d] = seen[d] /\ had'[d] = had[d]
      BY <2>2
    <3> QED BY <3>1
  <2> QED BY <2>1, <2>2
<1> QED BY <1>2, <1>3

(* What a question under way knows.                                           *)
LEMMA QuestionFields ==
    ASSUME NEW k \in NameService!CallStates
    PROVE  /\ k.at = "record" => k.question \in NameService!Records /\ k.node \in Nodes
           /\ k.at = "resolver" => k.question \in DOMAIN NameService!Questions /\ k.node \in Nodes
           /\ k.at \in {"interface", "answer"} =>
                 /\ k.question \in DOMAIN NameService!Questions /\ k.node \in Nodes
                 /\ k.resolver \in Resolvers
<1> HIDE DEF NameService!Questions, NameService!Records
<1> QED BY DEF NameService!CallStates, NameService!Resting

(* A question that fails knows only its error.                                *)
LEMMA FailedSound ==
    ASSUME NEW question \in NameService!Records \cup DOMAIN NameService!Questions,
           NEW error \in {"zero", "invalid", "reverted", "ResolverMethodMissing", "call"},
           NEW resolvers, NEW interfaces, NEW reg, NEW sup
    PROVE  QuestionSound([at |-> "failed", question |-> question, error |-> error],
                         resolvers, interfaces, reg, sup)
<1> DEFINE k == [at |-> "failed", question |-> question, error |-> error]
<1> HIDE DEF NameService!Questions, NameService!Records
<1>1. k \in NameService!CallStates
  BY DEF NameService!CallStates
<1>2. k.at = "failed"
  OBVIOUS
<1> HIDE DEF k, NameService!CallStates
<1>3. QuestionSound(k, resolvers, interfaces, reg, sup)
  BY <1>1, <1>2 DEF QuestionSound
<1> QED BY <1>3 DEF k

(* A question of which no more is seen moves on.                              *)
LEMMA OneStep ==
    ASSUME NamesOK, NEW c \in Askers, NEW k,
           QuestionSound(k, seen[c], had[c], registry, supports),
           UNCHANGED <<registry, supports, events, seen, had>>,
           call' = [call EXCEPT ![c] = k]
    PROVE  NamesOK'
<1>1. /\ seen[c] \in SUBSET NameService!Entries /\ seen' = [seen EXCEPT ![c] = seen[c]]
      /\ had[c] \in SUBSET NameService!Interfaces /\ had' = [had EXCEPT ![c] = had[c]]
  BY DEF NamesOK
<1> QED BY <1>1, OneMoves

(* A new question sees the resolver that its node has.                        *)
LEMMA AskSound ==
    ASSUME NamesOK, NEW c \in Askers, NEW node \in Nodes,
           NEW question \in NameService!Records \cup DOMAIN NameService!Questions,
           NameService!Asks(c, question, node), UNCHANGED <<registry, supports, events>>
    PROVE  NamesOK'
<1> HIDE DEF NameService!Questions, NameService!Records
<1> DEFINE at == IF question \in NameService!Records THEN "record" ELSE "resolver"
           k == [at |-> at, question |-> question, node |-> node]
<1>1. k \in NameService!CallStates
  <2>1. CASE question \in NameService!Records
    <3>1. at = "record"
      BY <2>1
    <3> QED BY <2>1, <3>1 DEF NameService!CallStates
  <2>2. CASE question \notin NameService!Records
    <3>1. at = "resolver"
      BY <2>2
    <3> QED BY <2>2, <3>1 DEF NameService!CallStates
  <2> QED BY <2>1, <2>2
<1>2. k.node = node /\ k.at \in {"record", "resolver"}
  OBVIOUS
<1>3. /\ call' = [call EXCEPT ![c] = k]
      /\ seen' = [seen EXCEPT ![c] = {registry[node]}]
      /\ had' = [had EXCEPT ![c] = {}]
  BY DEF NameService!Asks
<1> HIDE DEF k, NameService!CallStates
<1>4. QuestionSound(k, {registry[node]}, {}, registry, supports)
  BY <1>1, <1>2 DEF QuestionSound
<1>5. {registry[node]} \in SUBSET NameService!Entries
  BY DEF NamesOK
<1> QED BY <1>3, <1>4, <1>5, OneMoves

(* A node of the registry gets another resolver: the calls under way saw     *)
(* the old one.                                                              *)
LEMMA SetResolverKeepsNames ==
    ASSUME NamesOK, NEW node \in Nodes, NEW entry \in NameService!Entries,
           NameService!SetResolver(node, entry)
    PROVE  NamesOK'
<1> HIDE DEF NameService!CallStates, NameService!Entries, NameService!Interfaces
<1>1. /\ registry' = [registry EXCEPT ![node] = entry]
      /\ seen' = [c \in Askers |->
                     IF call[c].at \in {"resolver", "interface", "answer"} /\ call[c].node = node
                     THEN seen[c] \cup {entry} ELSE seen[c]]
      /\ events < MaxEvents /\ events' = events + 1
      /\ UNCHANGED <<supports, call, had>>
  BY DEF NameService!SetResolver
<1>2. MaxEvents \in Nat
  BY InstancesAssumption DEF NameService!ConstantsOK
<1>3. /\ registry' \in [Nodes -> NameService!Entries]
      /\ events' \in 0..MaxEvents
      /\ seen' \in [Askers -> SUBSET NameService!Entries]
      /\ UNCHANGED <<supports, call, had>>
  BY <1>1, <1>2 DEF NamesOK
<1>4. \A c \in Askers : QuestionSound(call[c], seen'[c], had[c], registry', supports)
  <2> TAKE c \in Askers
  <2>1. QuestionSound(call[c], seen[c], had[c], registry, supports) /\ call[c] \in NameService!CallStates
    BY DEF NamesOK
  <2>2. seen[c] \subseteq seen'[c]
    BY <1>1
  <2>3. call[c].at = "resolver" => registry'[call[c].node] \in seen'[c]
    <3> HAVE call[c].at = "resolver"
    <3>1. call[c].node \in Nodes
      BY <2>1, QuestionFields
    <3>2. CASE call[c].node = node
      BY <3>1, <3>2, <1>1 DEF NamesOK
    <3>3. CASE call[c].node # node
      BY <3>1, <3>3, <1>1, <2>1, <2>2 DEF NamesOK, QuestionSound
    <3> QED BY <3>2, <3>3
  <2> QED BY <2>1, <2>2, <2>3 DEF QuestionSound
<1> QED BY <1>3, <1>4 DEF NamesOK

(* A resolver supports other interfaces from now on: what was checked        *)
(* held when it was.                                                         *)
LEMMA SetInterfacesKeepsNames ==
    ASSUME NamesOK, NEW r \in Resolvers, NEW set \in SUBSET NameService!Interfaces,
           NameService!SetInterfaces(r, set)
    PROVE  NamesOK'
<1> HIDE DEF NameService!CallStates, NameService!Entries, NameService!Interfaces
<1>1. /\ supports' = [supports EXCEPT ![r] = set]
      /\ had' = [c \in Askers |->
                    IF call[c].at \in {"interface", "answer"} /\ call[c].resolver = r
                    THEN had[c] \cup set ELSE had[c]]
      /\ events < MaxEvents /\ events' = events + 1
      /\ UNCHANGED <<registry, call, seen>>
  BY DEF NameService!SetInterfaces
<1>2. MaxEvents \in Nat
  BY InstancesAssumption DEF NameService!ConstantsOK
<1>3. /\ supports' \in [Resolvers -> SUBSET NameService!Interfaces]
      /\ events' \in 0..MaxEvents
      /\ had' \in [Askers -> SUBSET NameService!Interfaces]
      /\ UNCHANGED <<registry, call, seen>>
  BY <1>1, <1>2 DEF NamesOK
<1>4. \A c \in Askers : QuestionSound(call[c], seen[c], had'[c], registry, supports')
  <2> TAKE c \in Askers
  <2>1. QuestionSound(call[c], seen[c], had[c], registry, supports) /\ call[c] \in NameService!CallStates
    BY DEF NamesOK
  <2>2. had[c] \subseteq had'[c]
    BY <1>1
  <2>3. call[c].at \in {"interface", "answer"} => supports'[call[c].resolver] \subseteq had'[c]
    <3> HAVE call[c].at \in {"interface", "answer"}
    <3>1. call[c].resolver \in Resolvers
      BY <2>1, QuestionFields
    <3>2. CASE call[c].resolver = r
      BY <3>1, <3>2, <1>1 DEF NamesOK
    <3>3. CASE call[c].resolver # r
      BY <3>1, <3>3, <1>1, <2>1, <2>2 DEF NamesOK, QuestionSound
    <3> QED BY <3>2, <3>3
  <2> QED BY <2>1, <2>2, <2>3 DEF QuestionSound
<1> QED BY <1>3, <1>4 DEF NamesOK

(* A question that fails, at any step.                                        *)
LEMMA FailsKeepsNames ==
    ASSUME NamesOK, NEW c \in Askers,
           call[c].question \in NameService!Records \cup DOMAIN NameService!Questions,
           NEW error \in {"zero", "invalid", "reverted", "ResolverMethodMissing", "call"},
           NameService!Fails(c, error), UNCHANGED <<seen, had>>
    PROVE  NamesOK'
<1> DEFINE k == [at |-> "failed", question |-> call[c].question, error |-> error]
<1>1. call' = [call EXCEPT ![c] = k] /\ UNCHANGED <<registry, supports, events>>
  BY DEF NameService!Fails, NameService!Moves
<1>2. QuestionSound(k, seen[c], had[c], registry, supports)
  BY FailedSound
<1> HIDE DEF k
<1> QED BY <1>1, <1>2, OneStep

(* A question that its resolver is there for moves on with it.                *)
LEMMA ResolverKnown ==
    ASSUME NEW k \in NameService!CallStates, k.at \in {"interface", "answer"},
           NEW at \in {"answer", "done"}, NEW moved, moved = [k EXCEPT !.at = at],
           NEW resolvers, NEW interfaces, NEW reg, NEW sup,
           QuestionSound(k, resolvers, interfaces, reg, sup),
           k.at = "interface" => NameService!Questions[k.question] \in interfaces
    PROVE  QuestionSound(moved, resolvers, interfaces, reg, sup)
<1> HIDE DEF NameService!Questions, NameService!Records, NameService!Unchecked
<1> DEFINE S == [at : {"interface", "answer", "done"}, question : DOMAIN NameService!Questions,
                 node : Nodes, resolver : Resolvers]
<1>1. k \in S
  BY DEF NameService!CallStates, NameService!Resting
<1>2. /\ moved \in S /\ moved.at = at /\ moved.question = k.question /\ moved.resolver = k.resolver
  BY <1>1
<1>3. k.resolver \in Resolvers
  BY <1>1
<1>4. moved \in NameService!CallStates
  BY <1>2 DEF NameService!CallStates
<1> HIDE DEF S, NameService!CallStates
<1> QED BY <1>2, <1>3, <1>4 DEF QuestionSound

(* A call that asked the registry has the resolver that the registry         *)
(* names now.                                                                *)
LEMMA RecordKeepsNames ==
    ASSUME NamesOK, NEW c \in Askers, NameService!Record(c)
    PROVE  NamesOK'
<1> HIDE DEF NameService!Questions, NameService!Records
<1>1. /\ call[c].at = "record" /\ UNCHANGED <<seen, had>>
      /\ call[c] \in NameService!CallStates /\ call[c].question \in NameService!Records
  BY QuestionFields DEF NameService!Record, NamesOK
<1>2. CASE NameService!Moves(c, [call[c] EXCEPT !.at = "done"])
  <2> DEFINE moved == [call[c] EXCEPT !.at = "done"]
             S == [at : {"record", "done"}, question : NameService!Records, node : Nodes]
  <2>1. call[c] \in S
    BY <1>1 DEF NameService!CallStates, NameService!Resting
  <2>2. moved \in S /\ moved.at = "done" /\ moved.question \in NameService!Records
    BY <2>1
  <2>3. moved \in NameService!CallStates
    BY <2>2 DEF NameService!CallStates
  <2>4. call' = [call EXCEPT ![c] = moved] /\ UNCHANGED <<registry, supports, events>>
    BY <1>2 DEF NameService!Moves
  <2> HIDE DEF moved, S, NameService!CallStates
  <2>5. QuestionSound(moved, seen[c], had[c], registry, supports)
    BY <2>2, <2>3 DEF QuestionSound
  <2> QED BY <1>1, <2>4, <2>5, OneStep
<1>3. CASE NameService!Fails(c, "reverted")
  BY <1>1, <1>3, FailsKeepsNames
<1> QED BY <1>2, <1>3 DEF NameService!Record

(* So has a call of the resolver module, which then asks it for its          *)
(* interfaces.                                                               *)
LEMMA GetResolverKeepsNames ==
    ASSUME NamesOK, NEW c \in Askers, NameService!GetResolver(c)
    PROVE  NamesOK'
<1> DEFINE k == call[c]
           entry == registry[k.node]
           at == IF k.question = "getResolver" THEN "done"
                 ELSE IF k.question \in NameService!Unchecked THEN "answer" ELSE "interface"
           moved == [at |-> at, question |-> k.question, node |-> k.node, resolver |-> entry]
<1>1. /\ k.at = "resolver" /\ k \in NameService!CallStates
      /\ k.question \in DOMAIN NameService!Questions /\ k.node \in Nodes
  BY QuestionFields DEF NameService!GetResolver, NamesOK
<1>2. /\ entry \in NameService!Entries /\ entry \in seen[c]
      /\ seen[c] \in SUBSET NameService!Entries /\ UNCHANGED seen
  BY <1>1 DEF NamesOK, QuestionSound, NameService!GetResolver
<1> HIDE DEF NameService!Questions
<1>3. CASE /\ entry \in Resolvers /\ NameService!Moves(c, moved)
           /\ had' = [had EXCEPT ![c] = supports[entry]]
  <2>1. /\ moved \in [at : {"interface", "answer", "done"},
                     question : DOMAIN NameService!Questions, node : Nodes, resolver : Resolvers]
        /\ moved.at = at /\ moved.question = k.question /\ moved.resolver = entry
    BY <1>1, <1>3
  <2>2. moved \in NameService!CallStates
    BY <2>1 DEF NameService!CallStates
  <2>3. call' = [call EXCEPT ![c] = moved] /\ UNCHANGED <<registry, supports, events>>
    BY <1>3 DEF NameService!Moves
  <2>4. /\ at = "answer" => k.question \in NameService!Unchecked
        /\ at = "interface" => k.question \notin NameService!Unchecked
        /\ at = "done" => k.question \in NameService!Unchecked
        /\ at \in {"interface", "answer", "done"}
    BY DEF NameService!Unchecked
  <2> HIDE DEF moved, at, k, NameService!CallStates, NameService!Unchecked
  <2>5. QuestionSound(moved, seen[c], supports[entry], registry, supports)
    BY <1>2, <1>3, <2>1, <2>2, <2>4 DEF QuestionSound
  <2>6. supports[entry] \in SUBSET NameService!Interfaces /\ seen' = [seen EXCEPT ![c] = seen[c]]
    BY <1>2, <1>3 DEF NamesOK
  <2> QED BY <1>2, <1>3, <2>3, <2>5, <2>6, OneMoves
<1>4. CASE entry \notin Resolvers /\ NameService!Fails(c, entry) /\ UNCHANGED had
  <2>1. entry \in {"zero", "invalid", "reverted", "ResolverMethodMissing", "call"}
    BY <1>2, <1>4 DEF NameService!Entries
  <2> HIDE DEF entry
  <2> QED BY <1>1, <1>2, <1>4, <2>1, FailsKeepsNames
<1>5. CASE NameService!Fails(c, "reverted") /\ UNCHANGED had
  BY <1>1, <1>2, <1>5, FailsKeepsNames
<1> QED BY <1>3, <1>4, <1>5 DEF NameService!GetResolver

(* The interface is found or missing, and the resolver answers or fails.     *)
LEMMA AnswersKeepNames ==
    ASSUME NamesOK, NEW c \in Askers,
           \/ NameService!CheckInterfaceSupport(c)
           \/ NameService!Answer(c) \/ NameService!AnswerFails(c)
    PROVE  NamesOK'
<1> DEFINE k == call[c]
<1>1. /\ k.at \in {"interface", "answer"} /\ k \in NameService!CallStates
      /\ k.question \in DOMAIN NameService!Questions /\ k.resolver \in Resolvers
  BY QuestionFields DEF NamesOK, NameService!CheckInterfaceSupport, NameService!Answer,
                        NameService!AnswerFails
<1>2. /\ QuestionSound(k, seen[c], had[c], registry, supports)
      /\ supports[k.resolver] \subseteq had[c]
  BY <1>1 DEF NamesOK, QuestionSound
<1> HIDE DEF NameService!Questions
<1>3. CASE NameService!CheckInterfaceSupport(c)
  <2>1. CASE NameService!Questions[k.question] \in supports[k.resolver]
    <3> DEFINE moved == [k EXCEPT !.at = "answer"]
    <3>1. call' = [call EXCEPT ![c] = moved] /\ UNCHANGED <<registry, supports, events, seen, had>>
      BY <1>3, <2>1 DEF NameService!CheckInterfaceSupport, NameService!Moves
    <3>2. QuestionSound(moved, seen[c], had[c], registry, supports)
      BY <1>1, <1>2, <2>1, ResolverKnown
    <3> HIDE DEF moved
    <3> QED BY <3>1, <3>2, OneStep
  <2>2. CASE NameService!Questions[k.question] \notin supports[k.resolver]
    <3>1. NameService!Fails(c, "ResolverMethodMissing") /\ UNCHANGED <<seen, had>>
      BY <1>3, <2>2 DEF NameService!CheckInterfaceSupport
    <3> QED BY <1>1, <3>1, FailsKeepsNames
  <2> QED BY <2>1, <2>2
<1>4. CASE NameService!Answer(c)
  <2>1. CASE k.question = "getTextOfAddress"
    <3>1. PICK node \in Nodes : NameService!Asks(c, "getText", node)
      BY <1>4, <2>1 DEF NameService!Answer
    <3>2. UNCHANGED <<registry, supports, events>>
      BY <1>4, <2>1 DEF NameService!Answer
    <3>3. "getText" \in DOMAIN NameService!Questions
      BY DEF NameService!Questions
    <3> QED BY <3>1, <3>2, <3>3, AskSound
  <2>2. CASE k.question # "getTextOfAddress"
    <3> DEFINE moved == [k EXCEPT !.at = "done"]
    <3>1. /\ k.at = "answer" /\ call' = [call EXCEPT ![c] = moved]
          /\ UNCHANGED <<registry, supports, events, seen, had>>
      BY <1>4, <2>2 DEF NameService!Answer, NameService!Moves
    <3>2. QuestionSound(moved, seen[c], had[c], registry, supports)
      BY <1>1, <1>2, <3>1, ResolverKnown
    <3> HIDE DEF moved
    <3> QED BY <3>1, <3>2, OneStep
  <2> QED BY <2>1, <2>2
<1>5. CASE NameService!AnswerFails(c)
  <2>1. NameService!Fails(c, "call") /\ UNCHANGED <<seen, had>>
    BY <1>5 DEF NameService!AnswerFails
  <2> QED BY <1>1, <2>1, FailsKeepsNames
<1> QED BY <1>3, <1>4, <1>5

(* Every step of the name service keeps what is known of its calls.          *)
LEMMA NamesPreserved ==
    ASSUME NamesOK, NameService!Names
    PROVE  NamesOK'
<1>1. ASSUME NEW c \in Askers, NEW q \in DOMAIN NameService!Questions \cup NameService!Records,
             NEW node \in Nodes, NameService!Ask(c, q, node)
      PROVE  NamesOK'
  <2>1. NameService!Asks(c, q, node) /\ UNCHANGED <<registry, supports, events>>
    BY <1>1 DEF NameService!Ask
  <2> HIDE DEF NameService!Questions, NameService!Records
  <2> QED BY <2>1, AskSound
<1> QED BY <1>1, SetResolverKeepsNames, SetInterfacesKeepsNames, RecordKeepsNames,
           GetResolverKeepsNames, AnswersKeepNames DEF NameService!Names

-----------------------------------------------------------------------------
(* What a call of checkNetwork() under way knows.                             *)
LEMMA CheckFields ==
    ASSUME NEW k \in NameService!CheckStates
    PROVE  k.at \in {"sync", "id", "done"} => k.since \in 0..MaxTime
BY DEF NameService!CheckStates, NameService!Resting

(* The states that a call of checkNetwork() moves to.                         *)
LEMMA CheckMoves ==
    ASSUME NEW since \in 0..MaxTime
    PROVE  /\ [at |-> "sync", since |-> since] \in NameService!CheckStates
           /\ [at |-> "id", since |-> since] \in NameService!CheckStates
           /\ [at |-> "failed"] \in NameService!CheckStates
           /\ \A address : address = NameService!RegistryAddresses.main =>
                 [at |-> "done", address |-> address, since |-> since] \in NameService!CheckStates
<1> HIDE DEF NameService!RegistryAddresses
<1> QED BY DEF NameService!CheckStates

(* One call of checkNetwork() moves on after a report, or to ask for one.     *)
LEMMA CheckKeepsNetwork ==
    ASSUME NetworkOK, NEW c \in Checkers, NEW k \in NameService!CheckStates,
           check' = [check EXCEPT ![c] = k], UNCHANGED clock,
           \/ UNCHANGED <<lastSyncCheck, reported>>
           \/ /\ reported' = clock /\ lastSyncCheck' \in 0..clock,
           detectedAddress' \in {Null, NameService!RegistryAddresses.main},
           k.at = "sync" => k.since <= clock,
           k.at \in {"id", "done"} => reported' # Null /\ reported' + 1 >= k.since
    PROVE  NetworkOK'
<1>1. MaxTime \in Nat /\ \A n \in Nat : n # Null
  BY InstancesAssumption DEF NameService!ConstantsOK
<1>2. /\ clock \in 0..MaxTime /\ clock' = clock
      /\ lastSyncCheck \in {Null} \cup 0..MaxTime /\ reported \in {Null} \cup 0..MaxTime
      /\ reported # Null => reported <= clock
      /\ lastSyncCheck # Null => reported # Null /\ lastSyncCheck <= reported
      /\ check \in [Checkers -> NameService!CheckStates]
  BY DEF NetworkOK, NameService!CheckedInTime, NameService!SyncedWhenDetected
<1>3. /\ lastSyncCheck' \in {Null} \cup 0..MaxTime /\ reported' \in {Null} \cup 0..MaxTime
      /\ reported' # Null => reported' <= clock
      /\ lastSyncCheck' # Null => reported' # Null /\ lastSyncCheck' <= reported'
  BY <1>1, <1>2
<1>4. reported # Null => reported' # Null /\ reported <= reported'
  <2>1. CASE UNCHANGED <<lastSyncCheck, reported>>
    BY <1>1, <1>2, <2>1
  <2>2. CASE reported' = clock
    BY <1>1, <1>2, <2>2
  <2> QED BY <2>1, <2>2
<1> HIDE DEF NameService!CheckStates
<1>5. /\ check' \in [Checkers -> NameService!CheckStates] /\ check'[c] = k
      /\ \A d \in Checkers : d # c => check'[d] = check[d]
  BY <1>2
<1>6. \A d \in Checkers :
         /\ check'[d].at = "sync" => check'[d].since <= clock
         /\ check'[d].at \in {"id", "done"} =>
               reported' # Null /\ reported' + 1 >= check'[d].since
  <2> TAKE d \in Checkers
  <2>1. CASE d = c
    BY <1>5, <2>1
  <2>2. CASE d # c
    <3>1. check'[d] = check[d] /\ check[d] \in NameService!CheckStates
      BY <1>2, <1>5, <2>2
    <3>2. /\ check[d].at = "sync" => check[d].since <= clock
          /\ check[d].at \in {"id", "done"} => reported # Null /\ reported + 1 >= check[d].since
      BY DEF NetworkOK, NameService!CheckedInTime, NameService!SyncedWhenDetected
    <3>3. check[d].at \in {"id", "done"} => check[d].since \in 0..MaxTime
      BY <3>1, CheckFields
    <3>4. check[d].at \in {"id", "done"} => reported' + 1 >= check[d].since
      BY <1>1, <1>2, <1>3, <1>4, <3>2, <3>3
    <3> QED BY <1>4, <3>1, <3>2, <3>4
  <2> QED BY <2>1, <2>2
<1> QED BY <1>2, <1>3, <1>5, <1>6
        DEF NetworkOK, NameService!CheckedInTime, NameService!SyncedWhenDetected

(* Every step of the network check keeps what is known of its checks.        *)
LEMMA NetworkPreserved ==
    ASSUME NetworkOK, NameService!Network
    PROVE  NetworkOK'
<1> DEFINE main == NameService!RegistryAddresses.main
<1>1. MaxTime \in Nat /\ (\A n \in Nat : n # Null) /\ main # Null
  BY InstancesAssumption DEF NameService!ConstantsOK, NameService!RegistryAddresses
<1>2. /\ clock \in 0..MaxTime /\ detectedAddress \in {Null, main}
      /\ lastSyncCheck \in {Null} \cup 0..MaxTime /\ reported \in {Null} \cup 0..MaxTime
      /\ reported # Null => reported <= clock
      /\ lastSyncCheck # Null => reported # Null /\ lastSyncCheck <= reported
      /\ \A c \in Checkers :
            /\ check[c] \in NameService!CheckStates
            /\ check[c].at = "sync" => check[c].since <= clock
            /\ check[c].at = "id" => reported # Null /\ reported + 1 >= check[c].since
  BY DEF NetworkOK, NameService!CheckedInTime, NameService!SyncedWhenDetected
<1> HIDE DEF main, NameService!CheckStates
<1>3. CASE NameService!Tick
  <2>1. /\ clock < MaxTime /\ clock' = clock + 1
        /\ UNCHANGED <<check, lastSyncCheck, detectedAddress, reported>>
    BY <1>3 DEF NameService!Tick
  <2>2. clock' \in 0..MaxTime /\ clock <= clock'
    BY <1>1, <1>2, <2>1
  <2>3. reported # Null => reported <= clock'
    BY <1>1, <1>2, <2>2
  <2>4. \A c \in Checkers : check[c].at = "sync" => check[c].since <= clock'
    <3> SUFFICES ASSUME NEW c \in Checkers, check[c].at = "sync" PROVE check[c].since <= clock'
      OBVIOUS
    <3>1. check[c].since \in 0..MaxTime /\ check[c].since <= clock
      BY <1>2, CheckFields
    <3> QED BY <1>2, <2>2, <3>1
  <2> QED BY <2>1, <2>2, <2>3, <2>4
          DEF NetworkOK, NameService!CheckedInTime, NameService!SyncedWhenDetected
<1>4. CASE NameService!NodeChanges
  BY <1>4 DEF NameService!NodeChanges, NetworkOK, NameService!CheckedInTime,
              NameService!SyncedWhenDetected
<1>5. ASSUME NEW c \in Checkers, NameService!CheckNetwork(c) PROVE NetworkOK'
  <2>1. UNCHANGED <<clock, lastSyncCheck, detectedAddress, reported>>
    BY <1>5 DEF NameService!CheckNetwork
  <2>2. CASE NameService!Due(clock)
    <3> DEFINE k == [at |-> "sync", since |-> clock]
    <3>1. check' = [check EXCEPT ![c] = k]
      BY <1>5, <2>2 DEF NameService!CheckNetwork
    <3>2. k \in NameService!CheckStates /\ k.at = "sync" /\ k.since = clock
      BY <1>2, CheckMoves
    <3>3. clock <= clock
      BY <1>1, <1>2
    <3> HIDE DEF k
    <3> QED BY <1>2, <2>1, <3>1, <3>2, <3>3, CheckKeepsNetwork DEF main
  <2>3. CASE ~NameService!Due(clock)
    <3>1. reported # Null /\ reported + 1 >= clock
      BY <1>1, <1>2, <2>3 DEF NameService!Due
    <3>2. CASE detectedAddress # Null
      <4> DEFINE k == [at |-> "done", address |-> detectedAddress, since |-> clock]
      <4>1. check' = [check EXCEPT ![c] = k]
        BY <1>5, <2>3, <3>2 DEF NameService!CheckNetwork
      <4>2. k \in NameService!CheckStates /\ k.at = "done" /\ k.since = clock
        BY <1>2, <3>2, CheckMoves DEF main
      <4> HIDE DEF k
      <4> QED BY <1>2, <2>1, <3>1, <4>1, <4>2, CheckKeepsNetwork DEF main
    <3>3. CASE detectedAddress = Null
      <4> DEFINE k == [at |-> "id", since |-> clock]
      <4>1. check' = [check EXCEPT ![c] = k]
        BY <1>5, <2>3, <3>3 DEF NameService!CheckNetwork
      <4>2. k \in NameService!CheckStates /\ k.at = "id" /\ k.since = clock
        BY <1>2, CheckMoves
      <4> HIDE DEF k
      <4> QED BY <1>2, <2>1, <3>1, <4>1, <4>2, CheckKeepsNetwork DEF main
    <3> QED BY <3>2, <3>3
  <2> QED BY <2>2, <2>3
<1>6. ASSUME NEW c \in Checkers, NameService!Syncing(c) PROVE NetworkOK'
  <2> DEFINE since == check[c].since
  <2>1. /\ check[c].at = "sync" /\ since \in 0..MaxTime /\ since <= clock
        /\ UNCHANGED <<clock, detectedAddress>>
    BY <1>2, <1>6, CheckFields DEF NameService!Syncing
  <2>2. CASE synced
    <3>1. /\ lastSyncCheck' = since /\ reported' = clock /\ NameService!Detected(c)
      BY <1>6, <2>2 DEF NameService!Syncing
    <3>2. lastSyncCheck' \in 0..clock /\ reported' # Null /\ reported' + 1 >= since
      BY <1>1, <1>2, <2>1, <3>1
    <3>3. PICK k \in NameService!CheckStates :
             /\ check' = [check EXCEPT ![c] = k]
             /\ k.at \in {"id", "done"} /\ k.since = since
      <4>1. CASE detectedAddress # Null
        <5> DEFINE k == [at |-> "done", address |-> detectedAddress, since |-> since]
        <5>1. check' = [check EXCEPT ![c] = k]
          BY <3>1, <4>1 DEF NameService!Detected
        <5>2. k \in NameService!CheckStates /\ k.at = "done" /\ k.since = since
          BY <1>2, <2>1, <4>1, CheckMoves DEF main
        <5> HIDE DEF k
        <5> QED BY <5>1, <5>2
      <4>2. CASE detectedAddress = Null
        <5> DEFINE k == [at |-> "id", since |-> since]
        <5>1. check' = [check EXCEPT ![c] = k]
          BY <3>1, <4>2 DEF NameService!Detected
        <5>2. k \in NameService!CheckStates /\ k.at = "id" /\ k.since = since
          BY <2>1, CheckMoves
        <5> HIDE DEF k
        <5> QED BY <5>1, <5>2
      <4> QED BY <4>1, <4>2
    <3> HIDE DEF since
    <3> QED BY <1>2, <2>1, <3>1, <3>2, <3>3, CheckKeepsNetwork DEF main
  <2>3. CASE ~synced
    <3> DEFINE k == [at |-> "failed"]
    <3>1. check' = [check EXCEPT ![c] = k] /\ UNCHANGED <<lastSyncCheck, reported>>
      BY <1>6, <2>3 DEF NameService!Syncing
    <3>2. k \in NameService!CheckStates /\ k.at = "failed"
      BY <2>1, CheckMoves
    <3> HIDE DEF k
    <3> QED BY <1>2, <2>1, <3>1, <3>2, CheckKeepsNetwork DEF main
  <2> QED BY <2>2, <2>3
<1>7. ASSUME NEW c \in Checkers, NameService!Identified(c) PROVE NetworkOK'
  <2> DEFINE since == check[c].since
  <2>1. /\ check[c].at = "id" /\ since \in 0..MaxTime
        /\ reported # Null /\ reported + 1 >= since
        /\ UNCHANGED <<clock, lastSyncCheck, reported>>
    BY <1>2, <1>7, CheckFields DEF NameService!Identified
  <2>2. CASE network \in DOMAIN NameService!RegistryAddresses
    <3> DEFINE k == [at |-> "done", address |-> main, since |-> since]
    <3>1. NameService!RegistryAddresses[network] = main
      BY <2>2 DEF NameService!RegistryAddresses, main
    <3>2. check' = [check EXCEPT ![c] = k] /\ detectedAddress' = main
      BY <1>7, <2>2, <3>1 DEF NameService!Identified
    <3>3. k \in NameService!CheckStates /\ k.at = "done" /\ k.since = since
      BY <2>1, CheckMoves DEF main
    <3> HIDE DEF k, since
    <3> QED BY <1>2, <2>1, <3>2, <3>3, CheckKeepsNetwork DEF main
  <2>3. CASE network \notin DOMAIN NameService!RegistryAddresses
    <3> DEFINE k == [at |-> "failed"]
    <3>1. check' = [check EXCEPT ![c] = k] /\ UNCHANGED detectedAddress
      BY <1>7, <2>3 DEF NameService!Identified
    <3>2. k \in NameService!CheckStates /\ k.at = "failed"
      BY <2>1, CheckMoves
    <3> HIDE DEF k
    <3> QED BY <1>2, <2>1, <3>1, <3>2, CheckKeepsNetwork DEF main
  <2> QED BY <2>2, <2>3
<1> QED BY <1>3, <1>4, <1>5, <1>6, <1>7 DEF NameService!Network

(* The name service begins with no call under way.                           *)
LEMMA NameServiceBegins == NameService!Init => NameService!Inv
<1> SUFFICES ASSUME NameService!Init PROVE NamesOK /\ NetworkOK
  BY NameParts
<1> HIDE DEF NameService!Questions, NameService!Records
<1>1. /\ NameService!Resting \in NameService!CallStates
      /\ NameService!Resting \in NameService!CheckStates
      /\ NameService!Resting.at = "rest"
  BY DEF NameService!CallStates, NameService!CheckStates, NameService!Resting
<1>2. MaxEvents \in Nat /\ MaxTime \in Nat
  BY InstancesAssumption DEF NameService!ConstantsOK
<1> HIDE DEF NameService!Resting, NameService!CallStates, NameService!CheckStates
<1>3. NamesOK
  BY <1>1, <1>2 DEF NameService!Init, NamesOK, QuestionSound
<1>4. NetworkOK
  BY <1>1, <1>2 DEF NameService!Init, NetworkOK, NameService!CheckedInTime,
                    NameService!SyncedWhenDetected
<1> QED BY <1>3, <1>4

(* Every step of the name service keeps its invariant.                       *)
LEMMA NameServicePreserves ==
    ASSUME NameService!Inv, [NameService!Next]_(NameService!vars)
    PROVE  NameService!Inv'
<1> HIDE DEF NameService!CallStates, NameService!CheckStates
<1>1. NamesOK /\ NetworkOK
  BY NameParts
<1>2. UNCHANGED NameService!nameVars => NamesOK'
  BY <1>1 DEF NamesOK, NameService!nameVars
<1>3. UNCHANGED NameService!networkVars => NetworkOK'
  BY <1>1 DEF NetworkOK, NameService!networkVars, NameService!CheckedInTime,
              NameService!SyncedWhenDetected
<1>4. NameService!Names => NamesOK' /\ UNCHANGED NameService!networkVars
  <2>1. NameService!Names => UNCHANGED NameService!networkVars
    BY DEF NameService!Names, NameService!SetResolver, NameService!SetInterfaces,
           NameService!Ask, NameService!Record, NameService!GetResolver,
           NameService!CheckInterfaceSupport, NameService!Answer, NameService!AnswerFails,
           NameService!Fails, NameService!Moves
  <2> QED BY <1>1, <2>1, NamesPreserved
<1>5. NameService!Network => NetworkOK' /\ UNCHANGED NameService!nameVars
  <2>1. NameService!Network => UNCHANGED NameService!nameVars
    BY DEF NameService!Network, NameService!Tick, NameService!NodeChanges,
           NameService!CheckNetwork, NameService!Syncing, NameService!Identified
  <2> QED BY <1>1, <2>1, NetworkPreserved
<1> QED BY <1>2, <1>3, <1>4, <1>5, NameParts DEF NameService!Next, NameService!vars

(* The name service, by itself: a name is answered for by a contract that was *)
(* its resolver while it was asked for, and a network found in sync was said  *)
(* to be at most an hour ago.                                                 *)
THEOREM NameServiceInvariant == NameService!Spec => []NameService!Inv
BY NameServiceBegins, NameServicePreserves, PTL DEF NameService!Spec

-----------------------------------------------------------------------------
(* What web3.qrl reads.                                                       *)

Refs == Reads!BlockNumberOrTag \cup Reads!HashRefs

(* A reference to a block: a tag, a number in one of its forms, or a hash.    *)
LEMMA RefIs ==
    ASSUME NEW r \in Refs
    PROVE  /\ r.n \in Int
           /\ r.as \in {"tag", "number", "decimal", "hex", "evenHex", "hash", "array", "long"}
           /\ r.as = "tag" => r.tag \in Reads!Tags /\ r.n = -1
           /\ r.as = "long" => r = Reads!Ref("long", -1, "")
           /\ r.as \notin {"tag", "long"} /\ r.n < 0 => r = Reads!Ref("number", -1, "")
           /\ r \in Reads!BlockNumberOrTag =>
                 r.as \in {"tag", "number", "decimal", "hex", "evenHex"}
           /\ r \in Reads!HashRefs => r.as \in {"hash", "array", "long"}
<1>1. MaxHead \in Nat
  BY InstancesAssumption DEF Reads!ConstantsOK
<1>2. /\ Reads!Ref("number", -1, "").as = "number" /\ Reads!Ref("number", -1, "").n = -1
      /\ Reads!Ref("long", -1, "").as = "long" /\ Reads!Ref("long", -1, "").n = -1
  BY DEF Reads!Ref
<1>3. r \in Reads!TagRefs => r.as = "tag" /\ r.tag \in Reads!Tags /\ r.n = -1
  <2> HAVE r \in Reads!TagRefs
  <2>1. PICK t \in Reads!Tags : r = Reads!Ref("tag", -1, t)
    BY DEF Reads!TagRefs, Reads!None
  <2> QED BY <2>1 DEF Reads!Ref
<1>4. r \in Reads!NumberRefs =>
         /\ r.as \in {"number", "decimal", "hex", "evenHex"} /\ r.n \in Int
         /\ r.n < 0 => r = Reads!Ref("number", -1, "")
  <2> HAVE r \in Reads!NumberRefs
  <2>1. CASE r = Reads!Ref("number", -1, "")
    <3>1. r.as = "number" /\ r.n = -1
      BY <1>2, <2>1
    <3>2. r.as \in {"number", "decimal", "hex", "evenHex"}
      BY <3>1
    <3>3. r.n \in Int
      BY <3>1
    <3> QED BY <2>1, <3>2, <3>3
  <2>2. CASE r # Reads!Ref("number", -1, "")
    <3>1. r \in [as : {"number", "decimal", "hex", "evenHex"}, n : 0..MaxHead + 1, tag : {""}]
      BY <2>2 DEF Reads!NumberRefs
    <3>2. r.as \in {"number", "decimal", "hex", "evenHex"} /\ r.n \in 0..MaxHead + 1
      BY <3>1
    <3>3. r.n \in Int /\ ~(r.n < 0)
      BY <1>1, <3>2
    <3> QED BY <3>2, <3>3
  <2> QED BY <2>1, <2>2
<1>5. r \in Reads!HashRefs =>
         /\ r.as \in {"hash", "array", "long"} /\ r.n \in Int
         /\ r.as = "long" => r = Reads!Ref("long", -1, "")
         /\ r.as # "long" => ~(r.n < 0)
  <2> HAVE r \in Reads!HashRefs
  <2>1. CASE r = Reads!Ref("long", -1, "")
    <3>1. r.as = "long" /\ r.n = -1
      BY <1>2, <2>1
    <3>2. r.n \in Int
      BY <3>1
    <3> QED BY <2>1, <3>1, <3>2
  <2>2. CASE r # Reads!Ref("long", -1, "")
    <3>1. r \in [as : {"hash", "array"}, n : 0..MaxHead + 1, tag : {""}]
      BY <2>2 DEF Reads!HashRefs, Reads!None
    <3>2. r.as \in {"hash", "array"} /\ r.n \in 0..MaxHead + 1
      BY <3>1
    <3>3. r.n \in Int /\ ~(r.n < 0)
      BY <1>1, <3>2
    <3> QED BY <3>2, <3>3
  <2> QED BY <2>1, <2>2
<1>6. /\ r \in Reads!TagRefs \/ r \in Reads!NumberRefs \/ r \in Reads!HashRefs
      /\ r \in Reads!BlockNumberOrTag => r \in Reads!TagRefs \/ r \in Reads!NumberRefs
  BY DEF Refs, Reads!BlockNumberOrTag
<1>7. r.n \in Int
  <2>1. r \in Reads!TagRefs => r.n \in Int
    BY <1>3
  <2> QED BY <1>4, <1>5, <1>6, <2>1
<1>8. r.as \in {"tag", "number", "decimal", "hex", "evenHex", "hash", "array", "long"}
  BY <1>3, <1>4, <1>5, <1>6
<1>9. r.as = "tag" => r.tag \in Reads!Tags /\ r.n = -1
  BY <1>3, <1>4, <1>5, <1>6
<1>10. r.as = "long" => r = Reads!Ref("long", -1, "")
  BY <1>3, <1>4, <1>5, <1>6
<1>11. r.as \notin {"tag", "long"} /\ r.n < 0 => r = Reads!Ref("number", -1, "")
  <2> SUFFICES ASSUME r.as # "tag", r.as # "long", r.n < 0
               PROVE  r = Reads!Ref("number", -1, "")
    OBVIOUS
  <2>1. r \notin Reads!TagRefs /\ r \notin Reads!HashRefs
    BY <1>3, <1>5
  <2>2. r \in Reads!NumberRefs
    BY <1>6, <2>1
  <2> QED BY <1>4, <2>2
<1>12. r \in Reads!BlockNumberOrTag => r.as \in {"tag", "number", "decimal", "hex", "evenHex"}
  BY <1>3, <1>4, <1>5, <1>6
<1> QED BY <1>5, <1>7, <1>8, <1>9, <1>10, <1>11, <1>12

(* The head is the last block of the chain.                                   *)
LEMMA LastOfChain ==
    ASSUME NEW h \in Nat
    PROVE  (CHOOSE n \in 0..h : n + 1 \notin 0..h) = h
<1>1. \A n \in 0..h : n + 1 \notin 0..h => n = h
  OBVIOUS
<1>2. h \in 0..h /\ h + 1 \notin 0..h
  OBVIOUS
<1> DEFINE last(n) == n \in 0..h /\ n + 1 \notin 0..h
<1>3. last(CHOOSE n : last(n))
  BY <1>2
<1> QED BY <1>1, <1>2, <1>3

(* The chain is the blocks up to its head, which is one of the bounded       *)
(* number of blocks.                                                         *)
LEMMA HeadIs ==
    ASSUME Reads!TypeOK
    PROVE  /\ Reads!Head \in 0..MaxHead
           /\ fees \in [0..Reads!Head -> BaseFees \cup {-1}]
<1>1. PICK h \in 0..MaxHead : fees \in [0..h -> BaseFees \cup {-1}]
  BY DEF Reads!TypeOK, Reads!None
<1>2. h \in Nat
  BY InstancesAssumption DEF Reads!ConstantsOK
<1>3. Reads!Head = h
  BY <1>1, <1>2, LastOfChain DEF Reads!Head
<1> QED BY <1>1, <1>3

(* The block that a request resolves to is one that its reference means, or   *)
(* there was none when it was asked for.                                      *)
LEMMA ResolvedIsMeant ==
    ASSUME Reads!TypeOK, asked.head \in 0..Reads!Head, NEW ref \in Refs,
           NEW method, NEW request, request = Reads!BlockRequest(method, ref),
           method \in Reads!StateReaders => ref \in Reads!BlockNumberOrTag,
           method \in Reads!StateReaders \/ ref.as # "evenHex", ref.as # "long"
    PROVE  \/ Reads!Resolved(request) \in Reads!Meant(ref)
           \/ Reads!Resolved(request) = -1 /\ ref.n \notin 0..asked.head
<1>1. /\ Reads!Head \in Nat /\ fees \in [0..Reads!Head -> BaseFees \cup {-1}]
      /\ asked.head \in Nat /\ asked.head <= Reads!Head
  BY HeadIs, InstancesAssumption DEF Reads!ConstantsOK
<1> HIDE DEF Reads!Head
<1>2. CASE ref.as = "tag"
  <2>1. request.by = "tag" /\ request.tag = ref.tag
    BY <1>2 DEF Reads!BlockRequest, Reads!IsBytes, Reads!NumberRequest
  <2>2. Reads!Resolved(request) = Reads!TagNumber(ref.tag, Reads!Head)
    BY <2>1 DEF Reads!Resolved
  <2>3. Reads!Head \in asked.head..Reads!Head
    BY <1>1
  <2>4. Reads!Meant(ref) = {Reads!TagNumber(ref.tag, head) : head \in asked.head..Reads!Head}
    BY <1>2 DEF Reads!Meant
  <2> QED BY <2>2, <2>3, <2>4
<1>3. CASE ref.as # "tag"
  <2>1. request.n = ref.n /\ request.by # "tag"
    BY <1>3, RefIs DEF Reads!BlockRequest, Reads!IsBytes, Reads!NumberRequest, Reads!HashRequest
  <2>2. Reads!Resolved(request) = IF ref.n \in DOMAIN fees THEN ref.n ELSE -1
    BY <2>1 DEF Reads!Resolved, Reads!None
  <2>3. ref.n \in DOMAIN fees => ref.n \in Reads!Meant(ref)
    BY <1>3 DEF Reads!Meant
  <2>4. ref.n \notin DOMAIN fees => ref.n \notin 0..asked.head
    BY <1>1
  <2> QED BY <2>2, <2>3, <2>4
<1> QED BY <1>2, <1>3

(* A tag is the number of a block.                                            *)
LEMMA TagIsBlock ==
    ASSUME NEW tag, NEW h \in Nat, NEW head \in 0..h
    PROVE  Reads!TagNumber(tag, head) \in 0..h
<1>1. head \in Nat /\ 0 \in 0..h
  OBVIOUS
<1>2. head # 0 => head - 1 \in 0..h
  BY <1>1
<1>3. Reads!TagNumber(tag, head) \in 0..h
  <2>1. CASE tag = "earliest"
    BY <1>1, <2>1 DEF Reads!TagNumber
  <2>2. CASE tag = "latest"
    BY <1>1, <2>2 DEF Reads!TagNumber
  <2>3. CASE tag # "earliest" /\ tag # "latest"
    <3>1. Reads!TagNumber(tag, head) = IF head = 0 THEN 0 ELSE head - 1
      BY <2>3 DEF Reads!TagNumber
    <3> QED BY <1>1, <1>2, <3>1
  <2> QED BY <2>1, <2>2, <2>3
<1> QED BY <1>3

(* What a reference means, and what a request resolves to, are blocks.        *)
LEMMA MeantIsBlock ==
    ASSUME Reads!TypeOK, asked.head \in 0..Reads!Head, NEW ref
    PROVE  Reads!Meant(ref) \subseteq DOMAIN fees
<1>1. Reads!Head \in Nat /\ asked.head \in Nat /\ DOMAIN fees = 0..Reads!Head
  BY HeadIs, InstancesAssumption DEF Reads!ConstantsOK
<1> HIDE DEF Reads!Head
<1>2. \A head \in asked.head..Reads!Head : head \in 0..Reads!Head
  BY <1>1
<1>3. \A head \in asked.head..Reads!Head : Reads!TagNumber(ref.tag, head) \in 0..Reads!Head
  BY <1>1, <1>2, TagIsBlock
<1> QED BY <1>1, <1>3 DEF Reads!Meant

(* What a request resolves to is a block of the chain, or none.              *)
LEMMA ResolvedIsBlock ==
    ASSUME Reads!TypeOK, NEW request
    PROVE  Reads!Resolved(request) = -1 \/ Reads!Resolved(request) \in DOMAIN fees
<1>1. Reads!Head \in Nat /\ DOMAIN fees = 0..Reads!Head /\ Reads!Head \in 0..Reads!Head
  BY HeadIs, InstancesAssumption DEF Reads!ConstantsOK
<1> HIDE DEF Reads!Head
<1>2. Reads!TagNumber(request.tag, Reads!Head) \in 0..Reads!Head
  BY <1>1, TagIsBlock
<1> QED BY <1>1, <1>2 DEF Reads!Resolved, Reads!None

(* A request by number, or by tag.                                            *)
LEMMA NumberRequestIs ==
    ASSUME NEW ref
    PROVE  /\ ref.as = "tag" => Reads!NumberRequest(ref).by = "tag"
           /\ ref.as # "tag" => /\ Reads!NumberRequest(ref).by = "number"
                               /\ Reads!NumberRequest(ref).n = ref.n
<1>1. CASE ref.as = "tag"
  <2>1. Reads!NumberRequest(ref) = [by |-> "tag", n |-> -1, tag |-> ref.tag]
    BY <1>1 DEF Reads!NumberRequest, Reads!None
  <2> QED BY <1>1, <2>1
<1>2. CASE ref.as # "tag"
  <2>1. Reads!NumberRequest(ref).by = "number"
    BY <1>2 DEF Reads!NumberRequest
  <2>2. Reads!NumberRequest(ref).n = ref.n
    BY <1>2 DEF Reads!NumberRequest
  <2> QED BY <1>2, <2>1, <2>2
<1> QED BY <1>1, <1>2

(* Only what names no block is refused.                                       *)
LEMMA RefusedNamesNone ==
    ASSUME NEW ref \in Refs, NEW method,
           method \in Reads!StateReaders => ref \in Reads!BlockNumberOrTag,
           Reads!Invalid(Reads!BlockRequest(method, ref), ref)
    PROVE  ref \in {Reads!Ref("number", -1, ""), Reads!Ref("long", -1, "")}
<1>1. CASE method \notin Reads!StateReaders /\ Reads!IsBytes(ref)
  <2>1. ref.as = "long"
    BY <1>1 DEF Reads!BlockRequest, Reads!HashRequest, Reads!Invalid, Reads!InvalidHash
  <2> QED BY <2>1, RefIs
<1>2. CASE method \in Reads!StateReaders \/ ~Reads!IsBytes(ref)
  <2>1. Reads!BlockRequest(method, ref) = Reads!NumberRequest(ref)
    BY <1>2 DEF Reads!BlockRequest
  <2>2. ref.as # "tag"
    <3> SUFFICES ASSUME ref.as = "tag" PROVE FALSE
      OBVIOUS
    <3>1. Reads!NumberRequest(ref).by = "tag"
      BY NumberRequestIs
    <3> QED BY <2>1, <3>1 DEF Reads!Invalid, Reads!InvalidNumber
  <2>4. Reads!NumberRequest(ref).by = "number" /\ Reads!NumberRequest(ref).n = ref.n
    BY <2>2, NumberRequestIs
  <2>5. ref.n < 0
    BY <2>1, <2>4 DEF Reads!Invalid, Reads!InvalidNumber
  <2>3. ref.as # "long"
    BY <1>2, RefIs DEF Reads!IsBytes
  <2> QED BY <2>2, <2>3, <2>5, RefIs
<1> QED BY <1>1, <1>2

-----------------------------------------------------------------------------
(* The chain, and what was asked for, stay as they are.                       *)
LEMMA SameMeaning ==
    ASSUME UNCHANGED <<fees, asked>>
    PROVE  /\ Reads!Head' = Reads!Head
           /\ \A ref : Reads!Meant(ref)' = Reads!Meant(ref)
           /\ \A base : Reads!BaseAsAsked(base)' <=> Reads!BaseAsAsked(base)
<1>1. Reads!Head' = Reads!Head
  BY DEF Reads!Head
<1> HIDE DEF Reads!Head
<1>2. \A ref : Reads!Meant(ref)' = Reads!Meant(ref)
  BY <1>1 DEF Reads!Meant
<1> QED BY <1>1, <1>2 DEF Reads!BaseAsAsked

(* A call begins: what is requested is what was asked for, the default block  *)
(* being the one of that moment.                                              *)
LEMMA AskingAsAsked ==
    ASSUME Reads!Inv,
           NEW method \in Reads!StateReaders \cup Reads!BlockReaders \cup {"calculateFeeData"},
           NEW ref \in Refs \cup {Reads!Undefined},
           method \notin Reads!BlockReaders => ref \in Reads!BlockNumberOrTag \cup {Reads!Undefined},
           Reads!Asking(method, ref)
    PROVE  Reads!Inv'
<1> DEFINE block   == Reads!OrDefault(ref)
           request == Reads!BlockRequest(method, block)
<1>1. /\ reading' = IF Reads!Invalid(request, block) THEN [at |-> "refused", method |-> method]
                    ELSE [at |-> IF method = "calculateFeeData" THEN "fees" ELSE "read",
                          method |-> method, request |-> request]
      /\ asked' = [ref |-> block, head |-> Reads!Head]
      /\ UNCHANGED <<defaultBlock, blockChanges, fees>>
  BY DEF Reads!Asking, Reads!OrDefault
<1>2. /\ block \in Refs
      /\ method \notin Reads!BlockReaders => block \in Reads!BlockNumberOrTag
  BY DEF Reads!Inv, Reads!TypeOK, Reads!OrDefault, Refs
<1>3. method \in Reads!StateReaders => method \notin Reads!BlockReaders /\ method # "calculateFeeData"
  BY DEF Reads!StateReaders, Reads!BlockReaders
<1> HIDE DEF block, request
<1>4. Reads!Head' = Reads!Head
  BY <1>1 DEF Reads!Head
<1>5. Reads!Head \in 0..Reads!Head
  BY HeadIs, InstancesAssumption DEF Reads!Inv, Reads!ConstantsOK
<1>6. Reads!TypeOK'
  <2>1. asked'.ref \in Reads!BlockNumberOrTag \cup Reads!HashRefs /\ asked'.head \in 0..Reads!Head'
    BY <1>1, <1>2, <1>4, <1>5 DEF Refs
  <2>2. reading'.at \in {"refused", "fees", "read"}
    BY <1>1
  <2> QED BY <1>1, <2>1, <2>2 DEF Reads!Inv, Reads!TypeOK
<1>7. CASE Reads!Invalid(request, block)
  <2>1. reading'.at = "refused"
    BY <1>1, <1>7
  <2>2. asked'.ref \in {Reads!Ref("number", -1, ""), Reads!Ref("long", -1, "")}
    BY <1>1, <1>2, <1>3, <1>7, RefusedNamesNone DEF request
  <2> QED BY <1>6, <2>1, <2>2
          DEF Reads!Inv, Reads!RequestedAsAsked, Reads!ReadsAsAsked, Reads!FeesAddUp, Reads!None
<1>8. CASE ~Reads!Invalid(request, block)
  <2>1. /\ reading'.at = IF method = "calculateFeeData" THEN "fees" ELSE "read"
        /\ reading'.method = method /\ reading'.request = request
    BY <1>1, <1>8
  <2>2. asked'.ref = block
    BY <1>1
  <2>3. Reads!RequestedAsAsked'
    <3>1. CASE method = "calculateFeeData"
      <4>1. reading'.at = "fees" /\ asked'.ref \in Reads!BlockNumberOrTag
        BY <1>2, <2>1, <2>2, <3>1 DEF Reads!BlockReaders
      <4> QED BY <2>1, <2>2, <3>1, <4>1 DEF Reads!RequestedAsAsked, request
    <3>2. CASE method # "calculateFeeData"
      <4>1. reading'.at = "read"
        BY <2>1, <3>2
      <4> QED BY <1>2, <1>3, <1>8, <2>1, <2>2, <3>2, <4>1 DEF Reads!RequestedAsAsked, request
    <3> QED BY <3>1, <3>2
  <2>4. Reads!ReadsAsAsked' /\ Reads!FeesAddUp'
    BY <2>1 DEF Reads!ReadsAsAsked, Reads!FeesAddUp
  <2> QED BY <1>6, <2>3, <2>4 DEF Reads!Inv
<1> QED BY <1>7, <1>8

(* So it is for a transaction, whose hash is refused when it is too long.     *)
LEMMA TransactionAsAsked ==
    ASSUME Reads!Inv, NEW method \in Reads!HashReaders, NEW ref \in Reads!HashRefs,
           Reads!ReadTransaction(method, ref)
    PROVE  Reads!Inv'
<1> DEFINE request == Reads!HashRequest(ref)
<1>1. /\ reading' = IF Reads!Invalid(request, ref) THEN [at |-> "refused", method |-> method]
                    ELSE [at |-> "hash", method |-> method, request |-> request]
      /\ asked' = [ref |-> ref, head |-> Reads!Head]
      /\ UNCHANGED <<defaultBlock, blockChanges, fees>>
  BY DEF Reads!ReadTransaction
<1>2. Reads!Invalid(request, ref) <=> ref.as = "long"
  BY DEF Reads!Invalid, Reads!InvalidHash, Reads!HashRequest
<1>3. ref \in Refs
  BY DEF Refs
<1> HIDE DEF request
<1>4. Reads!Head' = Reads!Head
  BY <1>1 DEF Reads!Head
<1>5. Reads!Head \in 0..Reads!Head
  BY HeadIs, InstancesAssumption DEF Reads!Inv, Reads!ConstantsOK
<1>6. Reads!TypeOK'
  <2>1. asked'.ref \in Reads!BlockNumberOrTag \cup Reads!HashRefs /\ asked'.head \in 0..Reads!Head'
    BY <1>1, <1>4, <1>5
  <2>2. reading'.at \in {"refused", "hash"}
    BY <1>1
  <2> QED BY <1>1, <2>1, <2>2 DEF Reads!Inv, Reads!TypeOK
<1>7. CASE ref.as = "long"
  <2>1. reading'.at = "refused"
    BY <1>1, <1>2, <1>7
  <2>2. asked'.ref = Reads!Ref("long", -1, "")
    BY <1>1, <1>3, <1>7, RefIs
  <2> QED BY <1>6, <2>1, <2>2
          DEF Reads!Inv, Reads!RequestedAsAsked, Reads!ReadsAsAsked, Reads!FeesAddUp, Reads!None
<1>8. CASE ref.as # "long"
  <2>1. reading' = [at |-> "hash", method |-> method, request |-> request] /\ asked'.ref = ref
    BY <1>1, <1>2, <1>8
  <2>2. Reads!RequestedAsAsked'
    BY <1>8, <2>1 DEF Reads!RequestedAsAsked, request
  <2>3. Reads!ReadsAsAsked' /\ Reads!FeesAddUp'
    BY <2>1 DEF Reads!ReadsAsAsked, Reads!FeesAddUp
  <2> QED BY <1>6, <2>2, <2>3 DEF Reads!Inv
<1> QED BY <1>7, <1>8

(* The bounds of getPastLogs(): each is asked for as a number or a tag, or as *)
(* text; what is refused is a negative number.                                *)
LEMMA BoundIs ==
    ASSUME NEW bound \in Reads!BlockNumberOrTag \cup {Reads!Undefined}
    PROVE  /\ Reads!OrLatest(bound) \in Reads!BlockNumberOrTag
           /\ Reads!LogBound(Reads!OrLatest(bound)) = Reads!LogBound(bound)
           /\ Reads!LogBound(bound).by # "text" =>
                 Reads!LogBound(bound) = Reads!BlockRequest("getBalance", Reads!OrLatest(bound))
           /\ Reads!Invalid(Reads!LogBound(bound), bound) =>
                 Reads!OrLatest(bound) = Reads!Ref("number", -1, "")
<1> DEFINE latest == Reads!Ref("tag", -1, "latest")
<1>1. latest \in Reads!BlockNumberOrTag /\ latest.as = "tag"
  BY DEF Reads!BlockNumberOrTag, Reads!TagRefs, Reads!Tags, Reads!None, Reads!Ref
<1>2. Reads!Undefined.as = "undefined"
  BY DEF Reads!Undefined, Reads!Ref
<1>3. \A ref \in Reads!BlockNumberOrTag :
         ref \in Refs /\ ref.as \in {"tag", "number", "decimal", "hex", "evenHex"} /\ ref # Reads!Undefined
  BY <1>2, RefIs DEF Refs
<1>4. Reads!OrLatest(bound) = IF bound = Reads!Undefined THEN latest ELSE bound
  BY DEF Reads!OrLatest, Reads!None
<1> HIDE DEF latest
<1> DEFINE ref == Reads!OrLatest(bound)
<1>5. ref \in Reads!BlockNumberOrTag /\ ref # Reads!Undefined
  BY <1>1, <1>3, <1>4
<1>6. Reads!OrLatest(ref) = ref
  BY <1>5 DEF Reads!OrLatest
<1>7. bound.as = "decimal" <=> ref.as = "decimal"
  BY <1>1, <1>2, <1>4
<1>8. bound.as = "decimal" => ref = bound
  BY <1>2, <1>4
<1> HIDE DEF ref
<1>9. Reads!LogBound(ref) = Reads!LogBound(bound)
  BY <1>6, <1>7, <1>8 DEF Reads!LogBound, ref
<1>10. Reads!BlockRequest("getBalance", ref) = Reads!NumberRequest(ref)
  BY DEF Reads!BlockRequest, Reads!StateReaders
<1>11. CASE ref.as = "decimal"
  <2>1. Reads!LogBound(bound).by = "text"
    BY <1>7, <1>11 DEF Reads!LogBound
  <2>2. ~Reads!Invalid(Reads!LogBound(bound), bound)
    BY <2>1 DEF Reads!Invalid, Reads!InvalidNumber
  <2> QED BY <1>5, <1>9, <2>1, <2>2 DEF ref
<1>12. CASE ref.as # "decimal"
  <2>1. Reads!LogBound(bound) = Reads!NumberRequest(ref)
    BY <1>6, <1>9, <1>12 DEF Reads!LogBound
  <2>2. Reads!LogBound(bound).by # "hash"
    BY <2>1, NumberRequestIs
  <2>3. Reads!Invalid(Reads!LogBound(bound), bound) <=> Reads!Invalid(Reads!NumberRequest(ref), ref)
    BY <2>1, <2>2 DEF Reads!Invalid
  <2>4. Reads!Invalid(Reads!NumberRequest(ref), ref) =>
           ref \in {Reads!Ref("number", -1, ""), Reads!Ref("long", -1, "")}
    BY <1>3, <1>5, <1>10, RefusedNamesNone
  <2>5. ref # Reads!Ref("long", -1, "")
    <3>1. Reads!Ref("long", -1, "").as = "long"
      BY DEF Reads!Ref
    <3> QED BY <1>3, <1>5, <3>1
  <2> QED BY <1>5, <1>9, <1>10, <2>1, <2>3, <2>4, <2>5 DEF ref
<1> QED BY <1>11, <1>12

(* The logs are asked for as the bounds say.                                  *)
LEMMA LogsAsAsked ==
    ASSUME Reads!Inv, NEW from \in Reads!BlockNumberOrTag \cup {Reads!Undefined},
           NEW to \in Reads!BlockNumberOrTag \cup {Reads!Undefined}, Reads!GetLogs(from, to)
    PROVE  Reads!Inv'
<1>1. /\ reading' = IF Reads!Invalid(Reads!LogBound(from), from) \/ Reads!Invalid(Reads!LogBound(to), to)
                    THEN [at |-> "refused", method |-> "getLogs"]
                    ELSE [at |-> "logs", method |-> "getLogs",
                          from |-> Reads!LogBound(from), to |-> Reads!LogBound(to)]
      /\ asked' = [ref |-> Reads!OrLatest(from), to |-> Reads!OrLatest(to), head |-> Reads!Head]
      /\ UNCHANGED <<defaultBlock, blockChanges, fees>>
  BY DEF Reads!GetLogs
<1>2. Reads!Head' = Reads!Head
  BY <1>1 DEF Reads!Head
<1>3. Reads!Head \in 0..Reads!Head
  BY HeadIs, InstancesAssumption DEF Reads!Inv, Reads!ConstantsOK
<1>4. asked'.ref = Reads!OrLatest(from) /\ asked'.to = Reads!OrLatest(to) /\ asked'.head = Reads!Head
  BY <1>1
<1>5. Reads!TypeOK'
  <2>1. asked'.ref \in Reads!BlockNumberOrTag \cup Reads!HashRefs /\ asked'.head \in 0..Reads!Head'
    BY <1>2, <1>3, <1>4, BoundIs
  <2>2. reading'.at \in {"refused", "logs"}
    BY <1>1
  <2> QED BY <1>1, <2>1, <2>2 DEF Reads!Inv, Reads!TypeOK
<1>6. CASE Reads!Invalid(Reads!LogBound(from), from) \/ Reads!Invalid(Reads!LogBound(to), to)
  <2>1. reading'.at = "refused" /\ reading'.method = "getLogs"
    BY <1>1, <1>6
  <2>2. asked'.ref = Reads!Ref("number", -1, "") \/ asked'.to = Reads!Ref("number", -1, "")
    BY <1>4, <1>6, BoundIs
  <2> QED BY <1>5, <2>1, <2>2
          DEF Reads!Inv, Reads!RequestedAsAsked, Reads!ReadsAsAsked, Reads!FeesAddUp
<1>7. CASE ~(Reads!Invalid(Reads!LogBound(from), from) \/ Reads!Invalid(Reads!LogBound(to), to))
  <2>1. reading' = [at |-> "logs", method |-> "getLogs",
                    from |-> Reads!LogBound(from), to |-> Reads!LogBound(to)]
    BY <1>1, <1>7
  <2>2. Reads!RequestedAsAsked'
    BY <1>4, <2>1, BoundIs DEF Reads!RequestedAsAsked
  <2>3. Reads!ReadsAsAsked' /\ Reads!FeesAddUp'
    BY <2>1 DEF Reads!ReadsAsAsked, Reads!FeesAddUp
  <2> QED BY <1>5, <2>2, <2>3 DEF Reads!Inv
<1> QED BY <1>6, <1>7

-----------------------------------------------------------------------------
(* A call that ends without an answer leaves nothing to hold.                 *)
LEMMA EndsSound ==
    ASSUME Reads!Inv, UNCHANGED <<defaultBlock, blockChanges, fees, asked>>,
           reading'.at = "failed", reading.at # "rest"
    PROVE  Reads!Inv'
<1>1. Reads!Head' = Reads!Head
  BY DEF Reads!Head
<1>2. Reads!TypeOK'
  BY <1>1 DEF Reads!Inv, Reads!TypeOK
<1> QED BY <1>2 DEF Reads!Inv, Reads!RequestedAsAsked, Reads!ReadsAsAsked, Reads!FeesAddUp

(* An answer arrives, and the call is done.                                   *)
LEMMA DoneTypes ==
    ASSUME Reads!Inv, UNCHANGED <<defaultBlock, blockChanges, fees, asked>>,
           reading'.at \in {"done", "tip"}, reading.at # "rest"
    PROVE  Reads!TypeOK' /\ asked.head \in 0..Reads!Head
<1>1. Reads!Head' = Reads!Head
  BY DEF Reads!Head
<1>2. asked.ref \in Reads!BlockNumberOrTag \cup Reads!HashRefs /\ asked.head \in 0..Reads!Head
  BY DEF Reads!Inv, Reads!TypeOK
<1>3. asked'.ref \in Reads!BlockNumberOrTag \cup Reads!HashRefs /\ asked'.head \in 0..Reads!Head'
  BY <1>1, <1>2
<1> QED BY <1>2, <1>3 DEF Reads!Inv, Reads!TypeOK

(* The answer to a question about a block, or the state at it, is of a block  *)
(* that was meant.                                                            *)
LEMMA AnsweredAsAsked == Reads!Inv /\ Reads!Answered => Reads!Inv'
<1> SUFFICES ASSUME Reads!Inv, Reads!Answered
             PROVE  Reads!Inv'
  OBVIOUS
<1> DEFINE block == Reads!Resolved(reading.request)
<1>1. /\ reading.at = "read" /\ UNCHANGED <<defaultBlock, blockChanges, fees, asked>>
      /\ reading' = IF block = -1 /\ reading.method \in Reads!StateReaders
                    THEN [at |-> "failed", method |-> reading.method]
                    ELSE [at |-> "done", method |-> reading.method, block |-> block]
  BY DEF Reads!Answered, Reads!Settles, Reads!None
<1> HIDE DEF block
<1>2. CASE block = -1 /\ reading.method \in Reads!StateReaders
  <2>1. reading'.at = "failed"
    BY <1>1, <1>2
  <2> QED BY <1>1, <2>1, EndsSound
<1>3. CASE ~(block = -1 /\ reading.method \in Reads!StateReaders)
  <2>1. reading'.at = "done" /\ reading'.method = reading.method /\ reading'.block = block
    BY <1>1, <1>3
  <2>2. Reads!TypeOK' /\ asked.head \in 0..Reads!Head
    BY <1>1, <2>1, DoneTypes
  <2>3. /\ reading.method \in Reads!StateReaders \cup Reads!BlockReaders
        /\ reading.request = Reads!BlockRequest(reading.method, asked.ref)
        /\ ~Reads!Invalid(reading.request, asked.ref)
        /\ reading.method \in Reads!StateReaders => asked.ref \in Reads!BlockNumberOrTag
    BY <1>1 DEF Reads!Inv, Reads!RequestedAsAsked
  <2>4. Reads!TypeOK /\ asked.ref \in Refs
    BY <1>1 DEF Reads!Inv, Reads!TypeOK, Refs
  <2>5. asked.ref.as # "long"
    <3> SUFFICES ASSUME asked.ref.as = "long" PROVE FALSE
      OBVIOUS
    <3>1. reading.method \notin Reads!StateReaders
      BY <2>3, <2>4, RefIs
    <3>2. reading.request = Reads!HashRequest(asked.ref)
      BY <2>3, <3>1 DEF Reads!BlockRequest, Reads!IsBytes
    <3>3. Reads!HashRequest(asked.ref).by = "hash"
      BY DEF Reads!HashRequest
    <3>4. reading.request.by = "hash"
      BY <3>2, <3>3
    <3> QED BY <2>3, <3>4 DEF Reads!Invalid, Reads!InvalidHash
  <2>6. \/ reading.method \in Reads!BlockReaders /\ asked.ref.as = "evenHex"
        \/ block \in Reads!Meant(asked.ref)
        \/ block = -1 /\ asked.ref.n \notin 0..asked.head
    <3>1. CASE reading.method \in Reads!StateReaders \/ asked.ref.as # "evenHex"
      BY <2>2, <2>3, <2>4, <2>5, <3>1, ResolvedIsMeant DEF block
    <3>2. CASE ~(reading.method \in Reads!StateReaders \/ asked.ref.as # "evenHex")
      BY <2>3, <3>2
    <3> QED BY <3>1, <3>2
  <2>7. Reads!Meant(asked.ref)' = Reads!Meant(asked.ref)
    BY <1>1, SameMeaning
  <2>8. reading.method \notin Reads!HashReaders /\ reading.method \notin {"getLogs", "calculateFeeData"}
    BY <2>3 DEF Reads!HashReaders, Reads!StateReaders, Reads!BlockReaders
  <2>9. Reads!ReadsAsAsked'
    BY <1>1, <2>1, <2>6, <2>7, <2>8 DEF Reads!ReadsAsAsked, Reads!None
  <2>10. Reads!RequestedAsAsked' /\ Reads!FeesAddUp'
    BY <2>1, <2>8 DEF Reads!RequestedAsAsked, Reads!FeesAddUp
  <2> QED BY <2>2, <2>9, <2>10 DEF Reads!Inv
<1> QED BY <1>2, <1>3

(* The answer to a question about a transaction is of the one with the hash.  *)
LEMMA TransactionAnsweredAsAsked == Reads!Inv /\ Reads!TransactionAnswered => Reads!Inv'
<1> SUFFICES ASSUME Reads!Inv, Reads!TransactionAnswered
             PROVE  Reads!Inv'
  OBVIOUS
<1>1. /\ reading.at = "hash" /\ UNCHANGED <<defaultBlock, blockChanges, fees, asked>>
      /\ reading' = [at |-> "done", method |-> reading.method, hash |-> reading.request.n]
  BY DEF Reads!TransactionAnswered, Reads!Settles
<1>2. reading'.at = "done" /\ reading'.method = reading.method /\ reading'.hash = reading.request.n
  BY <1>1
<1>3. Reads!TypeOK'
  BY <1>1, <1>2, DoneTypes
<1>4. /\ reading.method \in Reads!HashReaders /\ asked.ref \in Reads!HashRefs
      /\ asked.ref.as # "long" /\ reading.request = Reads!HashRequest(asked.ref)
  BY <1>1 DEF Reads!Inv, Reads!RequestedAsAsked
<1>5. asked.ref.as \in {"hash", "array"}
  BY <1>4, RefIs DEF Refs
<1>6. reading.request.n = asked.ref.n
  <2>1. Reads!HashRequest(asked.ref).n = asked.ref.n
    BY <1>5 DEF Reads!HashRequest
  <2> QED BY <1>4, <2>1
<1>7. /\ reading.method \notin Reads!BlockReaders \cup Reads!StateReaders
      /\ reading.method \notin {"getLogs", "calculateFeeData"}
  BY <1>4 DEF Reads!HashReaders, Reads!StateReaders, Reads!BlockReaders
<1>8. Reads!ReadsAsAsked'
  BY <1>1, <1>2, <1>6, <1>7 DEF Reads!ReadsAsAsked
<1>9. Reads!RequestedAsAsked' /\ Reads!FeesAddUp'
  BY <1>2, <1>7 DEF Reads!RequestedAsAsked, Reads!FeesAddUp
<1> QED BY <1>3, <1>8, <1>9 DEF Reads!Inv

(* A bound that the node can read, and that is a block, is one that was meant.*)
LEMMA BoundIsMeant ==
    ASSUME Reads!TypeOK, asked.head \in 0..Reads!Head, NEW bound \in Reads!BlockNumberOrTag,
           Reads!LogBound(bound).by # "text", Reads!Resolved(Reads!LogBound(bound)) # -1
    PROVE  Reads!Resolved(Reads!LogBound(bound)) \in Reads!Meant(bound)
<1>1. bound # Reads!Undefined
  <2>1. Reads!Undefined.as = "undefined"
    BY DEF Reads!Undefined, Reads!Ref
  <2> QED BY <2>1, RefIs DEF Refs
<1>2. Reads!OrLatest(bound) = bound
  BY <1>1 DEF Reads!OrLatest
<1>3. Reads!LogBound(bound) = Reads!BlockRequest("getBalance", bound)
  BY <1>2, BoundIs
<1>4. "getBalance" \in Reads!StateReaders /\ bound \in Refs /\ bound.as # "long"
  BY RefIs DEF Reads!StateReaders, Refs
<1> QED BY <1>3, <1>4, ResolvedIsMeant

(* The logs are of the blocks between two that the bounds meant.              *)
LEMMA LogsAnsweredAsAsked == Reads!Inv /\ Reads!LogsAnswered => Reads!Inv'
<1> SUFFICES ASSUME Reads!Inv, Reads!LogsAnswered
             PROVE  Reads!Inv'
  OBVIOUS
<1> DEFINE from    == Reads!Resolved(reading.from)
           to      == Reads!Resolved(reading.to)
           refuses == -1 \in {from, to} \/ "text" \in {reading.from.by, reading.to.by}
<1>1. /\ reading.at = "logs" /\ UNCHANGED <<defaultBlock, blockChanges, fees, asked>>
      /\ reading' = IF refuses THEN [at |-> "failed", method |-> "getLogs"]
                    ELSE [at |-> "done", method |-> "getLogs", blocks |-> from..to]
  BY DEF Reads!LogsAnswered, Reads!Settles, Reads!None
<1>2. ~refuses => /\ from # -1 /\ to # -1
                  /\ reading.from.by # "text" /\ reading.to.by # "text"
  OBVIOUS
<1> HIDE DEF from, to, refuses
<1>3. CASE refuses
  <2>1. reading'.at = "failed"
    BY <1>1, <1>3
  <2> QED BY <1>1, <2>1, EndsSound
<1>4. CASE ~refuses
  <2>1. reading'.at = "done" /\ reading'.method = "getLogs" /\ reading'.blocks = from..to
    BY <1>1, <1>4
  <2>2. Reads!TypeOK' /\ asked.head \in 0..Reads!Head
    BY <1>1, <2>1, DoneTypes
  <2>3. /\ asked.ref \in Reads!BlockNumberOrTag /\ asked.to \in Reads!BlockNumberOrTag
        /\ reading.from = Reads!LogBound(asked.ref) /\ reading.to = Reads!LogBound(asked.to)
        /\ Reads!TypeOK
    BY <1>1 DEF Reads!Inv, Reads!RequestedAsAsked
  <2>4. from \in Reads!Meant(asked.ref)
    BY <1>2, <1>4, <2>2, <2>3, BoundIsMeant DEF from
  <2>5. to \in Reads!Meant(asked.to)
    BY <1>2, <1>4, <2>2, <2>3, BoundIsMeant DEF to
  <2>6. Reads!Meant(asked.ref)' = Reads!Meant(asked.ref) /\ Reads!Meant(asked.to)' = Reads!Meant(asked.to)
    BY <1>1, SameMeaning
  <2>7. "getLogs" \notin Reads!BlockReaders \cup Reads!StateReaders \cup Reads!HashReaders
    BY DEF Reads!HashReaders, Reads!StateReaders, Reads!BlockReaders
  <2>8. Reads!ReadsAsAsked'
    BY <2>1, <2>4, <2>5, <2>6, <2>7 DEF Reads!ReadsAsAsked
  <2>9. Reads!RequestedAsAsked' /\ Reads!FeesAddUp'
    BY <2>1 DEF Reads!RequestedAsAsked, Reads!FeesAddUp
  <2> QED BY <2>2, <2>8, <2>9 DEF Reads!Inv
<1> QED BY <1>3, <1>4

(* The base fee that calculateFeeData() has read is of a block that was meant.*)
LEMMA FeesAnsweredAsAsked == Reads!Inv /\ Reads!FeesAnswered => Reads!Inv'
<1> SUFFICES ASSUME Reads!Inv, Reads!FeesAnswered
             PROVE  Reads!Inv'
  OBVIOUS
<1> DEFINE block == Reads!Resolved(reading.request)
           base  == IF block = -1 THEN -1 ELSE fees[block]
<1>1. /\ reading.at = "fees" /\ UNCHANGED <<defaultBlock, blockChanges, fees, asked>>
      /\ reading' = [at |-> "tip", method |-> reading.method, base |-> base]
  BY DEF Reads!FeesAnswered, Reads!Settles, Reads!None
<1> HIDE DEF base
<1>2. reading'.at = "tip" /\ reading'.method = reading.method /\ reading'.base = base
  BY <1>1
<1>3. Reads!TypeOK' /\ asked.head \in 0..Reads!Head
  BY <1>1, <1>2, DoneTypes
<1>4. /\ reading.method = "calculateFeeData" /\ asked.ref \in Reads!BlockNumberOrTag
      /\ reading.request = Reads!BlockRequest("calculateFeeData", asked.ref) /\ Reads!TypeOK
  BY <1>1 DEF Reads!Inv, Reads!RequestedAsAsked
<1>5. asked.ref \in Refs /\ asked.ref.as # "long"
  BY <1>4, RefIs DEF Refs
<1>6. block = -1 \/ block \in DOMAIN fees
  BY <1>4, ResolvedIsBlock
<1> HIDE DEF block
<1>7. base \in BaseFees \cup {-1}
  BY <1>4, <1>6, HeadIs DEF base
<1>8. Reads!BaseAsAsked(base)
  <2>1. CASE asked.ref.as = "evenHex"
    BY <2>1 DEF Reads!BaseAsAsked
  <2>2. CASE asked.ref.as # "evenHex"
    <3>1. "calculateFeeData" \notin Reads!StateReaders
      BY DEF Reads!StateReaders
    <3>2. \/ block \in Reads!Meant(asked.ref)
          \/ block = -1 /\ asked.ref.n \notin 0..asked.head
      BY <1>3, <1>4, <1>5, <2>2, <3>1, ResolvedIsMeant DEF block
    <3>3. CASE block \in Reads!Meant(asked.ref)
      <4>1. block \in DOMAIN fees
        BY <1>3, <1>4, <3>3, MeantIsBlock
      <4>2. block # -1
        BY <1>4, <4>1, HeadIs
      <4> QED BY <3>3, <4>2 DEF base, Reads!BaseAsAsked
    <3>4. CASE block = -1 /\ asked.ref.n \notin 0..asked.head
      BY <3>4 DEF base, Reads!BaseAsAsked, Reads!None
    <3> QED BY <3>2, <3>3, <3>4
  <2> QED BY <2>1, <2>2
<1>9. Reads!BaseAsAsked(reading.base)'
  <2>1. \A b : Reads!BaseAsAsked(b)' <=> Reads!BaseAsAsked(b)
    BY <1>1, SameMeaning
  <2>2. PICK b : b = base
    OBVIOUS
  <2>3. Reads!BaseAsAsked(b)
    BY <1>8, <2>2
  <2>4. Reads!BaseAsAsked(b)'
    BY <2>1, <2>3
  <2> QED BY <1>2, <2>2, <2>4
<1>10. Reads!RequestedAsAsked'
  BY <1>2, <1>4, <1>7, <1>9 DEF Reads!RequestedAsAsked, Reads!None
<1>11. Reads!ReadsAsAsked' /\ Reads!FeesAddUp'
  BY <1>2 DEF Reads!ReadsAsAsked, Reads!FeesAddUp
<1> QED BY <1>3, <1>10, <1>11 DEF Reads!Inv

(* What calculateFeeData() returns adds up.                                   *)
LEMMA FeeDataAddsUp ==
    ASSUME NEW base \in BaseFees \cup {-1}, NEW tip \in {-1} \cup BaseFees,
           NEW data, data = Reads!FeeData(base, tip, 2, 1)
    PROVE  /\ data.base = base
           /\ data.max = -1 <=> data.base \in {-1, 0}
           /\ data.max # -1 => data.tip # -1 /\ data.max >= data.base + data.tip
<1>1. BaseFees \subseteq Nat
  BY InstancesAssumption DEF Reads!ConstantsOK
<1>2. CASE base \in {-1, 0}
  <2>1. data = [base |-> base, tip |-> tip, max |-> -1]
    BY <1>2 DEF Reads!FeeData, Reads!None
  <2>2. data.base = base /\ data.max = -1
    BY <2>1
  <2> QED BY <1>2, <2>2
<1>3. CASE base \notin {-1, 0}
  <2>1. base \in Nat
    BY <1>1, <1>3
  <2> DEFINE paid == IF tip = -1 THEN 1 ELSE tip
  <2>2. paid \in Nat
    BY <1>1
  <2>3. data = [base |-> base, tip |-> paid, max |-> base * 2 + paid]
    BY <1>3 DEF Reads!FeeData, Reads!None
  <2> HIDE DEF paid
  <2>4. data.base = base /\ data.tip = paid /\ data.max = base * 2 + paid
    BY <2>3
  <2>5. data.max # -1 /\ data.tip # -1 /\ data.max >= data.base + data.tip
    BY <2>1, <2>2, <2>4
  <2> QED BY <1>3, <2>4, <2>5
<1> QED BY <1>2, <1>3

(* The priority fee arrives, and the fees that are returned belong together. *)
LEMMA TipAnsweredAddsUp ==
    ASSUME Reads!Inv, NEW tip \in {-1} \cup BaseFees, Reads!TipAnswered(tip)
    PROVE  Reads!Inv'
<1> DEFINE data == Reads!FeeData(reading.base, tip, 2, 1)
<1>1. /\ reading.at = "tip" /\ UNCHANGED <<defaultBlock, blockChanges, fees, asked>>
      /\ reading' = [at |-> "done", method |-> reading.method, data |-> data]
  BY DEF Reads!TipAnswered, Reads!Settles
<1> HIDE DEF data
<1>2. reading'.at = "done" /\ reading'.method = reading.method /\ reading'.data = data
  BY <1>1
<1>3. Reads!TypeOK'
  BY <1>1, <1>2, DoneTypes
<1>4. /\ reading.method = "calculateFeeData"
      /\ reading.base \in BaseFees \cup {-1} /\ Reads!BaseAsAsked(reading.base)
  BY <1>1 DEF Reads!Inv, Reads!RequestedAsAsked, Reads!None
<1>5. /\ data.base = reading.base
      /\ data.max = -1 <=> data.base \in {-1, 0}
      /\ data.max # -1 => data.tip # -1 /\ data.max >= data.base + data.tip
  BY <1>4, FeeDataAddsUp DEF data
<1>6. PICK b : b = reading.base
  OBVIOUS
<1>7. Reads!BaseAsAsked(b)'
  BY <1>1, <1>4, <1>6, SameMeaning
<1>8. Reads!BaseAsAsked(reading.data.base)'
  BY <1>2, <1>5, <1>6, <1>7
<1>9. Reads!FeesAddUp'
  BY <1>2, <1>5, <1>8 DEF Reads!FeesAddUp, Reads!None
<1>10. "calculateFeeData" \notin Reads!BlockReaders \cup Reads!StateReaders \cup Reads!HashReaders
  BY DEF Reads!HashReaders, Reads!StateReaders, Reads!BlockReaders
<1>11. Reads!ReadsAsAsked' /\ Reads!RequestedAsAsked'
  BY <1>2, <1>4, <1>10 DEF Reads!ReadsAsAsked, Reads!RequestedAsAsked
<1> QED BY <1>3, <1>9, <1>11 DEF Reads!Inv

-----------------------------------------------------------------------------
(* A block is mined: the ones before it stay, and a tag may mean it as well.  *)
LEMMA Mined ==
    ASSUME Reads!Inv, NEW fee \in BaseFees \cup {-1}, Reads!Mine(fee)
    PROVE  /\ Reads!TypeOK' /\ Reads!Head' = Reads!Head + 1
           /\ \A n \in DOMAIN fees : n \in DOMAIN fees' /\ fees'[n] = fees[n]
<1>1. PICK h \in 0..MaxHead : h = Reads!Head
  BY HeadIs DEF Reads!Inv
<1>2. h \in Nat /\ MaxHead \in Nat /\ fees \in [0..h -> BaseFees \cup {-1}]
  BY <1>1, HeadIs, InstancesAssumption DEF Reads!Inv, Reads!ConstantsOK
<1>3. /\ h < MaxHead /\ UNCHANGED <<defaultBlock, blockChanges, reading, asked>>
      /\ fees' = [n \in 0..h + 1 |-> IF n = h + 1 THEN fee ELSE fees[n]]
  BY <1>1 DEF Reads!Mine
<1>4. h + 1 \in 0..MaxHead /\ h + 1 \in Nat
  BY <1>2, <1>3
<1>5. \A n \in 0..h + 1 : n = h + 1 \/ n \in 0..h
  BY <1>2
<1>6. fees' \in [0..h + 1 -> BaseFees \cup {-1}]
  BY <1>2, <1>3, <1>5
<1>7. DOMAIN fees' = 0..h + 1
  BY <1>3
<1>8. Reads!Head' = h + 1
  BY <1>4, <1>7, LastOfChain DEF Reads!Head
<1>9. \A n \in 0..h : n \in 0..h + 1 /\ n # h + 1
  BY <1>2
<1>10. \A n \in DOMAIN fees : n \in DOMAIN fees' /\ fees'[n] = fees[n]
  BY <1>2, <1>3, <1>7, <1>9
<1>11. reading.at # "rest" => asked.head \in 0..Reads!Head'
  <2>1. reading.at # "rest" => asked.head \in 0..h
    BY <1>1 DEF Reads!Inv, Reads!TypeOK
  <2> QED BY <1>8, <1>9, <2>1
<1>12. Reads!TypeOK'
  <2>1. \E head \in 0..MaxHead : fees' \in [0..head -> BaseFees \cup {-1}]
    BY <1>4, <1>6
  <2>2. reading.at # "rest" => asked'.head \in 0..Reads!Head'
    BY <1>3, <1>11
  <2> QED BY <1>3, <2>1, <2>2 DEF Reads!Inv, Reads!TypeOK, Reads!None
<1> QED BY <1>1, <1>8, <1>10, <1>12

(* A block mined meanwhile takes nothing away from what was meant.           *)
LEMMA MineKeepsAnswers ==
    ASSUME Reads!Inv, NEW fee \in BaseFees \cup {-1}, Reads!Mine(fee)
    PROVE  Reads!Inv'
<1>1. UNCHANGED <<defaultBlock, blockChanges, reading, asked>>
  BY DEF Reads!Mine
<1>2. CASE reading.at = "rest"
  <2>1. reading'.at = "rest"
    BY <1>1, <1>2
  <2> QED BY <2>1, Mined
          DEF Reads!Inv, Reads!RequestedAsAsked, Reads!ReadsAsAsked, Reads!FeesAddUp
<1>3. CASE reading.at # "rest"
  <2>1. Reads!TypeOK /\ asked.head \in 0..Reads!Head /\ Reads!Head \in Nat /\ asked.head \in Nat
    BY <1>3, HeadIs, InstancesAssumption DEF Reads!Inv, Reads!TypeOK, Reads!ConstantsOK
  <2> HIDE DEF Reads!Head
  <2>2. \A head \in asked.head..Reads!Head : head \in asked.head..Reads!Head + 1
    BY <2>1
  <2>3. Reads!Head' = Reads!Head + 1
    BY Mined
  <2>4. \A n \in DOMAIN fees : n \in DOMAIN fees' /\ fees'[n] = fees[n]
    BY Mined
  <2>5. ASSUME NEW ref
        PROVE  Reads!Meant(ref) \subseteq Reads!Meant(ref)'
    <3>1. CASE ref.as = "tag"
      <4>1. Reads!Meant(ref) = {Reads!TagNumber(ref.tag, head) : head \in asked.head..Reads!Head}
        BY <3>1 DEF Reads!Meant
      <4>2. Reads!Meant(ref)' = {Reads!TagNumber(ref.tag, head) : head \in asked.head..Reads!Head + 1}
        BY <1>1, <2>3, <3>1 DEF Reads!Meant
      <4> QED BY <2>2, <4>1, <4>2
    <3>2. CASE ref.as # "tag"
      BY <2>4, <3>2 DEF Reads!Meant
    <3> QED BY <3>1, <3>2
  <2>6. ASSUME NEW b, Reads!BaseAsAsked(b)
        PROVE  Reads!BaseAsAsked(b)'
    <3>1. CASE b \in {fees[n] : n \in Reads!Meant(asked.ref)}
      <4>1. PICK n \in Reads!Meant(asked.ref) : b = fees[n]
        BY <3>1
      <4>2. n \in DOMAIN fees
        BY <2>1, MeantIsBlock
      <4>3. n \in Reads!Meant(asked.ref)' /\ b = fees'[n]
        BY <1>1, <2>4, <2>5, <4>1, <4>2
      <4> QED BY <4>3 DEF Reads!BaseAsAsked
    <3>2. CASE b \notin {fees[n] : n \in Reads!Meant(asked.ref)}
      BY <1>1, <2>6, <3>2 DEF Reads!BaseAsAsked
    <3> QED BY <3>1, <3>2
  <2>7. Reads!RequestedAsAsked'
    <3>1. PICK b : b = reading.base
      OBVIOUS
    <3>2. reading.at = "tip" => Reads!BaseAsAsked(reading.base)'
      BY <1>1, <2>6, <3>1 DEF Reads!Inv, Reads!RequestedAsAsked
    <3> QED BY <1>1, <3>2 DEF Reads!Inv, Reads!RequestedAsAsked
  <2>8. Reads!ReadsAsAsked'
    <3>1. Reads!Meant(asked.ref) \subseteq Reads!Meant(asked.ref)'
      BY <1>1, <2>5
    <3>2. Reads!Meant(asked.to) \subseteq Reads!Meant(asked.to)'
      BY <1>1, <2>5
    <3> QED BY <1>1, <3>1, <3>2 DEF Reads!Inv, Reads!ReadsAsAsked
  <2>9. Reads!FeesAddUp'
    <3>1. PICK b : b = reading.data.base
      OBVIOUS
    <3>2. reading.at = "done" /\ reading.method = "calculateFeeData" =>
             Reads!BaseAsAsked(reading.data.base)'
      BY <1>1, <2>6, <3>1 DEF Reads!Inv, Reads!FeesAddUp
    <3> QED BY <1>1, <3>2 DEF Reads!Inv, Reads!FeesAddUp
  <2> QED BY <2>7, <2>8, <2>9, Mined DEF Reads!Inv
<1> QED BY <1>2, <1>3

(* What is chosen as the default changes nothing for a call that has begun.   *)
LEMMA DefaultKeepsAnswers ==
    ASSUME Reads!Inv, UNCHANGED <<fees, reading, asked>>,
           defaultBlock' \in Reads!BlockNumberOrTag, blockChanges' \in 0..BlockChanges
    PROVE  Reads!Inv'
<1>1. Reads!Head' = Reads!Head
  BY DEF Reads!Head
<1>2. Reads!TypeOK'
  BY <1>1 DEF Reads!Inv, Reads!TypeOK
<1>3. Reads!RequestedAsAsked' <=> Reads!RequestedAsAsked
  BY DEF Reads!RequestedAsAsked, Reads!BaseAsAsked, Reads!Meant, Reads!Head
<1>4. Reads!ReadsAsAsked' <=> Reads!ReadsAsAsked
  BY DEF Reads!ReadsAsAsked, Reads!Meant, Reads!Head
<1>5. Reads!FeesAddUp' <=> Reads!FeesAddUp
  BY DEF Reads!FeesAddUp, Reads!BaseAsAsked, Reads!Meant, Reads!Head
<1> QED BY <1>2, <1>3, <1>4, <1>5 DEF Reads!Inv

(* The readers begin with no call under way.                                 *)
LEMMA ReadsBegin == Reads!Init => Reads!Inv
<1> SUFFICES ASSUME Reads!Init
             PROVE  Reads!Inv
  OBVIOUS
<1>1. reading.at = "rest"
  BY DEF Reads!Init, Reads!Resting
<1>2. 0 \in 0..MaxHead /\ 0..0 = {0} /\ 0 \in 0..BlockChanges
  BY InstancesAssumption DEF Reads!ConstantsOK
<1>3. fees \in [0..0 -> BaseFees \cup {-1}]
  BY <1>2 DEF Reads!Init, Reads!None
<1>4. defaultBlock \in Reads!BlockNumberOrTag
  BY DEF Reads!Init, Reads!BlockNumberOrTag, Reads!TagRefs, Reads!Tags
<1>5. Reads!TypeOK
  <2>1. \E head \in 0..MaxHead : fees \in [0..head -> BaseFees \cup {Reads!None}]
    BY <1>2, <1>3 DEF Reads!None
  <2>2. blockChanges \in 0..BlockChanges
    BY <1>2 DEF Reads!Init
  <2> QED BY <1>1, <1>4, <2>1, <2>2 DEF Reads!TypeOK
<1> QED BY <1>1, <1>5 DEF Reads!Inv, Reads!RequestedAsAsked, Reads!ReadsAsAsked, Reads!FeesAddUp

(* Every step of the readers keeps their invariant.                          *)
LEMMA ReadsPreserve == Reads!Inv /\ [Reads!Next]_(Reads!vars) => Reads!Inv'
<1> SUFFICES ASSUME Reads!Inv, [Reads!Next]_(Reads!vars)
             PROVE  Reads!Inv'
  OBVIOUS
<1>1. Reads!TypeOK
  BY DEF Reads!Inv
<1>2. CASE UNCHANGED Reads!vars
  <2>1. UNCHANGED <<defaultBlock, blockChanges, fees, reading, asked>>
    BY <1>2 DEF Reads!vars
  <2> QED BY <1>1, <2>1, DefaultKeepsAnswers DEF Reads!TypeOK
<1>3. ASSUME NEW fee \in BaseFees \cup {Reads!None}, Reads!Mine(fee)
      PROVE  Reads!Inv'
  BY <1>3, MineKeepsAnswers DEF Reads!None
<1>4. ASSUME NEW ref \in Reads!BlockNumberOrTag, Reads!SetDefaultBlock(ref)
      PROVE  Reads!Inv'
  <2>1. /\ blockChanges < BlockChanges /\ defaultBlock' = ref /\ blockChanges' = blockChanges + 1
        /\ UNCHANGED <<fees, reading, asked>>
    BY <1>4 DEF Reads!SetDefaultBlock
  <2>2. blockChanges \in 0..BlockChanges /\ BlockChanges \in Nat
    BY <1>1, InstancesAssumption DEF Reads!TypeOK, Reads!ConstantsOK
  <2>3. blockChanges + 1 \in 0..BlockChanges
    BY <2>1, <2>2
  <2> QED BY <2>1, <2>3, DefaultKeepsAnswers
<1>5. ASSUME NEW m \in Reads!StateReaders, NEW ref \in Reads!BlockNumberOrTag \cup {Reads!Undefined},
             Reads!ReadState(m, ref)
      PROVE  Reads!Inv'
  BY <1>5, AskingAsAsked DEF Reads!ReadState, Refs
<1>6. ASSUME NEW m \in Reads!BlockReaders,
             NEW ref \in Reads!BlockNumberOrTag \cup Reads!HashRefs \cup {Reads!Undefined},
             Reads!ReadBlock(m, ref)
      PROVE  Reads!Inv'
  BY <1>6, AskingAsAsked DEF Reads!ReadBlock, Refs
<1>7. ASSUME NEW m \in Reads!HashReaders, NEW ref \in Reads!HashRefs, Reads!ReadTransaction(m, ref)
      PROVE  Reads!Inv'
  BY <1>7, TransactionAsAsked
<1>8. ASSUME NEW from \in Reads!BlockNumberOrTag \cup {Reads!Undefined},
             NEW to \in Reads!BlockNumberOrTag \cup {Reads!Undefined}, Reads!GetLogs(from, to)
      PROVE  Reads!Inv'
  BY <1>8, LogsAsAsked
<1>9. Reads!CalculateFeeData => Reads!Inv'
  BY AskingAsAsked DEF Reads!CalculateFeeData
<1>10. Reads!Fails => Reads!Inv'
  <2>1. Reads!Fails => /\ UNCHANGED <<defaultBlock, blockChanges, fees, asked>>
                       /\ reading'.at = "failed" /\ reading.at # "rest"
    BY DEF Reads!Fails, Reads!Settles
  <2> QED BY <2>1, EndsSound
<1>11. ASSUME NEW tip \in {Reads!None} \cup BaseFees, Reads!TipAnswered(tip)
       PROVE  Reads!Inv'
  BY <1>11, TipAnsweredAddsUp DEF Reads!None
<1> QED BY <1>2, <1>3, <1>4, <1>5, <1>6, <1>7, <1>8, <1>9, <1>10, <1>11, AnsweredAsAsked,
           TransactionAnsweredAsAsked, LogsAnsweredAsAsked, FeesAnsweredAsAsked DEF Reads!Next

(* The readers, by themselves: an answer is of a block that was meant while   *)
(* it was asked for, and the fees of calculateFeeData() belong together.      *)
THEOREM ReadsInvariant == Reads!Spec => []Reads!Inv
BY ReadsBegin, ReadsPreserve, PTL DEF Reads!Spec

(* So it is for the composition, name service and readers.                    *)
THEOREM AnswersAreCurrentHolds == MCSpec => []AnswersAreCurrent
<1>1. MCInit => NameService!Init /\ Reads!Init
  BY DEF MCInit
<1>2. [MCNext]_mcVars => [NameService!Next]_(NameService!vars) /\ [Reads!Next]_(Reads!vars)
  <2>1. UNCHANGED <<nameVars, networkVars>> => UNCHANGED NameService!vars
    BY DEF nameVars, networkVars, NameService!vars, NameService!nameVars, NameService!networkVars
  <2>2. UNCHANGED readVars => UNCHANGED Reads!vars
    BY DEF readVars, Reads!vars
  <2>3. UNCHANGED mcVars => UNCHANGED <<nameVars, networkVars>> /\ UNCHANGED readVars
    BY DEF mcVars
  <2>4. MCNext => [NameService!Next]_(NameService!vars) /\ [Reads!Next]_(Reads!vars)
    BY <2>1, <2>2 DEF MCNext, NameService!Next
  <2> QED BY <2>1, <2>2, <2>3, <2>4
<1>3. NameService!Inv /\ Reads!Inv <=> AnswersAreCurrent
  BY DEF AnswersAreCurrent
<1> QED BY <1>1, <1>2, <1>3, NameServiceBegins, NameServicePreserves, ReadsBegin, ReadsPreserve,
           PTL DEF MCSpec

=============================================================================
