----------------------------- MODULE WalletProofs -----------------------------
(* Proof that the wallet's address map stays in step with its array, for any  *)
(* number of accounts, addresses and concurrent saves and loads, as long as   *)
(* the array is not spliced behind the wallet's back.                         *)
EXTENDS Wallet, TLAPS

(* Rebuilding the map over an array that holds no address twice gives every   *)
(* account its own index and nothing else an index.                           *)
LEMMA RebuildLemma ==
    ASSUME NEW s \in Seq(Elements),
           \A n, m \in 1..Len(s) :
              s[n] # Hole /\ s[m] # Hole /\ KeyOf[s[n]] = KeyOf[s[m]] => n = m
    PROVE  /\ RebuildAddressMap(s) \in [Keys -> Nat]
           /\ \A k \in Keys : RebuildAddressMap(s)[k] <= Len(s)
           /\ \A k \in Keys : RebuildAddressMap(s)[k] \in 1..Len(s) =>
                 s[RebuildAddressMap(s)[k]] # Hole /\ KeyOf[s[RebuildAddressMap(s)[k]]] = k
           /\ \A n \in 1..Len(s) : s[n] # Hole => RebuildAddressMap(s)[KeyOf[s[n]]] = n
<1> DEFINE Held(n, k) == s[n] # Hole /\ KeyOf[s[n]] = k
           Last(k) == CHOOSE n \in 1..Len(s) :
                         Held(n, k) /\ \A m \in 1..Len(s) : Held(m, k) => m <= n
<1>1. DOMAIN s = 1..Len(s) /\ Len(s) \in Nat
  OBVIOUS
<1>2. ASSUME NEW k \in Keys, NEW n \in 1..Len(s), Held(n, k)
      PROVE  Last(k) = n
  <2>1. \A m \in 1..Len(s) : Held(m, k) => m = n
    BY <1>2
  <2>2. Held(n, k) /\ \A m \in 1..Len(s) : Held(m, k) => m <= n
    BY <2>1, <1>1, <1>2
  <2>3. Last(k) \in 1..Len(s) /\ Held(Last(k), k)
    <3> HIDE DEF Held
    <3> QED BY <2>2
  <2> QED BY <2>1, <2>3
<1>3. \A k \in Keys : RebuildAddressMap(s)[k] =
         IF \E n \in 1..Len(s) : Held(n, k) THEN Last(k) ELSE 0
  BY <1>1 DEF RebuildAddressMap
<1>4. ASSUME NEW k \in Keys
      PROVE  /\ RebuildAddressMap(s)[k] \in Nat
             /\ RebuildAddressMap(s)[k] <= Len(s)
             /\ RebuildAddressMap(s)[k] \in 1..Len(s) => Held(RebuildAddressMap(s)[k], k)
  <2>1. CASE \E n \in 1..Len(s) : Held(n, k)
    <3>1. PICK n \in 1..Len(s) : Held(n, k)
      BY <2>1
    <3>2. RebuildAddressMap(s)[k] = n
      <4>1. RebuildAddressMap(s)[k] = Last(k)
        BY <1>3, <2>1
      <4> QED BY <4>1, <1>2, <3>1
    <3> QED BY <3>1, <3>2, <1>1
  <2>2. CASE ~ \E n \in 1..Len(s) : Held(n, k)
    <3>1. RebuildAddressMap(s)[k] = 0
      BY <1>3, <2>2
    <3> QED BY <3>1, <1>1
  <2> QED BY <2>1, <2>2
<1>5. ASSUME NEW n \in 1..Len(s), s[n] # Hole
      PROVE  RebuildAddressMap(s)[KeyOf[s[n]]] = n
  <2>1. KeyOf[s[n]] \in Keys /\ Held(n, KeyOf[s[n]])
    BY <1>5, <1>1, ConstantsAssumption DEF Elements
  <2>2. RebuildAddressMap(s)[KeyOf[s[n]]] = Last(KeyOf[s[n]])
    BY <1>3, <2>1
  <2> QED BY <2>1, <2>2, <1>2
<1>6. RebuildAddressMap(s) \in [Keys -> Nat]
  <2>1. RebuildAddressMap(s) = [k \in Keys |-> RebuildAddressMap(s)[k]]
    BY DEF RebuildAddressMap
  <2> QED BY <2>1, <1>4
<1> QED BY <1>4, <1>5, <1>6

(* An array without duplicate addresses has none after an element is removed. *)
LEMMA SplicedLemma ==
    ASSUME NEW s \in Seq(Elements), NEW i \in 1..Len(s),
           \A n, m \in 1..Len(s) :
              s[n] # Hole /\ s[m] # Hole /\ KeyOf[s[n]] = KeyOf[s[m]] => n = m
    PROVE  /\ Spliced(s, i) \in Seq(Elements)
           /\ \A n, m \in 1..Len(Spliced(s, i)) :
                 Spliced(s, i)[n] # Hole /\ Spliced(s, i)[m] # Hole
                 /\ KeyOf[Spliced(s, i)[n]] = KeyOf[Spliced(s, i)[m]] => n = m
<1> DEFINE t == Spliced(s, i)
<1>1. Len(s) \in Nat /\ Len(s) - 1 \in Nat
  OBVIOUS
<1>2. t \in [1..(Len(s) - 1) -> Elements]
  BY <1>1 DEF Spliced
<1>3. t \in Seq(Elements) /\ Len(t) = Len(s) - 1
  <2> HIDE DEF t
  <2> QED BY <1>1, <1>2
<1>4. ASSUME NEW n \in 1..Len(t)
      PROVE  t[n] = IF n < i THEN s[n] ELSE s[n + 1]
  BY <1>3, <1>1 DEF Spliced
<1>5. ASSUME NEW n \in 1..Len(t), NEW m \in 1..Len(t),
             t[n] # Hole, t[m] # Hole, KeyOf[t[n]] = KeyOf[t[m]]
      PROVE  n = m
  <2> HIDE DEF t
  <2>1. n \in 1..Len(s) /\ n + 1 \in 1..Len(s) /\ m \in 1..Len(s) /\ m + 1 \in 1..Len(s)
    BY <1>3, <1>1
  <2> DEFINE old(l) == IF l < i THEN l ELSE l + 1
  <2>2. old(n) \in 1..Len(s) /\ old(m) \in 1..Len(s)
    BY <2>1
  <2>3. t[n] = s[old(n)] /\ t[m] = s[old(m)]
    BY <1>4
  <2>4. old(n) = old(m)
    <3> HIDE DEF old
    <3> QED BY <1>5, <2>2, <2>3
  <2> QED BY <2>4, <2>1
<1> QED BY <1>3, <1>5

(* In a consistent wallet no two elements have the same address.              *)
LEMMA NoDuplicates ==
    ASSUME TypeOK, EveryAccountFound
    PROVE  \A n, m \in 1..Len(accounts) :
              accounts[n] # Hole /\ accounts[m] # Hole
              /\ KeyOf[accounts[n]] = KeyOf[accounts[m]] => n = m
BY DEF EveryAccountFound

(* A wallet whose array is any duplicate-free array and whose map is rebuilt  *)
(* from it satisfies the invariant.                                           *)
LEMMA RebuiltIsConsistent ==
    ASSUME NEW s \in Seq(Elements),
           \A n, m \in 1..Len(s) :
              s[n] # Hole /\ s[m] # Hole /\ KeyOf[s[n]] = KeyOf[s[m]] => n = m,
           accounts' = s, addressMap' = RebuildAddressMap(s)
    PROVE  /\ accounts' \in Seq(Elements) /\ addressMap' \in [Keys -> Nat]
           /\ LookupFindsOwn' /\ EveryAccountFound' /\ MapWithinArray'
<1> DEFINE r == RebuildAddressMap(s)
<1>1. /\ r \in [Keys -> Nat]
      /\ \A k \in Keys : r[k] <= Len(s)
      /\ \A k \in Keys : r[k] \in 1..Len(s) => s[r[k]] # Hole /\ KeyOf[s[r[k]]] = k
      /\ \A n \in 1..Len(s) : s[n] # Hole => r[KeyOf[s[n]]] = n
  BY RebuildLemma
<1> HIDE DEF r
<1>2. addressMap' = r
  BY DEF r
<1> QED BY <1>1, <1>2 DEF LookupFindsOwn, EveryAccountFound, MapWithinArray, GetByKey

(* add(account) keeps the map and the array in step.                          *)
LEMMA AddPreserves ==
    ASSUME Inv, NEW a \in Accounts, AddAccount(a)
    PROVE  /\ accounts' \in Seq(Elements) /\ addressMap' \in [Keys -> Nat]
           /\ LookupFindsOwn' /\ EveryAccountFound' /\ MapWithinArray'
<1> DEFINE i == IndexFor(a)
           k == KeyOf[a]
           top == IF i > Len(accounts) THEN i ELSE Len(accounts)
<1>1. k \in Keys /\ a # Hole /\ a \in Elements
  BY ConstantsAssumption DEF Elements
<1>2. accounts \in Seq(Elements) /\ addressMap \in [Keys -> Nat] /\ Len(accounts) \in Nat
  BY DEF Inv, TypeOK
<1>3. \/ i \in 1..Len(accounts) /\ addressMap[k] = i /\ accounts[i] # Hole /\ KeyOf[accounts[i]] = k
      \/ i = Len(accounts) + 1 /\ \A n \in 1..Len(accounts) : accounts[n] # Hole => KeyOf[accounts[n]] # k
  BY <1>1, <1>2 DEF Inv, LookupFindsOwn, EveryAccountFound, IndexFor, GetByKey
<1>4. i \in 1..top /\ top \in Nat /\ Len(accounts) <= top /\ i \in Nat
  BY <1>2, <1>3
<1>5. /\ accounts' = [n \in 1..top |-> IF n = i THEN a ELSE accounts[n]]
      /\ addressMap' = [addressMap EXCEPT ![k] = i]
  BY DEF AddAccount
<1> HIDE DEF i, k
<1>6. ASSUME NEW n \in 1..top, n # i
      PROVE  n \in 1..Len(accounts)
  BY <1>6, <1>3, <1>2
<1>7. accounts' \in Seq(Elements) /\ Len(accounts') = top
  <2>1. accounts' \in [1..top -> Elements]
    BY <1>1, <1>2, <1>5, <1>6
  <2> QED BY <2>1, <1>4, <1>5
<1>8. addressMap' \in [Keys -> Nat]
  BY <1>2, <1>4, <1>5
<1>9. MapWithinArray'
  <2> SUFFICES ASSUME NEW q \in Keys PROVE addressMap'[q] <= Len(accounts')
    BY DEF MapWithinArray
  <2>1. addressMap[q] <= Len(accounts) /\ addressMap[q] \in Nat
    BY <1>2 DEF Inv, MapWithinArray
  <2> QED BY <2>1, <1>2, <1>4, <1>5, <1>7
<1>10. LookupFindsOwn'
  <2> SUFFICES ASSUME NEW q \in Keys, GetByKey(q)' # Hole PROVE KeyOf[GetByKey(q)'] = q
    BY DEF LookupFindsOwn
  <2>1. addressMap'[q] \in 1..top /\ GetByKey(q)' = accounts'[addressMap'[q]]
    BY <1>7 DEF GetByKey
  <2>2. CASE q = k
    BY <2>1, <2>2, <1>2, <1>1, <1>4, <1>5 DEF k
  <2>3. CASE q # k
    <3>1. addressMap'[q] = addressMap[q] /\ addressMap[q] <= Len(accounts) /\ addressMap[q] \in Nat
      BY <2>3, <1>2, <1>5 DEF Inv, MapWithinArray
    <3>2. addressMap[q] \in 1..Len(accounts)
      BY <2>1, <3>1, <1>2, <1>4
    <3>3. addressMap[q] # i
      <4> SUFFICES ASSUME addressMap[q] = i PROVE FALSE
        OBVIOUS
      <4>1. i \in 1..Len(accounts) /\ accounts[i] # Hole /\ KeyOf[accounts[i]] = k
        BY <3>2, <1>3, <1>2
      <4>2. GetByKey(q) = accounts[i]
        BY <3>2 DEF GetByKey
      <4> QED BY <4>1, <4>2, <2>3 DEF Inv, LookupFindsOwn
    <3>4. GetByKey(q)' = accounts[addressMap[q]] /\ GetByKey(q) = accounts[addressMap[q]]
      BY <2>1, <3>1, <3>2, <3>3, <1>5, <1>4 DEF GetByKey
    <3> QED BY <3>4 DEF Inv, LookupFindsOwn
  <2> QED BY <2>2, <2>3
<1>11. EveryAccountFound'
  <2> SUFFICES ASSUME NEW n \in 1..top, accounts'[n] # Hole
               PROVE  addressMap'[KeyOf[accounts'[n]]] = n
    BY <1>7 DEF EveryAccountFound
  <2>1. CASE n = i
    BY <2>1, <1>1, <1>2, <1>5 DEF k
  <2>2. CASE n # i
    <3>1. n \in 1..Len(accounts) /\ accounts'[n] = accounts[n] /\ accounts[n] \in Accounts
      BY <2>2, <1>2, <1>5, <1>6 DEF Elements
    <3>2. addressMap[KeyOf[accounts[n]]] = n /\ KeyOf[accounts[n]] \in Keys
      BY <3>1, ConstantsAssumption DEF Inv, EveryAccountFound
    <3>3. KeyOf[accounts[n]] # k
      BY <3>1, <3>2, <1>3, <2>2
    <3> QED BY <3>1, <3>2, <3>3, <1>2, <1>5
  <2> QED BY <2>1, <2>2
<1> QED BY <1>7, <1>8, <1>9, <1>10, <1>11

-----------------------------------------------------------------------------
(* The empty wallet.                                                         *)
LEMMA InitEstablishes == Init => Inv
BY ConstantsAssumption
   DEF Init, Inv, TypeOK, LookupFindsOwn, EveryAccountFound, MapWithinArray, GetByKey, Elements,
       Snapshot

(* Steps that leave the array and the map alone keep their relation.          *)
LEMMA UntouchedPreserves ==
    ASSUME Inv, UNCHANGED <<accounts, addressMap>>
    PROVE  /\ accounts' \in Seq(Elements) /\ addressMap' \in [Keys -> Nat]
           /\ LookupFindsOwn' /\ EveryAccountFound' /\ MapWithinArray'
BY DEF Inv, TypeOK, LookupFindsOwn, EveryAccountFound, MapWithinArray, GetByKey

(* Every step of the wallet preserves the invariant.                         *)
LEMMA NextPreserves ==
    ASSUME Inv, [Next]_vars
    PROVE  Inv'
<1> USE DEF Free
<1> DEFINE Rest == /\ adding' \in Seq(Accounts)
                   /\ jobs' \in [Jobs -> Job \cup {None}]
                   /\ storage' \in Snapshot \cup {None}
           Core == /\ accounts' \in Seq(Elements) /\ addressMap' \in [Keys -> Nat]
                   /\ LookupFindsOwn' /\ EveryAccountFound' /\ MapWithinArray'
<1>0. /\ TypeOK /\ EveryAccountFound
      /\ accounts \in Seq(Elements) /\ adding \in Seq(Accounts)
      /\ jobs \in [Jobs -> Job \cup {None}] /\ storage \in Snapshot \cup {None}
  BY DEF Inv, TypeOK
<1>a. \A n, m \in 1..Len(accounts) :
         accounts[n] # Hole /\ accounts[m] # Hole
         /\ KeyOf[accounts[n]] = KeyOf[accounts[m]] => n = m
  BY <1>0, NoDuplicates
<1>b. ASSUME UNCHANGED <<adding, jobs, storage>> PROVE Rest
  BY <1>0, <1>b
<1> SUFFICES Core /\ Rest
  BY DEF Inv, TypeOK
<1>1. CASE UNCHANGED vars
  BY <1>1, <1>b, UntouchedPreserves DEF vars
<1>2. ASSUME NEW a \in Accounts, Add(a) PROVE Core /\ Rest
  BY <1>2, <1>b, AddPreserves DEF Add
<1>3. CASE Create
  <2>1. Core
    BY <1>3, UntouchedPreserves DEF Create
  <2>2. adding' \in Seq(Accounts)
    BY <1>3 DEF Create
  <2> QED BY <2>1, <2>2, <1>3, <1>0 DEF Create
<1>4. CASE AddNext
  <2>1. Head(adding) \in Accounts /\ adding' \in Seq(Accounts)
    BY <1>4, <1>0 DEF AddNext
  <2>2. Core
    BY <1>4, <2>1, AddPreserves DEF AddNext
  <2> QED BY <2>1, <2>2, <1>4, <1>0 DEF AddNext
<1>5. CASE Clear
  <2>1. accounts' = << >> /\ addressMap' = [k \in Keys |-> 0]
    BY <1>5 DEF Clear
  <2>2. Core
    BY <2>1 DEF LookupFindsOwn, EveryAccountFound, MapWithinArray, GetByKey
  <2> QED BY <2>2, <1>5, <1>b DEF Clear
<1>6. ASSUME NEW i \in 1..MaxLength, RemoveByIndex(i) PROVE Core /\ Rest
  <2> DEFINE s == Spliced(accounts, i)
  <2>1. i \in 1..Len(accounts)
    BY <1>6 DEF RemoveByIndex
  <2>2. /\ s \in Seq(Elements)
        /\ \A n, m \in 1..Len(s) :
              s[n] # Hole /\ s[m] # Hole /\ KeyOf[s[n]] = KeyOf[s[m]] => n = m
    BY <1>0, <1>a, <2>1, SplicedLemma
  <2>3. accounts' = s /\ addressMap' = RebuildAddressMap(s)
    BY <1>6 DEF RemoveByIndex
  <2> HIDE DEF s
  <2>4. Core
    BY <2>2, <2>3, RebuiltIsConsistent
  <2> QED BY <2>4, <1>6, <1>b DEF RemoveByIndex
<1>7. ASSUME NEW k \in Keys, RemoveByAddress(k) PROVE Core /\ Rest
  <2> DEFINE s == IF addressMap[k] \in 1..Len(accounts)
                  THEN Spliced(accounts, addressMap[k]) ELSE accounts
  <2>1. /\ s \in Seq(Elements)
        /\ \A n, m \in 1..Len(s) :
              s[n] # Hole /\ s[m] # Hole /\ KeyOf[s[n]] = KeyOf[s[m]] => n = m
    <3>1. CASE addressMap[k] \in 1..Len(accounts)
      <4>1. s = Spliced(accounts, addressMap[k])
        BY <3>1
      <4> QED BY <1>0, <1>a, <3>1, <4>1, SplicedLemma
    <3>2. CASE addressMap[k] \notin 1..Len(accounts)
      BY <1>0, <1>a, <3>2
    <3> QED BY <3>1, <3>2
  <2>2. accounts' = s /\ addressMap' = RebuildAddressMap(s)
    BY <1>7 DEF RemoveByAddress
  <2> HIDE DEF s
  <2>3. Core
    BY <2>1, <2>2, RebuiltIsConsistent
  <2> QED BY <2>3, <1>7, <1>b DEF RemoveByAddress
<1>8. ASSUME NEW i \in 1..MaxLength, Delete(i) PROVE Core /\ Rest
  <2>1. /\ i \in 1..Len(accounts)
        /\ accounts' = [accounts EXCEPT ![i] = Hole] /\ addressMap' = addressMap
    BY <1>8 DEF Delete
  <2>2. accounts' \in Seq(Elements) /\ Len(accounts') = Len(accounts)
    BY <1>0, <2>1 DEF Elements
  <2>3. \A n \in 1..Len(accounts) : accounts'[n] = IF n = i THEN Hole ELSE accounts[n]
    BY <1>0, <2>1
  <2>4. LookupFindsOwn' /\ EveryAccountFound' /\ MapWithinArray'
    BY <2>1, <2>2, <2>3 DEF Inv, LookupFindsOwn, EveryAccountFound, MapWithinArray, GetByKey
  <2>5. addressMap' \in [Keys -> Nat]
    BY <2>1 DEF Inv, TypeOK
  <2> QED BY <2>2, <2>4, <2>5, <1>8, <1>b DEF Delete
<1>9. ASSUME NEW j \in Jobs,
              SaveStarts(j) \/ SaveEnds(j) \/ LoadStarts(j) \/ LoadEnds(j) \/ LoadFails(j)
       PROVE  Core /\ Rest
  <2>1. Core
    BY <1>9, UntouchedPreserves DEF SaveStarts, SaveEnds, LoadStarts, LoadEnds, LoadFails
  <2>2. CASE SaveStarts(j)
    <3>1. PICK n \in 0..Len(accounts) :
             jobs' = [jobs EXCEPT ![j] = [kind |-> "save", list |-> SubSeq(accounts, 1, n)]]
      BY <2>2 DEF SaveStarts
    <3>2. SubSeq(accounts, 1, n) \in Snapshot
      BY <1>0 DEF Snapshot
    <3>3. [kind |-> "save", list |-> SubSeq(accounts, 1, n)] \in Job
      BY <3>2 DEF Job
    <3> QED BY <2>1, <2>2, <3>1, <3>3, <1>0 DEF SaveStarts
  <2>3. CASE SaveEnds(j)
    <3>1. jobs[j] \in Job
      BY <2>3, <1>0 DEF SaveEnds
    <3>2. jobs[j].list \in Snapshot
      BY <3>1 DEF Job
    <3> QED BY <2>1, <2>3, <3>2, <1>0 DEF SaveEnds
  <2>4. CASE LoadStarts(j)
    <3>1. [kind |-> "load", list |-> storage] \in Job
      BY <2>4, <1>0 DEF LoadStarts, Job
    <3> QED BY <2>1, <2>4, <3>1, <1>0 DEF LoadStarts
  <2>5. CASE LoadEnds(j)
    <3>1. jobs[j] \in Job
      BY <2>5, <1>0 DEF LoadEnds
    <3>2. jobs[j].list \in Seq(Elements)
      BY <3>1 DEF Job, Snapshot
    <3>3. \A n \in DOMAIN jobs[j].list : jobs[j].list[n] \in Accounts
      BY <3>2, <2>5 DEF LoadEnds, Decryptable, Elements
    <3>4. jobs[j].list \in Seq(Accounts)
      <4> DEFINE l == jobs[j].list
      <4>1. l \in Seq(Elements) /\ \A n \in 1..Len(l) : l[n] \in Accounts
        BY <3>2, <3>3
      <4> HIDE DEF l
      <4>2. l \in [1..Len(l) -> Accounts] /\ Len(l) \in Nat
        BY <4>1
      <4>3. l \in Seq(Accounts)
        BY <4>2
      <4> QED BY <4>3 DEF l
    <3> QED BY <2>1, <2>5, <3>4, <1>0 DEF LoadEnds
  <2>6. CASE LoadFails(j)
    BY <2>1, <2>6, <1>0 DEF LoadFails
  <2> QED BY <1>9, <2>2, <2>3, <2>4, <2>5, <2>6
<1> QED
  BY <1>1, <1>2, <1>3, <1>4, <1>5, <1>6, <1>7, <1>8, <1>9 DEF Next

(* The address map and the array of a wallet agree in every reachable state,  *)
(* whatever is added, removed, deleted, saved and loaded in whatever order.   *)
THEOREM InvHolds == Spec => []Inv
<1>1. Inv /\ [Next]_vars => Inv'
  BY NextPreserves
<1> QED BY InitEstablishes, <1>1, PTL DEF Spec

(* get(address) returns the account with that address or nothing.             *)
THEOREM LookupCorrect == Spec => []LookupFindsOwn
<1>1. Inv => LookupFindsOwn
  BY DEF Inv
<1> QED BY InvHolds, <1>1, PTL

(* Every account of the array is found under its address, so no address is    *)
(* held twice.                                                                *)
THEOREM AccountsUnique == Spec => []EveryAccountFound
<1>1. Inv => EveryAccountFound
  BY DEF Inv
<1> QED BY InvHolds, <1>1, PTL
=============================================================================
