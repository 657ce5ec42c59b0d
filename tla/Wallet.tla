-------------------------------- MODULE Wallet --------------------------------
(* Wallet of web3-qrl-accounts: an Array of accounts with a private map from  *)
(* lower-case address to index, and asynchronous encrypt, decrypt, save and   *)
(* load against the browser's local storage. Indices are those of TLA+        *)
(* sequences, one more than the array's. A synchronous loop over several      *)
(* accounts (create, decrypt) adds them one step each, with every other       *)
(* operation held back until it is through.                                   *)
EXTENDS Naturals, Sequences, FiniteSets

CONSTANTS
    Accounts,       \* account objects
    Keys,           \* lower-case addresses
    KeyOf,          \* account.address.toLowerCase()
    Hole,           \* an array index without an element
    MaxLength,      \* bound: length of the array
    Jobs,           \* bound: encryptions and decryptions under way
    Deletes,        \* whether `delete wallet[i]' is used
    None

ASSUME ConstantsAssumption ==
    /\ Hole \notin Accounts
    /\ KeyOf \in [Accounts -> Keys]
    /\ MaxLength \in Nat
    /\ Deletes \in BOOLEAN

VARIABLES
    accounts,       \* the array elements
    addressMap,     \* _addressMap: index by key, 0 where there is none
    adding,         \* accounts a synchronous loop has still to add
    jobs,           \* snapshots being encrypted (save) or decrypted (load)
    storage         \* the keystore list in local storage; None if there is none

vars == <<accounts, addressMap, adding, jobs, storage>>

Elements == Accounts \cup {Hole}
Snapshot == Seq(Elements)
Job == [kind : {"save", "load"}, list : Snapshot]

ASSUME NoneAssumption == None \notin Snapshot /\ None \notin Job

TypeOK ==
    /\ accounts \in Seq(Elements)
    /\ addressMap \in [Keys -> Nat]
    /\ adding \in Seq(Accounts)
    /\ jobs \in [Jobs -> Job \cup {None}]
    /\ storage \in Snapshot \cup {None}

Init ==
    /\ accounts = << >>
    /\ addressMap = [k \in Keys |-> 0]
    /\ adding = << >>
    /\ jobs = [j \in Jobs |-> None]
    /\ storage = None

Free == adding = << >>

-----------------------------------------------------------------------------
(* get(address) through the map: a stale index may point past the end.        *)
GetByKey(k) ==
    IF addressMap[k] \in 1..Len(accounts) THEN accounts[addressMap[k]] ELSE Hole

(* The index add(account) writes to: that of the account with the same        *)
(* address, if get() finds one, else the next one.                            *)
IndexFor(a) ==
    IF GetByKey(KeyOf[a]) # Hole THEN addressMap[KeyOf[a]] ELSE Len(accounts) + 1

(* The effect of add(account) on the array and the map.                       *)
AddAccount(a) ==
    LET i == IndexFor(a) IN
    /\ i <= MaxLength
    /\ accounts' = [n \in 1..(IF i > Len(accounts) THEN i ELSE Len(accounts)) |->
                      IF n = i THEN a ELSE accounts[n]]
    /\ addressMap' = [addressMap EXCEPT ![KeyOf[a]] = i]

(* add(account).                                                              *)
Add(a) ==
    /\ Free
    /\ AddAccount(a)
    /\ UNCHANGED <<adding, jobs, storage>>

(* create(2): both accounts are added in one synchronous loop.                *)
Create ==
    /\ Free
    /\ \E a, b \in Accounts : KeyOf[a] # KeyOf[b] /\ adding' = <<a, b>>
    /\ UNCHANGED <<accounts, addressMap, jobs, storage>>

AddNext ==
    /\ adding # << >>
    /\ AddAccount(Head(adding))
    /\ adding' = Tail(adding)
    /\ UNCHANGED <<jobs, storage>>

(* The array without the element at i, as splice(i, 1) leaves it.             *)
Spliced(s, i) == [n \in 1..(Len(s) - 1) |-> IF n < i THEN s[n] ELSE s[n + 1]]

FaultKeepIndices(s) ==
    [k \in Keys |-> IF \E n \in DOMAIN s : s[n] # Hole /\ KeyOf[s[n]] = k
                    THEN addressMap[k] ELSE 0]

(* _rebuildAddressMap(): later indices overwrite earlier ones.                *)
RebuildAddressMap(s) ==
    [k \in Keys |->
       IF \E n \in DOMAIN s : s[n] # Hole /\ KeyOf[s[n]] = k
       THEN CHOOSE n \in DOMAIN s :
               /\ s[n] # Hole /\ KeyOf[s[n]] = k
               /\ \A m \in DOMAIN s : s[m] # Hole /\ KeyOf[s[m]] = k => m <= n
       ELSE 0]

(* remove(index), for an index that holds an account.                         *)
RemoveByIndex(i) ==
    /\ Free
    /\ i \in 1..Len(accounts) /\ accounts[i] # Hole
    /\ accounts' = Spliced(accounts, i)
    /\ addressMap' = RebuildAddressMap(Spliced(accounts, i))
    /\ UNCHANGED <<adding, jobs, storage>>

(* remove(address), for an address in the map; splice() beyond the end of the *)
(* array removes nothing.                                                     *)
RemoveByAddress(k) ==
    /\ Free
    /\ addressMap[k] # 0
    /\ LET rest == IF addressMap[k] \in 1..Len(accounts)
                   THEN Spliced(accounts, addressMap[k]) ELSE accounts IN
          accounts' = rest /\ addressMap' = RebuildAddressMap(rest)
    /\ UNCHANGED <<adding, jobs, storage>>

FaultClearArrayOnly ==
    /\ Free
    /\ accounts' = << >>
    /\ UNCHANGED <<addressMap, adding, jobs, storage>>

(* clear().                                                                   *)
Clear ==
    /\ Free
    /\ accounts' = << >>
    /\ addressMap' = [k \in Keys |-> 0]
    /\ UNCHANGED <<adding, jobs, storage>>

(* `delete wallet[i]': the element goes, the length and the map stay.         *)
Delete(i) ==
    /\ Deletes /\ Free
    /\ i \in 1..Len(accounts) /\ accounts[i] # Hole
    /\ accounts' = [accounts EXCEPT ![i] = Hole]
    /\ UNCHANGED <<addressMap, adding, jobs, storage>>

-----------------------------------------------------------------------------
(* What this.map() hands to Promise.all() has length n: trailing holes are    *)
(* lost, inner ones become undefined and are stored as null.                  *)
MappedLength(s, n) ==
    /\ n > 0 => s[n] # Hole
    /\ \A m \in (n + 1)..Len(s) : s[m] = Hole

(* save(): the accounts of now are encrypted ...                              *)
SaveStarts(j) ==
    /\ Free /\ jobs[j] = None
    /\ \E n \in 0..Len(accounts) :
          /\ MappedLength(accounts, n)
          /\ jobs' = [jobs EXCEPT ![j] = [kind |-> "save", list |-> SubSeq(accounts, 1, n)]]
    /\ UNCHANGED <<accounts, addressMap, adding, storage>>

(* ... and written when the last encryption is done.                          *)
SaveEnds(j) ==
    /\ Free /\ jobs[j] # None /\ jobs[j].kind = "save"
    /\ storage' = jobs[j].list
    /\ jobs' = [jobs EXCEPT ![j] = None]
    /\ UNCHANGED <<accounts, addressMap, adding>>

(* load(): the stored keystores are decrypted ...                             *)
LoadStarts(j) ==
    /\ Free /\ jobs[j] = None
    /\ storage # None
    /\ jobs' = [jobs EXCEPT ![j] = [kind |-> "load", list |-> storage]]
    /\ UNCHANGED <<accounts, addressMap, adding, storage>>

Decryptable(s) == \A n \in DOMAIN s : s[n] # Hole

(* ... and all of them added to whatever the wallet holds by then.            *)
LoadEnds(j) ==
    /\ Free /\ jobs[j] # None /\ jobs[j].kind = "load"
    /\ Decryptable(jobs[j].list)
    /\ adding' = jobs[j].list
    /\ jobs' = [jobs EXCEPT ![j] = None]
    /\ UNCHANGED <<accounts, addressMap, storage>>

(* A keystore that is null, or a wrong password: decrypt() rejects and no     *)
(* account is added.                                                          *)
LoadFails(j) ==
    /\ Free /\ jobs[j] # None /\ jobs[j].kind = "load"
    /\ jobs' = [jobs EXCEPT ![j] = None]
    /\ UNCHANGED <<accounts, addressMap, adding, storage>>

Next ==
    \/ \E a \in Accounts : Add(a)
    \/ Create \/ AddNext \/ Clear
    \/ \E i \in 1..MaxLength : RemoveByIndex(i) \/ Delete(i)
    \/ \E k \in Keys : RemoveByAddress(k)
    \/ \E j \in Jobs : \/ SaveStarts(j) \/ SaveEnds(j)
                       \/ LoadStarts(j) \/ LoadEnds(j) \/ LoadFails(j)

Spec == Init /\ [][Next]_vars

-----------------------------------------------------------------------------
(* The map never points at somebody else's account: an address finds its own  *)
(* account or none. sendTransaction() signs with whatever get(from) returns.  *)
LookupFindsOwn ==
    \A k \in Keys : GetByKey(k) # Hole => KeyOf[GetByKey(k)] = k

(* Every account in the array can be found by its address, at its own index;  *)
(* so no address is held twice, however often it was added, removed, deleted  *)
(* or loaded again.                                                           *)
EveryAccountFound ==
    \A n \in 1..Len(accounts) : accounts[n] # Hole => addressMap[KeyOf[accounts[n]]] = n

(* The index the map keeps for a removed or never added account is absent or  *)
(* within the array: the part of the inductive invariant that LookupFindsOwn  *)
(* and EveryAccountFound leave open.                                          *)
MapWithinArray == \A k \in Keys : addressMap[k] <= Len(accounts)

Inv == TypeOK /\ LookupFindsOwn /\ EveryAccountFound /\ MapWithinArray
=============================================================================
