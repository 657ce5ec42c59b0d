-------------------------------- MODULE Common --------------------------------
(* Common of web3-qrl-accounts: which chain and hardfork a transaction is     *)
(* made for. A chain's list of hardforks is an object that instances share:   *)
(* with their copies, with the standard chain they are customised from and    *)
(* with other instances of the same parameters. It is written to when fork    *)
(* hashes are filled in. The table of QIPs is empty, so setQIPs() accepts no  *)
(* list but the empty one, and no activation comes from a QIP.                *)
EXTENDS Integers, Sequences, FiniteSets, FiniteSetsExt, SequencesExt, Filters

CONSTANTS
    Lists,          \* hardfork lists of custom chains
    GenesisHashes,
    MaxCommons,     \* bound: instances
    MaxBlock,       \* bound: block numbers asked for
    MaxTime         \* bound: timestamps asked for

VARIABLES
    forkLists,      \* the hardfork lists; the first is that of mainnet
    commons         \* the instances: chain, list, _hardfork, HARDFORK_CHANGES

vars == <<forkLists, commons>>

Null == -1
NoHash == [genesis |-> "none", marks |-> <<>>]
Zond == [name |-> "zond", block |-> 0, time |-> Null, hash |-> NoHash]

(* A hardfork of a list; a chain comes without fork hashes.                   *)
Names(forks) == [i \in DOMAIN forks |-> forks[i].name]
HardforkNames == {"zond"} \cup UNION {ToSet(Names(forks)) : forks \in Lists}
Genesis == GenesisHashes \cup {"none"}
Hashes == [genesis : Genesis, marks : Seq(Int)]
HardforkConfig == [name : HardforkNames, block : Nat \cup {Null}, time : Nat \cup {Null}, hash : Hashes]

ConstantsOK ==
    /\ MaxCommons \in Nat /\ MaxBlock \in Nat /\ MaxTime \in Nat
    /\ \A forks \in Lists : /\ forks \in Seq(HardforkConfig)
                            /\ \A i \in DOMAIN forks : forks[i].hash = NoHash

Blocks == 0..MaxBlock
Times == {Null} \cup 0..MaxTime
Hardforks(c) == forkLists[c.list]

-----------------------------------------------------------------------------
(* getHardforkByBlockNumber(): the name, or a refusal.                        *)
Refusal == "refused"
Scheduled(forks) ==
    Picked(forks, {i \in DOMAIN forks : forks[i].block # Null \/ forks[i].time # Null})
SameSchedule(g, h) == g.block = h.block /\ g.time = h.time

GetHardforkByBlockNumber(forks, block, time) ==
    LET hfs == Scheduled(forks)
        later == {i \in DOMAIN hfs :
                    \/ hfs[i].block # Null /\ hfs[i].block > block
                    \/ time # Null /\ hfs[i].time # Null /\ hfs[i].time > time}
        found == IF later = {} THEN Len(hfs) ELSE Min(later) - 1
        numbered == {i \in 1..found : hfs[i].block # Null}
        start == IF time # Null THEN found ELSE IF numbered = {} THEN found + 1 ELSE Max(numbered)
        last == Max({j \in start..Len(hfs) : \A i \in start..j - 1 : SameSchedule(hfs[i], hfs[i + 1])})
    IN  IF \/ found = 0 /\ later # {}
           \/ start \notin DOMAIN hfs
           \/ time > 0 /\ \/ \E i \in 1..start - 1 : hfs[i].time > time
                          \/ \E i \in last + 1..Len(hfs) : hfs[i].time # Null /\ hfs[i].time < time
        THEN Refusal
        ELSE hfs[last].name

(* _getHardfork(): the first of that name.                                    *)
Positions(forks, name) == {i \in DOMAIN forks : forks[i].name = name}
GetHardfork(forks, name) == forks[Min(Positions(forks, name))]

(* hardforkGteHardfork(): the last of each name counts.                       *)
HardforkGteHardfork(forks, name1, name2) ==
    /\ Positions(forks, name2) # {}
    /\ Positions(forks, name1) # {}
    /\ Max(Positions(forks, name1)) >= Max(Positions(forks, name2))

HardforkBlock(forks, name) ==
    IF Positions(forks, name) = {} THEN Null ELSE GetHardfork(forks, name).block

(* hardforkIsActiveOnBlock(): a hardfork of block 0 is never active.          *)
HardforkIsActiveOnBlock(forks, name, block) ==
    HardforkBlock(forks, name) \notin {Null, 0} /\ block >= HardforkBlock(forks, name)

BlockOrTime(h) == IF h.time # Null THEN h.time ELSE h.block

(* nextHardforkBlockOrTimestamp().                                            *)
NextHardforkBlockOrTimestamp(forks, name) ==
    LET at == Min(Positions(forks, name))
        next == {i \in at + 1..Len(forks) :
                   BlockOrTime(forks[i]) \notin {Null, BlockOrTime(forks[at])}}
    IN  IF Positions(forks, name) = {} \/ next = {} THEN Null ELSE BlockOrTime(forks[Min(next)])

-----------------------------------------------------------------------------
(* The blocks or times of the hardforks up to a position, 0 left out.         *)
Marks(forks, last) ==
    LET all == [i \in 1..last |-> BlockOrTime(forks[i])]
    IN  Picked(all, {i \in 1..last : all[i] \notin {Null, 0}})

(* Repetitions once.                                                          *)
Unrepeated(marks) ==
    Picked(marks, {i \in DOMAIN marks : i = 1 \/ marks[i] # marks[i - 1]})

FaultCalcForkHash(forks, name, genesis) ==
    LET last == IF Positions(forks, name) = {} THEN Len(forks) ELSE Min(Positions(forks, name)) - 1
    IN  [genesis |-> genesis, marks |-> Marks(forks, last)]

(* _calcForkHash(): of the genesis and of the blocks or times up to the       *)
(* hardfork. CRC-32 is external, and taken to be injective on the few inputs  *)
(* of one chain.                                                              *)
CalcForkHash(forks, name, genesis) ==
    LET last == IF Positions(forks, name) = {} THEN Len(forks) ELSE Min(Positions(forks, name))
    IN  [genesis |-> genesis, marks |-> Unrepeated(Marks(forks, last))]

(* forkHash(): the hash on record, whatever genesis is given, or a new one.   *)
ForkHash(forks, name, genesis) ==
    IF GetHardfork(forks, name).hash # NoHash THEN GetHardfork(forks, name).hash
    ELSE CalcForkHash(forks, name, genesis)

(* setForkHashes(): every hardfork that has a block or time and no hash.      *)
WithForkHashes(forks, genesis) ==
    [i \in DOMAIN forks |->
        IF forks[i].hash = NoHash /\ BlockOrTime(forks[i]) # Null
        THEN [forks[i] EXCEPT !.hash = ForkHash(forks, forks[i].name, genesis)]
        ELSE forks[i]]

(* hardforkForForkHash(): the last hardfork with the hash.                    *)
HardforkForForkHash(forks, hash) == forks[Max({i \in DOMAIN forks : forks[i].hash = hash})]

-----------------------------------------------------------------------------
Room == Len(commons) < MaxCommons

(* What the constructor leaves: the default hardfork, in the chain or not,    *)
(* unless the options name one, which must be in the chain. The changes are   *)
(* those of this chain for good.                                              *)
Constructed(id, list, forks, hardfork) ==
    [chainId |-> id, list |-> list, hardfork |-> hardfork, changes |-> Names(forks)]

Constructs(id, list, forks, hardfork) ==
    /\ Room
    /\ hardfork = "zond" \/ hardfork \in ToSet(Names(forks))
    /\ commons' = Append(commons, Constructed(id, list, forks, hardfork))

(* new Common({chain: 1}), and Common.custom({chainId}) without hardforks:    *)
(* both refer to mainnet's list.                                              *)
NewOnMainnet(id) == Constructs(id, 1, forkLists[1], "zond") /\ UNCHANGED forkLists

(* Common.custom() with hardforks, or a chain of customChains.                *)
NewCustom(forks, hardfork) ==
    /\ Constructs(2, Len(forkLists) + 1, forks, hardfork)
    /\ forkLists' = Append(forkLists, forks)

(* parseGqrlParams(): the map of the fields of a genesis file to hardforks is *)
(* empty, so none of its fields names one and the first hardfork is alone.    *)
ParseGqrlParams == <<Zond>>

(* fromGqrlGenesis(): the genesis hash is optional.                           *)
FromGqrlGenesis(genesis) ==
    /\ Constructs(3, Len(forkLists) + 1, ParseGqrlParams, "zond")
    /\ forkLists' = Append(forkLists, IF genesis = "none" THEN ParseGqrlParams
                                      ELSE WithForkHashes(ParseGqrlParams, genesis))

(* copy(): the fields, not what they refer to.                                *)
Copy(n) ==
    /\ Room
    /\ commons' = Append(commons, commons[n])
    /\ UNCHANGED forkLists

(* setChain(): the hardfork and the changes stay those of the old chain.      *)
SetChain(n, m) ==
    /\ commons' = [commons EXCEPT ![n].chainId = commons[m].chainId, ![n].list = commons[m].list]
    /\ UNCHANGED forkLists

(* setHardfork(): a name of the changes; an event tells a new one.            *)
SetsHardfork(n, name) ==
    /\ name \in ToSet(commons[n].changes)
    /\ commons' = [commons EXCEPT ![n].hardfork = name]
    /\ UNCHANGED forkLists

SetHardfork(n) == \E name \in ToSet(commons[n].changes) : SetsHardfork(n, name)

SetHardforkByBlockNumber(n, block, time) ==
    SetsHardfork(n, GetHardforkByBlockNumber(Hardforks(commons[n]), block, time))

SetForkHashes(n, genesis) ==
    /\ forkLists' = [forkLists EXCEPT ![commons[n].list] = WithForkHashes(@, genesis)]
    /\ UNCHANGED commons

Init == forkLists = <<<<Zond>>>> /\ commons = <<>>

Next ==
    \/ \E id \in {1, 2} : NewOnMainnet(id)
    \/ \E forks \in Lists : \E name \in ToSet(Names(forks)) : NewCustom(forks, name)
    \/ \E genesis \in Genesis : FromGqrlGenesis(genesis)
    \/ \E n \in DOMAIN commons :
          \/ Copy(n) \/ SetHardfork(n)
          \/ \E m \in DOMAIN commons : SetChain(n, m)
          \/ \E b \in Blocks, t \in Times : SetHardforkByBlockNumber(n, b, t)
          \/ \E genesis \in GenesisHashes : SetForkHashes(n, genesis)

Spec == Init /\ [][Next]_vars

-----------------------------------------------------------------------------
(* Lists as chains have them: every hardfork has a name of its own, the first *)
(* is at block 0, then come the ones with a block, then the ones with a time, *)
(* each in order; unscheduled ones may stand anywhere.                        *)
Ordered(forks) ==
    LET hfs == Scheduled(forks)
    IN  /\ hfs # <<>> /\ hfs[1].block = 0
        /\ \A i, j \in DOMAIN forks : forks[i].name = forks[j].name => i = j
        /\ \A i \in DOMAIN hfs : (hfs[i].block = Null \/ hfs[i].time = Null) /\ hfs[i].time # 0
        /\ \A i, j \in DOMAIN hfs : i < j =>
              \/ hfs[j].block = Null /\ hfs[i].time <= hfs[j].time
              \/ hfs[i].block # Null /\ hfs[i].block <= hfs[j].block

Reached(h, block, time) ==
    \/ h.block # Null /\ h.block <= block
    \/ h.time # Null /\ time # Null /\ h.time <= time

(* The hardfork found for a block and a time is the last one of those that    *)
(* are reached without a gap, refused only where the two contradict each      *)
(* other.                                                                     *)
FoundIsReached(forks, b, t) ==
    LET hfs == Scheduled(forks)
        name == GetHardforkByBlockNumber(forks, b, t)
        prefix == {i \in DOMAIN hfs : \A j \in 1..i : Reached(hfs[j], b, t)}
    IN  \/ name = hfs[Max(prefix)].name
        \/ /\ name = Refusal
           /\ \E i, j \in DOMAIN hfs : i < j /\ ~Reached(hfs[i], b, t) /\ Reached(hfs[j], b, t)

(* The hardforks active on a block are those up to the one found for it, the  *)
(* ones of block 0 apart.                                                     *)
ActiveUpToFound(forks, b) ==
    \A h \in ToSet(Scheduled(forks)) :
        HardforkIsActiveOnBlock(forks, h.name, b) <=>
           h.block > 0 /\ HardforkGteHardfork(forks, GetHardforkByBlockNumber(forks, b, Null), h.name)

(* The block that is said to come next is where the answer changes.           *)
NextIsTheChange(forks) ==
    \A h \in ToSet(Scheduled(forks)) :
        LET next == NextHardforkBlockOrTimestamp(forks, h.name)
            before == GetHardforkByBlockNumber(forks, next - 1, Null)
            then == GetHardforkByBlockNumber(forks, next, Null)
        IN  next # Null =>
               /\ SameSchedule(GetHardfork(forks, before), h)
               /\ HardforkGteHardfork(forks, before, h.name)
               /\ ~HardforkGteHardfork(forks, before, then)

(* getHardforkByBlockNumber(), hardforkIsActiveOnBlock() and, of lists whose  *)
(* hardforks have no times, nextHardforkBlockOrTimestamp() agree.             *)
ScheduleAgrees ==
    \A l \in DOMAIN forkLists : Ordered(forkLists[l]) =>
        /\ \A b \in Blocks, t \in Times : FoundIsReached(forkLists[l], b, t)
        /\ \A b \in Blocks : ActiveUpToFound(forkLists[l], b)
        /\ (\A h \in ToSet(Scheduled(forkLists[l])) : h.time = Null) => NextIsTheChange(forkLists[l])

(* A fork hash on record finds a hardfork of the block or time it was         *)
(* computed for (setForkHashes, hardforkForForkHash).                         *)
ForkHashNamesFork ==
    \A l \in DOMAIN forkLists : Ordered(forkLists[l]) =>
        \A i \in DOMAIN forkLists[l] :
            LET h == forkLists[l][i]
            IN  h.hash # NoHash => BlockOrTime(HardforkForForkHash(forkLists[l], h.hash)) = BlockOrTime(h)

-----------------------------------------------------------------------------
(* What comments, tests and documents say and the code does not do.           *)

(* copy() "Returns a deep copy of this Common instance" (common.ts:932), and  *)
(* setForkHashes() "Sets any missing forkHashes on the passed-in Common       *)
(* instance" (common.ts:766): no other instance gets hashes by it.            *)
ForkHashesAreOwn ==
    [][\A n \in DOMAIN commons : \A g \in GenesisHashes :
         SetForkHashes(n, g) => \A m \in DOMAIN commons \ {n} :
                                   forkLists'[commons[m].list] = forkLists[commons[m].list]]_vars
===============================================================================
