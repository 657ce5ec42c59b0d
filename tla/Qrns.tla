--------------------------------- MODULE Qrns ---------------------------------
(* The name service: every question asks the registry for the resolver of a   *)
(* name, then the resolver whether it has the interface, then the resolver;   *)
(* the registry and the resolvers may change between any two of these. Apart  *)
(* from that, checkNetwork() remembers when it last found the node in sync.   *)
EXTENDS Naturals, FiniteSets

CONSTANTS
    Askers,         \* concurrent questions about names
    Checkers,       \* concurrent calls of checkNetwork()
    Nodes,          \* hashes of names
    Reverse,        \* the hash of the reverse name of an address; \in Nodes
    Resolvers,      \* addresses of resolver contracts
    MaxEvents,      \* bound: changes of registry and resolvers
    MaxTime,        \* bound: hours
    Null

ConstantsOK ==
    /\ Reverse \in Nodes /\ {MaxEvents, MaxTime} \subseteq Nat
    /\ Null \notin Nat \cup {"registry"}

Interfaces == {"addr", "name", "text"}  \* of interfaceIds; the others are asked for likewise

(* Questions: the interface each needs, and whether it is checked.            *)
Questions ==
    [getAddress |-> "addr", setAddress |-> "addr", getText |-> "text",
     getName |-> "name", getNameUnchecked |-> "name", getTextOfAddress |-> "name",
     getResolver |-> Null, supportsInterface |-> Null]

Unchecked == {"getNameUnchecked", "getTextOfAddress", "getResolver", "supportsInterface"}

(* Questions that the registry itself answers.                                *)
Records == {"getOwner", "getTTL", "recordExists"}

(* The registries that are known, by network (config.ts has the main one).    *)
RegistryAddresses == [main |-> "registry"]
NetworkIds == {"main", "test"}

VARIABLES
    registry,       \* external: [node -> resolver, "zero" or "invalid"]
    supports,       \* external: [resolver -> interfaces]
    events,         \* changes of the two so far
    call,           \* [call -> where it is and what it knows]
    seen,           \* history: [call -> resolvers its node had since it started]
    had,            \* history: [call -> interfaces its resolver had since it was found]
    synced,         \* external: what the node says of itself
    network,        \* external: the network of the node
    clock,          \* hours
    check,          \* [call -> checkNetwork() in progress]
    lastSyncCheck, detectedAddress,
    reported        \* history: the last time that the node said it is in sync

nameVars == <<registry, supports, events, call, seen, had>>
networkVars == <<synced, network, clock, check, lastSyncCheck, detectedAddress, reported>>
vars == <<nameVars, networkVars>>

Entries == Resolvers \cup {"zero", "invalid"}
Resting == [at |-> "rest"]

(* What a question about a name knows at each of its steps.                   *)
CallStates ==
    {Resting}
    \cup [at : {"record", "done"}, question : Records, node : Nodes]
    \cup [at : {"resolver"}, question : DOMAIN Questions, node : Nodes]
    \cup [at : {"interface", "answer", "done"}, question : DOMAIN Questions, node : Nodes,
          resolver : Resolvers]
    \cup [at : {"failed"}, question : Records \cup DOMAIN Questions,
          error : {"zero", "invalid", "reverted", "ResolverMethodMissing", "call"}]

CheckStates ==
    {Resting, [at |-> "failed"]}
    \cup [at : {"sync", "id"}, since : 0..MaxTime]
    \cup [at : {"done"}, since : 0..MaxTime, address : {RegistryAddresses.main}]

TypeOK ==
    /\ registry \in [Nodes -> Entries]
    /\ supports \in [Resolvers -> SUBSET Interfaces]
    /\ events \in 0..MaxEvents
    /\ call \in [Askers -> CallStates]
    /\ seen \in [Askers -> SUBSET Entries] /\ had \in [Askers -> SUBSET Interfaces]
    /\ clock \in 0..MaxTime
    /\ check \in [Checkers -> CheckStates]
    /\ lastSyncCheck \in {Null} \cup 0..MaxTime /\ reported \in {Null} \cup 0..MaxTime
    /\ detectedAddress \in {Null, RegistryAddresses.main}

Init ==
    /\ registry \in [Nodes -> Entries]
    /\ supports \in [Resolvers -> {Interfaces}]
    /\ events = 0
    /\ call = [c \in Askers |-> Resting]
    /\ seen = [c \in Askers |-> {}] /\ had = [c \in Askers |-> {}]
    /\ synced \in BOOLEAN /\ network \in NetworkIds /\ clock = 0
    /\ check = [c \in Checkers |-> Resting]
    /\ lastSyncCheck = Null /\ detectedAddress = Null /\ reported = Null

-----------------------------------------------------------------------------
(* The registry and the resolvers (external).                                 *)
SetResolver(node, entry) ==
    /\ events < MaxEvents /\ registry[node] # entry
    /\ registry' = [registry EXCEPT ![node] = entry]
    /\ seen' = [c \in Askers |-> IF call[c].at \in {"resolver", "interface", "answer"} /\ call[c].node = node
                                THEN seen[c] \cup {entry} ELSE seen[c]]
    /\ events' = events + 1
    /\ UNCHANGED <<supports, call, had, networkVars>>

SetInterfaces(r, set) ==
    /\ events < MaxEvents /\ supports[r] # set
    /\ supports' = [supports EXCEPT ![r] = set]
    /\ had' = [c \in Askers |-> IF call[c].at \in {"interface", "answer"} /\ call[c].resolver = r
                               THEN had[c] \cup set ELSE had[c]]
    /\ events' = events + 1
    /\ UNCHANGED <<registry, call, seen, networkVars>>

-----------------------------------------------------------------------------
Asks(c, question, node) ==
    /\ call' = [call EXCEPT ![c] = [at |-> IF question \in Records THEN "record" ELSE "resolver",
                                    question |-> question, node |-> node]]
    /\ seen' = [seen EXCEPT ![c] = {registry[node]}]
    /\ had' = [had EXCEPT ![c] = {}]

(* A call of the class, with the hash of its name: getName() and getText() of *)
(* an address ask for the reverse name.                                       *)
Ask(c, question, node) ==
    /\ call[c].at \in {"rest", "done", "failed"}
    /\ (node = Reverse) = (question \in {"getName", "getNameUnchecked", "getTextOfAddress"})
    /\ Asks(c, question, node)
    /\ UNCHANGED <<registry, supports, events, networkVars>>

Moves(c, fields) ==
    /\ call' = [call EXCEPT ![c] = fields]
    /\ UNCHANGED <<registry, supports, events, networkVars>>

Fails(c, error) ==
    Moves(c, [at |-> "failed", question |-> call[c].question, error |-> error])

(* Registry.getOwner(), getTTL() and recordExists(): one request.             *)
Record(c) ==
    /\ call[c].at = "record"
    /\ \/ Moves(c, [call[c] EXCEPT !.at = "done"])
       \/ Fails(c, "reverted")
    /\ UNCHANGED <<seen, had>>

(* Registry.getResolver(): the answer must be the address of a contract; an   *)
(* error of the call is wrapped. The address is the contract's from here on.  *)
GetResolver(c) ==
    /\ call[c].at = "resolver"
    /\ LET entry == registry[call[c].node]
           next  == IF call[c].question = "getResolver" THEN "done"
                    ELSE IF call[c].question \in Unchecked THEN "answer" ELSE "interface"
       IN  \/ entry \in Resolvers
              /\ Moves(c, [at |-> next, question |-> call[c].question, node |-> call[c].node, resolver |-> entry])
              /\ had' = [had EXCEPT ![c] = supports[entry]]
           \/ entry \notin Resolvers /\ Fails(c, entry) /\ UNCHANGED had
           \/ Fails(c, "reverted") /\ UNCHANGED had
    /\ UNCHANGED seen

FaultCheckInterfaceSupport(c) ==        \* a missing answer is taken for yes
    /\ call[c].at = "interface"
    /\ Moves(c, [call[c] EXCEPT !.at = "answer"])
    /\ UNCHANGED <<seen, had>>

(* Resolver.checkInterfaceSupport(), for the interfaces of the questions,     *)
(* all of which have an id.                                                   *)
CheckInterfaceSupport(c) ==
    /\ call[c].at = "interface"
    /\ IF Questions[call[c].question] \in supports[call[c].resolver]
       THEN Moves(c, [call[c] EXCEPT !.at = "answer"])
       ELSE Fails(c, "ResolverMethodMissing")
    /\ UNCHANGED <<seen, had>>

(* The resolver's answer. The text of an address is asked for under the name  *)
(* that the answer says, a whole question of its own.                         *)
Answer(c) ==
    /\ call[c].at = "answer"
    /\ IF call[c].question = "getTextOfAddress"
       THEN \E node \in Nodes \ {Reverse} :
               Asks(c, "getText", node) /\ UNCHANGED <<registry, supports, events, networkVars>>
       ELSE Moves(c, [call[c] EXCEPT !.at = "done"]) /\ UNCHANGED <<seen, had>>

(* A call of the resolver fails, the one for its interfaces or the question   *)
(* itself: it has no such function, or it reverts.                            *)
AnswerFails(c) ==
    /\ call[c].at \in {"interface", "answer"}
    /\ Fails(c, "call")
    /\ UNCHANGED <<seen, had>>

-----------------------------------------------------------------------------
(* The node, or that of another provider (external), and time.                *)
Tick ==
    /\ clock < MaxTime
    /\ clock' = clock + 1
    /\ UNCHANGED <<nameVars, synced, network, check, lastSyncCheck, detectedAddress, reported>>

NodeChanges ==
    /\ synced' \in BOOLEAN /\ network' \in NetworkIds
    /\ UNCHANGED <<nameVars, clock, check, lastSyncCheck, detectedAddress, reported>>

Due(now) == lastSyncCheck = Null \/ now - lastSyncCheck > 1

(* What checkNetwork() does once the node is known to be in sync.             *)
Detected(c) ==
    check' = [check EXCEPT ![c] = IF detectedAddress # Null
                                  THEN [at |-> "done", address |-> detectedAddress, since |-> check[c].since]
                                  ELSE [at |-> "id", since |-> check[c].since]]

(* checkNetwork(): asks for the state of the node when the last answer is     *)
(* more than an hour old, and for the network when it is not known.           *)
CheckNetwork(c) ==
    /\ check[c].at \in {"rest", "done", "failed"}
    /\ IF Due(clock)
       THEN check' = [check EXCEPT ![c] = [at |-> "sync", since |-> clock]]
       ELSE check' = [check EXCEPT ![c] = IF detectedAddress # Null
                                          THEN [at |-> "done", address |-> detectedAddress, since |-> clock]
                                          ELSE [at |-> "id", since |-> clock]]
    /\ UNCHANGED <<nameVars, synced, network, clock, lastSyncCheck, detectedAddress, reported>>

(* isSyncing() is answered: the time noted is that of the question.           *)
Syncing(c) ==
    /\ check[c].at = "sync"
    /\ IF synced
       THEN /\ lastSyncCheck' = check[c].since
            /\ reported' = clock
            /\ Detected(c)
       ELSE /\ check' = [check EXCEPT ![c] = [at |-> "failed"]]
            /\ UNCHANGED <<lastSyncCheck, reported>>
    /\ UNCHANGED <<nameVars, synced, network, clock, detectedAddress>>

(* getId() is answered: the registry of that network, if there is one.        *)
Identified(c) ==
    /\ check[c].at = "id"
    /\ IF network \in DOMAIN RegistryAddresses
       THEN /\ detectedAddress' = RegistryAddresses[network]
            /\ check' = [check EXCEPT ![c] = [at |-> "done", address |-> RegistryAddresses[network],
                                              since |-> check[c].since]]
       ELSE check' = [check EXCEPT ![c] = [at |-> "failed"]] /\ UNCHANGED detectedAddress
    /\ UNCHANGED <<nameVars, synced, network, clock, lastSyncCheck, reported>>

-----------------------------------------------------------------------------
Names ==
    \/ \E node \in Nodes, entry \in Entries : SetResolver(node, entry)
    \/ \E r \in Resolvers, set \in SUBSET Interfaces : SetInterfaces(r, set)
    \/ \E c \in Askers :
          \/ \E q \in DOMAIN Questions \cup Records, node \in Nodes : Ask(c, q, node)
          \/ Record(c) \/ GetResolver(c) \/ CheckInterfaceSupport(c) \/ Answer(c) \/ AnswerFails(c)

Network ==
    \/ Tick \/ NodeChanges
    \/ \E c \in Checkers : CheckNetwork(c) \/ Syncing(c) \/ Identified(c)

Next == Names \/ Network

Spec == Init /\ [][Next]_vars

-----------------------------------------------------------------------------
(* An answer comes from a contract that the registry named for the very node  *)
(* asked for while the call was under way, never from the zero address, and,  *)
(* where the interface is checked, from one that had the interface then,      *)
(* whatever the owner of the name changed between the requests.               *)
AnsweredByItsResolver ==
    \A c \in Askers : call[c].at = "done" /\ call[c].question \notin Records =>
       /\ call[c].resolver \in seen[c] \cap Resolvers
       /\ call[c].question \notin Unchecked => Questions[call[c].question] \in had[c]

(* checkNetwork() returns an address only if the node said that it is in sync *)
(* at most one hour before the call, by a question asked no later than the    *)
(* time noted: of two calls that overlap, the slower one cannot extend it.    *)
SyncedWhenDetected ==
    /\ lastSyncCheck # Null => reported # Null /\ lastSyncCheck <= reported
    /\ \A c \in Checkers : check[c].at = "done" =>
          reported # Null /\ reported + 1 >= check[c].since

(* Why: at each step of a question, what it knows of the registry and of its  *)
(* resolver was so since it was asked,                                        *)
AskedInOrder ==
    \A c \in Askers :
       /\ call[c].at = "resolver" => registry[call[c].node] \in seen[c]
       /\ call[c].at \in {"interface", "answer"} =>
             call[c].resolver \in seen[c] /\ supports[call[c].resolver] \subseteq had[c]
       /\ call[c].at = "interface" => call[c].question \notin Unchecked
       /\ call[c].at = "answer" /\ call[c].question \notin Unchecked =>
             Questions[call[c].question] \in had[c]

(* and a call of checkNetwork() goes on only after a report that is in time.  *)
CheckedInTime ==
    /\ reported # Null => reported <= clock
    /\ \A c \in Checkers :
          /\ check[c].at = "sync" => check[c].since <= clock
          /\ check[c].at = "id" => reported # Null /\ reported + 1 >= check[c].since

(* The inductive invariant of the name service.                               *)
Inv ==
    /\ TypeOK
    /\ AskedInOrder /\ AnsweredByItsResolver
    /\ CheckedInTime /\ SyncedWhenDetected

-----------------------------------------------------------------------------
(* "Checks if the current used network is synced and looks for QRNS support   *)
(* there. Throws an error if not.": the node is in sync when it returns.      *)
InSyncWhenChecked == [][\A c \in Checkers : check[c].at # "done" /\ check'[c].at = "done" => synced']_vars

(* The same of the registry: it is the one of the present network.            *)
DetectedIsCurrent ==
    [][\A c \in Checkers : check[c].at # "done" /\ check'[c].at = "done" => network = "main"]_vars
=============================================================================
