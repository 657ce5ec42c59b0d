------------------------------- MODULE Context -------------------------------
(* Web3Context and Web3Config: contexts that are created from one another by  *)
(* use(), link() or registerPlugin(), the configuration each one keeps, and   *)
(* how a change travels from a context to those linked to it. The options are *)
(* represented by four: two that constrain each other, an ordinary one, and   *)
(* the experimental features.                                                 *)
EXTENDS Naturals, FiniteSets

CONSTANTS
    Contexts,       \* the contexts that may exist
    Root,           \* the context the application creates first
    Parents,        \* the contexts others are made from
    Writers,        \* the contexts whose setters the application calls
    Hardforks,      \* values of defaultHardfork
    Settings,       \* values of the ordinary option
    Providers,      \* providers to choose from
    NoCommon        \* defaultCommon is undefined

ConstantsOK ==
    /\ Root \in Parents /\ Parents \subseteq Contexts /\ Writers \subseteq Contexts
    /\ Hardforks # {} /\ Settings # {} /\ Providers # {} /\ NoCommon \notin Hardforks

VARIABLES
    made,           \* the contexts that exist
    config,         \* config of each; a common is known by its hardfork
    listeners,      \* the contexts that hear CONFIG_CHANGE of each
    manager,        \* the request manager of each, known by the context it was made for
    provider,       \* the provider of each request manager
    rpcSpec         \* useRpcCallSpecification of each request manager

vars == <<made, config, listeners, manager, provider, rpcSpec>>

Features == [useSubscriptionWhenCheckingBlockTimeout : BOOLEAN,
             useRpcCallSpecification : BOOLEAN]

Configs == [defaultHardfork : Hardforks, defaultCommon : Hardforks \cup {NoCommon},
            handleRevert : Settings, enableExperimentalFeatures : Features]

TypeOK ==
    /\ made \subseteq Contexts
    /\ config \in [Contexts -> Configs]
    /\ listeners \in [Contexts -> SUBSET Contexts]
    /\ manager \in [Contexts -> Contexts]
    /\ provider \in [Contexts -> Providers]
    /\ rpcSpec \in [Contexts -> BOOLEAN]

(* The constructor with init options: the configuration is assigned without   *)
(* the setters, and one feature flag is handed to the request manager.        *)
RpcSpecOf(cfg) == cfg.enableExperimentalFeatures.useSubscriptionWhenCheckingBlockTimeout

(* The application creates the root; what the others hold before they are     *)
(* made does not matter.                                                      *)
Init ==
    /\ made = {Root}
    /\ config \in [Contexts -> {cfg \in Configs : cfg.defaultCommon = NoCommon}]
    /\ \A c \in Contexts \ {Root} : config[c] = config[Root]
    /\ listeners = [c \in Contexts |-> {}]
    /\ manager = [c \in Contexts |-> c]
    /\ provider \in [Contexts -> Providers]
    /\ rpcSpec = [c \in Contexts |-> RpcSpecOf(config[c])]

-----------------------------------------------------------------------------
(* use(): a new context is built from the parent's context object.            *)
Use(p, c) ==
    /\ p \in made \cap Parents /\ c \notin made
    /\ made' = made \cup {c}
    /\ config' = [config EXCEPT ![c] = config[p]]
    /\ manager' = [manager EXCEPT ![c] = manager[p]]
    /\ listeners' = [listeners EXCEPT ![p] = @ \cup {c}]
    /\ UNCHANGED <<provider, rpcSpec>>

(* link(): an existing context takes over configuration and managers. The     *)
(* listeners it left at former parents stay. Setting the provider of the      *)
(* parent's manager to what it is leaves the provider as it was.              *)
Link(c, p) ==
    /\ config' = [config EXCEPT ![c] = config[p]]
    /\ manager' = [manager EXCEPT ![c] = manager[p]]
    /\ listeners' = [listeners EXCEPT ![p] = @ \cup {c}]
    /\ UNCHANGED <<provider, rpcSpec>>

(* registerPlugin(): refused if the namespace is taken.                       *)
RegisterPlugin(p, c) ==
    /\ p \in made \cap Parents /\ c \notin made
    /\ made' = made \cup {c}
    /\ Link(c, p)

(* An application may also link a context again.                              *)
Relink(c, p) ==
    /\ {p, c} \subseteq made /\ p \in Parents /\ c \notin Parents
    /\ Link(c, p)
    /\ UNCHANGED made

(* provider=, currentProvider= and setProvider() of any context.              *)
SetProvider(c, q) ==
    /\ c \in made
    /\ provider' = [provider EXCEPT ![manager[c]] = q]
    /\ UNCHANGED <<made, config, listeners, manager, rpcSpec>>

-----------------------------------------------------------------------------
(* The checks of the setters of defaultHardfork and defaultCommon. The pair   *)
(* defaultChain and baseChain has the same ones.                              *)
Consistent(cfg, name, v) ==
    /\ name = "defaultHardfork" => cfg.defaultCommon \in {NoCommon, v}
    /\ name = "defaultCommon" => v \in {NoCommon, cfg.defaultHardfork}

FaultReached(c) == {c}

(* The contexts a setter of c reaches: c itself, and those that listen to it. *)
(* Their setConfig() checks nothing and emits no event of its own.            *)
Reached(c) == {c} \cup listeners[c]

Set(c, name, v) ==
    /\ c \in made \cap Writers
    /\ Consistent(config[c], name, v)
    /\ config' = [d \in Contexts |->
                    IF d \in Reached(c) THEN [config[d] EXCEPT ![name] = v] ELSE config[d]]
    /\ UNCHANGED <<made, listeners, manager, provider, rpcSpec>>

-----------------------------------------------------------------------------
Next ==
    \/ \E p, c \in Contexts : Use(p, c) \/ RegisterPlugin(p, c) \/ Relink(c, p)
    \/ \E c \in Contexts :
          \/ \E q \in Providers : SetProvider(c, q)
          \/ \E v \in Hardforks : Set(c, "defaultHardfork", v)
          \/ \E v \in Hardforks \cup {NoCommon} : Set(c, "defaultCommon", v)
          \/ \E v \in Settings : Set(c, "handleRevert", v)

Spec == Init /\ [][Next]_vars

-----------------------------------------------------------------------------
(* A context that was made from the root or linked to it, and to no other,    *)
(* and whose own setters the application leaves alone. The listeners a        *)
(* context left at former parents count.                                      *)
Follows(c) ==
    c = Root \/ (c \notin Writers /\ \A p \in Contexts : c \in listeners[p] => p = Root)

(* 'should change config of child context': whatever the setters of the root  *)
(* and of other contexts were called with, whenever it was made and whatever  *)
(* is linked to it, a context that follows the root has its configuration.    *)
ConfigsAgree == \A c \in made : Follows(c) => config[c] = config[Root]

(* 'should use same instance of request manager': a provider set on any       *)
(* context is the provider of all.                                            *)
ProvidersAgree == \A c \in made : provider[manager[c]] = provider[manager[Root]]

(* "validation check if default hardfork is set and matches defaultCommon     *)
(* hardfork": no context that follows the root has a defaultCommon for        *)
(* another hardfork than its default.                                         *)
HardforksMatch ==
    \A c \in made : Follows(c) =>
       config[c].defaultCommon \in {NoCommon, config[c].defaultHardfork}

(* Why these hold: a context that follows the root listens to it, nothing     *)
(* else writes to it, and nothing but its setters to the root.                *)
HearsItsParent ==
    /\ \A c \in made \ {Root} : \E p \in Contexts : c \in listeners[p]
    /\ \A p \in Contexts : Root \notin listeners[p]

OneManager == \A c \in made : manager[c] = manager[Root]

Inv ==
    /\ TypeOK /\ Root \in made
    /\ HearsItsParent /\ OneManager /\ ConfigsAgree /\ HardforksMatch

-----------------------------------------------------------------------------
(* What comments, tests and documents say and the code does not do.           *)

(* "your plugin's Web3Context will point to the module's Web3Context": a      *)
(* context has the configuration of those it listens to.                      *)
LinkedAgree == \A p \in made : \A c \in listeners[p] : config[c] = config[p]

(* The same check, for any context.                                           *)
AllHardforksMatch ==
    \A c \in made : config[c].defaultCommon \in {NoCommon, config[c].defaultHardfork}

(* The request manager of a new context reports errors as                     *)
(* useRpcCallSpecification says.                                              *)
SpecificationAsConfigured ==
    \A c \in made :
       rpcSpec[manager[c]] = config[c].enableExperimentalFeatures.useRpcCallSpecification
=============================================================================
