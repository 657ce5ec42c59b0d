-------------------------- MODULE ContractInterface --------------------------
(* The JSON interface of a Contract: the table of overloads by name, the      *)
(* entries of contract.methods and contract.events, and which fragment a call *)
(* through one of them is made with.                                          *)
EXTENDS Naturals, FiniteSetsExt, Sequences, SequencesExt, Filters

CONSTANTS
    Functions,      \* fragments of functions: kind, name and types of the inputs
    Events,         \* fragments of events
    Params,         \* parameters of calls, by the types that the validator tells apart
    MaxFragments,   \* bound: fragments of an interface
    MaxSets         \* bound: times options.jsonInterface is set

Fragment(kind) == [kind : {kind}, name : STRING, inputs : Seq({"uint", "bytes", "string"})]

ConstantsOK ==
    /\ Functions \subseteq Fragment("function") /\ Events \subseteq Fragment("event")
    /\ Params \subseteq Seq({"number", "hex", "text"})
    /\ MaxFragments \in Nat \ {0} /\ MaxSets \in Nat

Fragments == Functions \cup Events
Names == {fr.name : fr \in Fragments}

Interfaces ==
    {s \in UNION {[1..n -> Fragments] : n \in 1..MaxFragments} : IsInjective(s)}

(* Keys of contract.methods and contract.events: a name, or the name with the *)
(* types of the parameters (the hashed signature is the same entry).          *)
Bare == <<"any">>
Keys(kind) == {[name |-> fr.name, inputs |-> i] : fr \in {x \in Fragments : x.kind = kind},
                  i \in {Bare} \cup {x.inputs : x \in Fragments}}

None == [how |-> "none"]

VARIABLES
    jsonInterface,  \* _jsonInterface
    overloads,      \* _overloadedMethodAbis: [name -> sequence of functions]
    sets,           \* times the interface was set on this object
    made,           \* the method object asked for last, if that was the last call
    past            \* the event whose past was asked for, if that was the last call

vars == <<jsonInterface, overloads, sets, made, past>>

-----------------------------------------------------------------------------
OfName(abis, kind, n) == {i \in DOMAIN abis : abis[i].kind = kind /\ abis[i].name = n}
Named(abis, kind, n) == Picked(abis, OfName(abis, kind, n))

(* The fragment that the entry `key' was created with. An entry under a bare  *)
(* name is overwritten by every later fragment of that name.                  *)
Entry(abis, kind, key) ==
    LET all  == OfName(abis, kind, key.name)
        sigs == {i \in all : abis[i].inputs = key.inputs}
    IN  abis[IF key.inputs = Bare THEN Max(all) ELSE Min(sigs)]

HasEntry(abis, kind, key) ==
    \E i \in OfName(abis, kind, key.name) : key.inputs \in {Bare, abis[i].inputs}

(* transformJsonDataToAbiFormat(): the parameters cut to the inputs of a       *)
(* fragment. Those over its number are dropped, those it lacks are undefined. *)
Cast(inputs, params) ==
    [i \in DOMAIN inputs |-> IF i \in DOMAIN params THEN params[i] ELSE "undefined"]

(* What the validator accepts for a parameter of each type. A hex string is   *)
(* a number, bytes and a string; what is undefined is nothing.                *)
Accepts(inputs, args) ==
    /\ Len(inputs) = Len(args)
    /\ \A i \in DOMAIN inputs :
          args[i] \in CASE inputs[i] = "uint"   -> {"number", "hex"}
                        [] inputs[i] = "bytes"  -> {"hex"}
                        [] inputs[i] = "string" -> {"hex", "text"}

(* _parseAndSetJsonInterface(): what it adds to the table of overloads.       *)
Collected(abis, table) == [n \in Names |-> table[n] \o Named(abis, "function", n)]

Empty == [n \in Names |-> <<>>]

-----------------------------------------------------------------------------
TypeOK ==
    /\ jsonInterface \in Interfaces
    /\ overloads \in [Names -> Seq(Functions)]
    /\ \A n \in Names : \A i \in DOMAIN overloads[n] : overloads[n][i].name = n
    /\ sets \in 0..MaxSets
    /\ made.how \in {"none", "made", "refused"}
    /\ past.how \in {"none", "asked"}

(* The constructor, and the contract it makes.                                *)
Init ==
    /\ jsonInterface \in Interfaces
    /\ overloads = Collected(jsonInterface, Empty)
    /\ sets = 0 /\ made = None /\ past = None

(* contract.options.jsonInterface = abis: the table is added to, not replaced. *)
SetJsonInterface ==
    /\ sets < MaxSets
    /\ \E abis \in Interfaces :
          /\ jsonInterface' = abis
          /\ overloads' = Collected(abis, overloads)
    /\ sets' = sets + 1
    /\ made' = None /\ past' = None

(* The program goes on with contract.clone(), which is a new Contract.        *)
Clone ==
    /\ overloads' = Collected(jsonInterface, Empty)
    /\ sets' = 0 /\ made' = None /\ past' = None
    /\ UNCHANGED jsonInterface

-----------------------------------------------------------------------------
Refused == [how |-> "refused"]

Same(abis, params) == {i \in DOMAIN abis : Len(abis[i].inputs) = Len(params)}

FaultSelected(abi, abis, params) ==
    IF Same(abis, params) # {} THEN [abi |-> abis[Min(Same(abis, params))], args |-> params]
    ELSE Refused

(* What a call of an entry is made with. With one function of the name, or    *)
(* none with as many inputs, it is the first of the name, with the parameters *)
(* cut to it; what is validated is whether `abi', the fragment the entry was  *)
(* created with, takes these. Otherwise it is the first with as many inputs   *)
(* that takes the parameters.                                                 *)
Selected(abi, abis, params) ==
    LET fit  == {i \in Same(abis, params) : Accepts(abis[i].inputs, params)}
        args == Cast(abis[1].inputs, params)
    IN  IF Len(abis) = 1 \/ Same(abis, params) = {}
        THEN IF Accepts(abi.inputs, args) THEN [abi |-> abis[1], args |-> args] ELSE Refused
        ELSE IF fit # {} THEN [abi |-> abis[Min(fit)], args |-> params] ELSE Refused

(* contract.methods[key](...params)                                           *)
Method(key, params) ==
    /\ HasEntry(jsonInterface, "function", key)
    /\ LET x == Selected(Entry(jsonInterface, "function", key), overloads[key.name], params)
       IN  made' = IF x = Refused
                   THEN [how |-> "refused", key |-> key, params |-> params]
                   ELSE [how |-> "made", key |-> key, params |-> params,
                         abi |-> x.abi, args |-> x.args]
    /\ past' = None
    /\ UNCHANGED <<jsonInterface, overloads, sets>>

(* contract.events[key]({fromBlock}): the past logs of the event are decoded  *)
(* with the fragment that getPastEvents() finds by its name.                  *)
PastEvents(key) ==
    /\ HasEntry(jsonInterface, "event", key)
    /\ past' = [how |-> "asked", abi |-> Entry(jsonInterface, "event", key),
                as |-> jsonInterface[Min({i \in DOMAIN jsonInterface : jsonInterface[i].name = key.name})]]
    /\ made' = None
    /\ UNCHANGED <<jsonInterface, overloads, sets>>

Next ==
    \/ SetJsonInterface \/ Clone
    \/ \E key \in Keys("function"), params \in Params : Method(key, params)
    \/ \E key \in Keys("event") : PastEvents(key)

Spec == Init /\ [][Next]_vars

-----------------------------------------------------------------------------
Candidates == {fr \in Range(jsonInterface) :
                  /\ fr.kind = "function" /\ fr.name = made.key.name
                  /\ Accepts(fr.inputs, made.params)}

(* The functions known under the name that take as many parameters as given.  *)
AsMany == {fr \in Range(overloads[made.key.name]) : Len(fr.inputs) = Len(made.params)}

(* A method object is made for a function of the name. Where one of that name *)
(* has as many inputs, it encodes the very parameters, and the function it is *)
(* made with takes them; where the name has a single function, that takes     *)
(* what is left of them. Also after the interface has been set again.         *)
(* Parameters are refused only if no function of that name in the interface   *)
(* takes them.                                                                *)
SelectedFits ==
    /\ made.how = "made" =>
          /\ made.abi.name = made.key.name
          /\ AsMany # {} => made.args = made.params
          /\ AsMany # {} \/ Len(overloads[made.key.name]) = 1 => Accepts(made.abi.inputs, made.args)
    /\ made.how = "refused" => Candidates = {}

(* Parameters that fit a single function of the interface call that function, *)
(* in a contract, or a clone of one, whose interface was not set again.       *)
OnlyFitIsTaken ==
    sets = 0 /\ made.how = "made" =>
       \A fr \in Candidates : Candidates = {fr} => made.abi = fr

-----------------------------------------------------------------------------
(* What comments, tests and documents say and the code does not do.           *)

(* "Re-setting this will regenerate the methods and events of the contract    *)
(* instance": a call is made with a function of the present interface.        *)
SelectedIsCurrent == made.how = "made" => made.abi \in Range(jsonInterface)

(* "The name with parameters: `myContract.methods['myMethod(uint256)'](123)`. *)
(* This allows calling functions with same name but different parameters":    *)
(* such an entry calls the function it names, given parameters for it.        *)
SignatureSelects ==
    made.how = "made" /\ Accepts(made.key.inputs, made.params) =>
       made.abi.inputs = made.key.inputs

(* "emit past events when fromBlock is defined": the past logs of an event    *)
(* are decoded as that event.                                                 *)
PastDecodedAsItself == past.how = "asked" => past.as = past.abi

(* What the types of contract.methods ask of a caller, and the validation of  *)
(* the parameters does not: that what a method object encodes is valid for    *)
(* the function it encodes it for, and that it is all that was given.         *)
ArgumentsFit == made.how = "made" => Accepts(made.abi.inputs, made.args)
NoneDropped == made.how = "made" => made.args = made.params
=============================================================================
