------------------------------ MODULE Fragments -------------------------------
(* Fragments of an interface and their human-readable form, fragments.ts of   *)
(* packages/abi: a JSON object becomes a fragment, a fragment is formatted,   *)
(* and what was formatted is parsed again.                                    *)
(*                                                                            *)
(* A text is a sequence of tokens: the characters the parser tells apart and  *)
(* the words between them. A parameter is a record [type, name, indexed,      *)
(* comps]; its type is the tokens of its text, its base type, array length    *)
(* and array children are read off them as the constructor of ParamType does. *)
(* A field that may be missing is "none"; comps is empty where there are no   *)
(* components.                                                                *)
EXTENDS Integers, Sequences, SequencesExt

CONSTANTS
    Objects,    \* the JSON objects an application makes fragments of
    Texts,      \* the signatures it writes, as tokens
    Digits      \* the tokens that are numbers

VARIABLES
    object,     \* the JSON object, or [kind |-> "text", tokens]
    fragment,   \* the fragment made of it, Absent if it was refused
    stage,      \* how far the calls are: "given", "made", "formatted", "read"
    format,     \* the format asked for
    text,       \* what format() returned
    parsed      \* the fragment made of that

vars == <<object, fragment, stage, format, text, parsed>>

Absent == [kind |-> "none"]
NoComps == <<>>
Formats == {"sighash", "minimal", "full", "json"}

-----------------------------------------------------------------------------
(* verifyType(): uint and int stand for 512 bits.                             *)
VerifyType(type) ==
    IF type = <<>> THEN type
    ELSE [type EXCEPT ![1] = CASE @ = "uint" -> "uint512" [] @ = "int" -> "int512" [] OTHER -> @]

(* checkModifier(): whether a word after the type is a data location.         *)
Locations == {"calldata", "memory", "storage"}
Modifier(type, name) ==
    LET here == CASE type \in {<<"bytes">>, <<"string">>} -> name \in Locations
                  [] type = <<"address">> -> name = "payable"
                  [] OTHER -> /\ type = <<"tuple">> \/ "[" \in Range(type)
                              /\ name \in {"calldata", "memory"}
    IN  IF here THEN "yes" ELSE IF name \in Locations \cup {"payable"} THEN "throw" ELSE "no"

-----------------------------------------------------------------------------
(* parseParamType(): a stack of open nodes, the current one last; `allow' are *)
(* the flags of its state. "error" is the stack of a text that was refused.   *)
Node(indexed) ==
    [type |-> <<>>, name |-> "", indexed |-> indexed, comps |-> NoComps, allow |-> {"type"}]

NewNode(allowIndexed) == Node(IF allowIndexed THEN "no" ELSE "none")

(* What ends a word after the type: `indexed', a data location, or a name.    *)
(* `twice' tells the calls that refuse a second `indexed'.                    *)
Word(node, allowIndexed, twice) ==
    IF node.name = "indexed"
    THEN IF ~allowIndexed \/ (twice /\ node.indexed = "yes") THEN Absent
         ELSE [node EXCEPT !.indexed = "yes", !.name = ""]
    ELSE CASE Modifier(node.type, node.name) = "yes" -> [node EXCEPT !.name = ""]
           [] Modifier(node.type, node.name) = "throw" -> Absent
           [] OTHER -> node

(* A node that is complete: its type is verified.                             *)
Completed(node) == [node EXCEPT !.type = VerifyType(@)]

Error == <<>>

Opened(stack, allowIndexed) ==
    LET node == Last(stack)
        bare == "type" \in node.allow /\ node.type = <<>>
    IN  IF ~bare /\ "params" \notin node.allow THEN Error
        ELSE Front(stack) \o
             <<[node EXCEPT !.type = IF bare THEN <<"tuple">> ELSE VerifyType(@), !.comps = <<>>,
                            !.allow = @ \ {"type"}],
               NewNode(allowIndexed)>>

(* A node that a `)' or a `,' ends joins the components of its parent.        *)
Under(parents, node) ==
    IF node = Absent \/ parents = <<>> THEN Error
    ELSE [parents EXCEPT ![Len(parents)].comps = Append(@, Completed(node))]

Joined(stack, allowIndexed) == Under(Front(stack), Word(Last(stack), allowIndexed, FALSE))

FaultClosed(stack, allowIndexed) ==     \* no array of tuples
    LET up == Joined(stack, allowIndexed)
    IN  IF up = Error THEN Error
        ELSE [up EXCEPT ![Len(up)].allow = (@ \ {"params", "array"}) \cup {"name"}]

Closed(stack, allowIndexed) ==
    LET up == Joined(stack, allowIndexed)
    IN  IF up = Error THEN Error
        ELSE [up EXCEPT ![Len(up)].allow = (@ \ {"params"}) \cup {"name", "array"}]

Spaced(stack, allowIndexed) ==
    LET node == Last(stack)
        typed == IF "type" \in node.allow /\ node.type # <<>>
                 THEN [node EXCEPT !.type = VerifyType(@),
                                   !.allow = (@ \ {"type"}) \cup {"name", "params"}]
                 ELSE node
        named == IF "name" \in typed.allow /\ typed.name # ""
                 THEN Word(typed, allowIndexed, TRUE) ELSE typed
    IN  IF named = Absent THEN Error
        ELSE Append(Front(stack),
                    IF named.name # "" THEN [named EXCEPT !.allow = @ \ {"name"}] ELSE named)

Bracket(stack, c) ==
    LET node == Last(stack)
        open == c = "["
    IN  IF (IF open THEN "array" ELSE "read") \notin node.allow THEN Error
        ELSE Append(Front(stack),
                    [node EXCEPT !.type = Append(@, c),
                                 !.allow = IF open THEN (@ \ {"array", "name"}) \cup {"read"}
                                                   ELSE (@ \ {"read"}) \cup {"array", "name"}])

Worded(stack, c) ==
    LET node == Last(stack)
    IN  CASE "type" \in node.allow ->
                Append(Front(stack), [node EXCEPT !.type = Append(@, c), !.allow = @ \cup {"params", "array"}])
          [] "type" \notin node.allow /\ "name" \in node.allow ->
                Append(Front(stack), [node EXCEPT !.name = c, !.allow = @ \ {"array"}])
          [] node.allow \cap {"type", "name"} = {} /\ "read" \in node.allow ->
                Append(Front(stack), [node EXCEPT !.type = Append(@, c)])
          [] OTHER -> Error

Step(stack, c, allowIndexed) ==
    IF stack = Error THEN Error
    ELSE CASE c = "(" -> Opened(stack, allowIndexed)
           [] c = ")" -> Closed(stack, allowIndexed)
           [] c = "," -> LET up == Joined(stack, allowIndexed)
                         IN  IF up = Error THEN Error ELSE Append(up, NewNode(allowIndexed))
           [] c = " " -> Spaced(stack, allowIndexed)
           [] c \in {"[", "]"} -> Bracket(stack, c)
           [] OTHER -> Worded(stack, c)

(* ParamTypify(): the node without the state of the parser.                   *)
RECURSIVE ParamTypify(_)
ParamTypify(node) ==
    [type |-> VerifyType(node.type), name |-> node.name, indexed |-> node.indexed,
     comps |-> IF node.comps = NoComps THEN NoComps
               ELSE [i \in DOMAIN node.comps |-> ParamTypify(node.comps[i])]]

Parsed(stack, allowIndexed) ==
    LET node == Word(stack[1], allowIndexed, TRUE)
    IN  IF Len(stack) # 1 THEN Absent
        ELSE IF node = Absent THEN Absent ELSE ParamTypify(node)

ParamFromString(tokens, allowIndexed) ==
    Parsed(FoldLeft(LAMBDA stack, c : Step(stack, c, allowIndexed), <<Node("none")>>, tokens),
           allowIndexed)

-----------------------------------------------------------------------------
(* splitNesting() and parseParams(): the pieces between the commas that are   *)
(* in no parentheses.                                                         *)
Split(tokens) ==
    FoldLeft(LAMBDA st, c :
                IF c = "," /\ st.depth = 0
                THEN [st EXCEPT !.done = Append(@, st.piece), !.piece = <<>>]
                ELSE [st EXCEPT !.piece = Append(@, c),
                                !.depth = @ + (CASE c = "(" -> 1 [] c = ")" -> -1 [] OTHER -> 0),
                                !.bad = @ \/ (c = ")" /\ st.depth = 0)],
             [done |-> <<>>, piece |-> <<>>, depth |-> 0, bad |-> FALSE], tokens)

OrAbsent(params) == IF Absent \in Range(params) THEN <<Absent>> ELSE params

ParseParams(tokens, allowIndexed) ==
    LET st == Split(tokens)
        pieces == IF st.piece = <<>> THEN st.done ELSE Append(st.done, st.piece)
    IN  IF st.bad THEN <<Absent>>
        ELSE OrAbsent([i \in DOMAIN pieces |-> ParamFromString(pieces[i], allowIndexed)])

-----------------------------------------------------------------------------
(* ParamType.format(): the constructor takes a trailing [n] for an array of   *)
(* the rest of the type, with the same components.                            *)
Join(parts, sep) ==
    FoldLeft(LAMBDA all, part : IF all = <<>> THEN part ELSE all \o sep \o part, <<>>, parts)

Brackets(type) ==
    LET n == Len(type)
    IN  CASE n >= 2 /\ type[n] = "]" /\ type[n - 1] = "[" -> 2
          [] n >= 3 /\ type[n] = "]" /\ type[n - 1] \in Digits -> 3
          [] OTHER -> 0
Children(p) == [type |-> SubSeq(p.type, 1, Len(p.type) - Brackets(p.type)),
                name |-> "", indexed |-> "none", comps |-> p.comps]

RECURSIVE FormatParam(_, _)
FormatParam(p, f) ==
    LET base ==
            IF Brackets(p.type) > 0
            THEN FormatParam(Children(p), f) \o SubSeq(p.type, Len(p.type) - Brackets(p.type) + 1, Len(p.type))
            ELSE IF p.comps = NoComps THEN p.type
            ELSE (IF f = "sighash" THEN <<>> ELSE p.type)
                   \o <<"(">> \o Join([i \in DOMAIN p.comps |-> FormatParam(p.comps[i], f)],
                                      IF f = "full" THEN <<",", " ">> ELSE <<",">>) \o <<")">>
    IN  base \o (IF f # "sighash" /\ p.indexed = "yes" THEN <<" ", "indexed">> ELSE <<>>)
             \o (IF f = "full" /\ p.name # "" THEN <<" ", p.name>> ELSE <<>>)

FormatParams(params, f) ==
    Join([i \in DOMAIN params |-> FormatParam(params[i], f)], IF f = "full" THEN <<",", " ">> ELSE <<",">>)

-----------------------------------------------------------------------------
(* verifyState(): what the three fields that may say whether a function reads *)
(* or takes value make of each other; Absent if they disagree or say too      *)
(* little.                                                                    *)
YesNo(b) == IF b THEN "yes" ELSE "no"
State(constant, payable, mutability) ==
    [constant |-> constant, payable |-> payable, mutability |-> mutability]

VerifyState(v) ==
    CASE v.mutability # "none" ->
            LET s == State(YesNo(v.mutability \in {"view", "pure"}), YesNo(v.mutability = "payable"), v.mutability)
            IN  IF v.constant \in {"none", s.constant} /\ v.payable \in {"none", s.payable} THEN s ELSE Absent
      [] v.mutability = "none" /\ v.payable # "none" ->
            IF \/ v.constant = "none" /\ v.payable = "no" /\ v.kind # "constructor"
               \/ v.payable = "yes" /\ v.constant = "yes"
            THEN Absent
            ELSE State(YesNo(v.constant = "yes"), v.payable,
                       CASE v.constant = "yes" -> "view" [] v.constant # "yes" /\ v.payable = "yes" -> "payable"
                         [] OTHER -> "nonpayable")
      [] v.mutability = "none" /\ v.payable = "none" /\ v.constant # "none" ->
            State(v.constant, YesNo(v.constant = "no"), IF v.constant = "yes" THEN "view" ELSE "payable")
      [] OTHER -> IF v.kind = "constructor" THEN State("no", "yes", "payable") ELSE Absent

(* The fromObject() methods: types are verified, names must be identifiers,   *)
(* a constructor is not constant and an error is none of the built-in ones.   *)
Fragment(v, s) ==
    [kind |-> v.kind, name |-> IF v.kind = "constructor" THEN "" ELSE v.name,
     anonymous |-> v.anonymous, inputs |-> v.inputs, outputs |-> v.outputs, gas |-> v.gas, state |-> s]

NoState == State("none", "none", "none")

BuiltIn(v) ==
    \/ v.name = "Error" /\ FormatParams(v.inputs, "sighash") = <<"string">>
    \/ v.name = "Panic" /\ FormatParams(v.inputs, "sighash") = <<"uint512">>

RECURSIVE Verified(_)
Verified(p) == [p EXCEPT !.type = VerifyType(@),
                         !.comps = IF @ = NoComps THEN @ ELSE [i \in DOMAIN @ |-> Verified(@[i])]]

FunctionFromObject(v) ==
    LET s == VerifyState(v)
    IN  IF s = Absent \/ v.name = "" THEN Absent ELSE Fragment(v, s)
ConstructorFromObject(v) ==
    LET s == VerifyState(v)
    IN  IF s = Absent \/ s.constant = "yes" THEN Absent ELSE Fragment(v, s)
EventFromObject(v) == IF v.name = "" THEN Absent ELSE Fragment(v, NoState)
ErrorFromObject(v) == IF v.name = "" \/ BuiltIn(v) THEN Absent ELSE Fragment(v, NoState)

FromVerified(v) ==
    CASE v.kind = "function" -> FunctionFromObject(v)
      [] v.kind = "constructor" -> ConstructorFromObject(v)
      [] v.kind = "event" -> EventFromObject(v)
      [] v.kind = "error" -> ErrorFromObject(v)

FromObject(v) == FromVerified([v EXCEPT !.inputs = [i \in DOMAIN @ |-> Verified(@[i])],
                                        !.outputs = [i \in DOMAIN @ |-> Verified(@[i])]])

-----------------------------------------------------------------------------
(* The format() methods, without the spaces that trim() removes. JSON leaves  *)
(* out the mutability of what is not payable.                                 *)
MutabilityText(fr) ==
    IF fr.state.mutability \in {"none", "nonpayable"} THEN <<>> ELSE <<" ", fr.state.mutability>>

Inputs(fr, f) == <<"(">> \o FormatParams(fr.inputs, f) \o <<")">>

FormatError(fr, f) ==
    (IF f = "sighash" THEN <<>> ELSE <<fr.kind, " ">>) \o <<fr.name>> \o Inputs(fr, f)

FormatEvent(fr, f) ==
    FormatError(fr, f) \o (IF f # "sighash" /\ fr.anonymous THEN <<" ", "anonymous">> ELSE <<>>)

FormatConstructor(fr, f) == <<"constructor">> \o Inputs(fr, f) \o MutabilityText(fr)

FormatFunction(fr, f) ==
    LET outputs == Join([i \in DOMAIN fr.outputs |-> FormatParam(fr.outputs[i], f)], <<",", " ">>)
    IN  FormatError(fr, f) \o
        (IF f = "sighash" THEN <<>>
         ELSE MutabilityText(fr)
                \o (IF fr.outputs = <<>> THEN <<>> ELSE <<" ", "returns", " ", "(">> \o outputs \o <<")">>)
                \o (IF fr.gas = "none" THEN <<>> ELSE <<" ", "@", fr.gas>>))

FormatText(fr, f) ==
    CASE fr.kind = "constructor" -> FormatConstructor(fr, f)
      [] fr.kind = "error" -> FormatError(fr, f)
      [] fr.kind = "event" -> FormatEvent(fr, f)
      [] fr.kind = "function" -> FormatFunction(fr, f)

FormatJson(fr) ==
    [kind |-> fr.kind, name |-> fr.name, anonymous |-> fr.anonymous, inputs |-> fr.inputs,
     outputs |-> fr.outputs, gas |-> fr.gas, payable |-> fr.state.payable,
     constant |-> IF fr.kind = "function" THEN fr.state.constant ELSE "none",
     mutability |-> IF fr.state.mutability = "nonpayable" THEN "none" ELSE fr.state.mutability]

-----------------------------------------------------------------------------
(* Fragment.fromString(): a space before every `(' and after every `)', and   *)
(* no two in a row.                                                           *)
Normalized(tokens) ==
    LET wide == FlattenSeq([i \in DOMAIN tokens |->
                    CASE tokens[i] = "(" -> <<" ", "(">> [] tokens[i] = ")" -> <<")", " ">>
                      [] OTHER -> <<tokens[i]>>])
    IN  FoldLeft(LAMBDA all, c : IF c = " " /\ (all = <<>> \/ Last(all) = " ") THEN all ELSE Append(all, c),
                 <<>>, wide)

(* regexParen: what is before the first `(', in the outer parentheses and     *)
(* after the last `)'.                                                        *)
Where(tokens, c) == {i \in DOMAIN tokens : tokens[i] = c}
Inside(tokens) ==
    LET open == CHOOSE i \in Where(tokens, "(") : \A j \in Where(tokens, "(") : i <= j
        close == CHOOSE i \in Where(tokens, ")") : \A j \in Where(tokens, ")") : j <= i
    IN  [before |-> SubSeq(tokens, 1, open - 1), params |-> SubSeq(tokens, open + 1, close - 1),
         after |-> SubSeq(tokens, close + 1, Len(tokens))]

(* parseModifiers(): later words overwrite what earlier ones said.            *)
ParseModifiers(words) ==
    FoldLeft(LAMBDA s, w : CASE w = "payable" -> [s EXCEPT !.payable = "yes", !.mutability = w]
                             [] w = "nonpayable" -> [s EXCEPT !.payable = "no", !.mutability = w]
                             [] w \in {"pure", "view"} -> [s EXCEPT !.constant = "yes", !.mutability = w]
                             [] w = "constant" -> [s EXCEPT !.constant = "yes"]
                             [] OTHER -> s,
             State("no", "no", "nonpayable"), words)

(* parseGas() and the split at ` returns '.                                   *)
UpTo(tokens, c) ==
    LET at == Where(tokens, c)
    IN  IF at = {} THEN tokens ELSE SubSeq(tokens, 1, (CHOOSE i \in at : \A j \in at : i <= j) - 1)
After(tokens, c) == SubSeq(tokens, Len(UpTo(tokens, c)) + 2, Len(tokens))

(* The fromString() methods: what each kind reads of its line.                *)
Named(kind, main) ==
    [kind |-> kind, anonymous |-> FALSE, inputs |-> ParseParams(main.params, kind = "event"),
     name |-> IF kind = "constructor" THEN ""
              ELSE SelectSeq(main.before, LAMBDA w : w # " ")[2],
     outputs |-> <<>>, gas |-> "none", payable |-> "none", constant |-> "none", mutability |-> "none"]

Stated(v, main, line) ==
    LET s == ParseModifiers(main.after)
    IN  [v EXCEPT !.payable = s.payable, !.constant = s.constant, !.mutability = s.mutability,
                  !.gas = IF Where(line, "@") = {} THEN "none" ELSE After(line, "@")[1]]

ErrorFromString(line) == Named("error", Inside(line))

EventFromString(line) ==
    LET main == Inside(line)
    IN  [Named("event", main) EXCEPT !.anonymous = "anonymous" \in Range(main.after)]

Called(kind, main, line) == Stated(Named(kind, main), main, line)

ConstructorFromString(line) == Called("constructor", Inside(UpTo(line, "@")), line)

OutputsFromString(line) ==
    IF Where(line, "returns") = {} THEN <<>>
    ELSE ParseParams(Inside(After(line, "returns")).params, FALSE)

FunctionFromString(line) ==
    LET ungassed == UpTo(line, "@")
    IN  [Called("function", Inside(UpTo(ungassed, "returns")), line)
            EXCEPT !.outputs = OutputsFromString(ungassed)]

FromParsed(v) ==
    IF Absent \in Range(v.inputs) \cup Range(v.outputs) THEN Absent ELSE FromObject(v)

FromLine(line) ==
    FromParsed(CASE line[1] = "event" -> EventFromString(line)
                 [] line[1] = "function" -> FunctionFromString(line)
                 [] line[1] = "constructor" -> ConstructorFromString(line)
                 [] line[1] = "error" -> ErrorFromString(line))

FromString(tokens) == FromLine(Normalized(tokens))

-----------------------------------------------------------------------------
Init ==
    /\ object \in Objects \cup {[kind |-> "text", tokens |-> t] : t \in Texts}
    /\ stage = "given"
    /\ fragment = Absent /\ format = "none" /\ text = <<>> /\ parsed = Absent

Idle ==
    /\ object = Absent /\ stage = "idle"
    /\ fragment = Absent /\ format = "none" /\ text = <<>> /\ parsed = Absent

(* Fragment.from() on the object or the string.                               *)
Make ==
    /\ stage = "given"
    /\ stage' = "made"
    /\ fragment' = IF object.kind = "text" THEN FromString(object.tokens) ELSE FromObject(object)
    /\ UNCHANGED <<object, format, text, parsed>>

(* fragment.format(); a constructor has no sighash.                           *)
FormatAs(f) ==
    /\ stage = "made" /\ fragment # Absent
    /\ f = "sighash" => fragment.kind # "constructor"
    /\ stage' = "formatted"
    /\ format' = f
    /\ text' = IF f = "json" THEN <<FormatJson(fragment)>> ELSE FormatText(fragment, f)
    /\ UNCHANGED <<object, fragment, parsed>>

(* Fragment.from() on the result; a sighash alone is no fragment.             *)
ReadBack ==
    /\ stage = "formatted" /\ format # "sighash"
    /\ stage' = "read"
    /\ parsed' = IF format = "json" THEN FromObject(text[1]) ELSE FromString(text)
    /\ UNCHANGED <<object, fragment, format, text>>

Done ==
    /\ stage = "read" \/ format = "sighash" \/ (stage = "made" /\ fragment = Absent)
    /\ UNCHANGED vars

Next == Make \/ (\E f \in Formats : FormatAs(f)) \/ ReadBack \/ Done

Spec == Init /\ [][Next]_vars

-----------------------------------------------------------------------------
RECURSIVE Bare(_, _), Typed(_)

(* A parameter that has a type, at every depth: "f(,)" is read as one that    *)
(* has none.                                                                  *)
Typed(p) == p.type # <<>> /\ \A i \in DOMAIN p.comps : Typed(p.comps[i])

(* What a format keeps of a parameter: minimal drops the names; a parameter   *)
(* that is not indexed is "no" in JSON and null from a string.                *)
Bare(p, f) == [p EXCEPT !.name = IF f = "minimal" THEN "" ELSE @, !.indexed = YesNo(@ = "yes"),
                        !.comps = IF @ = NoComps THEN @ ELSE [i \in DOMAIN @ |-> Bare(@[i], f)]]

BareFragment(fr, f) ==
    [fr EXCEPT !.inputs = [i \in DOMAIN @ |-> Bare(@[i], f)],
               !.outputs = [i \in DOMAIN @ |-> Bare(@[i], f)],
               !.gas = IF fr.kind = "constructor" /\ f # "json" THEN "none" ELSE @]

(* What format() writes, Fragment.from() reads back as the same fragment: the *)
(* same types at every depth of tuples and arrays, names (in full and JSON),  *)
(* indexed inputs, mutability and gas. It is never refused, and its sighash,  *)
(* from which selectors and topics are computed, is unchanged. The one loss   *)
(* is the gas of a constructor, which only JSON shows.                        *)
FormatParses ==
    stage = "read" /\ (\A i \in DOMAIN fragment.inputs : Typed(fragment.inputs[i])) =>
        /\ parsed # Absent
        /\ BareFragment(parsed, format) = BareFragment(fragment, format)
        /\ fragment.kind # "constructor" => FormatText(parsed, "sighash") = FormatText(fragment, "sighash")
===============================================================================
