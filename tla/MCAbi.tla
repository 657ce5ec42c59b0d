-------------------------------- MODULE MCAbi ---------------------------------
(* Model-checking instance of the ABI: the coder and its callers, fragments   *)
(* and their human-readable form, typed data; and of the formatter, the       *)
(* validator and the converters, whose data MCValues has. They share no       *)
(* state: a behaviour exercises one of them, `part'.                          *)
EXTENDS AbiApi

CONSTANTS
    ForeignWords,   \* words of an answer that is not the library's encoding
    MaxTokens       \* tokens of the parameters of a signature

Scalar(k, size) == Type(k, size, <<>>, 0, "")
Array(p, len) == Type("array", 0, <<p>>, len, "")
Tuple(sub) == Type("tuple", 0, sub, 0, "")
As(p, name) == [p EXCEPT !.name = name]

U1 == Scalar("uint", 1)
U2 == Scalar("uint", 2)
I1 == Scalar("int", 1)
B1 == Scalar("fixed", 1)
Str == Scalar("string", 0)
Bytes == Scalar("bytes", 0)
Bool == Scalar("bool", 0)
Address == Scalar("address", 0)
Pair == Tuple(<<As(U1, "a"), As(Str, "b")>>)
Struct == Type("struct", 0, <<As(U1, "a"), Type("struct", 0, <<As(Bytes, "c")>>, 0, "In")>>, 0, "Out")
Structs == [Struct EXCEPT !.len = -1, !.sub = <<As(U1, "a"), As(Str, "b")>>]

Val(k, v) == [k |-> k, v |-> v]

(* A value that fills its type, and more than a word where it may.            *)
RECURSIVE Full(_)
Full(t) ==
    CASE t.k = "uint" -> Val("number", Base^t.size - 1)
      [] t.k = "int" -> Val("number", -(Base^t.size \div 2))
      [] t.k = "bool" -> Val("bool", TRUE)
      [] t.k = "fixed" -> Val("bytes", [i \in 1..t.size |-> Base - 1])
      [] t.k = "address" -> Val("bytes", [i \in 1..WordSize |-> i])
      [] t.k = "bytes" -> Val("bytes", [i \in 1..WordSize |-> Base - i])
      [] t.k = "string" -> Val("string", [i \in 1..WordSize + 1 |-> i])
      [] t.k = "null" -> Null
      [] t.k = "array" -> Val("list", [i \in 1..(IF t.len = -1 THEN 2 ELSE t.len) |-> Full(t.sub[1])])
      [] t.k = "tuple" -> Val("list", [i \in DOMAIN t.sub |-> Full(t.sub[i])])

Few(p) == {DefaultValue(MapType(p)), Full(MapType(p))}

(* Values at and past the ends of a type, by position and by name.            *)
Some(p) ==
    LET t == MapType(p)
    IN  Few(p) \cup
        CASE t.k = "uint" -> {Val("number", n) : n \in {Base^t.size, -1}}
          [] t.k = "int" -> {Val("number", n) : n \in {Base^t.size \div 2 - 1, Base^t.size \div 2}}
          [] t.k = "fixed" -> {Val("bytes", b) : b \in {<<>>, <<4>>, <<0, 1>>}}
          [] t.k = "address" -> {Val("bytes", <<1>>)}
          [] t.k = "bytes" -> {Val("bytes", b) : b \in {<<5>>, <<0, 0, 2>>}}
          [] t.k = "string" -> {Val("string", b) : b \in {<<3>>, <<4, 0>>}}
          [] t.k = "array" -> {Val("list", s) : s \in UNION {[1..n -> Few(t.sub[1])] : n \in 1..2}}
          [] t.k = "tuple" ->
                {Val("list", <<x, y>>) : x \in Few(t.sub[1]), y \in Few(t.sub[2])}
                \cup {Val("object", (t.sub[1].name :> x) @@ (t.sub[2].name :> y)) :
                                         x \in Few(t.sub[1]), y \in Few(t.sub[2])}
          [] OTHER -> {}

Types == {U1, U2, I1, B1, Str, Bytes, Bool, Address, Pair, As(Pair, "p"), Struct, Structs,
          Array(U1, -1), Array(Str, -1), Array(U1, 2), Array(Str, 2), Array(Array(U1, -1), -1),
          Array(As(Pair, "p"), -1), Array(B1, -1), Scalar("uint", 3),
          Tuple(<<As(U1, "a"), As(U1, "b")>>)}

Heads == {U1, As(Str, "s"), As(U1, "s"), As(Bytes, "t"), Array(U1, -1), As(Pair, "p"), Struct}

ParamJobs ==
    {[kind |-> "params", types |-> <<t>>, values |-> <<v>>, loose |-> l] :
        <<t, v, l>> \in UNION {{t} \X Some(t) \X BOOLEAN : t \in Types}}
    \cup {[kind |-> "params", types |-> ts, values |-> vs, loose |-> l] :
        <<ts, vs, l>> \in UNION {{<<t, u>>} \X (Few(t) \X Few(u)) \X BOOLEAN : t \in Heads, u \in Heads}}
    \cup {[kind |-> "params", types |-> <<U1>>, values |-> <<>>, loose |-> FALSE],
          [kind |-> "params", types |-> <<Scalar("function", 0)>>, values |-> <<Null>>, loose |-> FALSE]}

(* Answers of up to ForeignWords words: counts and offsets in and out of the  *)
(* data, a number that is not safe, bytes that are no UTF-8.                  *)
Words == {0, 1, 2, 4, 6, MaxSafe + 1, Base^WordSize - 1}
ForeignData == {FlattenSeq([i \in DOMAIN ws |-> ToBytes(ws[i], WordSize)]) :
                    ws \in UNION {[1..n -> Words] : n \in 0..ForeignWords}}

ForeignJobs ==
    {[kind |-> "foreign", types |-> ts, data |-> d, loose |-> l] :
        ts \in {<<Str>>, <<I1, Bytes>>, <<Array(U1, -1)>>, <<Array(Str, -1)>>, <<As(Pair, "p")>>,
                <<Array(Array(U1, 1), -1)>>},
        d \in ForeignData, l \in BOOLEAN}

(* Two inputs, indexed or not, of a type the chain hashes and one it does     *)
(* not; the asking side knows the event, all events, or one with the same     *)
(* signature and other inputs indexed.                                        *)
Event(name, ia, ib, anonymous, q) ==
    [name |-> name, anonymous |-> anonymous,
     inputs |-> <<[p |-> As(U1, "a"), indexed |-> ia], [p |-> As(q, "b"), indexed |-> ib]>>]
Events == {Event("E", ia, ib, an, q) : ia \in BOOLEAN, ib \in BOOLEAN, an \in BOOLEAN, q \in {Str, Bytes, Bool}}

Alternatives == Val("list", <<DefaultValue(U1), Full(U1)>>)
Filters(q) == {f \in UNION {[S -> Few(U1) \cup Few(q) \cup {Alternatives}] : S \in SUBSET {"a", "b"}} :
                 /\ "a" \in DOMAIN f => f["a"] \in Few(U1) \cup {Alternatives}
                 /\ "b" \in DOMAIN f => f["b"] \in Few(q)}

EventJobsOf(ia, ib, an, q) ==
    LET e == Event("E", ia, ib, an, q)
        asking(asked, filters) ==
            {[kind |-> "event", event |-> e, asked |-> asked, values |-> vs, filter |-> f,
              abis |-> <<Event("D", TRUE, TRUE, FALSE, Str), IF asked = AllEvents THEN e ELSE asked>>] :
                vs \in Few(U1) \X Few(q), f \in filters}
    IN  asking(e, Filters(q)) \cup asking(AllEvents, {<<>>})
        \cup UNION {asking(Event("E", ja, jb, FALSE, q), {<<>>}) : ja \in BOOLEAN, jb \in BOOLEAN}

EventJobs == UNION {EventJobsOf(ia, ib, an, q) :
                      ia \in BOOLEAN, ib \in BOOLEAN, an \in BOOLEAN, q \in {Str, Bytes, Bool}}

(* Overloaded functions, and errors of and outside the interface.             *)
Function(inputs, outputs) == [name |-> "f", inputs |-> inputs, outputs |-> outputs]
Overloads == {Function(<<U1>>, <<Str>>), Function(<<As(Str, "s")>>, <<U1, As(Pair, "p")>>),
              Function(<<Struct>>, <<>>), Function(<<U1, As(Bytes, "s")>>, <<Array(U1, -1)>>)}

AllOf(params) == {[i \in DOMAIN params |-> DefaultValue(MapType(params[i]))],
                  [i \in DOMAIN params |-> Full(MapType(params[i]))]}

CallJobs == UNION {{[kind |-> "call", f |-> f, contract |-> Overloads, values |-> vs, answer |-> as] :
                      vs \in AllOf(f.inputs) \cup {<<>>}, as \in AllOf(f.outputs)} : f \in Overloads}

Failure(name, inputs) == [name |-> name, inputs |-> inputs]
ErrorJobs == UNION {{[kind |-> "error", error |-> e, values |-> vs,
                      abis |-> <<Failure("E", <<U1>>), Failure("E", <<Str>>), Failure("F", <<U1>>)>>] :
                       vs \in AllOf(e.inputs)} :
                    e \in {Failure("E", <<U1>>), Failure("E", <<Str>>), Failure("F", <<U1>>), Failure("G", <<U1>>)}}

MCJobs == ParamJobs \cup ForeignJobs \cup EventJobs \cup CallJobs \cup ErrorJobs

-----------------------------------------------------------------------------
(* Fragments: tuples and arrays of them in each other, every combination of   *)
(* the three fields of a function's state, all events over these, and every   *)
(* event signature whose parameters are at most MaxTokens tokens.             *)
Param(type, name, comps) == [type |-> type, name |-> name, indexed |-> "none", comps |-> comps]
Inner == Param(<<"tuple", "[", "]">>, "c", <<Param(<<"uint">>, "z", <<>>)>>)
SimpleParams == {Param(t, n, <<>>) : n \in {"", "a"},
                   t \in {<<"uint">>, <<"string">>, <<"uint8", "[", "]">>, <<"int", "[", "2", "]", "[", "]">>}}
TupleParams == {Param(<<"tuple">> \o dims, n, <<x, y>>) :
                   dims \in {<<>>, <<"[", "]">>, <<"[", "2", "]", "[", "]">>}, n \in {"", "t"},
                   x \in SimpleParams, y \in {Param(<<"address">>, "b", <<>>), Inner}}
ParamLists == {<<>>} \cup {<<p>> : p \in SimpleParams \cup TupleParams}
                \cup {<<p, q>> : p \in SimpleParams, q \in {Inner, Param(<<"bytes">>, "", <<>>)}}
FewParams == {<<>>, <<Param(<<"uint">>, "a", <<>>)>>, <<Inner, Param(<<"bytes">>, "", <<>>)>>}

Object(kind, name, anonymous, inputs, outputs, gas, payable, constant, mutability) ==
    [kind |-> kind, name |-> name, anonymous |-> anonymous, inputs |-> inputs, outputs |-> outputs,
     gas |-> gas, payable |-> payable, constant |-> constant, mutability |-> mutability]
Optional == {"none", "yes", "no"}

MCObjects ==
    {Object("function", "f", FALSE, ins, outs, "none", "none", "none", "view") :
        ins \in ParamLists, outs \in FewParams}
    \cup {Object(k, "f", FALSE, ins, <<>>, g, p, c, m) :
        k \in {"function", "constructor"}, ins \in FewParams, g \in {"none", "5"}, p \in Optional,
        c \in Optional, m \in {"none", "view", "pure", "payable", "nonpayable"}}
    \cup {Object("event", n, an, [i \in DOMAIN ins |-> [ins[i] EXCEPT !.indexed = x[i]]], <<>>,
                 "none", "none", "none", "none") :
        n \in {"", "E"}, an \in BOOLEAN, ins \in ParamLists, x \in [1..2 -> {"yes", "no"}]}
    \cup {Object("error", n, FALSE, <<p>>, <<>>, "none", "none", "none", "none") :
        n \in {"E", "Error", "Panic"}, p \in SimpleParams}

Punctuation == {"(", ")", ",", " ", "[", "]"}
Tokens == Punctuation \cup {"uint", "tuple", "2", "indexed", "memory", "a"}
MCTexts == {<<"event", " ", "E", "(">> \o t \o <<")">> :
              t \in {t \in UNION {[1..n -> Tokens] : n \in 1..MaxTokens} :
                       \A i \in 1..Len(t) - 1 : t[i] \in Punctuation \/ t[i + 1] \in Punctuation}}

-----------------------------------------------------------------------------
(* Typed data: a primary type over two structs, one of which may need the     *)
(* other, mentioned in either order, once or twice.                           *)
Field(name, base, dims) == [name |-> name, type |-> [base |-> base, dims |-> dims]]
MCDefinitions ==
    {("Mail" :> m) @@ ("A" :> a) @@ ("B" :> b) :
        m \in {<<Field("x", "A", <<>>), Field("y", "B", <<>>)>>, <<Field("x", "B", <<>>), Field("y", "A", <<0>>)>>,
               <<Field("x", "string", <<>>), Field("y", "A", <<2>>)>>},
        a \in {<<Field("z", "uint", <<0>>)>>, <<Field("z", "B", <<>>)>>},
        b \in {<<Field("w", "uint", <<>>)>>, <<Field("w", "bytes", <<0, 2>>)>>}}

RECURSIVE ValuesOf(_, _, _)
ValuesOf(defs, base, dims) ==
    IF dims # <<>>
    THEN LET one == ValuesOf(defs, base, Front(dims))
             first == CHOOSE x \in one : TRUE
         IN  {Val("list", [i \in 1..n |-> IF i = 1 THEN x ELSE first]) : x \in one, n \in {0, 1, 2}}
    ELSE IF base \notin DOMAIN defs THEN {Val(base, 1), Val(base, 2)}
    ELSE LET fields == defs[base]
             values(f) == ValuesOf(defs, f.type.base, f.type.dims)
         IN  IF Len(fields) = 1 THEN {Val("struct", (fields[1].name :> x)) : x \in values(fields[1])}
             ELSE {Val("struct", (fields[1].name :> x) @@ (fields[2].name :> y)) :
                     x \in values(fields[1]), y \in values(fields[2])}
MCMessagesOf(defs) == ValuesOf(defs, "Mail", <<>>)
MCBefore(a, b) == a = "A" /\ b = "B"

-----------------------------------------------------------------------------
VARIABLES part, object, fragment, fragmentStage, format, text, parsed, types, message, signed,
          formatJob, formatted, asked, verdict, op, result

fragmentVars == <<object, fragment, fragmentStage, format, text, parsed>>
typedVars == <<types, message, signed>>
valueVars == <<formatJob, formatted, asked, verdict, op, result>>
mcVars == <<part, vars, fragmentVars, typedVars, valueVars>>

Interface == INSTANCE Fragments WITH
    Objects <- MCObjects, Texts <- MCTexts, Digits <- {"2"}, stage <- fragmentStage
Typed == INSTANCE TypedData WITH
    Definitions <- MCDefinitions, MessagesOf <- MCMessagesOf, Before <- MCBefore
Values == INSTANCE MCValues WITH job <- formatJob

ASSUME AbiAssumption == ConstantsOK /\ ForeignWords \in Nat /\ MaxTokens \in Nat /\ Values!ConstantsOK

MCInit ==
    \/ /\ part = "coder" /\ Init
       /\ Interface!Idle /\ Typed!Idle /\ Values!Idle
    \/ /\ part = "fragments" /\ Interface!Init
       /\ Idle /\ Typed!Idle /\ Values!Idle
    \/ /\ part = "typed" /\ Typed!Init
       /\ Idle /\ Interface!Idle /\ Values!Idle
    \/ /\ part \in {"format", "validate", "convert"}
       /\ Idle /\ Interface!Idle /\ Typed!Idle /\ Values!Idle

MCNext ==
    \/ part = "coder" /\ Next /\ UNCHANGED <<part, fragmentVars, typedVars, valueVars>>
    \/ part = "fragments" /\ Interface!Next /\ UNCHANGED <<part, vars, typedVars, valueVars>>
    \/ part = "typed" /\ Typed!Next /\ UNCHANGED <<part, vars, fragmentVars, valueVars>>
    \/ part = "format" /\ Values!Formats /\ UNCHANGED <<part, vars, fragmentVars, typedVars>>
    \/ part = "validate" /\ Values!Validates /\ UNCHANGED <<part, vars, fragmentVars, typedVars>>
    \/ part = "convert" /\ Values!Converts /\ UNCHANGED <<part, vars, fragmentVars, typedVars>>
    \/ Values!Done /\ UNCHANGED <<part, vars, fragmentVars, typedVars>>

MCSpec == MCInit /\ [][MCNext]_mcVars

-----------------------------------------------------------------------------
(* What was encoded is decoded, and whatever is decoded, foreign bytes too,   *)
(* encodes to bytes that are decoded to it again (abi/src/coders).           *)
RoundTrips == DecodesWhatWasEncoded /\ DecodedEncodesBack

(* What format() writes, Fragment.from() reads back as the same fragment,     *)
(* with the same sighash (fragments.ts).                                      *)
FormatParses == part = "fragments" => Interface!FormatParses

(* Two typed messages have the same text to sign only if they are the same    *)
(* message under the same types (qrl_typed_data.ts).                          *)
SignedIsUnique == part = "typed" => Typed!SignedIsUnique

(* Every scalar a schema names arrives in the form asked for with the value   *)
(* it had, but for lists in lists, which are left as they are, and objects in *)
(* the transactions of a block, which are emptied; nothing else is lost but   *)
(* null fields, fields without a schema and empty arrays at a choice          *)
(* (formatter.ts).                                                            *)
FormatsAsAsked == part = "format" => Values!F!FormatsAsAsked

(* Data are accepted exactly if they fit their types, however nested, and     *)
(* what a bloom filter holds is found in it (web3-validator).                 *)
ValidatesExactly ==
    part = "validate" => Values!V!ValidatesExactly /\ Values!V!NothingMissedInBloom


(* A block with no transactions keeps its list of them (web3_qrl.ts:389 and   *)
(* :413); format() deletes it.                                                *)
EmptyListsStay == part = "format" => Values!F!EmptyListsStay

(* toPlanck() converts a number of a unit to planck (converters.ts:555); with *)
(* more decimals than the unit has it is multiplied.                          *)
PlanckIsTheAmount == part = "convert" => Values!C!PlanckIsTheAmount

(* fromTwosComplement() reads the least values of a width as negative         *)
(* (string_manipulation.ts:130); it takes the largest bit from a rounded      *)
(* logarithm and does not.                                                    *)
TwosComplementIsRead == part = "convert" => Values!C!TwosComplementIsRead
===============================================================================
