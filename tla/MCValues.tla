------------------------------- MODULE MCValues -------------------------------
(* Model-checking instance of what turns values into values: formatting       *)
(* answers, validating arguments, converting numbers. The three share no      *)
(* state; MCAbi instantiates this module and says which of them runs. The     *)
(* bounds are the values given to the constants of the three below.           *)
EXTENDS Integers, Sequences, TLC

VARIABLES job, formatted, asked, verdict, op, result

valuesVars == <<job, formatted, asked, verdict, op, result>>

(* Formatting: blocks with hashes, transactions or nothing, access lists and  *)
(* objects in transactions, the lists of lists of a fee history, nested       *)
(* objects, ABI parameters.                                                   *)
Null == [k |-> "null"]
Scalar(v, as) == [k |-> "scalar", v |-> v, as |-> as]
Object(fields) == [k |-> "object", f |-> fields]
Array(items) == [k |-> "array", f |-> items]
Field(key, v) == [key |-> key, v |-> v]

Uint == [k |-> "scalar", base |-> "uint", size |-> 0]
BytesOf(n) == [k |-> "scalar", base |-> "bytes", size |-> n]
Address == [k |-> "scalar", base |-> "address", size |-> 0]
ObjectOf(props) == [k |-> "object", of |-> props]
ListOf(items) == [k |-> "array", of |-> items]

Access == ObjectOf([address |-> Address, storageKeys |-> ListOf(BytesOf(2))])
Tx == ObjectOf([value |-> Uint, input |-> BytesOf(0), accessList |-> ListOf(Access),
                common |-> ObjectOf([hardfork |-> BytesOf(2)])])
Block == ObjectOf([number |-> Uint, hash |-> BytesOf(2),
                   transactions |-> [k |-> "oneOf", of |-> <<ListOf(Tx), ListOf(BytesOf(2))>>],
                   status |-> ObjectOf([size |-> Uint]), counts |-> ListOf(Uint),
                   withdrawals |-> ListOf(ObjectOf([index |-> Uint]))])
FeeHistory == ObjectOf([oldestBlock |-> Uint, reward |-> ListOf(ListOf(Uint))])
Pair == [k |-> "tuple", of |-> ("0" :> Uint) @@ ("1" :> BytesOf(1))]
Params == [k |-> "tuple", of |-> ("0" :> Uint) @@ ("1" :> Pair) @@ ("2" :> ListOf(Uint))]

Three == Scalar(3, "HEX")
Nine == Scalar(9, "STR")
Numbers1 == {Scalar(n, as) : n \in {0, 3, 9}, as \in {"HEX", "NUMBER", "STR", "BIGINT"}}
            \cup {Scalar(-1, "HEX"), Scalar(-1, "STR"), Null}
Bytes1 == {Scalar(d, "HEX") : d \in {<<>>, <<1>>, <<1, 2>>, <<1, 2, 3>>, <<1, 2, 3, 0>>, <<1, 2, 3, 0, 0, 0>>}}
          \cup {Scalar(d, "UINT8ARRAY") : d \in {<<>>, <<1, 2>>, <<1, 2, 3, 0, 0, 0>>}} \cup {Null}
AccessEntry == Object(<<Field("address", Scalar("a", "STR")),
                        Field("storageKeys", Array(<<Scalar(<<1>>, "HEX"), Scalar(<<1, 2>>, "UINT8ARRAY")>>))>>)
Txs == {Object(<<Field("value", v), Field("accessList", a), Field("input", h), Field("extra", Three)>>) :
            v \in {Three, Nine, Null}, a \in {Array(<<>>), Array(<<AccessEntry>>), Array(<<AccessEntry, AccessEntry>>)},
            h \in {Scalar(<<1, 2>>, "UINT8ARRAY"), Scalar(<<1, 2, 3>>, "HEX")}}
WithCommon == Object(<<Field("value", Nine), Field("common", Object(<<Field("hardfork", Scalar(<<1>>, "HEX"))>>)),
                       Field("input", Scalar(<<1, 2>>, "UINT8ARRAY"))>>)
TxLists == {Array(s) : s \in {<<>>, <<Scalar(<<1>>, "HEX")>>, <<Scalar(<<1>>, "HEX"), Scalar(<<1, 2, 3, 0>>, "HEX")>>}}
           \cup {Array(<<t>>) : t \in Txs \cup {WithCommon}} \cup {Array(<<t, CHOOSE u \in Txs : TRUE>>) : t \in Txs}
Blocks == {Object(<<Field("number", n), Field("hash", h),
                    Field("status", Object(<<Field("size", Three), Field("other", Three)>>))>>) :
                n \in Numbers1, h \in Bytes1}
          \cup {Object(<<Field("transactions", t), Field("number", Three), Field("withdrawals", w), Field("counts", c)>>) :
                t \in TxLists, c \in {Array(<<>>), Array(<<Three, Nine>>)},
                w \in {Array(<<>>), Array(<<Object(<<Field("index", Nine)>>), Object(<<Field("index", Null)>>)>>)}}
Parameters == {Array(<<n, Array(<<Nine, h>>), Array(<<n, Three>>)>>) : n \in Numbers1 \ {Null}, h \in Bytes1 \ {Null}}

FeeHistories == {Object(<<Field("reward", Array(r)), Field("oldestBlock", n)>>) : n \in Numbers1,
                    r \in {<<>>, <<Array(<<>>)>>, <<Array(<<Three, Nine>>), Array(<<Nine>>)>>}}

FormatJobs == {[schema |-> Block, data |-> b] : b \in Blocks}
              \cup {[schema |-> Tx, data |-> WithCommon]}
              \cup {[schema |-> FeeHistory, data |-> h] : h \in FeeHistories}
              \cup {[schema |-> Params, data |-> p] : p \in Parameters}
              \cup {[schema |-> Uint, data |-> n] : n \in Numbers1}
              \cup {[schema |-> ListOf(Uint), data |-> Array(<<Three, Nine>>)]}
MCFormats == {[number |-> n, bytes |-> b] : n \in {"HEX", "NUMBER", "STR", "BIGINT"}, b \in {"HEX", "UINT8ARRAY"}}

(* Validating: scalars at the ends of their types, arrays of one to three     *)
(* dimensions, structs in lists and by name, structs in structs.              *)
Type(base, size, dims) == [base |-> base, size |-> size, dims |-> dims, sub |-> <<>>, name |-> ""]
Struct(sub, dims) == [base |-> "tuple", size |-> 0, dims |-> dims, sub |-> sub, name |-> ""]
As(p, name) == [p EXCEPT !.name = name]
Val(k, v) == [k |-> k, v |-> v]
Text == [k |-> "text"]
HexString(neg, d) == [k |-> "hex", neg |-> neg, digits |-> d]
List(f) == [k |-> "list", f |-> f]
Lists(S, from, to) == {List(s) : s \in UNION {[1..n -> S] : n \in from..to}}
Named(f) == [k |-> "object", f |-> f]
One == Val("num", 1)
Yes == Val("bool", TRUE)

Leaves == {Val("num", n) : n \in {-1, 0, 1, 15, 16, 128}}
          \cup {Val("big", 300), Val("dec", -128), Val("dec", 255), Val("bytes", <<1, 2>>), Val("bytes", <<>>), Yes, Text,
                [k |-> "empty"], [k |-> "undefined"], [k |-> "address", digits |-> <<1, 2>>], [k |-> "address", digits |-> <<1>>]}
          \cup {HexString(FALSE, d) : d \in {<<>>, <<1>>, <<3, 3>>, <<1, 0, 0, 0>>}} \cup {HexString(TRUE, <<1>>)}
Bases == {Type(b, 0, <<>>) : b \in {"bool", "int", "uint", "bytes", "string", "address", "hex", "number",
                                    "blockNumber", "foo"}}
         \cup {Type(b, s, <<>>) : b \in {"uint", "int"}, s \in {4, 8, 5, 12}} \cup {Type("bytes", s, <<>>) : s \in 1..3}
Arrays == {Type(b, s, d) : b \in {"uint", "bytes", "foo"}, s \in {0, 4},
                           d \in {<<-1>>, <<1>>, <<2, 1>>, <<-1, 2>>, <<1, 1, 2>>}}
List1 == Lists({One, Val("num", -1), Val("big", 20)}, 0, 2)
List2 == Lists({List(<<>>), List(<<One>>), List(<<One, Val("big", 20)>>), One}, 0, 2)
List3 == Lists({List(<<List(<<One>>)>>), List(<<List(<<>>)>>), List(<<One>>), List(<<>>)}, 1, 2)

Both == <<As(Type("uint", 4, <<>>), "a"), As(Type("bool", 0, <<>>), "b")>>
Few == {List(<<One, Yes>>), Named([a |-> One, b |-> Yes]), One}
Some == Few \cup {List(<<Val("num", 16), Yes>>), List(<<One, Yes, One>>), List(<<One>>),
                  Named([a |-> One, b |-> Text]), Named([b |-> Yes]), [k |-> "undefined"]}
Nested == Struct(<<As(Struct(Both, <<>>), "p"), As(Type("uint", 4, <<-1>>), "l")>>, <<>>)

On(types, data) == {[params |-> <<t>>, data |-> List(<<d>>)] : t \in types, d \in data}
ValidationJobs ==
    On(Bases, Leaves \cup List1)
    \cup On(Arrays, List1 \cup List2 \cup List3 \cup {One})
    \cup On({Struct(Both, <<>>)}, Some)
    \cup On({Struct(Both, d) : d \in {<<-1>>, <<1>>}}, Lists(Some, 0, 2))
    \cup On({Struct(Both, d) : d \in {<<-1, -1>>, <<1, 2>>, <<2, 1>>}}, Lists(Some, 0, 2) \cup Lists(Lists(Few, 0, 2), 0, 2))
    \cup On({Nested}, {List(<<s, l>>) : s \in Some, l \in List1} \cup {Named([p |-> s, l |-> l]) : s \in Some, l \in List1})
    \cup {[params |-> ps, data |-> d] : ps \in {<<>>, <<Type("uint", 0, <<>>), Type("bool", 0, <<>>)>>},
                                        d \in Lists({One, Val("num", -1), Text}, 0, 3)}

MCHashes == {h \in [1..6 -> {0, 3, 5}] : h[1] = h[6] /\ h[2] + h[3] = 8 /\ h[4] # h[5]}

(* Converting: all the numbers around the ends of the widths and types. The   *)
(* widest has more bits than a logarithm tells apart.                         *)
MCNumbers == -36..36

F == INSTANCE Formatter WITH Jobs <- FormatJobs, Formats <- MCFormats, MaxSafe <- 7
V == INSTANCE Validator WITH
    Jobs <- ValidationJobs, Hashes <- MCHashes, HexBase <- 4, NibbleBits <- 2, BloomDigits <- 4,
    MaxBits <- 8, MaxBytes <- 2, MaxSafe <- 100, AddressDigits <- 2
C == INSTANCE Converters WITH
    Numbers <- MCNumbers, HexBase <- 4, NibbleBits <- 2, DecBase <- 3, Widths <- {1, 2, 3}, Zeros <- 0..2,
    Precision <- 3,
    MaxDigits <- 3, IntBits <- 8, Sizes <- {1, 2}, AddressDigits <- 2

ConstantsOK == V!ConstantsOK /\ C!ConstantsOK
Idle == F!Idle /\ V!Idle /\ C!Idle

Formats == F!Next /\ UNCHANGED <<asked, verdict, op, result>>
Validates == V!Next /\ UNCHANGED <<job, formatted, op, result>>
Converts == C!Next /\ UNCHANGED <<job, formatted, asked, verdict>>
Done == (job.k # "undefined" \/ asked.k # "undefined" \/ op.k # "idle") /\ UNCHANGED valuesVars
===============================================================================
