------------------------------- MODULE Validator ------------------------------
(* web3-validator: ABI parameters become a JSON schema, the schema checks     *)
(* data; in front of it the step of a contract call that turns structs given  *)
(* by name into lists. A type is a base, a size in units (bits for numbers;   *)
(* 0: none), the dimensions of its arrays from left to right (-1: dynamic),   *)
(* the components of a tuple and a name: all the short and full forms of a    *)
(* parameter give one. Data are numbers, decimal and hex strings, texts,      *)
(* booleans, byte arrays, lists and objects (functions of names).             *)
EXTENDS Integers, Sequences, SequencesExt

CONSTANTS
    Jobs,           \* parameters and data that are validated
    Hashes,         \* hashes of what a bloom filter holds or is asked for
    HexBase, NibbleBits,    \* a hex digit, HexBase = 2^NibbleBits
    BloomDigits,    \* hex digits of a bloom filter, 512 in the code
    MaxBits, MaxBytes,      \* the largest number and bytes types: 512 and 64
    MaxSafe,        \* the largest safe JavaScript number
    AddressDigits

ConstantsOK == HexBase = 2^NibbleBits /\ BloomDigits > 0 /\ MaxBits > 0 /\ MaxBytes > 0

VARIABLES
    asked,          \* what is validated
    verdict         \* what came of it

vars == <<asked, verdict>>

Undefined == [k |-> "undefined"]
Idle == asked = Undefined /\ verdict = Undefined

Format(base, size) == [k |-> "format", base |-> base, size |-> size]
ItemsOf(items) == [k |-> "tuple", items |-> items]
ArrayOf(items, size) == [k |-> "array", items |-> items, size |-> size]
Invalid == [k |-> "invalid"]    \* the schema could not be built: it throws

BaseTypes == {"bool", "int", "uint", "bytes", "string", "address"}
ExtraTypes == {"hex", "number", "blockNumber"}

-----------------------------------------------------------------------------
ByteSpan == HexBase * HexBase
BitsPerByte == 2 * NibbleBits

ValueOf(digits) == FoldLeft(LAMBDA n, d : HexBase * n + d, 0, digits)

(* BigInt() of what is a number or the string of one.                         *)
IntOf(x) ==
    CASE x.k \in {"num", "big", "dec"} -> {x.v}
      [] x.k = "hex" /\ x.digits # <<>> -> {IF x.neg THEN -ValueOf(x.digits) ELSE ValueOf(x.digits)}
      [] x.k = "empty" -> {0}
      [] OTHER -> {}

Bits(size) == IF size = 0 THEN MaxBits ELSE size

IsUInt(x, size) == x.k # "empty" /\ \E v \in IntOf(x) : v \in 0..(2^Bits(size) - 1)

IsInt(x, size) ==
    /\ ~(x.k = "num" /\ x.v > MaxSafe)
    /\ \E v \in IntOf(x) : v \in -(2^(Bits(size) - 1))..(2^(Bits(size) - 1) - 1)

IsNumber(x) == IsInt(x, 0) \/ x.k = "num" \/ (x.k = "dec" /\ x.v >= 0)

IsBytes(x, size) ==
    CASE x.k = "hex" -> ~x.neg /\ Len(x.digits) % 2 = 0 /\ (size # 0 => Len(x.digits) = 2 * size)
      [] x.k = "bytes" -> size # 0 => Len(x.v) = size
      [] x.k = "list" ->
            /\ \A i \in DOMAIN x.f : x.f[i].k = "num" /\ x.f[i].v \in 0..(ByteSpan - 1)
            /\ size # 0 => Len(x.f) = size
      [] OTHER -> FALSE

IsBoolean(x) ==
    \/ x.k = "bool"
    \/ x.k \in {"num", "dec"} /\ x.v \in {0, 1}
    \/ x.k = "hex" /\ ~x.neg /\ x.digits \in {<<0>>, <<1>>}

IsString(x) == x.k \in {"dec", "hex", "text", "empty", "address"}
IsAddressString(x) == x.k = "address" /\ Len(x.digits) = AddressDigits

(* formats[..], the check behind a format of a schema.                        *)
Accepts(format, x) ==
    CASE format.base = "uint" -> IsUInt(x, format.size)
      [] format.base = "int" -> IsInt(x, format.size)
      [] format.base = "bytes" -> IsBytes(x, format.size)
      [] format.base = "bool" -> IsBoolean(x)
      [] format.base = "string" -> IsString(x)
      [] format.base = "address" -> IsAddressString(x)
      [] format.base = "hex" -> x.k = "hex"
      [] format.base = "number" -> IsNumber(x)
      [] format.base = "blockNumber" -> IsUInt(x, 0)

-----------------------------------------------------------------------------
(* assertSupportedSize() and convertEthType().                                *)
SupportedSize(base, size) ==
    \/ size = 0
    \/ base \in {"int", "uint"} /\ size <= MaxBits /\ size % BitsPerByte = 0
    \/ base = "bytes" /\ size <= MaxBytes
    \/ base \notin {"int", "uint", "bytes"}

ConvertEthType(base, size) ==
    IF base \in BaseTypes \cup ExtraTypes /\ SupportedSize(base, size) THEN Format(base, size) ELSE Invalid

RECURSIVE FaultAbiSchema(_)
FaultAbiSchema(param) ==
    LET element == IF param.base = "tuple"
                   THEN ItemsOf([i \in DOMAIN param.sub |-> FaultAbiSchema(param.sub[i])])
                   ELSE IF param.dims # <<>>
                   THEN IF param.base \in BaseTypes THEN ConvertEthType(param.base, 0) ELSE Invalid
                   ELSE ConvertEthType(param.base, param.size)
    IN  IF element = Invalid THEN Invalid ELSE FoldRight(LAMBDA n, schema : ArrayOf(schema, n), param.dims, element)

(* abiSchemaToJsonSchema() of a parameter. The elements of an array are       *)
(* checked for the base of their type alone; the sizes wrap the schema of the *)
(* element from the inside out.                                               *)
RECURSIVE AbiSchema(_)
AbiSchema(param) ==
    LET element == IF param.base = "tuple"
                   THEN ItemsOf([i \in DOMAIN param.sub |-> AbiSchema(param.sub[i])])
                   ELSE IF param.dims # <<>>
                   THEN IF param.base \in BaseTypes THEN ConvertEthType(param.base, 0) ELSE Invalid
                   ELSE ConvertEthType(param.base, param.size)
    IN  IF element = Invalid THEN Invalid ELSE FoldLeft(LAMBDA schema, n : ArrayOf(schema, n), element, param.dims)

RECURSIVE Throws(_)
Throws(schema) ==
    CASE schema.k = "tuple" -> \E i \in DOMAIN schema.items : Throws(schema.items[i])
      [] schema.k = "array" -> Throws(schema.items)
      [] OTHER -> schema = Invalid

(* What zod reports of the schema convertToZod() made: the paths of what is   *)
(* wrong, with a keyword. A tuple too short is not looked into.               *)
RECURSIVE Issues(_, _, _)
Issues(schema, x, path) ==
    LET Issue(keyword) == {[path |-> path, keyword |-> keyword]}
        In(items, n) == UNION {Issues(items[i], x.f[i], Append(path, i)) : i \in 1..n}
        few == schema.size # -1 /\ Len(x.f) < schema.size
        many == schema.size # -1 /\ Len(x.f) > schema.size
    IN  CASE schema.k = "format" -> IF Accepts(schema, x) THEN {} ELSE Issue("format")
          [] schema.k # "format" /\ x.k # "list" -> Issue("type")
          [] schema.k = "tuple" /\ x.k = "list" ->
                IF Len(x.f) < Len(schema.items) THEN Issue("minItems")
                ELSE In(schema.items, Len(schema.items))
                     \cup IF Len(x.f) > Len(schema.items) THEN Issue("maxItems") ELSE {}
          [] schema.k = "array" /\ x.k = "list" ->
                (IF few THEN Issue("minItems") ELSE IF many THEN Issue("maxItems") ELSE {})
                \cup In([i \in DOMAIN x.f |-> schema.items], Len(x.f))

(* Web3Validator.validate(). No schema goes with no data only.                *)
Validate(params, data) ==
    LET schema == ItemsOf([i \in DOMAIN params |-> AbiSchema(params[i])])
    IN  IF Throws(schema) THEN Invalid
        ELSE IF params = <<>> THEN IF data.f = <<>> THEN [k |-> "issues", of |-> {}] ELSE Invalid
        ELSE [k |-> "issues", of |-> Issues(schema, data, <<>>)]

-----------------------------------------------------------------------------
(* transformJsonDataToAbiFormat(): what is given by name is put in the order  *)
(* of the components, and what a list has more is dropped. Arrays of more     *)
(* than two dimensions keep the first element of what is between.             *)
At(x, i, name) ==
    CASE x.k = "list" -> IF i \in DOMAIN x.f THEN x.f[i] ELSE Undefined
      [] x.k = "object" -> IF name \in DOMAIN x.f THEN x.f[name] ELSE Undefined
      [] x.k = "undefined" -> Invalid
      [] OTHER -> Undefined

List(f) == [k |-> "list", f |-> f]
RECURSIVE FetchArrayElement(_, _)
FetchArrayElement(x, level) == IF level = 1 THEN x ELSE FetchArrayElement(At(x, 1, "0"), level - 1)

RECURSIVE Transform(_, _)
Transform(params, data) ==
    LET Struct(p, x) == Transform(p.sub, x)
        Each(p, x) == IF x.k = "list" THEN List([i \in DOMAIN x.f |-> Struct(p, x.f[i])]) ELSE Invalid
        Item(p, x) ==
            CASE x = Invalid \/ p.base # "tuple" -> x
              [] p.base = "tuple" /\ p.dims = <<>> -> Struct(p, x)
              [] p.base = "tuple" /\ Len(p.dims) = 1 -> Each(p, x)
              [] p.base = "tuple" /\ Len(p.dims) > 1 ->
                    IF x.k # "list" THEN Invalid
                    ELSE List([i \in DOMAIN x.f |-> Each(p, FetchArrayElement(x.f[i], Len(p.dims) - 1))])
    IN  List([i \in DOMAIN params |-> Item(params[i], At(data, i, params[i].name))])

RECURSIVE TransformThrows(_)
TransformThrows(x) == x = Invalid \/ (x.k = "list" /\ \E i \in DOMAIN x.f : TransformThrows(x.f[i]))

(* A method of a contract: its arguments are transformed, then validated.     *)
ValidateCall(params, args) ==
    LET transformed == Transform(params, args)
    IN  IF TransformThrows(transformed) THEN Invalid ELSE Validate(params, transformed)

-----------------------------------------------------------------------------
(* isInBloom(): three positions in the filter, from pairs of bytes of the     *)
(* hash, counted from the last digit of the filter.                           *)
Position(hash, i) == (hash[2 * i - 1] * ByteSpan + hash[2 * i]) % (NibbleBits * BloomDigits)
Bit(n, i) == (n \div 2^i) % 2

IsInBloom(bloom, hash) ==
    \A i \in 1..3 :
        LET bitpos == Position(hash, i)
        IN  Bit(bloom[Len(bloom) - bitpos \div NibbleBits], bitpos % NibbleBits) = 1

(* The filter a node makes: a number with the bits of all hashes set, written *)
(* with its highest digit first.                                              *)
BloomOf(hashes) ==
    LET bits == {Position(h, i) : h \in hashes, i \in 1..3}
    IN  [n \in 1..BloomDigits |->
            LET low == NibbleBits * (BloomDigits - n)
            IN  FoldLeft(LAMBDA v, i : v + IF low + i - 1 \in bits THEN 2^(i - 1) ELSE 0, 0,
                         [i \in 1..NibbleBits |-> i])]

-----------------------------------------------------------------------------
Validates(j) ==
    /\ asked' = [k |-> "data", params |-> j.params, data |-> j.data]
    /\ verdict' = Validate(j.params, j.data)

Calls(j) ==
    /\ asked' = [k |-> "call", params |-> j.params, data |-> j.data]
    /\ verdict' = ValidateCall(j.params, j.data)

AsksBloom(held, hash) ==
    /\ asked' = [k |-> "bloom", held |-> held, hash |-> hash]
    /\ verdict' = [k |-> "found", found |-> IsInBloom(BloomOf(held), hash)]

Next ==
    /\ asked = Undefined
    /\ \/ \E j \in Jobs : Validates(j) \/ Calls(j)
       \/ \E h1, h2 \in Hashes, hash \in Hashes : AsksBloom({h1, h2}, hash)

-----------------------------------------------------------------------------
(* What fits a type: read from the right, the last dimension is the outermost *)
(* list. A call takes structs by name or by position, with more elements than *)
(* components too. Sizes of elements of an array are not looked at.           *)
RECURSIVE Fits(_, _, _)
Fits(p, x, call) ==
    IF p.dims # <<>>
    THEN /\ x.k = "list"
         /\ Last(p.dims) \in {-1, Len(x.f)}
         /\ \A i \in DOMAIN x.f : Fits([p EXCEPT !.dims = Front(@), !.size = 0], x.f[i], call)
    ELSE CASE p.base = "tuple" ->
                \/ /\ x.k = "list"
                   /\ Len(x.f) = Len(p.sub) \/ (call /\ Len(x.f) > Len(p.sub))
                   /\ \A i \in DOMAIN p.sub : Fits(p.sub[i], x.f[i], call)
                \/ /\ call /\ x.k = "object"
                   /\ \A i \in DOMAIN p.sub : Fits(p.sub[i], At(x, i, p.sub[i].name), call)
           [] p.base = "uint" -> x.k # "empty" /\ \E v \in IntOf(x) : v >= 0 /\ v < 2^Bits(p.size)
           [] p.base = "bytes" -> IsBytes(x, 0) /\ (p.size # 0 => IsBytes(x, p.size))
           [] OTHER -> Accepts(Format(p.base, p.size), x)

RECURSIVE At2(_, _, _)
At2(ps, x, path) ==     \* the type and the data at a path
    LET p == ps[path[1]]
        y == x.f[path[1]]
    IN  IF Len(path) = 1 THEN <<p, y>>
        ELSE IF p.dims # <<>>
        THEN At2([i \in DOMAIN y.f |-> [p EXCEPT !.dims = Front(@), !.size = 0]], y, Tail(path))
        ELSE At2(p.sub, y, Tail(path))

(* Data are accepted exactly if every one of them fits its type, whatever it  *)
(* nests of arrays and structs, and each issue that is reported is of data    *)
(* that do not fit; a call accepts the structs its types name, given by name  *)
(* or by position, with arrays of up to two dimensions.                       *)
ValidatesExactly ==
    /\ (asked.k = "data" /\ verdict # Invalid) =>
          /\ verdict.of = {} <=> /\ Len(asked.data.f) = Len(asked.params)
                                 /\ \A i \in DOMAIN asked.params : Fits(asked.params[i], asked.data.f[i], FALSE)
          /\ \A issue \in verdict.of : issue.path # <<>> =>
                LET at == At2(asked.params, asked.data, issue.path) IN ~Fits(at[1], at[2], FALSE)
    /\ (asked.k = "call" /\ Len(asked.data.f) = Len(asked.params)
            /\ \A i \in DOMAIN asked.params : ~Throws(AbiSchema(asked.params[i]))) =>
          ((verdict # Invalid /\ verdict.of = {})
             <=> \A i \in DOMAIN asked.params : Fits(asked.params[i], asked.data.f[i], TRUE))

(* What a bloom filter holds is found in it.                                  *)
NothingMissedInBloom ==
    (asked.k = "bloom" /\ asked.hash \in asked.held) => verdict.found
===============================================================================
