------------------------------- MODULE Formatter ------------------------------
(* format() of web3-utils: what a node answered, converted along a schema to  *)
(* the number and bytes format an application asked for. Data are scalars,    *)
(* objects (sequences of fields, as an object keeps their order) and arrays;  *)
(* schemas are scalars of a type, objects, arrays, tuples and choices between *)
(* arrays ("oneOf"). A scalar has a value and the form it is written in.      *)
EXTENDS Integers, Sequences, SequencesExt, TLC

CONSTANTS
    Jobs,           \* the data and schemas that are formatted
    Formats,        \* pairs of a number format and a bytes format
    MaxSafe         \* the largest integer a JavaScript number holds exactly

VARIABLES
    job,            \* what is formatted, and how
    formatted       \* what format() returned

vars == <<job, formatted>>

Undefined == [k |-> "undefined"]
Null == [k |-> "null"]
Scalar(v, as) == [k |-> "scalar", v |-> v, as |-> as]
Object(fields) == [k |-> "object", f |-> fields]
Array(items) == [k |-> "array", f |-> items]
Field(key, v) == [key |-> key, v |-> v]

Key(i) == ToString(i - 1)       \* of the i-th element of an array

Idle == job = Undefined /\ formatted = Undefined

-----------------------------------------------------------------------------
FaultFindSchema(schema, dataPath, oneOfPath) ==
    LET Step(found, part) ==
            CASE found.k = "object" -> IF part \in DOMAIN found.of THEN found.of[part] ELSE Undefined
              [] found.k = "array" ->
                    IF found.of.k # "object" THEN found.of
                    ELSE IF part \in DOMAIN found.of.of THEN found.of.of[part] ELSE Undefined
              [] found.k = "tuple" -> found.of[part]
              [] OTHER -> Undefined
    IN  FoldLeft(Step, schema, dataPath)

(* findSchemaByDataPath(), from the root of the schema. At a choice the first *)
(* option that was noted for the key before is taken.                         *)
FindSchema(schema, dataPath, oneOfPath) ==
    LET Chosen(found, prev) ==
            LET at == {i \in DOMAIN oneOfPath : oneOfPath[i].key = prev}
            IN  IF found.k # "oneOf" \/ at = {} THEN found
                ELSE found.of[oneOfPath[CHOOSE i \in at : \A j \in at : i <= j].index]
        Step(found, part) ==
            CASE found.k = "object" -> IF part \in DOMAIN found.of THEN found.of[part] ELSE Undefined
              [] found.k = "array" ->
                    IF found.of.k # "object" THEN found.of
                    ELSE IF part \in DOMAIN found.of.of THEN found.of.of[part] ELSE Undefined
              [] found.k = "tuple" -> found.of[part]
              [] OTHER -> Undefined
    IN  FoldLeft(LAMBDA s, i : Step(IF i = 1 THEN s ELSE Chosen(s, dataPath[i - 1]), dataPath[i]),
                 schema, [i \in DOMAIN dataPath |-> i])

(* toBigInt() takes numbers and their strings, but no negative hex string;    *)
(* Number() of it rounds above MaxSafe.                                       *)
Rounded(v) == IF v \in -MaxSafe..MaxSafe THEN v ELSE 2 * (v \div 2)

IsHex(x) == x.as = "HEX"
ConvertsToNumber(x) == x.as \in {"HEX", "NUMBER", "STR", "BIGINT"} /\ ~(IsHex(x) /\ x.v < 0)

PadBytes(digits, size) == [i \in 1..(2 * size - Len(digits)) |-> 0] \o digits

(* Bytes of a fixed size are padded on the left (0 for any size); hex strings *)
(* must then have an even number of digits.                                   *)
PaddedBytes(x, size) == IF Len(x.v) < 2 * size THEN PadBytes(x.v, size) ELSE x.v
ConvertsToBytes(x, size) ==
    \/ IsHex(x) /\ Len(PaddedBytes(x, size)) % 2 = 0
    \/ x.as = "UINT8ARRAY" /\ (size = 0 \/ Len(x.v) <= 2 * size)

(* convertScalarValue(): what cannot be converted is returned as it is.       *)
ConvertScalarValue(x, type, format) ==
    IF x.k # "scalar" \/ type.k # "scalar" THEN x
    ELSE CASE type.base = "uint" ->
                IF x.as = "UINT8ARRAY" \/ ~ConvertsToNumber(x) THEN x
                ELSE Scalar(IF format.number = "NUMBER" THEN Rounded(x.v) ELSE x.v, format.number)
           [] type.base = "bytes" ->
                IF ConvertsToBytes(x, type.size) THEN Scalar(PaddedBytes(x, type.size), format.bytes) ELSE x
           [] OTHER -> x

(* mergeDeep({}, data): a copy without fields that are null.                  *)
RECURSIVE MergeDeep(_)
MergeDeep(data) ==
    IF data.k # "object" THEN data
    ELSE LET kept == SelectSeq(data.f, LAMBDA f : f.v # Null)
         IN  Object([i \in DOMAIN kept |-> Field(kept[i].key, MergeDeep(kept[i].v))])

(* The options of a choice that go with the first element of an array.        *)
IsObjectLike(x) == x.k \in {"object", "null"} \/ (x.k = "scalar" /\ x.as = "UINT8ARRAY")
IsString(x) == x.k = "scalar" /\ x.as \in {"HEX", "STR"}
Picks(options, value) ==
    SelectSeq([i \in DOMAIN options |-> i], LAMBDA i :
        value # <<>> /\ ( \/ IsObjectLike(value[1]) /\ options[i].of.k = "object"
                          \/ IsString(value[1]) /\ options[i].of.k # "object"))

(* convert() of data found at dataPath. It returns the data and the choices   *)
(* noted by then: elements of an array share them, a nested object starts     *)
(* with none. A field the schema has no place for is deleted.                 *)
RECURSIVE Convert(_, _, _, _, _)
Convert(data, schema, dataPath, format, oneOfPath) ==
    LET Elements(value, path, noted) ==
            FoldLeft(LAMBDA s, x : LET c == Convert(x, schema, path, format, s.noted)
                                   IN  [f |-> Append(s.f, c.data), noted |-> c.noted],
                     [f |-> <<>>, noted |-> noted], value)
        Kept(s, key, v, noted) == [f |-> Append(s.f, Field(key, v)), noted |-> noted]
        Entry(s, entry) ==
            LET key == entry.key
                value == entry.v
                path == Append(dataPath, key)
                prop == FindSchema(schema, path, s.noted)
                picks == IF prop.k = "oneOf" /\ value.k = "array" THEN Picks(prop.of, value.f) ELSE <<>>
                noted == s.noted \o [i \in DOMAIN picks |-> [key |-> key, index |-> picks[i]]]
                taken == IF picks = <<>> THEN prop ELSE prop.of[Last(picks)]
            IN  CASE prop.k = "undefined" -> s
                  [] value.k = "object" -> Kept(s, key, Convert(value, schema, path, format, <<>>).data, s.noted)
                  [] value.k = "array" /\ taken.k \notin {"array", "tuple"} -> [s EXCEPT !.noted = noted]
                  [] value.k = "array" /\ taken.k = "tuple" ->
                        Kept(s, key, Array([i \in DOMAIN value.f |->
                                ConvertScalarValue(value.f[i], taken.of[Key(i)], format)]), noted)
                  [] value.k = "array" /\ taken.k = "array" /\ taken.of.k = "object" ->
                        LET e == Elements(value.f, path, noted) IN Kept(s, key, Array(e.f), e.noted)
                  [] value.k = "array" /\ taken.k = "array" /\ taken.of.k # "object" ->
                        Kept(s, key, Array([i \in DOMAIN value.f |->
                                ConvertScalarValue(value.f[i], taken.of, format)]), noted)
                  [] OTHER -> Kept(s, key, ConvertScalarValue(value, prop, format), s.noted)
        Over(fields) == FoldLeft(Entry, [f |-> <<>>, noted |-> oneOfPath], fields)
    IN  IF data.k = "object" THEN LET o == Over(data.f) IN [data |-> Object(o.f), noted |-> o.noted]
        ELSE IF data.k = "array"
        THEN LET o == Over([i \in DOMAIN data.f |-> Field(Key(i), data.f[i])])
                 At(i) == SelectSeq(o.f, LAMBDA f : f.key = Key(i))
             IN  [data |-> Array([i \in DOMAIN data.f |-> IF At(i) = <<>> THEN Undefined ELSE At(i)[1].v]),
                  noted |-> o.noted]
        ELSE [data |-> ConvertScalarValue(data, schema, format), noted |-> oneOfPath]

Format(schema, data, format) == Convert(MergeDeep(data), schema, <<>>, format, <<>>).data

FormatsData(j, format) ==
    /\ job' = [schema |-> j.schema, data |-> j.data, format |-> format, k |-> "job"]
    /\ formatted' = Format(j.schema, j.data, format)

Next == job = Undefined /\ \E j \in Jobs, format \in Formats : FormatsData(j, format)

-----------------------------------------------------------------------------
(* What a schema says of data, read from the schema inwards: a choice is made *)
(* for each array on its own.                                                 *)
Fits(option, value) == \A i \in DOMAIN value : IsObjectLike(value[i]) <=> option.of.k = "object"

SameScalar(x, y, type, format) ==
    CASE type.k # "scalar" \/ x.k # "scalar" -> y = x
      [] type.base = "uint" /\ ConvertsToNumber(x) ->
            y.as = format.number /\ (y.v = x.v \/ (y.as = "NUMBER" /\ x.v \notin -MaxSafe..MaxSafe))
      [] type.base = "bytes" /\ ConvertsToBytes(x, type.size) ->
            y.as = format.bytes /\ IsSuffix(x.v, y.v) /\ (type.size # 0 => Len(y.v) >= 2 * type.size)
      [] OTHER -> y = x

(* `under' says what the data is nested in: objects only, an array, or an     *)
(* array at a choice. What convert() does not reach is left as it is, which   *)
(* are lists in lists, or without its fields, which are objects in the        *)
(* objects of a choice.                                                       *)
RECURSIVE FormattedAs(_, _, _, _, _)
FormattedAs(x, y, schema, format, under) ==
    LET fits == IF schema.k # "oneOf" THEN schema
                ELSE LET i == {i \in DOMAIN schema.of : Fits(schema.of[i], x.f)}
                     IN  schema.of[CHOOSE n \in i : TRUE]
        below == IF schema.k = "oneOf" \/ under = "choice" THEN "choice" ELSE "array"
        known == SelectSeq(x.f, LAMBDA f : /\ f.key \in DOMAIN schema.of
                                           /\ under # "objects" \/ f.v # Null
                                           /\ ~(f.v = Array(<<>>) /\ schema.of[f.key].k = "oneOf"))
    IN  CASE x.k = "object" ->
               /\ y.k = "object"
               /\ [i \in DOMAIN y.f |-> y.f[i].key] = [i \in DOMAIN known |-> known[i].key]
               /\ \A i \in DOMAIN known :
                     IF known[i].v.k = "object" /\ under = "choice" THEN y.f[i].v = Object(<<>>)
                     ELSE FormattedAs(known[i].v, y.f[i].v, schema.of[known[i].key], format, under)
          [] x.k = "array" ->
               /\ y.k = "array" /\ Len(y.f) = Len(x.f)
               /\ \A i \in DOMAIN x.f :
                     IF fits.k = "array" /\ x.f[i].k = "array" THEN y.f[i] = x.f[i]
                     ELSE FormattedAs(x.f[i], y.f[i], IF fits.k = "tuple" THEN fits.of[Key(i)] ELSE fits.of,
                                      format, below)
          [] OTHER -> SameScalar(x, y, schema, format)

(* Every scalar the schema names arrives in the form that was asked for with  *)
(* the value it had (a number may be rounded above MaxSafe), through objects  *)
(* in objects, objects in lists, lists in tuples and the transactions of a    *)
(* block, and nothing else is lost: fields keep their order, arrays their     *)
(* length. Lists in lists, as the rewards of a fee history, arrive as they    *)
(* were, objects in the transactions of a block without their fields. Null    *)
(* fields, fields without a schema and empty arrays at a choice are dropped.  *)
FormatsAsAsked ==
    job.k = "job" => FormattedAs(job.data, formatted, job.schema, job.format, "objects")

-----------------------------------------------------------------------------
(* What comments, tests and documents say and the code does not do.           *)

(* getBlock(0) is documented to return a block with `transactions: []'        *)
(* (web3_qrl.ts:389 and :413): a list with no element stays a list.           *)
EmptyListsStay ==
    (job.k = "job" /\ job.data.k = "object") =>
        \A i \in DOMAIN job.data.f : job.data.f[i].v = Array(<<>>) /\ job.data.f[i].key \in DOMAIN job.schema.of =>
            \E j \in DOMAIN formatted.f : formatted.f[j] = job.data.f[i]

(* "returnFormat - Specifies how the return data from the call should be      *)
(* formatted" (web3_qrl.ts:1310): so it does for the rewards of a fee         *)
(* history, a list of lists.                                                  *)
RewardsFormatted ==
    job.k = "job" /\ job.data.k = "object" =>
        \A i \in DOMAIN formatted.f : formatted.f[i].key = "reward" =>
            \A list \in Range(formatted.f[i].v.f) : \A x \in Range(list.f) :
                ConvertsToNumber(x) => x.as = job.format.number
===============================================================================
