------------------------------- MODULE AbiCoder -------------------------------
(* The ABI coder of packages/abi: what AbiCoder.encode() writes for a list of *)
(* parameters and what AbiCoder.decode() reads back, from that data or from   *)
(* any other.                                                                 *)
(*                                                                            *)
(* A parameter is a record [k, size, sub, len, name]: the kind of its coder,  *)
(* the bytes of a uint, int or bytesN, the components of a tuple or the child *)
(* of an array, the length of an array (-1: dynamic), and its local name      *)
(* ("": none). A value is a record [k, v]. The word of 64 bytes of 256 values *)
(* is one of WordSize bytes of Base values. The byte Base - 1 stands for what *)
(* never occurs in UTF-8. Only TLC's runs use the module: its operators are   *)
(* recursive, as the coders are.                                              *)
EXTENDS Integers, Sequences, FiniteSets, SequencesExt

CONSTANTS
    WordSize,   \* bytes of a word: 64 in the code
    Base,       \* values of a byte: 256 in the code
    MaxSafe     \* largest number BigNumber.toNumber() converts: 2^53 - 1 in the code

ConstantsOK == WordSize \in Nat \ {0} /\ Base \in Nat \ {0, 1} /\ MaxSafe \in Nat

Type(k, size, sub, len, name) ==
    [k |-> k, size |-> size, sub |-> sub, len |-> len, name |-> name]

Null == [k |-> "null", v |-> <<>>]
Error == [k |-> "error", v |-> <<>>]    \* what a getter that throws stands for

-----------------------------------------------------------------------------
(* Words and bytes.                                                           *)
ToBytes(n, size) == [i \in 1..size |-> (n \div Base^(size - i)) % Base]
FromBytes(bytes) == FoldLeft(LAMBDA n, b : n * Base + b, 0, bytes)
Zeros(n) == [i \in 1..n |-> 0]
RoundUp(n) == ((n + WordSize - 1) \div WordSize) * WordSize

Written(data) == [err |-> "none", data |-> data]
Refused(err) == [err |-> err, data |-> <<>>]

(* Writer.writeValue(): a number, padded on the left to a word.               *)
WriteValue(n) ==
    IF n >= Base^WordSize THEN Refused("overrun") ELSE Written(ToBytes(n, WordSize))

(* Writer.writeBytes(): bytes, padded on the right to words.                  *)
WriteBytes(bytes) == Written(bytes \o Zeros(RoundUp(Len(bytes)) - Len(bytes)))

(* Reader._peekBytes() and readBytes(): whole words, unless the reader and    *)
(* the call are loose and the bytes themselves are there.                     *)
ReadBytes(data, off, n, loose) ==
    LET whole == off + RoundUp(n) <= Len(data)
        bare == loose /\ off + n <= Len(data)
    IN  IF whole \/ bare
        THEN [err |-> "none", bytes |-> SubSeq(data, off + 1, off + n),
              off |-> off + (IF whole THEN RoundUp(n) ELSE n)]
        ELSE [err |-> "overrun", bytes |-> <<>>, off |-> off]

(* Reader.subReader(): the data from an offset on, read from its start.       *)
From(data, off) == SubSeq(data, off + 1, Len(data))

-----------------------------------------------------------------------------
(* _getCoder(): the types there is a coder for, and which are dynamic.        *)
RECURSIVE HasCoder(_), Dynamic(_)

HasCoder(p) ==
    CASE p.k \in {"address", "bool", "string", "bytes", "null"} -> TRUE
      [] p.k \in {"uint", "int", "fixed"} -> p.size \in 1..WordSize
      [] p.k = "array" -> HasCoder(p.sub[1])
      [] p.k = "tuple" -> \A i \in DOMAIN p.sub : HasCoder(p.sub[i])
      [] OTHER -> FALSE

Dynamic(p) ==
    CASE p.k \in {"string", "bytes"} -> TRUE
      [] p.k = "array" -> p.len = -1 \/ Dynamic(p.sub[1])
      [] p.k = "tuple" -> \E i \in DOMAIN p.sub : Dynamic(p.sub[i])
      [] OTHER -> FALSE

-----------------------------------------------------------------------------
(* Encoding.                                                                  *)
RECURSIVE Encode(_, _)

(* NumberCoder.encode(): bounds by the size of the type, then two's           *)
(* complement over the whole word.                                            *)
EncodeNumber(p, v) ==
    LET full == Base^p.size
        fits == IF p.k = "int" THEN -(full \div 2) <= v.v /\ v.v < full \div 2
                               ELSE 0 <= v.v /\ v.v < full
    IN  IF v.k # "number" \/ ~fits THEN Refused("argument")
        ELSE WriteValue(v.v % Base^WordSize)

(* The values pack() takes from its argument: those of an array in order, or  *)
(* those of an object by the names of the coders, which must all have one and *)
(* differ. A name the object lacks is undefined.                              *)
PackedNames(params, v) ==
    IF v.k = "list" THEN v.v
    ELSE [i \in DOMAIN params |->
            IF params[i].name \in DOMAIN v.v THEN v.v[params[i].name] ELSE Null]

Packable(params, v) ==
    \/ v.k = "list" /\ Len(v.v) = Len(params)
    \/ /\ v.k = "object"
       /\ \A i \in DOMAIN params : params[i].name # ""
       /\ \A i, j \in DOMAIN params : i # j => params[i].name # params[j].name

SumLengths(parts, S) == FoldLeft(LAMBDA n, i : IF i \in S THEN n + Len(parts[i].data) ELSE n,
                                 0, [i \in DOMAIN parts |-> i])

(* pack(): heads first, tails after them; the head of a dynamic value is the  *)
(* offset of its tail from the start of the heads, filled in once the length  *)
(* of the heads is known. The first coder that throws decides the error.      *)
OffsetOf(heads, tails, dynamic, i) ==
    SumLengths(heads, DOMAIN heads) + SumLengths(tails, {j \in dynamic : j < i})

HeadsOf(written, dynamic) ==
    LET slots == [i \in DOMAIN written |->
                     IF i \in dynamic THEN Written(Zeros(WordSize)) ELSE written[i]]
    IN  [i \in DOMAIN written |->
            IF i \in dynamic THEN WriteValue(OffsetOf(slots, written, dynamic, i)) ELSE written[i]]

DataOf(parts, S) == FoldLeft(LAMBDA d, i : IF i \in S THEN d \o parts[i].data ELSE d,
                             <<>>, [i \in DOMAIN parts |-> i])

Joined(heads, tails, dynamic) ==
    IF \E i \in dynamic : heads[i].err # "none" THEN Refused("overrun")
    ELSE Written(DataOf(heads, DOMAIN heads) \o DataOf(tails, dynamic))

PackWritten(written, dynamic) ==
    LET failed == {i \in DOMAIN written : written[i].err # "none"}
    IN  IF failed # {} THEN written[CHOOSE i \in failed : \A j \in failed : i <= j]
        ELSE Joined(HeadsOf(written, dynamic), written, dynamic)

Pack(params, v) ==
    IF ~Packable(params, v) THEN Refused("argument")
    ELSE PackWritten([i \in DOMAIN params |-> Encode(params[i], PackedNames(params, v)[i])],
                     {i \in DOMAIN params : Dynamic(params[i])})

(* ArrayCoder.encode(): the count when the length is not part of the type,    *)
(* then the elements, as many as the type says.                               *)
Counted(count, elements) ==
    IF count.err # "none" THEN count
    ELSE IF elements.err # "none" THEN elements
    ELSE Written(count.data \o elements.data)

EncodeArray(p, v) ==
    IF v.k # "list" \/ (p.len # -1 /\ Len(v.v) # p.len) THEN Refused("argument")
    ELSE Counted(IF p.len = -1 THEN WriteValue(Len(v.v)) ELSE Written(<<>>),
                 Pack([i \in DOMAIN v.v |-> p.sub[1]], v))

EncodeBytes(v, k) ==
    LET count == WriteValue(Len(v.v))
    IN  IF v.k # k THEN Refused("argument")
        ELSE IF count.err # "none" THEN count
        ELSE Written(count.data \o WriteBytes(v.v).data)

EncodeString(v) == EncodeBytes(v, "string")

(* An address fills a word; bytesN has exactly N bytes, padded on the right.  *)
EncodeAddress(v) ==
    IF v.k = "bytes" /\ Len(v.v) = WordSize THEN Written(v.v) ELSE Refused("argument")

EncodeFixedBytes(p, v) ==
    IF v.k = "bytes" /\ Len(v.v) = p.size THEN WriteBytes(v.v) ELSE Refused("argument")

(* A bool takes any value for true that JavaScript does.                      *)
Truthy(v) ==
    CASE v.k = "bool"   -> v.v
      [] v.k = "number" -> v.v # 0
      [] v.k = "string" -> v.v # <<>>
      [] OTHER -> v.k # "null"

EncodeBoolean(v) == WriteValue(IF Truthy(v) THEN 1 ELSE 0)
EncodeNull(v) == IF v.k = "null" THEN Written(<<>>) ELSE Refused("argument")
EncodeTuple(p, v) ==
    IF v.k \in {"list", "object"} THEN Pack(p.sub, v) ELSE Refused("argument")

Encode(p, v) ==
    CASE p.k = "address" -> EncodeAddress(v)
      [] p.k = "bool" -> EncodeBoolean(v)
      [] p.k \in {"uint", "int"} -> EncodeNumber(p, v)
      [] p.k = "fixed" -> EncodeFixedBytes(p, v)
      [] p.k = "bytes" -> EncodeBytes(v, "bytes")
      [] p.k = "string" -> EncodeString(v)
      [] p.k = "null" -> EncodeNull(v)
      [] p.k = "array" -> EncodeArray(p, v)
      [] p.k = "tuple" -> EncodeTuple(p, v)

(* AbiCoder.encode().                                                         *)
EncodeAll(params, values) ==
    IF Len(params) # Len(values) \/ \E i \in DOMAIN params : ~HasCoder(params[i])
    THEN Refused("argument")
    ELSE Pack(params, [k |-> "list", v |-> values])

-----------------------------------------------------------------------------
(* Decoding. A decoder returns its error, its value and where it stopped:     *)
(* "overrun" ends the whole decoding, "fault" (a number toNumber() refuses,   *)
(* or bytes that are no UTF-8) is kept by unpack() as a value that throws     *)
(* when it is read.                                                           *)
RECURSIVE Decode(_, _, _, _)

Read(val, off) == [err |-> "none", val |-> val, off |-> off]
Failed(err) == [err |-> err, val |-> Error, off |-> 0]

(* unpack(): a dynamic value is decoded where its head points, counted from   *)
(* where the heads start; a value that is null is not kept. An offset that is *)
(* no safe number is refused outside the try that keeps errors as values.     *)
Kept(state, there) ==
    IF there.err = "overrun" THEN [state EXCEPT !.err = "overrun"]
    ELSE [state EXCEPT !.off = there.off, !.vals = IF there.val = Null THEN @ ELSE Append(@, there.val)]

UnpackAt(state, p, head, data, loose) ==
    IF head.err # "none" THEN [state EXCEPT !.err = "overrun"]
    ELSE IF FromBytes(head.bytes) > MaxSafe THEN [state EXCEPT !.err = "fault"]
    ELSE Kept(state, [Decode(p, From(data, FromBytes(head.bytes)), 0, loose) EXCEPT !.off = head.off])

UnpackOne(state, p, data, base, loose) ==
    IF state.err # "none" THEN state
    ELSE IF Dynamic(p)
    THEN UnpackAt(state, p, ReadBytes(data, state.off, WordSize, FALSE), From(data, base), loose)
    ELSE Kept(state, Decode(p, data, state.off, loose))

(* The names unpack() and TupleCoder.defaultValue() give the values of a      *)
(* tuple: those that occur once, at the place of their coder in the array.    *)
(* No parameter is called as a member of arrays is, like `map' or `length'.   *)
Named(params, vals) ==
    LET places(n) == {i \in DOMAIN params : params[i].name = n}
        unique == {params[i].name : i \in {j \in DOMAIN params :
                        params[j].name # "" /\ Cardinality(places(params[j].name)) = 1}}
        place(n) == CHOOSE i \in places(n) : TRUE
    IN  [n \in unique |-> IF place(n) \in DOMAIN vals THEN vals[place(n)] ELSE Null]

Result(params, last) ==
    IF last.err # "none" THEN Failed(last.err)
    ELSE Read([k |-> "result", v |-> last.vals, names |-> Named(params, last.vals)], last.off)

Unpack(params, data, off, loose) ==
    Result(params, FoldLeft(LAMBDA state, p : UnpackOne(state, p, data, off, loose),
                            [err |-> "none", off |-> off, vals |-> <<>>], params))

(* ArrayCoder.decode(): a count is refused when there cannot be a word for    *)
(* every element; the elements have no names.                                 *)
DecodeArray(p, data, off, loose) ==
    LET head == ReadBytes(data, off, WordSize, FALSE)
        count == IF p.len = -1 THEN FromBytes(head.bytes) ELSE p.len
        start == IF p.len = -1 THEN head.off ELSE off
        child == [p.sub[1] EXCEPT !.name = ""]
    IN  IF p.len = -1 /\ head.err # "none" THEN Failed("overrun")
        ELSE IF p.len = -1 /\ count > MaxSafe THEN Failed("fault")
        ELSE IF p.len = -1 /\ count * WordSize > Len(data) THEN Failed("overrun")
        ELSE Unpack([i \in 1..count |-> child], data, start, loose)

(* StringCoder.decode() refuses what is no UTF-8: here, the greatest byte.    *)
Utf8(bytes) == \A i \in DOMAIN bytes : bytes[i] # Base - 1

(* DynamicBytesCoder.decode() and StringCoder.decode().                       *)
DecodeBytes(p, data, off, loose) ==
    LET head == ReadBytes(data, off, WordSize, FALSE)
        count == FromBytes(head.bytes)
        body == ReadBytes(data, head.off, count, loose)
    IN  IF head.err # "none" THEN Failed("overrun")
        ELSE IF count > MaxSafe THEN Failed("fault")
        ELSE IF body.err # "none" THEN Failed("overrun")
        ELSE IF p.k = "string" /\ ~Utf8(body.bytes) THEN Failed("fault")
        ELSE Read([k |-> p.k, v |-> body.bytes], body.off)

(* NumberCoder.decode(): the low bytes of the word, as the type reads them.   *)
FaultDecodeNumber(p, word) == FromBytes(word)    \* not masked

DecodeNumber(p, word) ==
    LET full == Base^p.size
        low == FromBytes(word) % full
    IN  IF p.k = "int" /\ low >= full \div 2 THEN low - full ELSE low

DecodeBoolean(word) == [k |-> "bool", v |-> FromBytes(word) # 0]
DecodeAddress(word) == [k |-> "bytes", v |-> word]
DecodeFixedBytes(word) == [k |-> "bytes", v |-> word]

DecodeWord(p, data, off) ==
    LET word == ReadBytes(data, off, IF p.k = "fixed" THEN p.size ELSE WordSize, FALSE)
        val == CASE p.k = "bool" -> DecodeBoolean(word.bytes)
                 [] p.k \in {"uint", "int"} -> [k |-> "number", v |-> DecodeNumber(p, word.bytes)]
                 [] p.k = "fixed" -> DecodeFixedBytes(word.bytes)
                 [] OTHER -> DecodeAddress(word.bytes)
    IN  IF word.err # "none" THEN Failed("overrun") ELSE Read(val, word.off)

Decode(p, data, off, loose) ==
    CASE p.k \in {"string", "bytes"} -> DecodeBytes(p, data, off, loose)
      [] p.k = "array" -> DecodeArray(p, data, off, loose)
      [] p.k = "tuple" -> Unpack(p.sub, data, off, loose)
      [] p.k = "null" -> Read(Null, off)
      [] OTHER -> DecodeWord(p, data, off)

(* AbiCoder.decode().                                                         *)
DecodeAll(params, data, loose) ==
    IF \E i \in DOMAIN params : ~HasCoder(params[i]) THEN Failed("argument")
    ELSE Unpack(params, data, 0, loose)

-----------------------------------------------------------------------------
(* getDefaultValue(): what the coders call the value of nothing.              *)
RECURSIVE DefaultValue(_)

DefaultValue(p) ==
    CASE p.k \in {"address", "fixed"} ->
            [k |-> "bytes", v |-> Zeros(IF p.k = "fixed" THEN p.size ELSE WordSize)]
      [] p.k = "bool" -> [k |-> "bool", v |-> FALSE]
      [] p.k \in {"uint", "int"} -> [k |-> "number", v |-> 0]
      [] p.k \in {"bytes", "string"} -> [k |-> p.k, v |-> <<>>]
      [] p.k = "null" -> Null
      [] p.k = "array" -> [k |-> "list", v |-> [i \in 1..p.len |-> DefaultValue(p.sub[1])]]
      [] p.k = "tuple" -> [k |-> "list", v |-> [i \in DOMAIN p.sub |-> DefaultValue(p.sub[i])]]

-----------------------------------------------------------------------------
(* What a decoded value says, without the names: the list a caller would pass *)
(* to encode it again.                                                        *)
RECURSIVE Plain(_), Sound(_), Erroneous(_)

Plain(val) ==
    CASE val.k = "result" -> [k |-> "list", v |-> [i \in DOMAIN val.v |-> Plain(val.v[i])]]
      [] val.k = "list" -> [k |-> "list", v |-> [i \in DOMAIN val.v |-> Plain(val.v[i])]]
      [] OTHER -> val

Erroneous(val) ==
    \/ val.k = "error"
    \/ val.k = "result" /\ \E i \in DOMAIN val.v : Erroneous(val.v[i])

(* A type none of whose parts is null: checkResultErrors() and the callers    *)
(* find a value at the place of its coder.                                    *)
Sound(p) == p.k # "null" /\ \A i \in DOMAIN p.sub : Sound(p.sub[i])
===============================================================================
