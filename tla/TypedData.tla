------------------------------ MODULE TypedData -------------------------------
(* QRL typed data, qrl_typed_data.ts: the message an application signs for a  *)
(* structured value. Types are given by name, fields may be structs, arrays   *)
(* of them and atoms. keccak256 and the ABI encoding of a list of values of   *)
(* given types are injective, so both are the term they are taken of.         *)
(*                                                                            *)
(* A field's type is a record [base, dims]: a name and the lengths of the     *)
(* arrays around it, innermost first, 0 for [] (and for [0], which the code   *)
(* does not tell from it). A value is [k, v]. Structs that contain themselves *)
(* are left out: getDependencies() does not return for them.                  *)
EXTENDS Integers, Sequences, FiniteSets, SequencesExt

CONSTANTS
    Definitions,        \* the sets of struct types an application may sign for
    MessagesOf(_),      \* the messages it has for one of them
    Before(_, _)        \* the order of sort() on the names

VARIABLES
    types,      \* the definitions: from a name to its fields
    message,    \* the value of the primary type
    signed      \* what was signed: a sequence of pairs <<definitions, message, term>>

vars == <<types, message, signed>>

PrimaryType == "Mail"
Missing == [k |-> "missing", v |-> <<>>]
Failed == [k |-> "failed", v |-> <<>>]
Term(k, v) == [k |-> k, v |-> v]

RECURSIVE GetDependencies(_, _, _), EncodeValue(_, _, _), EncodeData(_, _, _)

FaultGetDependencies(defs, base, known) ==  \* the types of the fields alone
    IF base \in Range(known) \/ base \notin DOMAIN defs THEN known
    ELSE <<base>> \o SelectSeq([i \in DOMAIN defs[base] |-> defs[base][i].type.base],
                               LAMBDA d : d \in DOMAIN defs)

(* getDependencies(): the type and those its fields need, each once. `known'  *)
(* are the ones found before it, for which nothing is added.                  *)
GetDependencies(defs, base, known) ==
    IF base \in Range(known) \/ base \notin DOMAIN defs THEN known
    ELSE LET add(previous, field) ==
                previous \o SelectSeq(GetDependencies(defs, field.type.base, previous),
                                      LAMBDA d : d \notin Range(previous))
         IN  <<base>> \o FoldLeft(add, <<>>, defs[base])

(* encodeType(): the primary type first, the others sorted, with their fields.*)
EncodeType(defs, base) ==
    LET deps == GetDependencies(defs, base, <<>>)
        all == <<Head(deps)>> \o SortSeq(Tail(deps), Before)
    IN  [i \in DOMAIN all |-> <<all[i], defs[all[i]]>>]

(* encodeValue(): an array is the hash of its encoded elements, of the length *)
(* its type says; a struct is its hash, strings and bytes are hashed.         *)
Hashable == {"string", "bytes"}

EncodeArray(defs, type, v) ==
    LET dims == type.dims
        item == [type EXCEPT !.dims = Front(dims)]
        items == [i \in DOMAIN v.v |-> EncodeValue(defs, item, v.v[i])]
    IN  IF v.k # "list" THEN Failed
        ELSE IF Last(dims) # 0 /\ Len(v.v) # Last(dims) THEN Failed
        ELSE IF \E i \in DOMAIN v.v : items[i] = Failed THEN Failed
        ELSE Term("hash", [i \in DOMAIN v.v |-> items[i]])

EncodeValue(defs, type, v) ==
    CASE type.dims # <<>> -> EncodeArray(defs, type, v)
      [] type.dims = <<>> /\ type.base \in DOMAIN defs ->
            LET data == EncodeData(defs, type.base, v)
            IN  IF data = Failed THEN Failed ELSE Term("hash", data)
      [] type.dims = <<>> /\ type.base \in Hashable -> IF v.k = type.base THEN Term("hash", v) ELSE Failed
      [] OTHER -> IF v.k = type.base THEN Term("word", v) ELSE Failed

(* encodeData(): the hash of the type, then the fields in their order; a      *)
(* field whose value is missing is refused.                                   *)
EncodeData(defs, base, data) ==
    LET fields == defs[base]
        value(f) == IF f.name \in DOMAIN data.v THEN data.v[f.name] ELSE Missing
        parts == [i \in DOMAIN fields |-> EncodeValue(defs, fields[i].type, value(fields[i]))]
    IN  IF \/ data.k # "struct"
           \/ \E i \in DOMAIN fields : value(fields[i]) = Missing
           \/ \E i \in DOMAIN fields : parts[i] = Failed
        THEN Failed
        ELSE Term("data", <<Term("typehash", EncodeType(defs, base)), parts>>)

(* getMessage(): the prefix, the hash of the domain and that of the message.  *)
(* The domain is the same for all messages here.                              *)
GetMessage(defs, m) == EncodeValue(defs, [base |-> PrimaryType, dims |-> <<>>], m)

-----------------------------------------------------------------------------
Init ==
    /\ types \in Definitions
    /\ message \in MessagesOf(types)
    /\ signed = <<>>

Idle == types = <<>> /\ message = Missing /\ signed = <<>>

(* The application signs the message; then another one, perhaps for other     *)
(* definitions of the same names.                                             *)
Sign ==
    /\ Len(signed) < 2
    /\ signed' = Append(signed, [types |-> types, message |-> message, term |-> GetMessage(types, message)])
    /\ IF signed = <<>> THEN \E defs \in Definitions : types' = defs /\ message' \in MessagesOf(defs)
                        ELSE UNCHANGED <<types, message>>

Done == Len(signed) = 2 /\ UNCHANGED vars

Next == Sign \/ Done

Spec == Init /\ [][Next]_vars

-----------------------------------------------------------------------------
(* The struct types a type needs, by definition.                              *)
RECURSIVE Needed(_, _)
Needed(defs, base) ==
    IF base \notin DOMAIN defs THEN {}
    ELSE {base} \cup UNION {Needed(defs, defs[base][i].type.base) : i \in DOMAIN defs[base]}

(* Two messages have the same text to sign only if they are the same message  *)
(* under the same definitions of every type they use: a signature cannot be   *)
(* taken for one over another value, or another struct (getDependencies()     *)
(* finds every type, once, in whatever order the fields mention them).        *)
SignedIsUnique ==
    /\ \A i, j \in DOMAIN signed :
          signed[i].term # Failed /\ signed[i].term = signed[j].term =>
             /\ signed[i].message = signed[j].message
             /\ Needed(signed[i].types, PrimaryType) = Needed(signed[j].types, PrimaryType)
             /\ \A t \in Needed(signed[i].types, PrimaryType) : signed[i].types[t] = signed[j].types[t]
    /\ LET deps == GetDependencies(types, PrimaryType, <<>>)
       IN  /\ Range(deps) = Needed(types, PrimaryType)
           /\ Len(deps) = Cardinality(Range(deps))
           /\ deps[1] = PrimaryType
===============================================================================
