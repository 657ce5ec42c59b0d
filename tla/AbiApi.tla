-------------------------------- MODULE AbiApi --------------------------------
(* The functions of web3-qrl-abi and of the contract package's encoding.ts on *)
(* top of the ABI coder: parameters, function calls and their results, event  *)
(* filters and the logs they select, errors a contract reverts with.          *)
(*                                                                            *)
(* A behaviour follows one job. What leaves the library is `wire'; the node,  *)
(* external, may hand back less of it (an answer cut short), executes a call  *)
(* or emits a log. A parameter without a name was given as a string, one with *)
(* a name as an object; kind "struct" is the simplified format {Name: {...}}. *)
(* keccak256 is injective: a hash is the term it was taken of.                *)
EXTENDS AbiCoder

CONSTANT Jobs   \* what the application asks for

VARIABLES
    job,    \* the job: a record whose field `kind' says which
    stage,  \* how far it is
    wire,   \* the bytes, the filter or the log that is exchanged
    out     \* what the application got: [err, val]

vars == <<job, stage, wire, out>>

None == [err |-> "none", val |-> Null]
Wrong(why) == [err |-> why, val |-> Null]
Got(val) == [err |-> "none", val |-> val]

-----------------------------------------------------------------------------
(* utils.ts                                                                   *)
RECURSIVE MapType(_), Signature(_), ModifyThrows(_, _), Raises(_)

(* mapTypes(), mapStructNameAndType(), mapStructToCoderFormat(): a struct is  *)
(* a tuple, or a dynamic array of them.                                       *)
MapType(t) ==
    LET sub == [i \in DOMAIN t.sub |-> MapType(t.sub[i])]
        tuple == Type("tuple", 0, sub, 0, IF t.len = -1 THEN "" ELSE t.name)
    IN  IF t.k # "struct" THEN t
        ELSE IF t.len = -1 THEN Type("array", 0, <<tuple>>, -1, t.name)
        ELSE tuple

MapTypes(abi) == [i \in DOMAIN abi |-> MapType(abi[i])]

(* formatParam(): a bytesN given as a string type is padded on the right.     *)
(* What has no length makes it throw.                                         *)
FormatScalar(t, v) ==
    CASE t.k = "fixed" -> IF v.k # "bytes" THEN Error
                          ELSE IF Len(v.v) < t.size
                          THEN [v EXCEPT !.v = @ \o Zeros(t.size - Len(v.v))] ELSE v
      [] t.k \in {"uint", "int"} -> IF v = Null THEN Error ELSE v
      [] OTHER -> v

FormatParam(t, v) ==
    IF t.name # "" THEN v
    ELSE IF t.k = "array" /\ t.len = -1 /\ t.sub[1].k \in {"uint", "int", "fixed", "bytes"}
    THEN IF v.k # "list" \/ \E i \in DOMAIN v.v : FormatScalar(t.sub[1], v.v[i]) = Error
         THEN Error ELSE [v EXCEPT !.v = [i \in DOMAIN v.v |-> FormatScalar(t.sub[1], v.v[i])]]
    ELSE FormatScalar(t, v)

(* modifyParams() writes to an array of its own, whose only element is the    *)
(* whole value: it changes nothing, and throws where formatParam() finds no   *)
(* string, at every component but the first, or no end, for a fixed array.    *)
ModifyThrows(t, present) ==
    IF t.k = "array" THEN t.len # -1 \/ ModifyThrows(t.sub[1], present)
    ELSE \E i \in DOMAIN t.sub :
            LET c == t.sub[i]
                there == present /\ i = 1
            IN  CASE c.k = "tuple" -> ModifyThrows(c, there)
                  [] c.k \in {"uint", "int"} -> ~there
                  [] c.k = "fixed" -> TRUE
                  [] OTHER -> FALSE

HasTuple(t) == t.k = "tuple" \/ (t.k = "array" /\ t.sub[1].k = "tuple")

(* flattenTypes() and jsonInterfaceMethodToString(): names are left out.      *)
Signature(t) == [t EXCEPT !.name = "", !.sub = [i \in DOMAIN t.sub |-> Signature(t.sub[i])]]
FaultSignatureOf(name, params) == <<name, Len(params)>>    \* types left out
SignatureOf(name, params) == <<name, [i \in DOMAIN params |-> Signature(params[i])]>>

-----------------------------------------------------------------------------
(* parameters_api.ts                                                          *)
EncodeParameters(abi, params) ==
    LET types == MapTypes(abi)
        formatted == [i \in DOMAIN params |->
                        IF i \in DOMAIN types THEN FormatParam(types[i], params[i]) ELSE params[i]]
    IN  IF \/ \E i \in DOMAIN abi : abi[i].k = "function"
           \/ \E i \in DOMAIN params : formatted[i] = Error
           \/ \E i \in DOMAIN params \cap DOMAIN types :
                 types[i].name = "" /\ HasTuple(types[i]) /\ ModifyThrows(types[i], TRUE)
        THEN Refused("AbiError")
        ELSE EncodeAll(types, formatted)

(* What becomes of an encoding or a decoding that may have failed.            *)
Orelse(res, F(_)) == IF res.err # "none" THEN res ELSE F(res)
ElseAbiError(res, F(_)) == IF res.err # "none" THEN Wrong("AbiError") ELSE F(res)

(* formatArrayResToObject(): reads every value of the result, and those of a  *)
(* nested result that has names; a value that throws is met there.            *)
Raises(res) ==
    \E i \in DOMAIN res.v :
        LET x == res.v[i]
        IN  \/ x.k = "error"
            \/ x.k = "result" /\ DOMAIN x.names # {} /\ Raises(x)

DecodeParametersWith(abis, data, loose) ==
    IF \/ abis # <<>> /\ data = <<>>
       \/ \E i \in DOMAIN abis : abis[i].k = "function"
    THEN Wrong("AbiError")
    ELSE ElseAbiError(DecodeAll(MapTypes(abis), data, loose),
                      LAMBDA res : IF Raises(res.val) THEN Wrong("AbiError") ELSE Got(res.val))

-----------------------------------------------------------------------------
(* Events. An input is a pair of a parameter and whether it is indexed; a     *)
(* topic is a word, the padded hash of a value, or that of the signature. A   *)
(* place of a filter is the set of its alternatives, {} for null.             *)
Word(bytes) == [k |-> "word", v |-> bytes]
Hash(val) == [k |-> "hash", v |-> val]
SigTopic(event) ==
    [k |-> "signature", v |-> SignatureOf(event.name, [i \in DOMAIN event.inputs |-> event.inputs[i].p])]

AllEvents == [name |-> "ALLEVENTS", anonymous |-> FALSE, inputs |-> <<>>]

IndexedOf(event) == SelectSeq(event.inputs, LAMBDA input : input.indexed)
OthersOf(event) == SelectSeq(event.inputs, LAMBDA input : ~input.indexed)

(* input.type alone: no name, and no components of a tuple.                   *)
TypeOnly(p) == [p EXCEPT !.name = "", !.sub = IF p.k = "tuple" THEN <<>> ELSE @]

FaultEncodeTopic(p, v) ==   \* bytes not hashed
    ElseAbiError(EncodeParameters(<<TypeOnly(p)>>, <<v>>),
                 LAMBDA enc : Got(IF p.k = "string" THEN Hash(v) ELSE Word(enc.data)))

EncodeTopic(p, v) ==
    ElseAbiError(EncodeParameters(<<TypeOnly(p)>>, <<v>>),
                 LAMBDA enc : Got(IF p.k \in {"string", "bytes"} THEN Hash(v) ELSE Word(enc.data)))

(* encodeEventABI(): the signature, then a place for every indexed input; an  *)
(* array is a list of alternatives.                                           *)
EncodeEventABI(event, filter) ==
    LET asked(p) == IF filter[p.name].k = "list" THEN Range(filter[p.name].v) ELSE {filter[p.name]}
        coded(p) == {EncodeTopic(p, v) : v \in asked(p)}
        indexed == IndexedOf(event)
        given == {i \in DOMAIN indexed : indexed[i].p.name \in DOMAIN filter}
    IN  IF \E i \in given : \E t \in coded(indexed[i].p) : t.err # "none" THEN Wrong("AbiError")
        ELSE Got((IF event.anonymous \/ event = AllEvents THEN <<>> ELSE <<{SigTopic(event)}>>)
                   \o [i \in DOMAIN indexed |->
                         IF i \in given THEN {t.val : t \in coded(indexed[i].p)} ELSE {}])

(* decodeLog(): the indexed inputs from the topics, hashes of those that were *)
(* hashed, the others from the data, each at the place of its input.          *)
IsIndexedHash(p) == p.k \in {"string", "bytes", "function", "tuple", "array"}

DecodeTopic(p, topics, i) ==
    IF i \notin DOMAIN topics THEN Wrong("TypeError")
    ELSE IF IsIndexedHash(p) THEN Got(topics[i])
    ELSE IF topics[i].k # "word" THEN Got(topics[i])
    ELSE Orelse(DecodeParametersWith(<<TypeOnly(p)>>, topics[i].v, FALSE),
                LAMBDA dec : Got(dec.val.v[1]))

InPlace(inputs, rest, fromTopics) ==
    LET rank(i) == Cardinality({j \in 1..i : inputs[j].indexed = inputs[i].indexed})
    IN  IF \E i \in DOMAIN fromTopics : fromTopics[i].err # "none" THEN Wrong("AbiError")
        ELSE Got([i \in DOMAIN inputs |-> IF inputs[i].indexed THEN fromTopics[rank(i)].val
                                                             ELSE rest.val.v[rank(i)]])

DecodeLog(inputs, data, topics) ==
    LET indexed == IndexedOf([inputs |-> inputs])
        others == OthersOf([inputs |-> inputs])
        offset == Len(topics) - Len(indexed)
    IN  Orelse(DecodeParametersWith([i \in DOMAIN others |-> others[i].p], data, TRUE),
               LAMBDA rest : InPlace(inputs, rest,
                   [i \in DOMAIN indexed |-> DecodeTopic(indexed[i].p, topics, i + offset)]))

(* decodeEventABI(): the event of the interface the first topic names, if all *)
(* events were asked for; a log whose topics are not as many as the indexed   *)
(* inputs is taken for an anonymous event without inputs.                     *)
MatchedEvent(event, log, abis) ==
    LET found == {i \in DOMAIN abis : log.topics # <<>> /\ log.topics[1] = SigTopic(abis[i])}
    IN  IF event # AllEvents THEN event
        ELSE IF found # {} THEN abis[CHOOSE i \in found : \A j \in found : i <= j]
        ELSE [AllEvents EXCEPT !.anonymous = TRUE]

Shadowed(event, log) ==
    /\ ~event.anonymous
    /\ IndexedOf(event) # <<>>
    /\ Len(log.topics) # Len(IndexedOf(event)) + 1

Taken(event, log) ==
    IF Shadowed(event, log) THEN [event EXCEPT !.anonymous = TRUE, !.inputs = <<>>] ELSE event

DecodeTaken(event, log) ==
    Orelse(DecodeLog(event.inputs, log.data,
                     IF event.anonymous \/ log.topics = <<>> THEN log.topics ELSE Tail(log.topics)),
           LAMBDA dec : Got([event |-> event, values |-> dec.val]))

DecodeEventABI(event, log, abis) == DecodeTaken(Taken(MatchedEvent(event, log, abis), log), log)

-----------------------------------------------------------------------------
(* Calls and errors. A call is a selector and bytes.                          *)
EncodeMethodABI(f, args) ==
    IF Len(f.inputs) # Len(args) THEN Refused("Web3ContractError")
    ELSE Orelse(EncodeParameters(f.inputs, args),
                LAMBDA enc : Written([selector |-> SignatureOf(f.name, MapTypes(f.inputs)),
                                      args |-> enc.data]))

(* decodeMethodReturn(): a single value stands for itself.                    *)
DecodeMethodReturn(f, data) ==
    Orelse(DecodeParametersWith(f.outputs, data, FALSE),
           LAMBDA dec : Got(IF Len(dec.val.v) = 1 THEN dec.val.v[1] ELSE dec.val))

(* decodeContractErrorData(): the first error of the interface that has the   *)
(* selector; its name stays even if its arguments cannot be decoded.          *)
DecodeContractErrorData(errorsAbi, data) ==
    LET found == {i \in DOMAIN errorsAbi :
                    SignatureOf(errorsAbi[i].name, errorsAbi[i].inputs) = data.selector}
        abi == errorsAbi[CHOOSE i \in found : \A j \in found : i <= j]
    IN  IF found = {} THEN Got([name |-> "", args |-> Null])
        ELSE Got([name |-> abi.name,    \* Null, the value of Wrong(), if they cannot be
                  args |-> DecodeParametersWith(abi.inputs, data.args, FALSE).val])

-----------------------------------------------------------------------------
Init ==
    /\ job \in Jobs
    /\ stage = IF job.kind = "foreign" THEN "delivered" ELSE "given"
    /\ wire = IF job.kind = "foreign" THEN job.data ELSE <<>>
    /\ out = None

Idle == job = [kind |-> "idle"] /\ stage = "idle" /\ wire = <<>> /\ out = None

AsData(got) == [err |-> got.err, data |-> got.val]

Sends(kind, enc) ==
    /\ job.kind = kind /\ stage = "given"
    /\ stage' = IF enc.err = "none" THEN "sent" ELSE "done"
    /\ wire' = enc.data
    /\ out' = IF enc.err = "none" THEN None ELSE Wrong(enc.err)
    /\ UNCHANGED job

Receives(kind, got) ==
    /\ job.kind = kind /\ stage = "delivered"
    /\ stage' = "done"
    /\ out' = got
    /\ UNCHANGED <<job, wire>>

(* encodeParameters(), and an answer that holds the first n of its bytes.     *)
Encodes == Sends("params", EncodeParameters(job.types, job.values))

Deliver ==
    /\ job.kind = "params" /\ stage = "sent"
    /\ \E n \in 0..Len(wire) : wire' = SubSeq(wire, 1, n)
    /\ stage' = "delivered"
    /\ UNCHANGED <<job, out>>

Decodes ==
    \/ Receives("params", DecodeParametersWith(job.types, wire, job.loose))
    \/ Receives("foreign", DecodeParametersWith(job.types, wire, job.loose))

(* encodeMethodABI(), the function of the contract the selector names         *)
(* answering with values of its outputs, decodeMethodReturn().                *)
EncodesCall == Sends("call", EncodeMethodABI(job.f, job.values))

Execute ==
    /\ job.kind = "call" /\ stage = "sent"
    /\ \E f \in job.contract :
          /\ SignatureOf(f.name, MapTypes(f.inputs)) = wire.selector
          /\ wire' = EncodeAll(MapTypes(f.outputs), job.answer).data
    /\ stage' = "delivered"
    /\ UNCHANGED <<job, out>>

DecodesReturn == Receives("call", DecodeMethodReturn(job.f, wire))

(* encodeEventABI(), the contract emitting its event with some values, and    *)
(* decodeEventABI() if the log matches the filter.                            *)
EncodesFilter == Sends("event", AsData(EncodeEventABI(job.asked, job.filter)))

(* What the chain writes (external): as decodeLog() reads it.                 *)
Emitted(event, values) ==
    LET at == SelectSeq([i \in DOMAIN event.inputs |-> i], LAMBDA i : event.inputs[i].indexed)
        rest == SelectSeq([i \in DOMAIN event.inputs |-> i], LAMBDA i : ~event.inputs[i].indexed)
        topic(i) == LET p == event.inputs[i].p
                    IN  IF IsIndexedHash(p) THEN Hash(values[i]) ELSE Word(Encode(p, values[i]).data)
    IN  [topics |-> (IF event.anonymous THEN <<>> ELSE <<SigTopic(event)>>)
                       \o [i \in DOMAIN at |-> topic(at[i])],
         data |-> EncodeAll([i \in DOMAIN rest |-> event.inputs[rest[i]].p],
                            [i \in DOMAIN rest |-> values[rest[i]]]).data]

(* The node's rule (external): every place that is not null holds the topic.  *)
Matches(topics, log) ==
    /\ Len(topics) <= Len(log.topics)
    /\ \A i \in DOMAIN topics : topics[i] = {} \/ log.topics[i] \in topics[i]

Emit ==
    /\ job.kind = "event" /\ stage = "sent"
    /\ wire' = Emitted(job.event, job.values)
    /\ stage' = IF Matches(wire, wire') THEN "delivered" ELSE "unmatched"
    /\ UNCHANGED <<job, out>>

DecodesEvent == Receives("event", DecodeEventABI(job.asked, wire, job.abis))

(* A call reverted with an error of the contract.                             *)
DecodesError ==
    /\ job.kind = "error" /\ stage = "given"
    /\ stage' = "done"
    /\ wire' = [selector |-> SignatureOf(job.error.name, job.error.inputs),
                args |-> EncodeAll(job.error.inputs, job.values).data]
    /\ out' = DecodeContractErrorData(job.abis, wire')
    /\ UNCHANGED job

Done == stage \in {"done", "unmatched"} /\ UNCHANGED vars

Next ==
    \/ Encodes \/ Deliver \/ Decodes
    \/ EncodesCall \/ Execute \/ DecodesReturn
    \/ EncodesFilter \/ Emit \/ DecodesEvent
    \/ DecodesError
    \/ Done

Spec == Init /\ [][Next]_vars

-----------------------------------------------------------------------------
(* What the values of the application say once names are left out and short   *)
(* bytesN are padded: what the other side should read.                        *)
RECURSIVE Meant(_, _)

Meant(p, v) ==
    CASE p.k = "tuple" -> LET vals == PackedNames(p.sub, v)
                          IN  [k |-> "list", v |-> [i \in DOMAIN p.sub |-> Meant(p.sub[i], vals[i])]]
      [] p.k = "array" -> [k |-> "list", v |-> [i \in DOMAIN v.v |-> Meant(p.sub[1], v.v[i])]]
      [] p.k = "fixed" -> [v EXCEPT !.v = @ \o Zeros(p.size - Len(v.v))]
      [] OTHER -> v

MeantAll(abi, values) == [i \in DOMAIN abi |-> Meant(MapType(abi[i]), values[i])]

(* decodeParameters() returns the values encodeParameters() was given, at     *)
(* their places and under their names, and refuses none of its encodings. Of  *)
(* an answer cut short it returns the same values, when it is loose and only  *)
(* padding is missing, or nothing: it never makes up a value out of what is   *)
(* left (_peekBytes(), the offsets of pack(), unpack()).                      *)
DecodesWhatWasEncoded ==
    job.kind = "params" /\ stage = "done" /\ EncodeParameters(job.types, job.values).err = "none" =>
        LET sent == EncodeParameters(job.types, job.values).data
        IN  IF out.err = "none"
            THEN /\ Plain(out.val).v = MeantAll(job.types, job.values)
                 /\ \A i \in DOMAIN job.types : job.types[i].name \in DOMAIN out.val.names =>
                        out.val.names[job.types[i].name] = out.val.v[i]
                 /\ wire = sent \/ job.loose
            ELSE wire # sent

(* Whatever bytes a node answers with, what decodeParameters() makes of them  *)
(* are values of the types: encoding them and decoding that gives the same    *)
(* values again, though the bytes need not be those of encodeParameters().    *)
DecodedEncodesBack ==
    job.kind = "foreign" /\ stage = "done" /\ out.err = "none" =>
        \/ Erroneous(out.val)
        \/ LET again == EncodeAll(MapTypes(job.types), Plain(out.val).v)
           IN  /\ again.err = "none"
               /\ Plain(DecodeAll(MapTypes(job.types), again.data, FALSE).val) = Plain(out.val)

(* A filter on indexed values selects the logs of the event that carry those  *)
(* values and no others, and the log is decoded to the values it was emitted  *)
(* with, hashes for those the chain hashes (encodeEventABI(), decodeLog()).   *)
FilterSelects ==
    job.kind = "event" /\ job.event \in Range(job.abis)
        /\ (job.asked = job.event \/ job.asked = AllEvents) =>
        LET inputs == job.event.inputs
            asked(i) == job.filter[inputs[i].p.name]
            wanted == \A i \in DOMAIN inputs : inputs[i].indexed /\ inputs[i].p.name \in DOMAIN job.filter
                         => job.values[i] = asked(i) \/ (asked(i).k = "list" /\ job.values[i] \in Range(asked(i).v))
        IN  /\ stage = "unmatched" => ~wanted
            /\ stage = "delivered" => wanted
            /\ stage = "done" /\ job.asked.anonymous = job.event.anonymous =>
                  /\ out.err = "none"
                  /\ out.val.event = job.event
                  /\ \A i \in DOMAIN inputs : out.val.values[i] =
                        IF inputs[i].indexed /\ IsIndexedHash(inputs[i].p) THEN Hash(job.values[i])
                        ELSE job.values[i]

(* A method call reaches the function it was made for, of several of the same *)
(* name, with the arguments it was given, and its caller gets the answer; an  *)
(* error of the interface is recognised, with its arguments                   *)
(* (encodeMethodABI(), decodeMethodReturn(), decodeContractErrorData()).      *)
CallsArrive ==
    /\ job.kind = "call" /\ stage = "sent" =>
          \A f \in job.contract : SignatureOf(f.name, MapTypes(f.inputs)) = wire.selector =>
              /\ f = job.f
              /\ Plain(DecodeAll(MapTypes(f.inputs), wire.args, FALSE).val).v = MeantAll(f.inputs, job.values)
    /\ job.kind = "call" /\ stage = "done" /\ out.err = "none" =>
          Plain(out.val) = IF Len(job.answer) = 1 THEN job.answer[1]
                           ELSE [k |-> "list", v |-> job.answer]
    /\ job.kind = "error" /\ stage = "done" /\ job.error \in Range(job.abis) =>
          /\ out.val.name = job.error.name
          /\ out.val.args # Null /\ Plain(out.val.args).v = job.values

-----------------------------------------------------------------------------
(* What comments, tests and documents say and the code does not do.           *)

(* decodeEventABI(): "If # of topics doesn't match, event is anon."           *)
AnonymousIfTopicsDiffer ==
    job.kind = "event" /\ stage = "done" /\ ~job.asked.anonymous /\ job.asked # AllEvents
        /\ Len(wire.topics) # Len(IndexedOf(job.asked)) + 1 =>
        out.err = "none" /\ out.val.event.anonymous
===============================================================================
