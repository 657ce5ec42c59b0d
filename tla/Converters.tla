------------------------------ MODULE Converters ------------------------------
(* Converters, padding and packed encoding of web3-utils, with the helpers of *)
(* web3-validator they share. A number is an integer, a decimal string        *)
(* ("dec") or a hex string ("hex": sign and digits after 0x). Digits are      *)
(* below HexBase or DecBase; two hex digits are a byte. An error is the empty *)
(* set of results.                                                            *)
EXTENDS Integers, Sequences, SequencesExt

CONSTANTS
    Numbers,        \* the integers that are converted
    HexBase, NibbleBits,    \* a hex digit, HexBase = 2^NibbleBits
    DecBase,
    Widths,         \* nibble widths of two's complements
    Precision,      \* bits that a quotient of logarithms tells apart, 45 or more in the code
    Zeros,          \* zeros in a unit's denomination
    MaxDigits,      \* bound: digits before and after a decimal point
    IntBits,        \* bits of the largest integer type, 512 in the code
    Sizes,          \* sizes in bytes of the types that are packed
    AddressDigits   \* hex digits of an address, 128 in the code

ConstantsOK ==
    /\ HexBase = 2^NibbleBits /\ DecBase > 1
    /\ \A z \in Zeros : z \in Nat

VARIABLES
    op,             \* what is converted
    result          \* what came of it

vars == <<op, result>>

Idle == op = [k |-> "idle"] /\ result = {}

-----------------------------------------------------------------------------
RECURSIVE DigitsOf(_, _)
DigitsOf(n, base) == IF n < base THEN <<n>> ELSE Append(DigitsOf(n \div base, base), n % base)
ValueOf(digits, base) == FoldLeft(LAMBDA n, d : base * n + d, 0, digits)

Padding(n) == [i \in 1..(IF n > 0 THEN n ELSE 0) |-> 0]
PadStart(digits, width) == Padding(width - Len(digits)) \o digits
PadEnd(digits, width) == digits \o Padding(width - Len(digits))

RECURSIVE StripZeros(_)
StripZeros(digits) == IF digits # <<>> /\ digits[1] = 0 THEN StripZeros(Tail(digits)) ELSE digits

Hex(neg, digits) == [k |-> "hex", neg |-> neg, digits |-> digits]
Num(v) == [k |-> "int", v |-> v, neg |-> FALSE]
Dec(v) == [k |-> "dec", v |-> v, neg |-> FALSE]

(* numberToHex(): a hex string loses all its leading zeros, the last too.     *)
NumberToHex(x, hexstrict) ==
    LET hex == IF x.k = "hex" THEN Hex(x.neg, StripZeros(x.digits))
               ELSE Hex(x.v < 0, DigitsOf(IF x.v < 0 THEN -x.v ELSE x.v, HexBase))
    IN  IF hexstrict /\ Len(hex.digits) % 2 = 1 THEN [hex EXCEPT !.digits = <<0>> \o @] ELSE hex

(* hexToNumber(), for a hex string; BigInt('0x') throws.                      *)
HexToNumber(x) ==
    IF x.digits = <<>> THEN {}
    ELSE {IF x.neg THEN -ValueOf(x.digits, HexBase) ELSE ValueOf(x.digits, HexBase)}

ToNumber(x) == IF x.k = "hex" THEN HexToNumber(x) ELSE {x.v}

(* toBigInt(): a negative hex string is taken for a number, and BigInt()      *)
(* throws.                                                                    *)
ToBigInt(x) == IF x.k = "hex" THEN IF x.neg THEN {} ELSE HexToNumber(x) ELSE {x.v}

(* padLeft() and padRight(); padRight() wants a value of the largest type.    *)
PadLeft(x, width) == LET hex == IF x.k = "hex" THEN x ELSE NumberToHex(x, FALSE)
                     IN  [hex EXCEPT !.digits = PadStart(@, width)]

IsInt(x, bits) == \A v \in ToNumber(x) : v \in -(2^(bits - 1))..(2^(bits - 1) - 1)

PadRight(x, width) ==
    IF ToNumber(x) = {} \/ ~IsInt(x, IntBits) THEN {}
    ELSE LET hex == IF x.k = "hex" THEN x ELSE NumberToHex(x, FALSE)
         IN  {[hex EXCEPT !.digits = PadEnd(@, width)]}

-----------------------------------------------------------------------------

(* toTwosComplement(). The width is not checked for a value that is not       *)
(* negative.                                                                  *)
ToTwosComplement(v, width) ==
    IF v >= 0 THEN {PadLeft(Num(v), width)}
    ELSE IF -v >= HexBase^width THEN {}
    ELSE {PadLeft(Num(v + HexBase^width), width)}

(* Math.ceil(Math.log(Number(v)) / Math.log(2)), for v > 0. Number() and the  *)
(* quotient of the logarithms round: of a power of two, and what is not told  *)
(* apart from it, the quotient may come out on either side of the integer.    *)
CloseTo(v, k) == v \in (2^k - 2^k \div 2^Precision)..(2^k + 2^k \div 2^Precision)
LargestBit(v) ==
    LET up == IF v = 1 THEN 0 ELSE Len(DigitsOf(v - 1, 2))
    IN  {up} \cup {k + n : k \in {j \in {up - 1, up} : j >= 0 /\ CloseTo(v, j)}, n \in {0, 1}}

(* fromTwosComplement(): the outcomes it may have, each of them a set as      *)
(* above. Zero has no logarithm and is returned, as are negative numbers.     *)
FromTwosComplement(x, width) ==
    UNION {IF v <= 0 THEN {{v}}
           ELSE {CASE largestBit > NibbleBits * width -> {}
                   [] largestBit = NibbleBits * width -> {v - HexBase^width}
                   [] OTHER -> {v} : largestBit \in LargestBit(v)} : v \in ToNumber(x)}

-----------------------------------------------------------------------------
Minus == -1         \* the sign, in a string of decimal digits
Amount(whole, fraction, dot) == [k |-> "amount", whole |-> whole, fraction |-> fraction, dot |-> dot]

DecimalOf(n) == IF n < 0 THEN <<Minus>> \o DigitsOf(-n, DecBase) ELSE DigitsOf(n, DecBase)

(* fromPlanck(): the sign of a negative number is padded like a digit, and 0  *)
(* becomes `0.'.                                                              *)
FromPlanck(n, zeros) ==
    LET padded == PadStart(DecimalOf(n), zeros)
        whole == SubSeq(padded, 1, Len(padded) - zeros)
        fraction == Reverse(StripZeros(Reverse(SubSeq(padded, Len(padded) - zeros + 1, Len(padded)))))
    IN  IF zeros = 0 THEN Amount(DecimalOf(n), <<>>, FALSE)
        ELSE IF whole = <<>> THEN Amount(<<0>>, fraction, TRUE)
        ELSE Amount(whole, fraction, fraction # <<>>)

(* isNumber() of a string: digits and a point, or an integer with a sign.     *)
IsNumber(a) ==
    /\ \A i \in DOMAIN a.fraction : a.fraction[i] # Minus
    /\ \A i \in DOMAIN a.whole : a.whole[i] = Minus => i = 1 /\ ~a.dot /\ Len(a.whole) > 1

(* toPlanck(): the string that is left, which may be empty.                   *)
ToPlanck(a, zeros) ==
    LET digits == SelectSeq(a.whole \o a.fraction, LAMBDA d : d # Minus)
        scaled == DigitsOf(ValueOf(digits, DecBase) * DecBase^zeros, DecBase)
        decimals == IF Len(a.fraction) < zeros THEN Len(a.fraction) ELSE zeros
        padded == PadStart(scaled, decimals)
        sign == IF Minus \in ToSet(a.whole) THEN <<Minus>> ELSE <<>>
    IN  IF ~IsNumber(a) THEN {} ELSE {sign \o SubSeq(padded, 1, Len(padded) - decimals)}

-----------------------------------------------------------------------------
BitLength(v) == Len(DigitsOf(IF v < 0 THEN -v ELSE v, 2)) + IF v < 0 THEN 1 ELSE 0

(* hyperionPack() of a value for a type: uintN and intN of numbers, bytesN of *)
(* hex strings, whose sign counts as characters once the prefix is searched.  *)
HyperionPack(type, x) ==
    LET width == 2 * type.size
        bits == NibbleBits * width
        chars == Len(x.digits) + IF x.neg THEN 3 ELSE 0
    IN  IF type.base = "bytes"
        THEN IF chars % 2 # 0 \/ width < chars THEN {} ELSE PadRight(x, width)
        ELSE UNION {IF type.base = "uint"
                    THEN IF BitLength(v) > bits \/ v < 0 THEN {} ELSE {PadLeft(Num(v), width)}
                    ELSE IF v \notin -(2^(bits - 1))..(2^(bits - 1) - 1) THEN {}
                         ELSE IF v < 0 THEN ToTwosComplement(v, width)
                         ELSE {PadLeft(Num(v), width)} : v \in ToNumber(x)}

(* hexToAddress() of a hex string without sign, and addressToHex(); the bytes *)
(* of a hex string (hexToUint8Array() wants them whole) and back.             *)
HexToAddress(digits) == IF Len(digits) > AddressDigits THEN {} ELSE {PadStart(digits, AddressDigits)}

HexToUint8Array(digits) ==
    IF Len(digits) % 2 # 0 THEN {}
    ELSE {[i \in 1..(Len(digits) \div 2) |-> HexBase * digits[2 * i - 1] + digits[2 * i]]}

Uint8ArrayToHexString(bytes) == FlattenSeq([i \in DOMAIN bytes |-> PadStart(DigitsOf(bytes[i], HexBase), 2)])

Types == [base : {"uint", "int", "bytes"}, size : Sizes]
HexStrings == {Hex(neg, d) : neg \in BOOLEAN, d \in UNION {[1..n -> 0..(HexBase - 1)] : n \in 1..MaxDigits}}
              \cup {Hex(FALSE, <<>>)}
Amounts == {Amount(w, f, dot) : w, f \in UNION {[1..n -> 0..(DecBase - 1)] : n \in 0..MaxDigits}, dot \in {TRUE}}

Converts(o, r) == op' = o /\ result' = r

ConvertsHex(hexstrict) ==
    \E x \in {Num(n) : n \in Numbers} \cup {Dec(n) : n \in Numbers} \cup HexStrings :
        Converts([k |-> "hex", of |-> x], {NumberToHex(x, hexstrict)})

ConvertsTwos ==
    \E n \in Numbers, w \in Widths : Converts([k |-> "twos", of |-> n, width |-> w], ToTwosComplement(n, w))

ConvertsFromPlanck ==
    \E n \in Numbers, z \in Zeros : Converts([k |-> "from", of |-> n, zeros |-> z], {FromPlanck(n, z)})

ConvertsToPlanck ==
    \E a \in Amounts, z \in Zeros : Converts([k |-> "to", of |-> a, zeros |-> z], ToPlanck(a, z))

ConvertsBytes ==
    \E x \in {h \in HexStrings : ~h.neg} : Converts([k |-> "bytes", of |-> x], HexToUint8Array(x.digits))

ConvertsAddress ==
    \E x \in {h \in HexStrings : ~h.neg} : Converts([k |-> "address", of |-> x], HexToAddress(x.digits))

Packs ==
    \E type \in Types : \E x \in IF type.base = "bytes" THEN HexStrings ELSE {Num(n) : n \in Numbers} :
        Converts([k |-> "pack", of |-> x, type |-> type], HyperionPack(type, x))

Next ==
    /\ op.k = "idle"
    /\ \/ \E s \in BOOLEAN : ConvertsHex(s)
       \/ ConvertsTwos \/ ConvertsFromPlanck \/ ConvertsToPlanck \/ ConvertsBytes \/ ConvertsAddress \/ Packs

-----------------------------------------------------------------------------
Signed(width) == (-(2^(NibbleBits * width - 1)))..(2^(NibbleBits * width - 1) - 1)
Least(width) == -(2^(NibbleBits * width - 1))

(* The numbers of a width whose complements are told apart from half the      *)
(* modulus and from the modulus: not the least and the largest, nor, where    *)
(* the width exceeds the precision, those next to them and the largest        *)
(* negative ones.                                                             *)
Told(width) ==
    LET half == 2^(NibbleBits * width - 1)
        off  == half \div 2^Precision
    IN  ((-half + off + 1)..(half - off - 1)) \ (-((2 * half) \div 2^Precision)..-1)


(* What is packed for a type has its size and tells values apart: unpacked    *)
(* again it is the value that was given (bytes: with zeros behind). Values    *)
(* are refused only if they do not fit, or if bytes of the largest size start *)
(* with a set bit. Negative hex strings given as bytes are left out.          *)
PackedFitsType ==
    (op.k = "pack" /\ ~op.of.neg) =>
        LET width == 2 * op.type.size
            least == IF op.type.base = "int" THEN Least(width) ELSE 0
            fits == IF op.type.base = "bytes"
                    THEN /\ op.of.digits # <<>>
                         /\ Len(op.of.digits) % 2 = 0 /\ Len(op.of.digits) <= width
                         /\ ValueOf(op.of.digits, HexBase) < 2^(IntBits - 1)
                    ELSE op.of.v \in least..(least + HexBase^width - 1)
        IN  /\ fits <=> result # {}
            /\ \A r \in result :
                  /\ Len(r.digits) = width /\ ~r.neg
                  /\ IF op.type.base = "bytes" THEN IsPrefix(op.of.digits, r.digits)
                     ELSE (ValueOf(r.digits, HexBase) - op.of.v) % HexBase^width = 0

-----------------------------------------------------------------------------
(* What comments, tests and documents say and the code does not do.           *)

(* toPlanck() "Takes a number of a unit and converts it to planck."           *)
(* (converters.ts:555): the number times the denomination, a rest dropped.    *)
PlanckIsTheAmount ==
    op.k = "to" => \A r \in result :
        LET scaled == ValueOf(op.of.whole \o op.of.fraction, DecBase) * DecBase^op.zeros
        IN  r = DigitsOf(scaled \div DecBase^Len(op.of.fraction), DecBase)

(* fromTwosComplement() "Converts the twos complement into a decimal number   *)
(* or big int." (string_manipulation.ts:130), the least value of the width    *)
(* and its neighbours too.                                                    *)
TwosComplementIsRead ==
    (op.k = "twos" /\ op.of \in Signed(op.width)) =>
        \A r \in result : FromTwosComplement(r, op.width) = {{op.of}}
===============================================================================
