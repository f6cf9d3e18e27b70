----------------------------- MODULE NumParser -----------------------------
(***************************************************************************)
(* Numbers on the command line and on the wire (common/NumParser.cpp):     *)
(* parse_number and what it calls, get_number_type, append_number and      *)
(* read_number.  Pure operators.                                           *)
(*                                                                         *)
(* A word the user types is a Literal: what the parser tells apart in it.  *)
(*   neg     it begins with "-"                                            *)
(*   hex     "0x" or "0X" follows                                          *)
(*   digits  are there any digits?                                         *)
(*   mag     the number they make, without leading zeros                   *)
(*   point   decimal notation with a point or an exponent; mag is then the *)
(*           value the notation gives, taken to be integral                *)
(*   suffix  "" or one of the suffixes, of either case; "F" only after     *)
(*           decimals, since after hexadecimal digits it is a digit        *)
(* Byte is 0..(Radix - 1) so that small radices keep 8-byte numbers within *)
(* the checker's integers; Radix is 256 in the code.                       *)
(***************************************************************************)
EXTENDS Integers, Sequences

CONSTANTS
    Radix,           \* values of a byte
    FloatPrecision,  \* 2^24: integers up to here are exact as float
    DoublePrecision  \* 2^53: integers up to here are exact as double

\* Type bytes go up to 9, and two's complement halves the range of a byte.
ASSUME NumParserAssumption ==
    /\ Radix \in Nat /\ Radix >= 10 /\ Radix % 2 = 0
    /\ FloatPrecision \in Nat \ {0} /\ DoublePrecision \in Nat \ {0}

Suffix == {"", "U", "L", "UL", "LL", "ULL", "F"}

Literal == {l \in [neg : BOOLEAN, hex : BOOLEAN, digits : BOOLEAN, mag : Nat,
                   point : BOOLEAN, suffix : Suffix] :
              /\ l.hex => ~l.point /\ l.suffix # "F"
              /\ ~l.digits => l.mag = 0}

----------------------------------------------------------------------------
(* std::variant Number: a type and a value.                                *)

Span1 == Radix
Span2 == Radix * Radix
Span4 == Span2 * Span2
Span8 == Span4 * Span4
Span(size) == CASE size = 1 -> Span1 [] size = 2 -> Span2
                [] size = 4 -> Span4 [] size = 8 -> Span8

\* The integers that are exact as float and double are fewer than those of as many
\* bytes: 24 of 32 bits and 53 of 64 in the code.
ASSUME PrecisionAssumption ==
    2 * FloatPrecision < Span4 /\ 2 * DoublePrecision < Span8

\* numeric_limits of the integer types.
Low == [uint8 |-> 0, uint16 |-> 0, uint32 |-> 0, uint64 |-> 0,
        int8 |-> -(Span1 \div 2), int16 |-> -(Span2 \div 2),
        int32 |-> -(Span4 \div 2), int64 |-> -(Span8 \div 2)]
High == [uint8 |-> Span1 - 1, uint16 |-> Span2 - 1, uint32 |-> Span4 - 1,
         uint64 |-> Span8 - 1, int8 |-> Span1 \div 2 - 1,
         int16 |-> Span2 \div 2 - 1, int32 |-> Span4 \div 2 - 1,
         int64 |-> Span8 \div 2 - 1]

IntegerType == {"int8", "uint8", "int16", "uint16", "int32", "uint32",
                "int64", "uint64"}
UnsignedType == {"uint8", "uint16", "uint32", "uint64"}

Size == [int8 |-> 1, uint8 |-> 1, int16 |-> 2, uint16 |-> 2, int32 |-> 4,
         uint32 |-> 4, int64 |-> 8, uint64 |-> 8, float |-> 4, double |-> 8]

Number(t, v) == [type |-> t, value |-> v]

\* An exception of the parser.
Invalid == Number("invalid", 0)

----------------------------------------------------------------------------
(* Integers.                                                               *)

\* The value of the literal as written.
Exact(l) == IF l.neg THEN -l.mag ELSE l.mag

\* parse_integer<uint64_t> and <int64_t>: from_chars takes all of the text, a
\* sign for the signed type only, and a value in range.  A sign keeps "0x" from
\* being recognised, and is then followed by an x.
ParsesUnsigned(l) == l.digits /\ ~l.neg /\ l.mag <= High["uint64"]
ParsesSigned(l) == /\ l.digits /\ ~(l.neg /\ l.hex)
                   /\ Exact(l) >= Low["int64"] /\ Exact(l) <= High["int64"]

\* Mutated form: the bound of the next type is one too high.
SmallestUnsignedOffByOne(v) ==
    IF v <= High["uint8"] + 1 THEN "uint8"
    ELSE IF v <= High["uint16"] THEN "uint16"
    ELSE IF v <= High["uint32"] THEN "uint32" ELSE "uint64"

SmallestUnsigned(v) ==
    IF v <= High["uint8"] THEN "uint8"
    ELSE IF v <= High["uint16"] THEN "uint16"
    ELSE IF v <= High["uint32"] THEN "uint32" ELSE "uint64"

SmallestSigned(v) ==
    IF v >= Low["int8"] THEN "int8"
    ELSE IF v >= Low["int16"] THEN "int16"
    ELSE IF v >= Low["int32"] THEN "int32" ELSE "int64"

\* The type of a positive integer without suffix; the code's tests for int16 to
\* uint32 after these three never succeed.
Inferred(v) ==
    IF SmallestUnsigned(v) # "uint64" THEN SmallestUnsigned(v)
    ELSE IF v <= High["int64"] THEN "int64" ELSE "uint64"

parse_integer_number(l) ==
    CASE l.suffix \in {"U", "UL", "ULL"} ->
            IF ParsesUnsigned(l) THEN Number(SmallestUnsigned(l.mag), l.mag)
            ELSE Invalid
      [] l.suffix \in {"L", "LL"} ->
            IF ParsesSigned(l) THEN Number("int64", Exact(l)) ELSE Invalid
      [] l.suffix = "" /\ l.neg ->
            IF ParsesSigned(l) THEN Number(SmallestSigned(Exact(l)), Exact(l))
            ELSE Invalid
      [] OTHER ->
            IF ParsesUnsigned(l) THEN Number(Inferred(l.mag), l.mag) ELSE Invalid

----------------------------------------------------------------------------
(* Floating point.                                                         *)

Abs(v) == IF v < 0 THEN -v ELSE v

\* The number nearest to v with as many bits as precision, ties to even.
Nearest(v, precision) ==
    LET ulp == CHOOSE u \in {2^k : k \in 0..30} :
                    /\ Abs(v) \div u <= precision
                    /\ \A w \in {2^k : k \in 0..30} :
                            Abs(v) \div w <= precision => u <= w
        q == Abs(v) \div ulp
        r == Abs(v) % ulp
        up == 2 * r > ulp \/ (2 * r = ulp /\ q % 2 = 1)
        n == ulp * (IF up THEN q + 1 ELSE q)
    IN  IF Abs(v) <= precision THEN v ELSE IF v < 0 THEN -n ELSE n

\* The last character is "f" or "F"; there is an "e" or "E".
EndsInF(l) == \/ l.suffix = "F"
              \/ l.hex /\ l.digits /\ l.suffix = "" /\ l.mag % 16 = 15
HasE(l) ==
    LET among[m \in Nat] == m > 0 /\ (m % 16 = 14 \/ among[m \div 16])
    IN  l.hex /\ l.digits /\ among[l.mag]

\* parse_float<float> of all but the last character.  strtof takes a sign and
\* hexadecimal digits, and takes nothing at all for zero.
FloatWithoutLast(l) ==
    IF l.suffix = "F"
    THEN IF l.digits THEN Number("float", Nearest(Exact(l), FloatPrecision))
         ELSE IF ~l.neg /\ ~l.point THEN Number("float", 0) ELSE Invalid
    ELSE IF l.mag < 16 THEN Invalid
    ELSE LET v == l.mag \div 16
         IN  Number("float", Nearest(IF l.neg THEN -v ELSE v, FloatPrecision))

parse_number(l) ==
    IF ~(l.neg \/ l.hex \/ l.digits \/ l.point) /\ l.suffix = "" THEN Invalid
    ELSE IF EndsInF(l) THEN FloatWithoutLast(l)
    ELSE IF l.point \/ HasE(l)
    THEN IF l.digits /\ l.suffix = ""
         THEN Number("double", Nearest(Exact(l), DoublePrecision)) ELSE Invalid
    ELSE parse_integer_number(l)

----------------------------------------------------------------------------
(* The wire.                                                               *)

\* enum eNumberTypes.
TypeOrder == <<"int8", "uint8", "int16", "uint16", "int32", "uint32", "int64",
               "uint64", "float", "double">>

get_number_type(n) == (CHOOSE k \in 1..10 : TypeOrder[k] = n.type) - 1

\* v in 1, 2, 4 or 8 bytes, the lowest first; two's complement.  beyond[k] is what
\* is left without the k lowest bytes.
LittleEndian(v, size) ==
    LET beyond[k \in 0..size] ==
            IF k = 0 THEN v % Span(size) ELSE beyond[k - 1] \div Radix
    IN  [k \in 1..size |-> beyond[k - 1] % Radix]

\* append_number.  The layout of float and double is not modelled: two's
\* complement stands in for it.
append_number(n) == LittleEndian(n.value, Size[n.type])

\* The number that bytes make; above[k] is that of the k highest ones.
FromLittleEndian(bytes) ==
    LET above[k \in 0..Len(bytes)] ==
            IF k = 0 THEN 0
            ELSE above[k - 1] * Radix + bytes[Len(bytes) - k + 1]
    IN  above[Len(bytes)]

\* read_number at a given place: the bytes as a value of the type.
read_number(bytes, type) ==
    LET n == FromLittleEndian(bytes)
        span == Span(Size[type])
        signed == type \notin UnsignedType
    IN  Number(type, IF signed /\ 2 * n >= span THEN n - span ELSE n)

is_unsigned_integer(n) == n.type \in UnsignedType

=============================================================================
