---------------------------- MODULE PacketProofs ----------------------------
(***************************************************************************)
(* Numbers and texts on their way from the command line to the server's    *)
(* handlers, for every radix, buffer length, set of clients and commands.  *)
(***************************************************************************)
EXTENDS PacketBuffer, SequenceTheorems, WellFoundedInduction, TLAPS

----------------------------------------------------------------------------
(* Integers: whatever type parse_integer_number chooses holds the number   *)
(* as it was typed.                                                        *)

Fits(v, t) == Low[t] <= v /\ v <= High[t]

\* The spans of 1, 2, 4 and 8 bytes grow, and each is worth halving.
LEMMA Spans ==
    /\ Span1 \in Nat /\ Span2 \in Nat /\ Span4 \in Nat /\ Span8 \in Nat
    /\ 10 <= Span1 /\ Span1 < Span2 /\ Span2 < Span4 /\ Span4 < Span8
<1>1. ASSUME NEW x \in Nat, 10 <= x
      PROVE  x * x \in Nat /\ x < x * x /\ 10 <= x * x
    <2>1. x * x \in Nat
        BY Z3
    <2>2. x * x = x + x * (x - 1)
        BY <1>1, Z3
    <2>3. x - 1 \in Nat /\ x * (x - 1) \in Nat /\ x * (x - 1) >= x - 1
        BY <1>1, Z3
    <2> QED
        BY <1>1, <2>1, <2>2, <2>3
<1>2. Span1 \in Nat /\ 10 <= Span1
    BY NumParserAssumption DEF Span1
<1>3. Span2 = Span1 * Span1
    BY DEF Span2, Span1
<1>4. Span2 \in Nat /\ 10 <= Span2 /\ Span1 < Span2
    BY <1>1, <1>2, <1>3
<1>5. Span4 \in Nat /\ 10 <= Span4 /\ Span2 < Span4
    BY <1>1, <1>4 DEF Span4
<1>6. Span8 \in Nat /\ Span4 < Span8
    BY <1>1, <1>5 DEF Span8
<1> QED
    BY <1>2, <1>4, <1>5, <1>6

\* What the tables of limits hold.
LEMMA Limits ==
    /\ \A t \in IntegerType : Low[t] \in Int /\ High[t] \in Int /\ Low[t] <= 0 /\ 0 <= High[t]
    /\ \A t \in UnsignedType : Low[t] = 0
    /\ High["uint8"] < High["uint16"] /\ High["uint16"] < High["uint32"]
    /\ High["uint32"] < High["uint64"]
    /\ High["int64"] < High["uint64"]
BY Spans DEF Low, High, IntegerType, UnsignedType

\* A number typed with digits and a sign.
LEMMA ExactType == ASSUME NEW l \in Literal PROVE Exact(l) \in Int /\ l.mag \in Nat
BY DEF Exact, Literal

\* The unsigned type chosen holds the number, and no smaller one does.
LEMMA SmallestUnsignedFits ==
    ASSUME NEW v \in Nat, v <= High["uint64"]
    PROVE  /\ SmallestUnsigned(v) \in UnsignedType
           /\ Fits(v, SmallestUnsigned(v))
           /\ \A t \in UnsignedType :
                    Fits(v, t) => Size[SmallestUnsigned(v)] <= Size[t]
<1>1. SmallestUnsigned(v) \in UnsignedType /\ v <= High[SmallestUnsigned(v)]
    BY Limits DEF SmallestUnsigned, UnsignedType
<1>2. Fits(v, SmallestUnsigned(v))
    BY <1>1, Limits DEF Fits
<1>3. ASSUME NEW t \in UnsignedType, v <= High[t]
      PROVE  Size[SmallestUnsigned(v)] <= Size[t]
    BY <1>3, Limits DEF SmallestUnsigned, Size, UnsignedType, IntegerType
<1> QED
    BY <1>1, <1>2, <1>3 DEF Fits

\* So does the signed type chosen for a negative number.
LEMMA SmallestSignedFits ==
    ASSUME NEW v \in Int, v <= 0, Low["int64"] <= v
    PROVE  SmallestSigned(v) \in IntegerType /\ Fits(v, SmallestSigned(v))
BY Limits DEF SmallestSigned, Fits, IntegerType

\* parse_integer_number either throws or returns the number as it was typed, in a
\* type that holds it: no static_cast in it ever cuts a value.
THEOREM IntegersKeepTheirValue ==
    ASSUME NEW l \in Literal, parse_integer_number(l) # Invalid
    PROVE  /\ parse_integer_number(l).type \in IntegerType
           /\ parse_integer_number(l).value = Exact(l)
           /\ Fits(Exact(l), parse_integer_number(l).type)
<1> DEFINE n == parse_integer_number(l)
<1>1. Exact(l) \in Int /\ l.mag \in Nat /\ l.neg \in BOOLEAN
    BY ExactType DEF Literal
<1>2. ParsesUnsigned(l) => Exact(l) = l.mag /\ l.mag <= High["uint64"]
    BY DEF ParsesUnsigned, Exact
<1>3. ParsesSigned(l) => Fits(Exact(l), "int64")
    BY DEF ParsesSigned, Fits
<1>4. CASE l.suffix \in {"U", "UL", "ULL"}
    <2>1. ParsesUnsigned(l) /\ n = Number(SmallestUnsigned(l.mag), l.mag)
        BY <1>4 DEF parse_integer_number
    <2> QED
        BY <1>1, <1>2, <2>1, SmallestUnsignedFits DEF Number, UnsignedType, IntegerType
<1>5. CASE l.suffix \in {"L", "LL"}
    <2>1. ParsesSigned(l) /\ n = Number("int64", Exact(l))
        BY <1>5 DEF parse_integer_number
    <2> QED
        BY <1>3, <2>1 DEF Number, IntegerType
<1>6. CASE l.suffix = "" /\ l.neg
    <2>1. ParsesSigned(l) /\ n = Number(SmallestSigned(Exact(l)), Exact(l))
        BY <1>6 DEF parse_integer_number
    <2>2. Exact(l) = -l.mag
        BY <1>6 DEF Exact
    <2>3. Exact(l) <= 0
        BY <1>1, <2>2
    <2>4. Low["int64"] <= Exact(l)
        BY <1>3, <2>1 DEF Fits
    <2> QED
        BY <1>1, <2>1, <2>3, <2>4, SmallestSignedFits DEF Number
<1>7. CASE l.suffix \notin {"U", "UL", "ULL", "L", "LL"} /\ ~(l.suffix = "" /\ l.neg)
    <2>1. ParsesUnsigned(l) /\ n = Number(Inferred(l.mag), l.mag)
        BY <1>7 DEF parse_integer_number
    <2>2. Inferred(l.mag) \in IntegerType /\ Fits(l.mag, Inferred(l.mag))
        BY <1>1, <1>2, <2>1, SmallestUnsignedFits, Limits
        DEF Inferred, Fits, IntegerType, UnsignedType
    <2> QED
        BY <1>2, <2>1, <2>2 DEF Number
<1> QED
    BY <1>4, <1>5, <1>6, <1>7

----------------------------------------------------------------------------
(* Bytes: what append_number writes, read_number reads.                    *)

\* A non-empty set of naturals has a least element.
LEMMA LeastNat ==
    ASSUME NEW T, T \subseteq Nat, T # {}
    PROVE  \E x \in T : \A y \in T : x <= y
<1> DEFINE R == OpToRel(<, Nat)
<1>1. \E x \in T : \A y \in T : ~ (<<y, x>> \in R)
    BY NatLessThanWellFounded, WFMin, Zenon
<1>2. \A x, y \in Nat : x < y => <<x, y>> \in R
    BY DEF OpToRel
<1>3. PICK x \in T : \A y \in T : ~ (<<y, x>> \in R)
    BY <1>1
<1>4. \A y \in T : ~ (y < x)
    BY <1>2, <1>3, Zenon
<1> QED BY <1>4

\* A number without its lowest byte.
Shifted(x) == x \div Radix

\* q gives, for every k up to m, x without its k lowest bytes.
Beyond(x, m, q) ==
    q = [k \in 0..m |-> IF k = 0 THEN x ELSE Shifted(q[k - 1])]

\* The recursion of LittleEndian, one step at a time.
LEMMA BeyondStep ==
    ASSUME NEW x, NEW m \in Nat, NEW q, Beyond(x, m, q)
    PROVE  q[0] = x /\ \A k \in 1..m : q[k] = Shifted(q[k - 1])
<1> DEFINE e(k) == IF k = 0 THEN x ELSE Shifted(q[k - 1])
<1>1. q = [k \in 0..m |-> e(k)]
    BY DEF Beyond
<1> HIDE DEF e
<1>2. \A k \in 0..m : q[k] = e(k)
    BY <1>1
<1>3. 0 \in 0..m /\ \A k \in 1..m : k \in 0..m /\ k # 0
    OBVIOUS
<1> QED BY <1>2, <1>3 DEF e

\* It has a solution.
LEMMA BeyondExists ==
    ASSUME NEW x, NEW m \in Nat
    PROVE  \E q : Beyond(x, m, q)
<1> DEFINE T == {k \in Nat : ~ \E q : Beyond(x, k, q)}
<1> SUFFICES ASSUME T # {} PROVE FALSE
    OBVIOUS
<1>1. PICK k \in T : \A y \in T : k <= y
    BY LeastNat
<1>2. CASE k = 0
    <2>1. Beyond(x, 0, [n \in 0..0 |-> x])
        BY DEF Beyond
    <2> QED BY <1>1, <1>2, <2>1
<1>3. CASE k # 0
    <2>1. k - 1 \in Nat /\ k - 1 \notin T
        BY <1>1, <1>3
    <2>2. PICK g : Beyond(x, k - 1, g)
        BY <2>1
    <2> DEFINE f == [n \in 0..k |-> IF n \in 0..(k - 1) THEN g[n]
                                    ELSE Shifted(g[k - 1])]
    <2>3. g[0] = x /\ \A n \in 1..(k - 1) : g[n] = Shifted(g[n - 1])
        BY <2>1, <2>2, BeyondStep
    <2>4. f[0] = x /\ \A n \in 1..k : f[n] = Shifted(f[n - 1])
        <3>1. f[0] = x /\ f[k - 1] = g[k - 1]
            BY <2>1, <2>3
        <3>2. f[k] = Shifted(g[k - 1])
            BY <2>1
        <3>3. \A n \in 1..(k - 1) : f[n] = g[n] /\ f[n - 1] = g[n - 1]
            BY <2>1
        <3>4. \A n \in 1..k : n = k \/ n \in 1..(k - 1)
            BY <2>1
        <3> HIDE DEF f
        <3> QED BY <2>3, <3>1, <3>2, <3>3, <3>4
    <2>5. f = [n \in 0..k |-> f[n]]
        OBVIOUS
    <2> HIDE DEF f
    <2>6. \A n \in 0..k : n = 0 \/ n \in 1..k
        BY <1>1
    <2>7. Beyond(x, k, f)
        BY <2>4, <2>5, <2>6, Zenon DEF Beyond
    <2> QED BY <1>1, <2>7
<1> QED BY <1>2, <1>3

\* h gives, for every k up to Len(b), the number of the k highest bytes of b.
Above(b, m, h) ==
    h = [k \in 0..m |-> IF k = 0 THEN 0
                        ELSE h[k - 1] * Radix + b[Len(b) - k + 1]]

\* The recursion of FromLittleEndian, one step at a time.
LEMMA AboveStep ==
    ASSUME NEW b, NEW m \in Nat, NEW h, Above(b, m, h)
    PROVE  /\ h[0] = 0
           /\ \A k \in 1..m : h[k] = h[k - 1] * Radix + b[Len(b) - k + 1]
<1> DEFINE e(k) == IF k = 0 THEN 0 ELSE h[k - 1] * Radix + b[Len(b) - k + 1]
<1>1. h = [k \in 0..m |-> e(k)]
    BY DEF Above
<1> HIDE DEF e
<1>2. \A k \in 0..m : h[k] = e(k)
    BY <1>1
<1>3. 0 \in 0..m /\ \A k \in 1..m : k \in 0..m /\ k # 0
    OBVIOUS
<1> QED BY <1>2, <1>3 DEF e

\* It has a solution.
LEMMA AboveExists ==
    ASSUME NEW b, NEW m \in Nat
    PROVE  \E h : Above(b, m, h)
<1> DEFINE T == {k \in Nat : ~ \E h : Above(b, k, h)}
<1> SUFFICES ASSUME T # {} PROVE FALSE
    OBVIOUS
<1>1. PICK k \in T : \A y \in T : k <= y
    BY LeastNat
<1>2. CASE k = 0
    <2>1. Above(b, 0, [n \in 0..0 |-> 0])
        BY DEF Above
    <2> QED BY <1>1, <1>2, <2>1
<1>3. CASE k # 0
    <2>1. k - 1 \in Nat /\ k - 1 \notin T
        BY <1>1, <1>3
    <2>2. PICK g : Above(b, k - 1, g)
        BY <2>1
    <2> DEFINE step(y, n) == y * Radix + b[Len(b) - n + 1]
               f == [n \in 0..k |-> IF n \in 0..(k - 1) THEN g[n]
                                    ELSE step(g[k - 1], k)]
    <2>3. g[0] = 0 /\ \A n \in 1..(k - 1) : g[n] = step(g[n - 1], n)
        BY <2>1, <2>2, AboveStep
    <2> HIDE DEF step
    <2>4. f[0] = 0 /\ \A n \in 1..k : f[n] = step(f[n - 1], n)
        <3>1. f[0] = 0 /\ f[k - 1] = g[k - 1]
            BY <2>1, <2>3
        <3>2. f[k] = step(g[k - 1], k)
            BY <2>1
        <3>3. \A n \in 1..(k - 1) : f[n] = g[n] /\ f[n - 1] = g[n - 1]
            BY <2>1
        <3>4. \A n \in 1..k : n = k \/ n \in 1..(k - 1)
            BY <2>1
        <3> HIDE DEF f
        <3> QED BY <2>3, <3>1, <3>2, <3>3, <3>4
    <2>5. f = [n \in 0..k |-> f[n]]
        OBVIOUS
    <2> HIDE DEF f
    <2>6. \A n \in 0..k : n = 0 \/ n \in 1..k
        BY <1>1
    <2>7. Above(b, k, f)
        BY <2>4, <2>5, <2>6, Zenon DEF Above, step
    <2> QED BY <1>1, <2>7
<1> QED BY <1>2, <1>3

Bytes == 0..(Radix - 1)

\* Division by the radix, and back.
LEMMA Division ==
    ASSUME NEW x \in Nat
    PROVE  /\ Shifted(x) \in Nat /\ x % Radix \in Bytes
           /\ Shifted(x) * Radix + (x % Radix) = x
           /\ \A m \in Nat : x < Radix * m => Shifted(x) < m
<1>r. Radix \in Nat /\ Radix > 0
    BY NumParserAssumption
<1>1. Shifted(x) \in Nat /\ x % Radix \in Bytes
    BY <1>r DEF Shifted, Bytes
<1>2. Shifted(x) * Radix + (x % Radix) = x
    BY <1>r DEF Shifted
<1>3. ASSUME NEW m \in Nat, x < Radix * m, m <= Shifted(x) PROVE FALSE
    <2> DEFINE q == Shifted(x)
    <2>1. q \in Nat /\ m <= q
        BY <1>1, <1>3
    <2> HIDE DEF q
    <2>2. Radix * m <= Radix * q
        BY <1>r, <2>1, Z3
    <2>3. q * Radix = Radix * q /\ q * Radix \in Nat
        BY <1>r, <2>1, Z3
    <2>4. x >= q * Radix
        BY <1>1, <1>2, <2>3 DEF q, Bytes
    <2>5. Radix * m \in Nat
        BY <1>r, Z3
    <2> QED BY <1>3, <2>2, <2>3, <2>4, <2>5
<1> QED BY <1>1, <1>2, <1>3

\* The spans, byte by byte.
LEMMA SpanTypes ==
    ASSUME NEW size \in {1, 2, 4, 8}
    PROVE  Span(size) \in Nat \ {0}
    BY Spans DEF Span

\* A number within the span of its bytes is nothing beyond them.
LEMMA NothingBeyond ==
    ASSUME NEW size \in {1, 2, 4, 8}, NEW x \in Nat, x < Span(size),
           NEW q, Beyond(x, size, q)
    PROVE  /\ \A k \in 0..size : q[k] \in Nat
           /\ q[size] = 0
<1>0. size \in Nat
    OBVIOUS
<1>1. q[0] = x /\ \A k \in 1..size : q[k] = Shifted(q[k - 1])
    <2> DEFINE y == x
    <2>1. Beyond(y, size, q)
        OBVIOUS
    <2> HIDE DEF y
    <2>2. q[0] = y /\ \A k \in 1..size : q[k] = Shifted(q[k - 1])
        BY <1>0, <2>1, BeyondStep
    <2> QED BY <2>2 DEF y
<1>r. Radix \in Nat /\ Radix > 0
    BY NumParserAssumption
<1> DEFINE p2 == Radix * Radix
           p3 == Radix * p2
           p4 == Radix * p3
           p5 == Radix * p4
           p6 == Radix * p5
           p7 == Radix * p6
           p8 == Radix * p7
<1>2. /\ p2 \in Nat /\ p3 \in Nat /\ p4 \in Nat /\ p5 \in Nat /\ p6 \in Nat
      /\ p7 \in Nat /\ p8 \in Nat
    BY <1>r, Z3
<1>3. Span2 = p2 /\ Span4 = p4 /\ Span8 = p8
    BY <1>r, Z3 DEF Span2, Span4, Span8
<1>4. Span1 = Radix
    BY DEF Span1
<1>5. \A k \in 1..size : q[k - 1] \in Nat => q[k] \in Nat
    BY <1>1, Division
<1>6. \A k \in 1..size : \A m \in Nat :
            q[k - 1] \in Nat /\ q[k - 1] < Radix * m => q[k] \in Nat /\ q[k] < m
    BY <1>1, Division
<1> HIDE DEF p2, p3, p4, p5, p6, p7, p8
<1>7. /\ Radix * 1 = Radix /\ p2 = Radix * Radix /\ p3 = Radix * p2 /\ p4 = Radix * p3
      /\ p5 = Radix * p4 /\ p6 = Radix * p5 /\ p7 = Radix * p6 /\ p8 = Radix * p7
    BY <1>r DEF p2, p3, p4, p5, p6, p7, p8
<1>8. CASE size = 1
    <2>1. q[0] \in Nat /\ q[0] < Radix * 1
        BY <1>1, <1>4, <1>7, <1>8 DEF Span
    <2>2. q[1] \in Nat /\ q[1] < 1
        BY <1>6, <1>8, <2>1
    <2> QED BY <1>8, <2>1, <2>2
<1>9. CASE size = 2
    <2>1. q[0] \in Nat /\ q[0] < Radix * Radix
        BY <1>1, <1>3, <1>7, <1>9 DEF Span
    <2>2. q[1] \in Nat /\ q[1] < Radix * 1
        BY <1>r, <1>6, <1>7, <1>9, <2>1
    <2>3. q[2] \in Nat /\ q[2] < 1
        BY <1>6, <1>9, <2>2
    <2> QED BY <1>9, <2>1, <2>2, <2>3
<1>10. CASE size = 4
    <2>1. q[0] \in Nat /\ q[0] < Radix * p3
        BY <1>1, <1>3, <1>7, <1>10 DEF Span
    <2>2. q[1] \in Nat /\ q[1] < Radix * p2
        BY <1>2, <1>6, <1>7, <1>10, <2>1
    <2>3. q[2] \in Nat /\ q[2] < Radix * Radix
        BY <1>2, <1>6, <1>7, <1>10, <2>2
    <2>4. q[3] \in Nat /\ q[3] < Radix * 1
        BY <1>r, <1>6, <1>7, <1>10, <2>3
    <2>5. q[4] \in Nat /\ q[4] < 1
        BY <1>6, <1>10, <2>4
    <2> QED BY <1>10, <2>1, <2>2, <2>3, <2>4, <2>5
<1>11. CASE size = 8
    <2>1. q[0] \in Nat /\ q[0] < Radix * p7
        BY <1>1, <1>3, <1>7, <1>11 DEF Span
    <2>2. q[1] \in Nat /\ q[1] < Radix * p6
        BY <1>2, <1>6, <1>7, <1>11, <2>1
    <2>3. q[2] \in Nat /\ q[2] < Radix * p5
        BY <1>2, <1>6, <1>7, <1>11, <2>2
    <2>4. q[3] \in Nat /\ q[3] < Radix * p4
        BY <1>2, <1>6, <1>7, <1>11, <2>3
    <2>5. q[4] \in Nat /\ q[4] < Radix * p3
        BY <1>2, <1>6, <1>7, <1>11, <2>4
    <2>6. q[5] \in Nat /\ q[5] < Radix * p2
        BY <1>2, <1>6, <1>7, <1>11, <2>5
    <2>7. q[6] \in Nat /\ q[6] < Radix * Radix
        BY <1>2, <1>6, <1>7, <1>11, <2>6
    <2>8. q[7] \in Nat /\ q[7] < Radix * 1
        BY <1>r, <1>6, <1>7, <1>11, <2>7
    <2>9. q[8] \in Nat /\ q[8] < 1
        BY <1>6, <1>11, <2>8
    <2> QED BY <1>11, <2>1, <2>2, <2>3, <2>4, <2>5, <2>6, <2>7, <2>8, <2>9
<1> QED BY <1>8, <1>9, <1>10, <1>11

\* What append_number lays out, in bytes, is the number again for read_number,
\* up to the span of the bytes.
LEMMA BytesAndBack ==
    ASSUME NEW size \in {1, 2, 4, 8}, NEW v \in Int
    PROVE  /\ LittleEndian(v, size) \in Seq(Bytes)
           /\ Len(LittleEndian(v, size)) = size
           /\ FromLittleEndian(LittleEndian(v, size)) = v % Span(size)
<1> DEFINE x == v % Span(size)
           b == LittleEndian(v, size)
<1>x. x \in Nat /\ x < Span(size)
    BY SpanTypes
<1>1. PICK q : Beyond(x, size, q) /\ b = [k \in 1..size |-> q[k - 1] % Radix]
    <2>1. \E q : Beyond(x, size, q)
        BY BeyondExists
    <2> QED BY <2>1 DEF Beyond, Shifted, LittleEndian
<1> HIDE DEF x, b
<1>2. (\A k \in 0..size : q[k] \in Nat) /\ q[size] = 0
    BY <1>x, <1>1, NothingBeyond
<1>0. size \in Nat
    OBVIOUS
<1>3. q[0] = x /\ \A k \in 1..size : q[k] = Shifted(q[k - 1])
    BY <1>0, <1>1, BeyondStep
<1>4. \A k \in 1..size : q[k - 1] \in Nat /\ q[k - 1] % Radix \in Bytes
    BY <1>2, Division
<1>5. b \in Seq(Bytes) /\ Len(b) = size /\ \A k \in 1..size : b[k] = q[k - 1] % Radix
    <2> HIDE DEF Bytes
    <2> QED BY <1>1, <1>4
<1>6. PICK h : Above(b, size, h) /\ FromLittleEndian(b) = h[size]
    <2>1. \E h : Above(b, Len(b), h)
        BY <1>5, AboveExists
    <2>2. \E h : Above(b, Len(b), h) /\ FromLittleEndian(b) = h[Len(b)]
        BY <2>1 DEF Above, FromLittleEndian
    <2> QED BY <1>5, <2>2
<1>7. /\ h[0] = 0
      /\ \A k \in 1..size : h[k] = h[k - 1] * Radix + b[size - k + 1]
    BY <1>5, <1>6, AboveStep
<1>8. \A k \in 0..size : h[k] = q[size - k]
    <2> DEFINE T == {k \in 0..size : h[k] # q[size - k]}
    <2> SUFFICES ASSUME T # {} PROVE FALSE
        OBVIOUS
    <2>1. PICK k \in T : \A y \in T : k <= y
        BY LeastNat
    <2>2. k # 0
        BY <1>2, <1>7, <2>1
    <2>3. /\ k \in 1..size /\ k - 1 \in 0..size /\ ~ (k <= k - 1)
          /\ size - (k - 1) = size - k + 1 /\ size - k + 1 \in 1..size
          /\ size - k \in 0..size /\ (size - k + 1) - 1 = size - k
        BY <2>1, <2>2
    <2>4. h[k - 1] = q[size - k + 1]
        BY <2>1, <2>3
    <2>5. q[size - k + 1] = Shifted(q[size - k])
        BY <1>3, <2>3
    <2>6. b[size - k + 1] = q[size - k] % Radix
        BY <1>5, <2>3
    <2>7. h[k] = Shifted(q[size - k]) * Radix + (q[size - k] % Radix)
        BY <1>7, <2>3, <2>4, <2>5, <2>6
    <2>8. h[k] = q[size - k]
        BY <1>2, <2>3, <2>7, Division
    <2> QED BY <2>1, <2>8
<1>9. FromLittleEndian(b) = x
    BY <1>3, <1>6, <1>8
<1> QED BY <1>5, <1>9 DEF x, b

\* An integer that append_number writes is the one read_number reads, whatever its
\* type and sign.
LEMMA IntegersOnTheWire ==
    ASSUME NEW t \in IntegerType, NEW v \in Int, Fits(v, t)
    PROVE  read_number(append_number(Number(t, v)), t) = Number(t, v)
<1> DEFINE size == Size[t]
           span == Span(size)
           n == v % span
<1>1. size \in {1, 2, 4, 8}
    BY DEF Size, IntegerType
<1>2. span \in Nat \ {0}
    BY <1>1, SpanTypes
<1>3. append_number(Number(t, v)) = LittleEndian(v, size)
    BY DEF append_number, Number
<1>4. FromLittleEndian(append_number(Number(t, v))) = n
    BY <1>1, <1>3, BytesAndBack
<1>5. CASE t \in UnsignedType
    <2>1. 0 <= v /\ v < span
        BY <1>5, Spans DEF Fits, Low, High, Size, Span, UnsignedType
    <2>2. n = v
        BY <1>2, <2>1
    <2> HIDE DEF n, span
    <2> QED BY <1>4, <1>5, <2>2 DEF read_number
<1>6. CASE t \notin UnsignedType
    <2>1. -span <= 2 * v /\ 2 * v < span
        BY <1>6, Spans DEF Fits, Low, High, Size, Span, UnsignedType, IntegerType
    <2>2. n = IF v < 0 THEN v + span ELSE v
        BY <1>2, <2>1
    <2>3. (IF 2 * n >= span THEN n - span ELSE n) = v
        BY <1>2, <2>1, <2>2
    <2> HIDE DEF n
    <2>4. read_number(append_number(Number(t, v)), t)
            = Number(t, IF 2 * n >= span THEN n - span ELSE n)
        BY <1>4, <1>6 DEF read_number
    <2> QED BY <2>3, <2>4
<1> QED BY <1>5, <1>6

\* The integer the server reads is the one that was typed: what
\* parse_integer_number takes survives its choice of a type, append_number,
\* read_number and the bytes between them.
THEOREM IntegersArrive ==
    ASSUME NEW l \in Literal, parse_integer_number(l) # Invalid
    PROVE  LET n == parse_integer_number(l)
           IN  read_number(append_number(n), n.type).value = Exact(l)
<1> DEFINE n == parse_integer_number(l)
<1>1. n.type \in IntegerType /\ n.value = Exact(l) /\ Fits(Exact(l), n.type)
    BY IntegersKeepTheirValue
<1>2. Exact(l) \in Int
    BY ExactType
<1>3. n = Number(n.type, n.value)
    BY DEF parse_integer_number, Number, Invalid
<1> HIDE DEF n
<1>4. read_number(append_number(n), n.type) = Number(n.type, Exact(l))
    BY <1>1, <1>2, <1>3, IntegersOnTheWire
<1> QED BY <1>4 DEF n, Number

----------------------------------------------------------------------------
(* What the client puts into a record.                                     *)

\* f joins, for every i up to m, the first i sequences of s.
Joined(s, m, f) ==
    f = [i \in 1..m |-> IF i = 1 THEN s[i] ELSE f[i - 1] \o s[i]]

\* The recursion of FlattenSeq, one step at a time.
LEMMA JoinedStep ==
    ASSUME NEW s, NEW m \in Nat, NEW f, Joined(s, m, f)
    PROVE  \A i \in 1..m : f[i] = IF i = 1 THEN s[i] ELSE f[i - 1] \o s[i]
<1> DEFINE e(i) == IF i = 1 THEN s[i] ELSE f[i - 1] \o s[i]
<1>1. f = [i \in 1..m |-> e(i)]
    BY DEF Joined
<1> HIDE DEF e
<1>2. \A i \in 1..m : f[i] = e(i)
    BY <1>1
<1> QED BY <1>2 DEF e

\* It has a solution.
LEMMA JoinedExists ==
    ASSUME NEW s, NEW m \in Nat
    PROVE  \E f : Joined(s, m, f)
<1> DEFINE T == {k \in Nat : ~ \E f : Joined(s, k, f)}
<1> SUFFICES ASSUME T # {} PROVE FALSE
    OBVIOUS
<1>1. PICK k \in T : \A y \in T : k <= y
    BY LeastNat
<1>2. CASE k = 0
    <2>1. Joined(s, 0, [n \in 1..0 |-> n])
        BY DEF Joined
    <2> QED BY <1>1, <1>2, <2>1
<1>3. CASE k # 0
    <2>1. k - 1 \in Nat /\ k - 1 \notin T
        BY <1>1, <1>3
    <2>2. PICK g : Joined(s, k - 1, g)
        BY <2>1
    <2> DEFINE e(y, n) == IF n = 1 THEN s[n] ELSE y[n - 1] \o s[n]
               f == [n \in 1..k |-> IF n \in 1..(k - 1) THEN g[n] ELSE e(g, k)]
    <2>3. \A n \in 1..(k - 1) : g[n] = e(g, n)
        BY <2>1, <2>2, JoinedStep
    <2>4. \A n \in 1..k : f[n] = e(f, n)
        <3>1. f[k] = e(g, k)
            BY <2>1
        <3>2. \A n \in 1..(k - 1) : f[n] = g[n]
            BY <2>1
        <3>3. \A n \in 1..k : n = k \/ n \in 1..(k - 1)
            BY <2>1
        <3>4. \A n \in 1..k : n # 1 => n - 1 \in 1..(k - 1)
            BY <2>1
        <3> HIDE DEF f
        <3>5. \A n \in 1..k : n # 1 => f[n - 1] = g[n - 1]
            BY <3>2, <3>4
        <3>6. \A n \in 1..k : e(f, n) = e(g, n)
            BY <3>5
        <3> HIDE DEF e
        <3> QED BY <2>3, <3>1, <3>2, <3>3, <3>6
    <2>5. f = [n \in 1..k |-> f[n]]
        OBVIOUS
    <2> HIDE DEF f
    <2>6. Joined(s, k, f)
        BY <2>4, <2>5, Zenon DEF Joined
    <2> QED BY <1>1, <2>6
<1> QED BY <1>2, <1>3

LEMMA FlattenJoined ==
    ASSUME NEW s, NEW m \in Nat, Len(s) = m, m # 0
    PROVE  \E f : Joined(s, m, f) /\ FlattenSeq(s) = f[m]
<1>1. \E f : Joined(s, m, f)
    BY JoinedExists
<1> QED BY <1>1 DEF Joined, FlattenSeq

\* Sequences over S make a sequence over S.
LEMMA FlattenType ==
    ASSUME NEW S, NEW s, NEW m \in Nat, Len(s) = m,
           s = << >> \/ m # 0, \A i \in 1..m : s[i] \in Seq(S)
    PROVE  FlattenSeq(s) \in Seq(S)
<1>1. CASE m = 0
    BY <1>1 DEF FlattenSeq
<1>2. CASE m # 0
    <2>2. PICK f : Joined(s, m, f) /\ FlattenSeq(s) = f[m]
        BY <1>2, FlattenJoined
    <2>3. \A i \in 1..m : f[i] = IF i = 1 THEN s[i] ELSE f[i - 1] \o s[i]
        BY <2>2, JoinedStep
    <2> DEFINE T == {i \in 1..m : f[i] \notin Seq(S)}
    <2>4. T = {}
        <3> SUFFICES ASSUME T # {} PROVE FALSE
            OBVIOUS
        <3>0. T \subseteq Nat
            OBVIOUS
        <3>1. PICK i \in T : \A y \in T : i <= y
            BY <3>0, LeastNat
        <3>2. CASE i = 1
            BY <2>3, <3>1, <3>2
        <3>3. CASE i # 1
            <4>1. i - 1 \in 1..m /\ ~ (i <= i - 1)
                BY <3>1, <3>3
            <4>2. f[i - 1] \in Seq(S) /\ s[i] \in Seq(S)
                BY <3>1, <4>1
            <4>3. f[i] = f[i - 1] \o s[i]
                BY <2>3, <3>1, <3>3
            <4>4. f[i - 1] \o s[i] \in Seq(S)
                BY <4>2, ConcatProperties
            <4> QED BY <3>1, <4>3, <4>4
        <3> QED BY <3>2, <3>3
    <2>5. m \in 1..m
        BY <1>2
    <2> QED BY <2>2, <2>4, <2>5
<1> QED BY <1>1, <1>2

\* Numbers the parser accepts are of a type that has a size.
LEMMA ParsedTypes ==
    ASSUME NEW l \in Literal, parse_number(l) # Invalid
    PROVE  Size[parse_number(l).type] \in {1, 2, 4, 8}
<1>1. CASE parse_number(l) = parse_integer_number(l)
    <2>1. parse_number(l).type \in IntegerType
        BY <1>1, IntegersKeepTheirValue
    <2> QED BY <2>1 DEF IntegerType, Size
<1>2. CASE parse_number(l).type \in {"float", "double"}
    BY <1>2 DEF Size
<1> QED BY <1>1, <1>2 DEF parse_number, FloatWithoutLast, Number

\* An unsigned number is the one that was typed.
LEMMA UnsignedParsed ==
    ASSUME NEW l \in Literal, is_unsigned_integer(parse_number(l))
    PROVE  parse_number(l).value \in Nat
<1> DEFINE n == parse_number(l)
<1>1. n.type \in UnsignedType
    BY DEF is_unsigned_integer
<1>2. n = parse_integer_number(l)
    BY <1>1 DEF parse_number, FloatWithoutLast, Number, Invalid, UnsignedType
<1>3. n # Invalid
    BY <1>1 DEF Invalid, Number, UnsignedType
<1> HIDE DEF n
<1>4. n.value = Exact(l) /\ Fits(Exact(l), n.type) /\ Exact(l) \in Int
    BY <1>2, <1>3, IntegersKeepTheirValue, ExactType
<1>5. Low[n.type] = 0
    BY <1>1, Limits
<1> QED BY <1>4, <1>5 DEF Fits, n

\* A sequence is one over any set its elements are in.
LEMMA SeqOver ==
    ASSUME NEW S, NEW s \in Seq(S), NEW R, \A i \in 1..Len(s) : s[i] \in R
    PROVE  s \in Seq(R)
<1>1. s = [i \in 1..Len(s) |-> s[i]] /\ Len(s) \in Nat
    BY LenProperties
<1> QED BY <1>1

\* htons puts a zero in front of the opcodes.
LEMMA HighByteZero == \A x \in 0..9 : htons(x) = <<0, x>> /\ 0 \in Bytes /\ x \in Bytes
    BY NumParserAssumption DEF htons, Bytes

\* A number takes as many bytes as it is asked to.
LEMMA EndianType ==
    ASSUME NEW v, NEW size \in Nat
    PROVE  \E S : LittleEndian(v, size) \in Seq(S) /\ Len(LittleEndian(v, size)) = size
<1> DEFINE b == LittleEndian(v, size)
<1>1. \E q : Beyond(v % Span(size), size, q)
    BY BeyondExists
<1>2. PICK q : b = [k \in 1..size |-> q[k - 1] % Radix]
    BY <1>1 DEF Beyond, Shifted, LittleEndian
<1> DEFINE e(k) == q[k - 1] % Radix
           S == {e(k) : k \in 1..size}
<1>3. \A k \in 1..size : e(k) \in S
    OBVIOUS
<1> HIDE DEF e, S
<1>4. [k \in 1..size |-> e(k)] \in Seq(S) /\ Len([k \in 1..size |-> e(k)]) = size
    BY <1>3
<1>5. b = [k \in 1..size |-> e(k)]
    BY <1>2 DEF e
<1> HIDE DEF b
<1>6. b \in Seq(S) /\ Len(b) = size
    BY <1>4, <1>5
<1> QED BY <1>6 DEF b

Opcode(op) == CASE op = "echo" -> CMSG_ECHO_REQUEST
                [] op = "broadcast" -> CMSG_BROADCAST_MESSAGE
                [] op = "add" -> CMSG_ADDITION_REQUEST
                [] op = "send-msg" -> CMSG_SEND_MSG_TO_CLIENT

\* The bytes that occur.
AnyByte == Junk \cup UNION {UNION {Range(Packets(d)[k]) : k \in DOMAIN Packets(d)} :
                                d \in Command}

\* The numbers of an addition, as bytes.
Parts(args) == [i \in 1..Len(args) |-> EncodedNumber(parse_number(args[i]))]
Body(args) == FlattenSeq(Parts(args))

\* packet carries the command in its bytes.
Carries(packet, command) ==
    /\ Len(packet) \in Nat /\ Len(packet) >= 2
    /\ packet[1] = 0 /\ packet[2] = Opcode(command.op)
    /\ command.op \in {"echo", "broadcast"} =>
        /\ Len(packet) = 2 + Len(command.text)
        /\ \A i \in 1..Len(command.text) : packet[2 + i] = command.text[i]
    /\ command.op = "send-msg" =>
        /\ is_unsigned_integer(parse_number(command.to))
        /\ Len(packet) = 2 + IDLen + Len(command.text)
        /\ \A i \in 1..IDLen :
            packet[2 + i] = LittleEndian(parse_number(command.to).value, IDLen)[i]
        /\ \A i \in 1..Len(command.text) : packet[2 + IDLen + i] = command.text[i]
    /\ command.op = "add" =>
        /\ Len(packet) <= BufferLen /\ Len(command.args) >= 2
        /\ \A i \in 1..Len(command.args) : parse_number(command.args[i]) # Invalid
        /\ Len(packet) = 2 + Len(Body(command.args))
        /\ \A i \in 1..Len(Body(command.args)) : packet[2 + i] = Body(command.args)[i]

\* What is sent consists of bytes that occur.
LEMMA SentBytes ==
    ASSUME NEW command \in Command, NEW S, NEW packet \in Seq(S),
           Packets(command) = <<packet>>
    PROVE  packet \in Seq(AnyByte)
<1>1. 1 \in DOMAIN Packets(command) /\ Packets(command)[1] = packet
    OBVIOUS
<1>2. \A i \in 1..Len(packet) : packet[i] \in Range(packet)
    BY DEF Range
<1>3. \A x \in Range(packet) : x \in AnyByte
    <2> DEFINE s == Packets(command)
               bytes == UNION {Range(s[k]) : k \in DOMAIN s}
    <2>1. \A x \in Range(packet) : x \in bytes
        BY <1>1
    <2>2. \A x \in bytes : x \in AnyByte
        <3> HIDE DEF bytes
        <3> QED BY DEF AnyByte, bytes
    <2> QED BY <2>1, <2>2
<1>4. \A i \in 1..Len(packet) : packet[i] \in AnyByte
    BY <1>2, <1>3
<1> HIDE DEF AnyByte
<1> QED BY <1>4, SeqOver

\* An opcode and what follows.
LEMMA Headed ==
    ASSUME NEW S, NEW t \in Seq(S), NEW x \in 0..9
    PROVE  /\ \E U : htons(x) \o t \in Seq(U)
           /\ Len(htons(x) \o t) = 2 + Len(t) /\ Len(t) \in Nat
           /\ (htons(x) \o t)[1] = 0 /\ (htons(x) \o t)[2] = x
           /\ \A i \in 1..Len(t) : (htons(x) \o t)[2 + i] = t[i]
<1> DEFINE U == S \cup {0, x}
           h == <<0, x>>
<1>1. htons(x) = h
    BY HighByteZero
<1>2. h \in Seq(U) /\ t \in Seq(U) /\ Len(h) = 2 /\ h[1] = 0 /\ h[2] = x
    BY SeqOver, ElementOfSeq
<1>3. Len(t) \in Nat
    BY LenProperties
<1> HIDE DEF U, h
<1>4. /\ h \o t \in Seq(U)
      /\ Len(h \o t) = Len(h) + Len(t)
      /\ \A i \in 1..(Len(h) + Len(t)) : (h \o t)[i] =
            IF i <= Len(h) THEN h[i] ELSE t[i - Len(h)]
    BY <1>2, ConcatProperties
<1>5. 1 \in 1..(2 + Len(t)) /\ 2 \in 1..(2 + Len(t))
    BY <1>3
<1>6. \A i \in 1..Len(t) : /\ 2 + i \in 1..(2 + Len(t)) /\ ~ (2 + i <= 2)
                           /\ (2 + i) - 2 = i
    BY <1>3
<1> QED BY <1>1, <1>2, <1>3, <1>4, <1>5, <1>6

\* The numbers of an addition make a sequence of bytes.
LEMMA AdditionType ==
    ASSUME NEW args \in Seq(Literal),
           \A i \in 1..Len(args) : parse_number(args[i]) # Invalid
    PROVE  LET nums == [i \in 1..Len(args) |-> parse_number(args[i])]
           IN  \E S : FlattenSeq([i \in 1..Len(nums) |-> EncodedNumber(nums[i])]) \in Seq(S)
<1> DEFINE m == Len(args)
           nums == [i \in 1..m |-> parse_number(args[i])]
           e(i) == EncodedNumber(nums[i])
           parts == [i \in 1..m |-> e(i)]
           S == UNION {Range(parts[i]) : i \in 1..m}
<1>1. m \in Nat /\ \A i \in 1..m : args[i] \in Literal
    BY LenProperties, ElementOfSeq
<1>2. Len(nums) = m
    BY <1>1
<1>3. \A i \in 1..m : \E U : e(i) \in Seq(U)
    <2> SUFFICES ASSUME NEW i \in 1..m PROVE \E U : e(i) \in Seq(U)
        OBVIOUS
    <2> DEFINE n == parse_number(args[i])
               size == Size[n.type]
               b == LittleEndian(n.value, size)
               t == get_number_type(n)
    <2>1. size \in {1, 2, 4, 8}
        BY <1>1, ParsedTypes
    <2>2. e(i) = <<t>> \o b
        BY DEF EncodedNumber, append_number
    <2> HIDE DEF b, t, size, e
    <2>3. PICK U : b \in Seq(U)
        <3>1. size \in Nat
            BY <2>1
        <3> QED BY <3>1, EndianType DEF b
    <2>4. b \in Seq(U \cup {t}) /\ <<t>> \in Seq(U \cup {t})
        BY <2>3, SeqOver, ElementOfSeq
    <2>5. <<t>> \o b \in Seq(U \cup {t})
        BY <2>4, ConcatProperties
    <2> QED BY <2>2, <2>5
<1> HIDE DEF e, nums
<1>4. \A i \in 1..m : parts[i] = e(i)
    OBVIOUS
<1>5. Len(parts) = m /\ (parts = << >> \/ m # 0)
    BY <1>1
<1> HIDE DEF parts
<1>6. ASSUME NEW i \in 1..m PROVE parts[i] \in Seq(S)
    <2>1. PICK U : parts[i] \in Seq(U)
        BY <1>3, <1>4
    <2>2. \A k \in 1..Len(parts[i]) : parts[i][k] \in Range(parts[i])
        BY <2>1 DEF Range
    <2>3. \A x \in Range(parts[i]) : x \in S
        OBVIOUS
    <2> HIDE DEF S
    <2>4. \A k \in 1..Len(parts[i]) : parts[i][k] \in S
        BY <2>2, <2>3
    <2> QED BY <2>1, <2>4, SeqOver
<1> HIDE DEF S
<1>7. FlattenSeq(parts) \in Seq(S)
    <2> HIDE DEF m
    <2> QED BY <1>1, <1>5, <1>6, FlattenType
<1>8. parts = [i \in 1..Len(nums) |-> EncodedNumber(nums[i])]
    BY <1>2 DEF parts, e
<1> QED BY <1>7, <1>8 DEF nums

\* Every packet carries its command.
LEMMA PacketShape ==
    ASSUME NEW command \in Command, Packets(command) # << >>
    PROVE  \E packet \in Seq(AnyByte) :
                Packets(command) = <<packet>> /\ Carries(packet, command)
<1> USE DEF CMSG_ECHO_REQUEST, CMSG_ADDITION_REQUEST, CMSG_BROADCAST_MESSAGE,
        CMSG_SEND_MSG_TO_CLIENT
<1>1. CASE command \in [op : {"echo", "broadcast"}, text : Text]
    <2> DEFINE x == Opcode(command.op)
               packet == htons(x) \o command.text
    <2>1. command.text \in Seq(Bytes) /\ command.op \in {"echo", "broadcast"}
        BY <1>1 DEF Text, Bytes
    <2>2. Packets(command) = <<packet>>
        BY <2>1 DEF Packets, Opcode
    <2>3. x \in 0..9
        BY <2>1 DEF Opcode
    <2> HIDE DEF x
    <2>4. /\ \E U : packet \in Seq(U)
          /\ Len(packet) = 2 + Len(command.text) /\ Len(command.text) \in Nat
          /\ packet[1] = 0 /\ packet[2] = x
          /\ \A i \in 1..Len(command.text) : packet[2 + i] = command.text[i]
        BY <2>1, <2>3, Headed
    <2> HIDE DEF packet
    <2>5. packet \in Seq(AnyByte)
        BY <2>2, <2>4, SentBytes
    <2>6. Carries(packet, command)
        BY <2>1, <2>4 DEF Carries, x
    <2> QED BY <2>2, <2>5, <2>6
<1>2. CASE command \in [op : {"add"}, args : Seq(Literal)]
    <2> DEFINE nums == [i \in 1..Len(command.args) |-> parse_number(command.args[i])]
               t == FlattenSeq([i \in 1..Len(nums) |-> EncodedNumber(nums[i])])
               packet == htons(CMSG_ADDITION_REQUEST) \o t
    <2>1. command.op = "add" /\ command.args \in Seq(Literal)
        BY <1>2
    <2>2. packet = sendAdditionRequest(nums)
        BY DEF sendAdditionRequest
    <2>3. /\ Packets(command) = <<packet>> /\ Len(packet) <= BufferLen
          /\ Len(nums) >= 2
          /\ \A i \in 1..Len(nums) : nums[i] # Invalid
        <3> HIDE DEF packet
        <3> QED BY <2>1, <2>2 DEF Packets
    <2>4. /\ \A i \in 1..Len(command.args) : parse_number(command.args[i]) # Invalid
          /\ Len(command.args) >= 2 /\ t = Body(command.args)
        <3>1. Len(command.args) \in Nat
            BY <2>1, LenProperties
        <3>2. Len(nums) = Len(command.args)
            BY <3>1
        <3>3. [i \in 1..Len(nums) |-> EncodedNumber(nums[i])] = Parts(command.args)
            BY <3>2 DEF Parts
        <3>4. t = Body(command.args)
            BY <3>3 DEF Body
        <3>5. \A i \in 1..Len(command.args) : nums[i] = parse_number(command.args[i])
            OBVIOUS
        <3> HIDE DEF t, nums
        <3> QED BY <2>3, <3>2, <3>4, <3>5
    <2>5. PICK S : t \in Seq(S)
        <3> DEFINE args == command.args
        <3>1. args \in Seq(Literal) /\ \A i \in 1..Len(args) : parse_number(args[i]) # Invalid
            BY <2>1, <2>4
        <3> HIDE DEF args
        <3>2. LET ns == [i \in 1..Len(args) |-> parse_number(args[i])]
              IN  \E S : FlattenSeq([i \in 1..Len(ns) |-> EncodedNumber(ns[i])]) \in Seq(S)
            BY <3>1, AdditionType
        <3> QED BY <3>2 DEF args
    <2> HIDE DEF t, nums
    <2>6. /\ \E U : packet \in Seq(U)
          /\ Len(packet) = 2 + Len(t) /\ Len(t) \in Nat
          /\ packet[1] = 0 /\ packet[2] = 2
          /\ \A i \in 1..Len(t) : packet[2 + i] = t[i]
        <3>1. 2 \in 0..9
            OBVIOUS
        <3> QED BY <2>5, <3>1, Headed
    <2> HIDE DEF packet
    <2>7. packet \in Seq(AnyByte)
        BY <2>3, <2>6, SentBytes
    <2>8. Carries(packet, command)
        BY <2>1, <2>3, <2>4, <2>6 DEF Carries, Opcode
    <2> QED BY <2>3, <2>7, <2>8
<1>3. CASE command \in [op : {"send-msg"}, to : Literal, text : Text]
    <2> DEFINE num == parse_number(command.to)
               id == LittleEndian(num.value, IDLen)
               t == id \o command.text
               packet == htons(CMSG_SEND_MSG_TO_CLIENT) \o t
    <2>1. command.op = "send-msg" /\ command.to \in Literal /\ command.text \in Seq(Bytes)
        BY <1>3 DEF Text, Bytes
    <2>i. IDLen \in {1, 2, 4, 8}
        BY PacketBufferAssumption
    <2>2. /\ is_unsigned_integer(num)
          /\ Packets(command) = <<sendClientMessage(num.value, command.text)>>
        BY <2>1 DEF Packets
    <2>3. num.value \in Int
        BY <2>1, <2>2, UnsignedParsed
    <2>4. id \in Seq(Bytes) /\ Len(id) = IDLen
        BY <2>i, <2>3, BytesAndBack
    <2>5. htons(5) = <<0, 5>> /\ <<0, 5>> \in Seq(Bytes)
        <3>1. 0 \in Bytes /\ 5 \in Bytes /\ htons(5) = <<0, 5>>
            BY HighByteZero
        <3> HIDE DEF Bytes
        <3> QED BY <3>1
    <2> HIDE DEF id, num
    <2>6. sendClientMessage(num.value, command.text) = packet
        <3> DEFINE text == command.text
                   h == <<0, 5>>
        <3>1. h \in Seq(Bytes) /\ text \in Seq(Bytes) /\ id \in Seq(Bytes)
            BY <2>1, <2>4, <2>5
        <3>2. packet = h \o (id \o text)
            BY <2>5
        <3>3. sendClientMessage(num.value, command.text) = (h \o id) \o text
            BY <2>5 DEF sendClientMessage, id
        <3> HIDE DEF text, h, packet, Bytes
        <3>4. (h \o id) \o text = h \o (id \o text)
            BY <3>1, ConcatAssociative
        <3> QED BY <3>2, <3>3, <3>4
    <2>7. /\ t \in Seq(Bytes) /\ Len(t) = IDLen + Len(command.text)
          /\ Len(command.text) \in Nat
          /\ \A i \in 1..(IDLen + Len(command.text)) : t[i] =
                IF i <= IDLen THEN id[i] ELSE command.text[i - IDLen]
        BY <2>1, <2>4, ConcatProperties, LenProperties
    <2> HIDE DEF t
    <2>8. /\ \E U : packet \in Seq(U)
          /\ Len(packet) = 2 + Len(t) /\ Len(t) \in Nat
          /\ packet[1] = 0 /\ packet[2] = 5
          /\ \A i \in 1..Len(t) : packet[2 + i] = t[i]
        <3>1. 5 \in 0..9
            OBVIOUS
        <3> QED BY <2>7, <3>1, Headed
    <2> HIDE DEF packet
    <2>9. packet \in Seq(AnyByte)
        BY <2>2, <2>6, <2>8, SentBytes
    <2>10. /\ \A i \in 1..IDLen : packet[2 + i] = id[i]
           /\ \A i \in 1..Len(command.text) : packet[2 + IDLen + i] = command.text[i]
        <3>1. IDLen \in Nat
            BY <2>i
        <3>2. \A i \in 1..IDLen : i \in 1..Len(t) /\ i \in 1..(IDLen + Len(command.text))
                                    /\ i <= IDLen
            BY <2>7, <3>1
        <3>3. \A i \in 1..Len(command.text) :
                /\ IDLen + i \in 1..Len(t) /\ IDLen + i \in 1..(IDLen + Len(command.text))
                /\ ~ (IDLen + i <= IDLen) /\ (IDLen + i) - IDLen = i
                /\ 2 + (IDLen + i) = 2 + IDLen + i
            BY <2>7, <3>1
        <3>4. \A i \in 1..IDLen : packet[2 + i] = id[i]
            BY <2>7, <2>8, <3>2
        <3>5. ASSUME NEW i \in 1..Len(command.text)
              PROVE  packet[2 + IDLen + i] = command.text[i]
            <4> DEFINE j == IDLen + i
            <4>1. /\ j \in 1..Len(t) /\ j \in 1..(IDLen + Len(command.text))
                  /\ ~ (j <= IDLen) /\ j - IDLen = i /\ 2 + j = 2 + IDLen + i
                BY <3>3
            <4> HIDE DEF j
            <4>2. packet[2 + j] = t[j]
                BY <2>8, <4>1
            <4>3. t[j] = command.text[i]
                BY <2>7, <4>1
            <4> QED BY <4>1, <4>2, <4>3
        <3> QED BY <3>4, <3>5
    <2>11. Carries(packet, command)
        <3>0. IDLen \in Nat
            BY <2>i
        <3>1. Len(packet) = 2 + IDLen + Len(command.text) /\ Len(packet) \in Nat
              /\ Len(packet) >= 2
            <4> DEFINE p == Len(packet)
                       k == Len(command.text)
            <4>1. p = 2 + Len(t) /\ Len(t) = IDLen + k /\ k \in Nat
                BY <2>7, <2>8
            <4> HIDE DEF p, k
            <4>2. p = 2 + IDLen + k /\ p \in Nat /\ p >= 2
                BY <3>0, <4>1
            <4> QED BY <4>2 DEF p, k
        <3> QED BY <2>1, <2>2, <2>8, <2>10, <3>1 DEF Carries, Opcode, id, num
    <2> QED BY <2>2, <2>6, <2>9, <2>11
<1> QED BY <1>1, <1>2, <1>3, CommandAssumption

\* Two parts of sequences are equal when their elements are.
LEMMA SamePart ==
    ASSUME NEW S, NEW s \in Seq(S), NEW R, NEW t \in Seq(R),
           NEW a \in Nat, NEW b \in Nat, NEW k \in Nat,
           a + k <= Len(s), b + k <= Len(t),
           \A i \in 1..k : s[a + i] = t[b + i]
    PROVE  /\ SubSeq(s, a + 1, a + k) = SubSeq(t, b + 1, b + k)
           /\ SubSeq(s, a + 1, a + k) \in Seq(S)
           /\ Len(SubSeq(s, a + 1, a + k)) = k
           /\ \A i \in 1..k : SubSeq(s, a + 1, a + k)[i] = s[a + i]
<1>1. SubSeq(s, a + 1, a + k) = [i \in 1..k |-> s[a + i]]
    OBVIOUS
<1>2. SubSeq(t, b + 1, b + k) = [i \in 1..k |-> t[b + i]]
    OBVIOUS
<1>3. SubSeq(s, a + 1, a + k) = SubSeq(t, b + 1, b + k)
    BY <1>1, <1>2
<1>4. \A i \in 1..k : s[a + i] \in S
    BY ElementOfSeq
<1> DEFINE e(i) == s[a + i]
<1> HIDE DEF e
<1>5. [i \in 1..k |-> e(i)] \in Seq(S) /\ Len([i \in 1..k |-> e(i)]) = k
    BY <1>4 DEF e
<1>6. SubSeq(s, a + 1, a + k) = [i \in 1..k |-> e(i)]
    BY <1>1 DEF e
<1> QED BY <1>1, <1>3, <1>5, <1>6

\* The second sequence from its beginning on.
LEMMA SameBeginning ==
    ASSUME NEW S, NEW s \in Seq(S), NEW R, NEW t \in Seq(R), NEW a \in Nat, NEW k \in Nat,
           a + k <= Len(s), k <= Len(t), \A i \in 1..k : s[a + i] = t[i]
    PROVE  SubSeq(s, a + 1, a + k) = SubSeq(t, 1, k)
<1> DEFINE b == 0
<1>1. b \in Nat /\ b + 1 = 1 /\ b + k = k /\ \A i \in 1..k : b + i = i
    OBVIOUS
<1> HIDE DEF b
<1>2. b + k <= Len(t) /\ \A i \in 1..k : s[a + i] = t[b + i]
    BY <1>1
<1>3. SubSeq(s, a + 1, a + k) = SubSeq(t, b + 1, b + k)
    BY <1>1, <1>2, SamePart
<1> QED BY <1>1, <1>3

----------------------------------------------------------------------------
(* Additions: one number.                                                  *)

AnyType == IntegerType \cup {"float", "double"}

\* Small integers are not rounded.
LEMMA NearestSmall ==
    ASSUME NEW v \in Int, NEW p \in Nat, Abs(v) <= p
    PROVE  Nearest(v, p) = v
    BY Zenon DEF Nearest

\* The type byte tells the type.
LEMMA TypeByte ==
    ASSUME NEW n, n.type \in AnyType
    PROVE  /\ get_number_type(n) \in 0..9
           /\ TypeOrder[get_number_type(n) + 1] = n.type
<1>1. \E k \in 1..10 : TypeOrder[k] = n.type
    <2> DEFINE has(k) == TypeOrder[k] = n.type
    <2>1. \/ has(1) \/ has(2) \/ has(3) \/ has(4) \/ has(5) \/ has(6) \/ has(7)
          \/ has(8) \/ has(9) \/ has(10)
        BY DEF AnyType, IntegerType, TypeOrder
    <2> HIDE DEF has
    <2>2. \E k \in 1..10 : has(k)
        BY <2>1
    <2> QED BY <2>2 DEF has
<1> DEFINE k == CHOOSE j \in 1..10 : TypeOrder[j] = n.type
<1>2. k \in 1..10 /\ TypeOrder[k] = n.type
    BY <1>1, Zenon
<1>3. get_number_type(n) = k - 1
    BY DEF get_number_type
<1> HIDE DEF k
<1>4. k - 1 \in 0..9 /\ (k - 1) + 1 = k
    BY <1>2
<1> QED BY <1>2, <1>3, <1>4

\* A literal that float or double holds keeps its value whichever way it is parsed.
LEMMA RepresentableParsed ==
    ASSUME NEW l \in Literal, Representable(l), parse_number(l) # Invalid
    PROVE  LET n == parse_number(l)
           IN  /\ n = Number(n.type, Exact(l))
               /\ \/ n.type \in IntegerType /\ Fits(Exact(l), n.type)
                  \/ n.type = "float" /\ l.mag <= FloatPrecision
                  \/ n.type = "double" /\ l.mag <= DoublePrecision
<1> DEFINE n == parse_number(l)
<1>0. /\ Exact(l) \in Int /\ l.mag \in Nat /\ Abs(Exact(l)) = l.mag
      /\ FloatPrecision \in Nat /\ DoublePrecision \in Nat
      /\ l.neg \in BOOLEAN
    BY NumParserAssumption DEF Exact, Literal, Abs
<1>1. CASE EndsInF(l)
    <2>1. l.suffix = "F" /\ l.mag <= FloatPrecision
        BY <1>1 DEF Representable, EndsInF
    <2>2. n = FloatWithoutLast(l)
        BY <1>1, <2>1 DEF parse_number
    <2>3. Nearest(Exact(l), FloatPrecision) = Exact(l)
        BY <1>0, <2>1, NearestSmall
    <2>4. CASE l.digits
        <3>1. n = Number("float", Exact(l))
            BY <2>1, <2>2, <2>3, <2>4 DEF FloatWithoutLast
        <3> QED BY <2>1, <3>1 DEF Number
    <2>5. CASE ~l.digits
        <3>1. Exact(l) = 0
            BY <2>5 DEF Literal, Exact
        <3>2. n = Number("float", 0)
            BY <2>1, <2>2, <2>5 DEF FloatWithoutLast
        <3> QED BY <2>1, <3>1, <3>2 DEF Number
    <2> QED BY <2>4, <2>5
<1>2. CASE ~EndsInF(l) /\ (l.point \/ HasE(l))
    <2>1. n = Number("double", Nearest(Exact(l), DoublePrecision)) /\ l.suffix = ""
        <3> HIDE DEF EndsInF, HasE
        <3> QED BY <1>2 DEF parse_number
    <2>2. l.mag <= DoublePrecision
        BY <2>1 DEF Representable
    <2>3. Nearest(Exact(l), DoublePrecision) = Exact(l)
        BY <1>0, <2>2, NearestSmall
    <2>4. n = Number("double", Exact(l))
        BY <2>1, <2>3
    <2> QED BY <2>2, <2>4 DEF Number
<1>3. CASE ~EndsInF(l) /\ ~(l.point \/ HasE(l))
    <2>1. n = parse_integer_number(l)
        <3> HIDE DEF EndsInF, HasE
        <3> QED BY <1>3 DEF parse_number
    <2>2. n.type \in IntegerType /\ n.value = Exact(l) /\ Fits(Exact(l), n.type)
        BY <2>1, IntegersKeepTheirValue
    <2>3. n = Number(n.type, n.value)
        BY <2>1 DEF parse_integer_number, Number, Invalid
    <2> QED BY <2>2, <2>3
<1> QED BY <1>1, <1>2, <1>3

\* The stand-in for the layout of float and double.
LEMMA FloatsOnTheWire ==
    ASSUME NEW t \in {"float", "double"}, NEW v \in Int,
           t = "float" => Abs(v) <= FloatPrecision,
           t = "double" => Abs(v) <= DoublePrecision
    PROVE  read_number(append_number(Number(t, v)), t) = Number(t, v)
<1> DEFINE size == Size[t]
           span == Span(size)
           n == v % span
<1>1. size \in {4, 8} /\ size \in {1, 2, 4, 8}
    BY DEF Size
<1>2. span \in Nat \ {0}
    BY <1>1, SpanTypes
<1>3. append_number(Number(t, v)) = LittleEndian(v, size)
    BY DEF append_number, Number
<1>4. FromLittleEndian(append_number(Number(t, v))) = n
    BY <1>1, <1>3, BytesAndBack
<1>5. t \notin UnsignedType
    BY DEF UnsignedType
<1>6. -span <= 2 * v /\ 2 * v < span
    <2>1. 2 * Abs(v) < span /\ FloatPrecision \in Nat /\ DoublePrecision \in Nat
        BY NumParserAssumption, PrecisionAssumption, Spans DEF Size, Span, Abs
    <2> HIDE DEF span
    <2> QED BY <1>2, <2>1 DEF Abs
<1> HIDE DEF span
<1>7. n = IF v < 0 THEN v + span ELSE v
    BY <1>2, <1>6
<1>8. (IF 2 * n >= span THEN n - span ELSE n) = v
    BY <1>2, <1>6, <1>7
<1> HIDE DEF n
<1>9. read_number(append_number(Number(t, v)), t)
        = Number(t, IF 2 * n >= span THEN n - span ELSE n)
    BY <1>4, <1>5 DEF read_number, span
<1> QED BY <1>8, <1>9

\* One number of an addition, from the keyboard to the server.
LEMMA NumberArrives ==
    ASSUME NEW l \in Literal, Representable(l), parse_number(l) # Invalid
    PROVE  LET n == parse_number(l)
           IN  /\ read_number(append_number(n), n.type) = n
               /\ n.value = Exact(l) /\ n.type \in AnyType
               /\ append_number(n) \in Seq(Bytes)
               /\ Len(append_number(n)) = Size[n.type]
               /\ Size[n.type] \in {1, 2, 4, 8}
<1> DEFINE n == parse_number(l)
           t == n.type
           v == Exact(l)
<1>1. /\ n = Number(t, v)
      /\ \/ t \in IntegerType /\ Fits(v, t)
         \/ t = "float" /\ l.mag <= FloatPrecision
         \/ t = "double" /\ l.mag <= DoublePrecision
    BY RepresentableParsed
<1>2. v \in Int /\ Abs(v) = l.mag
    BY DEF Exact, Literal, Abs
<1>3. Size[t] \in {1, 2, 4, 8}
    BY ParsedTypes
<1> HIDE DEF n, v
<1>4. read_number(append_number(n), t) = n
    <2>1. CASE t \in IntegerType /\ Fits(v, t)
        BY <1>1, <1>2, <2>1, IntegersOnTheWire
    <2>2. CASE t \in {"float", "double"}
        <3>1. t \notin IntegerType
            BY <2>2 DEF IntegerType
        <3>2. /\ t = "float" => Abs(v) <= FloatPrecision
              /\ t = "double" => Abs(v) <= DoublePrecision
            BY <1>1, <1>2, <2>2, <3>1
        <3> QED BY <1>1, <1>2, <2>2, <3>2, FloatsOnTheWire
    <2> QED BY <1>1, <2>1, <2>2
<1>5. append_number(n) = LittleEndian(v, Size[t])
    BY <1>1 DEF append_number, Number
<1>6. append_number(n) \in Seq(Bytes) /\ Len(append_number(n)) = Size[t]
    BY <1>2, <1>3, <1>5, BytesAndBack
<1>7. n.value = v /\ t \in AnyType
    BY <1>1 DEF Number, AnyType
<1> QED BY <1>3, <1>4, <1>6, <1>7 DEF n, v

----------------------------------------------------------------------------
(* Additions: the sum.                                                     *)

\* f has the totals of the first values of s.
Totals(s, m, f) ==
    f = [k \in 0..m |-> IF k = 0 THEN 0 ELSE f[k - 1] + s[k]]

LEMMA TotalsStep ==
    ASSUME NEW s, NEW m \in Nat, NEW f, Totals(s, m, f)
    PROVE  f[0] = 0 /\ \A k \in 1..m : f[k] = f[k - 1] + s[k]
<1> DEFINE e(k) == IF k = 0 THEN 0 ELSE f[k - 1] + s[k]
<1>1. f = [k \in 0..m |-> e(k)]
    BY DEF Totals
<1> HIDE DEF e
<1>2. \A k \in 0..m : f[k] = e(k)
    BY <1>1
<1>3. 0 \in 0..m /\ \A k \in 1..m : k \in 0..m /\ k # 0
    OBVIOUS
<1>4. f[0] = e(0) /\ \A k \in 1..m : f[k] = e(k)
    BY <1>2, <1>3
<1> QED BY <1>3, <1>4, Zenon DEF e

LEMMA TotalsExists ==
    ASSUME NEW s, NEW m \in Nat
    PROVE  \E f : Totals(s, m, f)
<1> DEFINE T == {k \in Nat : ~ \E f : Totals(s, k, f)}
<1> SUFFICES ASSUME T # {} PROVE FALSE
    OBVIOUS
<1>1. PICK k \in T : \A y \in T : k <= y
    BY LeastNat
<1>2. CASE k = 0
    <2>1. Totals(s, 0, [n \in 0..0 |-> 0])
        BY DEF Totals
    <2> QED BY <1>1, <1>2, <2>1
<1>3. CASE k # 0
    <2>1. k - 1 \in Nat /\ k - 1 \notin T
        BY <1>1, <1>3
    <2>2. PICK g : Totals(s, k - 1, g)
        BY <2>1
    <2> DEFINE step(y, n) == y + s[n]
               f == [n \in 0..k |-> IF n \in 0..(k - 1) THEN g[n]
                                    ELSE step(g[k - 1], k)]
    <2>3. g[0] = 0 /\ \A n \in 1..(k - 1) : g[n] = step(g[n - 1], n)
        BY <2>1, <2>2, TotalsStep
    <2> HIDE DEF step
    <2>4. f[0] = 0 /\ \A n \in 1..k : f[n] = step(f[n - 1], n)
        <3>1. f[0] = 0 /\ f[k - 1] = g[k - 1]
            BY <2>1, <2>3
        <3>2. f[k] = step(g[k - 1], k)
            BY <2>1
        <3>3. \A n \in 1..(k - 1) : f[n] = g[n] /\ f[n - 1] = g[n - 1]
            BY <2>1
        <3>4. \A n \in 1..k : n = k \/ n \in 1..(k - 1)
            BY <2>1
        <3> HIDE DEF f
        <3> QED BY <2>3, <3>1, <3>2, <3>3, <3>4
    <2>5. f = [n \in 0..k |-> f[n]]
        OBVIOUS
    <2> HIDE DEF f
    <2>6. \A n \in 0..k : n = 0 \/ n \in 1..k
        BY <1>1
    <2>7. Totals(s, k, f)
        BY <2>4, <2>5, <2>6, Zenon DEF Totals, step
    <2> QED BY <1>1, <2>7
<1> QED BY <1>2, <1>3

\* f has their sums in double.
Doubles(s, m, f) ==
    f = [k \in 0..m |-> IF k = 0 THEN 0 ELSE AddDouble(f[k - 1], s[k])]

LEMMA DoublesStep ==
    ASSUME NEW s, NEW m \in Nat, NEW f, Doubles(s, m, f)
    PROVE  f[0] = 0 /\ \A k \in 1..m : f[k] = AddDouble(f[k - 1], s[k])
<1> DEFINE e(k) == IF k = 0 THEN 0 ELSE AddDouble(f[k - 1], s[k])
<1>1. f = [k \in 0..m |-> e(k)]
    BY DEF Doubles
<1> HIDE DEF e
<1>2. \A k \in 0..m : f[k] = e(k)
    BY <1>1
<1>3. 0 \in 0..m /\ \A k \in 1..m : k \in 0..m /\ k # 0
    OBVIOUS
<1>4. f[0] = e(0) /\ \A k \in 1..m : f[k] = e(k)
    BY <1>2, <1>3
<1> QED BY <1>3, <1>4, Zenon DEF e

LEMMA DoublesExists ==
    ASSUME NEW s, NEW m \in Nat
    PROVE  \E f : Doubles(s, m, f)
<1> DEFINE T == {k \in Nat : ~ \E f : Doubles(s, k, f)}
<1> SUFFICES ASSUME T # {} PROVE FALSE
    OBVIOUS
<1>1. PICK k \in T : \A y \in T : k <= y
    BY LeastNat
<1>2. CASE k = 0
    <2>1. Doubles(s, 0, [n \in 0..0 |-> 0])
        BY DEF Doubles
    <2> QED BY <1>1, <1>2, <2>1
<1>3. CASE k # 0
    <2>1. k - 1 \in Nat /\ k - 1 \notin T
        BY <1>1, <1>3
    <2>2. PICK g : Doubles(s, k - 1, g)
        BY <2>1
    <2> DEFINE step(y, n) == AddDouble(y, s[n])
               f == [n \in 0..k |-> IF n \in 0..(k - 1) THEN g[n]
                                    ELSE step(g[k - 1], k)]
    <2>3. g[0] = 0 /\ \A n \in 1..(k - 1) : g[n] = step(g[n - 1], n)
        BY <2>1, <2>2, DoublesStep
    <2> HIDE DEF step
    <2>4. f[0] = 0 /\ \A n \in 1..k : f[n] = step(f[n - 1], n)
        <3>1. f[0] = 0 /\ f[k - 1] = g[k - 1]
            BY <2>1, <2>3
        <3>2. f[k] = step(g[k - 1], k)
            BY <2>1
        <3>3. \A n \in 1..(k - 1) : f[n] = g[n] /\ f[n - 1] = g[n - 1]
            BY <2>1
        <3>4. \A n \in 1..k : n = k \/ n \in 1..(k - 1)
            BY <2>1
        <3> HIDE DEF f
        <3> QED BY <2>3, <3>1, <3>2, <3>3, <3>4
    <2>5. f = [n \in 0..k |-> f[n]]
        OBVIOUS
    <2> HIDE DEF f
    <2>6. \A n \in 0..k : n = 0 \/ n \in 1..k
        BY <1>1
    <2>7. Doubles(s, k, f)
        BY <2>4, <2>5, <2>6, Zenon DEF Doubles, step
    <2> QED BY <1>1, <2>7
<1> QED BY <1>2, <1>3


\* The numbers nums have the values vals, of magnitudes mags.
Operands(m, nums, mags, vals) ==
    /\ m \in Nat /\ Len(nums) = m /\ Len(mags) = m /\ Len(vals) = m
    /\ \A k \in 1..m : /\ mags[k] \in Nat /\ vals[k] \in Int
                       /\ Abs(vals[k]) = mags[k] /\ nums[k].value = vals[k]

\* Sums that double can hold are not rounded on the way.
LEMMA SumExact ==
    ASSUME NEW m, NEW nums, NEW mags, NEW vals, Operands(m, nums, mags, vals),
           Total(mags) <= DoublePrecision
    PROVE  DoubleSum(nums) = Total(vals)
<1>m. /\ m \in Nat /\ Len(nums) = m /\ Len(mags) = m /\ Len(vals) = m
      /\ \A k \in 1..m : /\ mags[k] \in Nat /\ vals[k] \in Int
                         /\ Abs(vals[k]) = mags[k] /\ nums[k].value = vals[k]
    BY DEF Operands
<1>0. m \in Nat
    BY <1>m
<1>p. DoublePrecision \in Nat
    BY NumParserAssumption
<1>1. PICK M : Totals(mags, m, M) /\ Total(mags) = M[m]
    <2>1. \E f : Totals(mags, m, f)
        BY <1>0, TotalsExists
    <2> QED BY <1>m, <2>1 DEF Totals, Total
<1>2. PICK E : Totals(vals, m, E) /\ Total(vals) = E[m]
    <2>1. \E f : Totals(vals, m, f)
        BY <1>0, TotalsExists
    <2> QED BY <1>m, <2>1 DEF Totals, Total
<1>3. PICK S : Doubles(nums, m, S) /\ DoubleSum(nums) = S[m]
    <2>1. \E f : Doubles(nums, m, f)
        BY <1>0, DoublesExists
    <2> QED BY <1>m, <2>1 DEF Doubles, DoubleSum
<1>4. M[0] = 0 /\ \A k \in 1..m : M[k] = M[k - 1] + mags[k]
    BY <1>0, <1>1, TotalsStep
<1>5. E[0] = 0 /\ \A k \in 1..m : E[k] = E[k - 1] + vals[k]
    BY <1>0, <1>2, TotalsStep
<1>6. S[0] = 0 /\ \A k \in 1..m : S[k] = AddDouble(S[k - 1], nums[k])
    BY <1>0, <1>3, DoublesStep
<1> USE <1>m
\* The magnitudes add up to more and more.
<1>7. \A k \in 0..m : M[k] \in Nat
    <2> DEFINE T == {k \in 0..m : M[k] \notin Nat}
    <2> SUFFICES ASSUME T # {} PROVE FALSE
        OBVIOUS
    <2>0. T \subseteq Nat
        OBVIOUS
    <2>1. PICK k \in T : \A y \in T : k <= y
        BY <2>0, LeastNat
    <2>2. k # 0
        BY <1>4, <2>1
    <2>3. k \in 1..m /\ k - 1 \in 0..m /\ ~ (k <= k - 1)
        BY <2>1, <2>2
    <2>4. M[k - 1] \in Nat
        BY <2>1, <2>3
    <2>5. M[k] = M[k - 1] + mags[k] /\ mags[k] \in Nat
        BY <1>4, <2>3
    <2> QED BY <2>1, <2>4, <2>5
<1>8. \A k \in 0..m : M[k] <= DoublePrecision
    <2> DEFINE T == {k \in 0..m : ~ (M[m - k] <= DoublePrecision)}
    <2>1. T = {}
        <3> SUFFICES ASSUME T # {} PROVE FALSE
            OBVIOUS
        <3>0. T \subseteq Nat
            OBVIOUS
        <3>1. PICK k \in T : \A y \in T : k <= y
            BY <3>0, LeastNat
        <3>2. k # 0
            BY <1>1, <3>1
        <3> DEFINE i == m - k
        <3>3. /\ k - 1 \in 0..m /\ ~ (k <= k - 1) /\ m - (k - 1) = i + 1
              /\ i + 1 \in 1..m /\ (i + 1) - 1 = i /\ i \in 0..m /\ i + 1 \in 0..m
            BY <3>1, <3>2
        <3>4. M[i + 1] <= DoublePrecision
            BY <3>1, <3>3
        <3>5. M[i + 1] = M[i] + mags[i + 1] /\ mags[i + 1] \in Nat
            BY <1>4, <3>3
        <3>6. M[i] \in Nat /\ M[i + 1] \in Nat /\ ~ (M[i] <= DoublePrecision)
            BY <1>7, <3>1, <3>3
        <3> HIDE DEF i
        <3> QED BY <1>p, <3>4, <3>5, <3>6
    <2>2. ASSUME NEW k \in 0..m PROVE M[k] <= DoublePrecision
        <3>1. m - k \in 0..m /\ m - (m - k) = k
            OBVIOUS
        <3>2. m - k \notin T
            BY <2>1
        <3> QED BY <3>1, <3>2
    <2> QED BY <2>2
\* The sums stay below them.
<1>9. \A k \in 0..m : E[k] \in Int /\ Abs(E[k]) <= M[k] /\ S[k] = E[k]
    <2> DEFINE P(k) == E[k] \in Int /\ Abs(E[k]) <= M[k] /\ S[k] = E[k]
               T == {k \in 0..m : ~P(k)}
    <2> SUFFICES ASSUME T # {} PROVE FALSE
        OBVIOUS
    <2>0. T \subseteq Nat
        OBVIOUS
    <2>1. PICK k \in T : \A y \in T : k <= y
        BY <2>0, LeastNat
    <2>2. k # 0
        BY <1>4, <1>5, <1>6, <2>1 DEF Abs
    <2>3. k \in 1..m /\ k - 1 \in 0..m /\ ~ (k <= k - 1)
        BY <2>1, <2>2
    <2>4. P(k - 1)
        BY <2>1, <2>3
    <2> DEFINE v == vals[k]
               e == E[k - 1]
    <2>5. /\ v \in Int /\ Abs(v) = mags[k] /\ nums[k].value = v /\ mags[k] \in Nat
          /\ M[k] = M[k - 1] + mags[k] /\ E[k] = e + v /\ e \in Int
          /\ Abs(e) <= M[k - 1] /\ S[k] = AddDouble(e, nums[k])
        BY <1>4, <1>5, <1>6, <2>3, <2>4
    <2>6. M[k] \in Nat /\ M[k - 1] \in Nat /\ M[k] <= DoublePrecision
        BY <1>7, <1>8, <2>3
    <2> HIDE DEF v, e
    <2>7. Abs(v) <= DoublePrecision /\ e + v \in Int /\ Abs(e + v) <= M[k]
        <3> DEFINE a == mags[k]
                   b == M[k - 1]
        <3>1. /\ v \in Int /\ e \in Int /\ Abs(v) = a /\ Abs(e) <= b /\ M[k] = b + a
              /\ a \in Nat /\ b \in Nat /\ b + a <= DoublePrecision
            BY <2>5, <2>6
        <3> HIDE DEF a, b
        <3>2. Abs(v) <= DoublePrecision /\ e + v \in Int /\ Abs(e + v) <= b + a
            BY <1>p, <3>1, SMTT(30) DEF Abs
        <3> QED BY <3>1, <3>2
    <2>8. Abs(e + v) <= DoublePrecision
        BY <1>p, <2>6, <2>7 DEF Abs
    <2>9. Nearest(v, DoublePrecision) = v
        BY <1>p, <2>5, <2>7, NearestSmall
    <2>10. Nearest(e + v, DoublePrecision) = e + v
        <3> DEFINE x == e + v
        <3>1. x \in Int /\ Abs(x) <= DoublePrecision
            BY <2>7, <2>8
        <3> HIDE DEF x
        <3>2. Nearest(x, DoublePrecision) = x
            BY <1>p, <3>1, NearestSmall
        <3> QED BY <3>2 DEF x
    <2>11. S[k] = e + v
        BY <2>5, <2>9, <2>10 DEF AddDouble
    <2>12. P(k)
        BY <2>5, <2>7, <2>11
    <2> QED BY <2>1, <2>12
<1> QED BY <1>2, <1>3, <1>9

----------------------------------------------------------------------------
(* Additions: the numbers in a record.                                     *)

\* f[o] are the numbers from offset o on.
Scan(mem, n, f) ==
    f = [o \in Nat |-> IF o >= n THEN << >>
                       ELSE IF mem[o + 1] >= Len(TypeOrder) THEN <<Invalid>>
                       ELSE <<NumberAt(mem, o)>> \o f[After(mem, o)]]

\* The next type byte is further on.
LEMMA AfterLater ==
    ASSUME NEW mem, NEW o \in Nat, mem[o + 1] \in Nat,
           ~ (mem[o + 1] >= Len(TypeOrder))
    PROVE  After(mem, o) \in Nat /\ After(mem, o) > o
<1>1. mem[o + 1] \in 0..9
    BY DEF TypeOrder
<1>2. Size[TypeAt(mem, o)] \in {1, 2, 4, 8}
    <2> DEFINE t == TypeAt(mem, o)
    <2>1. t \in {"int8", "uint8", "int16", "uint16", "int32", "uint32", "int64",
                 "uint64", "float", "double"}
        BY <1>1 DEF TypeAt, TypeOrder
    <2> HIDE DEF t
    <2>2. Size[t] \in {1, 2, 4, 8}
        BY <2>1 DEF Size
    <2> QED BY <2>2 DEF t
<1> QED BY <1>2 DEF After

LEMMA ScanExists ==
    ASSUME NEW mem, NEW n \in Nat, \A o \in Nat : o < n => mem[o + 1] \in Nat
    PROVE  \E f : Scan(mem, n, f)
<1> DEFINE e(f, o) == IF o >= n THEN << >>
                      ELSE IF mem[o + 1] >= Len(TypeOrder) THEN <<Invalid>>
                      ELSE <<NumberAt(mem, o)>> \o f[After(mem, o)]
           P(j, f) == /\ f = [o \in Nat |-> f[o]]
                      /\ \A o \in Nat : o >= n - j => f[o] = e(f, o)
           T == {j \in Nat : ~ \E f : P(j, f)}
<1>1. T = {}
    <2> SUFFICES ASSUME T # {} PROVE FALSE
        OBVIOUS
    <2>1. PICK j \in T : \A y \in T : j <= y
        BY LeastNat
    <2>2. CASE j = 0
        <3> DEFINE f == [o \in Nat |-> << >>]
        <3>1. f = [o \in Nat |-> f[o]]
            OBVIOUS
        <3>2. \A o \in Nat : o >= n - 0 => f[o] = e(f, o)
            OBVIOUS
        <3> HIDE DEF f, e
        <3>3. P(j, f)
            BY <2>2, <3>1, <3>2
        <3> QED BY <2>1, <3>3
    <2>3. CASE j # 0
        <3>1. j - 1 \in Nat /\ j - 1 \notin T /\ j \in Nat
            <4>1. T \subseteq Nat
                OBVIOUS
            <4> HIDE DEF T
            <4> QED BY <2>1, <2>3, <4>1
        <3>2. PICK g : P(j - 1, g)
            BY <3>1
        <3> DEFINE k == n - j
                   f == [o \in Nat |-> IF o = k THEN e(g, o) ELSE g[o]]
        <3>3. f = [o \in Nat |-> f[o]]
            OBVIOUS
        <3>4. ASSUME NEW o \in Nat, o >= k PROVE f[o] = e(f, o)
            <4>1. f[o] = e(g, o)
                <5>1. CASE o = k
                    BY <5>1
                <5>2. CASE o # k
                    <6>1. o >= n - (j - 1)
                        BY <3>1, <3>4, <5>2
                    <6>2. g[o] = e(g, o)
                        BY <3>2, <6>1
                    <6> HIDE DEF e
                    <6> QED BY <5>2, <6>2
                <5> QED BY <5>1, <5>2
            <4>2. e(f, o) = e(g, o)
                <5>1. CASE o >= n
                    BY <5>1
                <5>2. CASE ~ (o >= n) /\ mem[o + 1] >= Len(TypeOrder)
                    BY <5>2
                <5>3. CASE ~ (o >= n) /\ ~ (mem[o + 1] >= Len(TypeOrder))
                    <6> DEFINE a == After(mem, o)
                    <6>1. mem[o + 1] \in Nat
                        BY <5>3
                    <6>2. a \in Nat /\ a > o
                        BY <5>3, <6>1, AfterLater
                    <6> HIDE DEF a, e
                    <6>3. a # k
                        BY <3>1, <3>4, <6>2
                    <6>4. f[a] = g[a]
                        BY <6>2, <6>3
                    <6> HIDE DEF f
                    <6> QED BY <5>3, <6>4 DEF a, e
                <5> QED BY <5>1, <5>2, <5>3
            <4> HIDE DEF f, e
            <4> QED BY <4>1, <4>2
        <3> HIDE DEF f, e
        <3>5. P(j, f)
            BY <3>3, <3>4
        <3> HIDE DEF P
        <3> QED BY <2>1, <3>5
    <2> QED BY <2>2, <2>3
<1>2. PICK f : P(n, f)
    BY <1>1
<1>3. f = [o \in Nat |-> f[o]] /\ \A o \in Nat : f[o] = e(f, o)
    <2> HIDE DEF e
    <2> QED BY <1>2
<1>4. f = [o \in Nat |-> e(f, o)]
    <2> HIDE DEF e
    <2> QED BY <1>3
<1> QED BY <1>4 DEF Scan

\* What its equations say where there is a number, and at the end.
Scanned(mem, n, f) ==
    /\ f[n] = << >>
    /\ \A o \in Nat : ~ (o >= n) /\ ~ (mem[o + 1] >= Len(TypeOrder)) =>
            f[o] = <<NumberAt(mem, o)>> \o f[After(mem, o)]

LEMMA ScanStep ==
    ASSUME NEW mem, NEW n \in Nat, NEW f, Scan(mem, n, f)
    PROVE  Scanned(mem, n, f)
<1> DEFINE e(x) == IF x >= n THEN << >>
                   ELSE IF mem[x + 1] >= Len(TypeOrder) THEN <<Invalid>>
                   ELSE <<NumberAt(mem, x)>> \o f[After(mem, x)]
<1>1. f = [x \in Nat |-> e(x)]
    BY DEF Scan
<1> HIDE DEF e
<1>2. \A o \in Nat : f[o] = e(o)
    BY <1>1
<1>3. f[n] = << >>
    <2>1. n >= n
        OBVIOUS
    <2> QED BY <1>2, <2>1 DEF e
<1>4. ASSUME NEW o \in Nat, ~ (o >= n), ~ (mem[o + 1] >= Len(TypeOrder))
      PROVE  f[o] = <<NumberAt(mem, o)>> \o f[After(mem, o)]
    <2>1. f[o] = e(o)
        BY <1>2
    <2> QED BY <1>4, <2>1 DEF e
<1> QED BY <1>3, <1>4 DEF Scanned

\* The i-th of m parts of t, which are those of s, begins after place[i - 1].
Places(s, m, t, place) ==
    /\ place[0] = 0 /\ place[m] = Len(t)
    /\ \A i \in 0..m : place[i] \in Nat /\ place[i] <= place[m]
    /\ \A i \in 1..m : place[i] = place[i - 1] + Len(s[i])
    /\ \A i \in 1..m : \A j \in 1..Len(s[i]) : t[place[i - 1] + j] = s[i][j]

LEMMA JoinedPlaces ==
    ASSUME NEW S, NEW s, NEW m \in Nat, m # 0, \A i \in 1..m : s[i] \in Seq(S),
           NEW f, Joined(s, m, f)
    PROVE  f[m] \in Seq(S) /\ \E place : Places(s, m, f[m], place)
<1>1. \A i \in 1..m : f[i] = IF i = 1 THEN s[i] ELSE f[i - 1] \o s[i]
    BY JoinedStep
<1>2. \A i \in 1..m : Len(s[i]) \in Nat
    BY LenProperties
<1> DEFINE place == [i \in 0..m |-> IF i = 0 THEN 0 ELSE Len(f[i])]
<1>3. place[0] = 0 /\ \A i \in 1..m : place[i] = Len(f[i])
    OBVIOUS
<1> HIDE DEF place
<1> DEFINE P(k) == /\ f[k] \in Seq(S) /\ place[k] = Len(f[k])
                   /\ place[k] = place[k - 1] + Len(s[k])
                   /\ \A i \in 0..k : place[i] \in Nat /\ place[i] <= place[k]
                   /\ \A i \in 1..k : \A j \in 1..Len(s[i]) :
                        f[k][place[i - 1] + j] = s[i][j]
           T == {k \in 1..m : ~P(k)}
<1>4. T = {}
    <2> SUFFICES ASSUME T # {} PROVE FALSE
        OBVIOUS
    <2>0. T \subseteq Nat
        OBVIOUS
    <2>1. PICK k \in T : \A y \in T : k <= y
        BY <2>0, LeastNat
    <2>2. CASE k = 1
        <3>1. f[1] = s[1] /\ s[1] \in Seq(S) /\ place[1] = Len(s[1]) /\ place[0] = 0
              /\ Len(s[1]) \in Nat
            BY <1>1, <1>2, <1>3, <2>1, <2>2
        <3>2. \A i \in 0..1 : place[i] \in Nat /\ place[i] <= place[1]
            BY <3>1
        <3>3. \A j \in 1..Len(s[1]) : f[1][place[1 - 1] + j] = s[1][j]
            BY <3>1
        <3>4. P(1)
            BY <3>1, <3>2, <3>3
        <3> QED BY <2>1, <2>2, <3>4
    <2>3. CASE k # 1
        <3> DEFINE h == k - 1
                   t == s[k]
        <3>1. k \in 1..m /\ h \in 1..m /\ ~ (k <= h) /\ h + 1 = k /\ h \in Nat
            BY <2>1, <2>3
        <3>2. P(h)
            BY <2>1, <3>1
        <3>3. f[k] = f[h] \o t /\ t \in Seq(S) /\ Len(t) \in Nat
            BY <1>1, <1>2, <2>3, <3>1
        <3> DEFINE u == f[h]
                   a == place[h]
                   b == Len(t)
        <3>u. u \in Seq(S) /\ Len(u) = a /\ a \in Nat
            <4>1. h \in 0..h
                BY <3>1
            <4> QED BY <3>2, <4>1
        <3>b. b \in Nat
            BY <3>3
        <3>4. /\ f[k] \in Seq(S) /\ Len(f[k]) = a + b
              /\ \A i \in 1..(a + b) : f[k][i] = IF i <= a THEN u[i] ELSE t[i - a]
            <4>1. f[k] = u \o t /\ t \in Seq(S)
                BY <3>3
            <4> HIDE DEF u, t, a
            <4>2. /\ u \o t \in Seq(S) /\ Len(u \o t) = Len(u) + Len(t)
                  /\ \A i \in 1..(Len(u) + Len(t)) : (u \o t)[i] =
                        IF i <= Len(u) THEN u[i] ELSE t[i - Len(u)]
                BY <3>u, <4>1, ConcatProperties
            <4> QED BY <3>u, <4>1, <4>2
        <3>5. place[k] = Len(f[k])
            BY <1>3, <3>1
        <3>6. place[k] = a + b /\ place[k] \in Nat /\ a <= place[k]
            <4> HIDE DEF a, b
            <4> QED BY <3>u, <3>b, <3>4, <3>5
        <3>7. \A i \in 0..k : i = k \/ i \in 0..h
            BY <3>1
        <3>8. \A i \in 0..k : place[i] \in Nat /\ place[i] <= place[k]
            <4>1. \A i \in 0..h : place[i] \in Nat /\ place[i] <= a
                BY <3>2
            <4> HIDE DEF a, b
            <4>2. \A i \in 0..h : place[i] \in Nat /\ place[i] <= place[k]
                BY <3>u, <3>6, <4>1
            <4>3. place[k] \in Nat /\ place[k] <= place[k]
                BY <3>6
            <4> QED BY <3>7, <4>2, <4>3
        <3>9. ASSUME NEW i \in 1..k, NEW j \in 1..Len(s[i])
              PROVE  f[k][place[i - 1] + j] = s[i][j]
            <4> DEFINE x == place[i - 1] + j
            <4>1. CASE i = k
                <5>1. x = a + j /\ j \in 1..b
                    BY <4>1
                <5> HIDE DEF x, a, b
                <5>2. x \in 1..(a + b) /\ ~ (x <= a) /\ x - a = j
                    BY <3>u, <3>b, <5>1
                <5>3. f[k][x] = t[j]
                    BY <3>4, <5>2
                <5> QED BY <4>1, <5>3 DEF x
            <4>2. CASE i # k
                <5>1. i \in 1..h /\ i \in 0..h
                    BY <3>1, <4>2
                <5>2. f[h][x] = s[i][j]
                    BY <3>2, <5>1
                <5>3. place[i] = place[i - 1] + Len(s[i]) /\ place[i] \in Nat
                      /\ place[i] <= a /\ place[i - 1] \in Nat
                    <6>1. i \in 1..m /\ ~ (k <= i) /\ i - 1 \in 0..h
                        BY <3>1, <5>1
                    <6>2. P(i)
                        BY <2>1, <6>1
                    <6> QED BY <3>2, <5>1, <6>1, <6>2
                <5>4. Len(s[i]) \in Nat
                    BY <1>2, <3>1, <5>1
                <5>5. x \in 1..(a + b) /\ x <= a
                    <6> DEFINE y == place[i - 1]
                               c == Len(s[i])
                    <6>1. /\ x = y + j /\ j \in 1..c /\ y \in Nat /\ c \in Nat
                          /\ y + c <= a
                        BY <5>3, <5>4
                    <6> HIDE DEF x, y, c, a, b
                    <6> QED BY <3>u, <3>b, <6>1
                <5>6. f[k][x] = u[x]
                    <6> HIDE DEF x, a, b, u
                    <6> QED BY <3>4, <5>5
                <5> QED BY <5>2, <5>6
            <4> QED BY <4>1, <4>2
        <3>10. P(k)
            <4>1. place[k] = place[k - 1] + Len(s[k])
                BY <3>6
            <4> QED BY <3>4, <3>5, <3>8, <3>9, <4>1
        <3> QED BY <2>1, <3>10
    <2> QED BY <2>2, <2>3
<1>5. \A k \in 1..m : P(k)
    <2> HIDE DEF P
    <2> QED BY <1>4
<1>6. P(m)
    BY <1>5
<1>7. \A i \in 1..m : place[i] = place[i - 1] + Len(s[i])
    BY <1>5
<1>8. Places(s, m, f[m], place)
    BY <1>3, <1>6, <1>7 DEF Places
<1> QED BY <1>6, <1>8

Held(args) ==
    \A i \in 1..Len(args) : Representable(args[i]) /\ parse_number(args[i]) # Invalid

\* One of them.
LEMMA PartOf ==
    ASSUME NEW l \in Literal, Representable(l), parse_number(l) # Invalid
    PROVE  LET n == parse_number(l)
               b == append_number(n)
               p == EncodedNumber(n)
           IN  /\ p \in Seq(Bytes) /\ Len(p) = 1 + Size[n.type]
               /\ p[1] = get_number_type(n)
               /\ \A j \in 1..Size[n.type] : p[1 + j] = b[j]
<1> DEFINE n == parse_number(l)
           b == append_number(n)
           t == get_number_type(n)
           u == <<t>>
           size == Size[n.type]
<1>1. b \in Seq(Bytes) /\ Len(b) = size /\ size \in {1, 2, 4, 8} /\ n.type \in AnyType
    BY NumberArrives
<1>2. t \in Bytes
    <2>1. t \in 0..9
        BY <1>1, TypeByte
    <2> HIDE DEF t
    <2> QED BY <2>1, NumParserAssumption DEF Bytes
<1>3. EncodedNumber(n) = u \o b
    BY DEF EncodedNumber
<1> HIDE DEF n, b, t, size, Bytes
<1>4. u \in Seq(Bytes) /\ Len(u) = 1 /\ u[1] = t
    BY <1>2
<1> HIDE DEF u
<1>5. /\ u \o b \in Seq(Bytes) /\ Len(u \o b) = 1 + size
      /\ \A i \in 1..(1 + size) : (u \o b)[i] = IF i <= 1 THEN u[i] ELSE b[i - 1]
    <2>1. /\ u \o b \in Seq(Bytes) /\ Len(u \o b) = Len(u) + Len(b)
          /\ \A i \in 1..(Len(u) + Len(b)) : (u \o b)[i] =
                IF i <= Len(u) THEN u[i] ELSE b[i - Len(u)]
        BY <1>1, <1>4, ConcatProperties
    <2> QED BY <1>1, <1>4, <2>1
<1>6. size \in Nat
    BY <1>1
<1>7. (u \o b)[1] = t
    <2>1. 1 \in 1..(1 + size)
        BY <1>6
    <2> QED BY <1>4, <1>5, <2>1
<1>8. \A j \in 1..size : (u \o b)[1 + j] = b[j]
    <2>1. \A j \in 1..size : 1 + j \in 1..(1 + size) /\ ~ (1 + j <= 1) /\ (1 + j) - 1 = j
        BY <1>6
    <2> QED BY <1>5, <2>1
<1> QED BY <1>3, <1>5, <1>7, <1>8 DEF n, b, t, size

\* CallHandlerAdd finds the numbers that were typed.
LEMMA NumbersFound ==
    ASSUME NEW args \in Seq(Literal), Len(args) >= 1, Held(args),
           NEW S, NEW mem \in Seq(S), NEW n \in Nat, n = 2 + Len(Body(args)),
           n <= Len(mem), mem[1] \in Nat, mem[2] \in Nat,
           \A i \in 1..Len(Body(args)) : mem[2 + i] = Body(args)[i]
    PROVE  NumbersFrom(mem, n, 2) = [i \in 1..Len(args) |-> parse_number(args[i])]
<1> DEFINE m == Len(args)
           num(i) == parse_number(args[i])
           s == Parts(args)
           e(i) == EncodedNumber(num(i))
           body == Body(args)
<1>1. m \in Nat /\ m # 0 /\ \A i \in 1..m : args[i] \in Literal
    BY LenProperties, ElementOfSeq
<1>2. s = [i \in 1..m |-> e(i)]
    BY DEF Parts
<1>3. \A i \in 1..m : Representable(args[i]) /\ num(i) # Invalid
    BY DEF Held
<1>4. ASSUME NEW i \in 1..m
      PROVE  /\ e(i) \in Seq(Bytes) /\ Len(e(i)) = 1 + Size[num(i).type]
             /\ e(i)[1] = get_number_type(num(i))
             /\ \A j \in 1..Size[num(i).type] : e(i)[1 + j] = append_number(num(i))[j]
    <2> DEFINE l == args[i]
    <2>1. l \in Literal /\ Representable(l) /\ parse_number(l) # Invalid
        BY <1>1, <1>3
    <2> HIDE DEF l
    <2>2. /\ EncodedNumber(parse_number(l)) \in Seq(Bytes)
          /\ Len(EncodedNumber(parse_number(l))) = 1 + Size[parse_number(l).type]
          /\ EncodedNumber(parse_number(l))[1] = get_number_type(parse_number(l))
          /\ \A j \in 1..Size[parse_number(l).type] :
                EncodedNumber(parse_number(l))[1 + j] = append_number(parse_number(l))[j]
        BY <2>1, PartOf
    <2> QED BY <2>2 DEF l
<1>5. ASSUME NEW i \in 1..m
      PROVE  /\ read_number(append_number(num(i)), num(i).type) = num(i)
             /\ num(i).type \in AnyType
             /\ append_number(num(i)) \in Seq(Bytes)
             /\ Len(append_number(num(i))) = Size[num(i).type]
             /\ Size[num(i).type] \in {1, 2, 4, 8}
    <2> DEFINE l == args[i]
    <2>1. l \in Literal /\ Representable(l) /\ parse_number(l) # Invalid
        BY <1>1, <1>3
    <2> HIDE DEF l
    <2>2. /\ read_number(append_number(parse_number(l)), parse_number(l).type)
                = parse_number(l)
          /\ parse_number(l).type \in AnyType
          /\ append_number(parse_number(l)) \in Seq(Bytes)
          /\ Len(append_number(parse_number(l))) = Size[parse_number(l).type]
          /\ Size[parse_number(l).type] \in {1, 2, 4, 8}
        BY <2>1, NumberArrives
    <2> QED BY <2>2 DEF l
<1> HIDE DEF m, num, e, s, Bytes
<1>6. Len(s) = m /\ (\A i \in 1..m : s[i] = e(i)) /\ s # << >>
    BY <1>1, <1>2
<1>7. PICK f : Joined(s, m, f) /\ body = f[m]
    <2>1. body = FlattenSeq(s)
        BY DEF Body, s
    <2> HIDE DEF body
    <2>2. \E f : Joined(s, m, f) /\ FlattenSeq(s) = f[m]
        BY <1>1, <1>6, FlattenJoined
    <2> QED BY <2>1, <2>2
<1> HIDE DEF body
<1>8. \A i \in 1..m : s[i] \in Seq(Bytes)
    BY <1>4, <1>6
<1>p. PICK place : Places(s, m, body, place) /\ body \in Seq(Bytes)
    BY <1>1, <1>7, <1>8, JoinedPlaces
<1>9. /\ place[0] = 0 /\ place[m] = Len(body) /\ body \in Seq(Bytes)
      /\ \A i \in 0..m : place[i] \in Nat /\ place[i] <= place[m]
      /\ \A i \in 1..m : place[i] = place[i - 1] + Len(s[i])
      /\ \A i \in 1..m : \A j \in 1..Len(s[i]) : body[place[i - 1] + j] = s[i][j]
    BY <1>p DEF Places
<1>10. n = 2 + Len(body) /\ Len(body) \in Nat
       /\ \A i \in 1..Len(body) : mem[2 + i] = body[i]
    BY <1>9, LenProperties DEF body
<1>11. \A o \in Nat : o < n => mem[o + 1] \in Nat
    <2> SUFFICES ASSUME NEW o \in Nat, o < n PROVE mem[o + 1] \in Nat
        OBVIOUS
    <2>1. CASE o \in {0, 1}
        BY <2>1
    <2>2. CASE o \notin {0, 1}
        <3> DEFINE i == o - 1
        <3>1. i \in 1..Len(body) /\ o + 1 = 2 + i
            BY <1>10, <2>2
        <3>2. body[i] \in Bytes
            BY <1>9, <3>1, ElementOfSeq
        <3>3. body[i] \in Nat
            BY <3>2, NumParserAssumption DEF Bytes
        <3> HIDE DEF i
        <3> QED BY <1>10, <3>1, <3>3
    <2> QED BY <2>1, <2>2
<1>12. PICK g : Scan(mem, n, g) /\ NumbersFrom(mem, n, 2) = g[2]
    <2>1. \E g : Scan(mem, n, g)
        BY <1>11, ScanExists
    <2> QED BY <2>1 DEF Scan, NumbersFrom
<1>13. Scan(mem, n, g)
    BY <1>12
<1>14. /\ g[n] = << >>
       /\ \A x \in Nat : ~ (x >= n) /\ ~ (mem[x + 1] >= Len(TypeOrder)) =>
            g[x] = <<NumberAt(mem, x)>> \o g[After(mem, x)]
    <2>1. Scanned(mem, n, g)
        BY <1>13, ScanStep
    <2> QED BY <2>1, Zenon DEF Scanned
\* One number after the other.
<1>15. ASSUME NEW i \in 1..m
       PROVE  g[2 + place[i - 1]] = <<num(i)>> \o g[2 + place[i]]
    <2> DEFINE o == 2 + place[i - 1]
               t == num(i).type
               size == Size[t]
               b == append_number(num(i))
    <2>1. /\ place[i - 1] \in Nat /\ place[i] \in Nat
          /\ place[i] = place[i - 1] + (1 + size) /\ size \in {1, 2, 4, 8}
          /\ place[i] <= Len(body)
        <3>1. i - 1 \in 0..m /\ i \in 0..m
            BY <1>1
        <3>2. place[i] = place[i - 1] + Len(s[i]) /\ Len(s[i]) = 1 + size
            BY <1>4, <1>6, <1>9
        <3>3. place[i] <= place[m]
            BY <1>9, <3>1
        <3> QED BY <1>5, <1>9, <3>1, <3>2, <3>3
    <2>2. \A j \in 1..(1 + size) : mem[o + j] = e(i)[j]
        <3> SUFFICES ASSUME NEW j \in 1..(1 + size) PROVE mem[o + j] = e(i)[j]
            OBVIOUS
        <3> DEFINE k == place[i - 1] + j
        <3> HIDE DEF size
        <3>1. size \in Nat
            BY <2>1
        <3>2. k \in 1..Len(body) /\ o + j = 2 + k
            <4> DEFINE y == place[i - 1]
            <4>1. y \in Nat /\ y + (1 + size) <= Len(body) /\ Len(body) \in Nat
                BY <1>10, <2>1
            <4> HIDE DEF y
            <4>2. y + j \in 1..Len(body) /\ (2 + y) + j = 2 + (y + j)
                BY <3>1, <4>1
            <4> QED BY <4>2 DEF y
        <3>3. Len(s[i]) = 1 + size /\ s[i] = e(i)
            BY <1>4, <1>6 DEF size
        <3>4. body[k] = e(i)[j]
            BY <1>9, <3>3
        <3> HIDE DEF k, o
        <3> QED BY <1>10, <3>2, <3>4
    <2>3. /\ o \in Nat /\ 1 \in 1..(1 + size) /\ size \in Nat /\ ~ (o >= n)
          /\ 2 + place[i] = o + 1 + size /\ o + 1 + size <= Len(mem)
        <3> DEFINE y == place[i - 1]
                   z == place[i]
                   k == Len(body)
                   l == Len(mem)
        <3> HIDE DEF size
        <3>1. size \in Nat /\ l \in Nat
            BY <2>1, LenProperties
        <3>2. /\ y \in Nat /\ z = y + (1 + size) /\ z <= k /\ k \in Nat /\ n = 2 + k
              /\ n <= l
            BY <1>10, <2>1
        <3> HIDE DEF y, z, k, l
        <3>3. /\ 2 + y \in Nat /\ 1 \in 1..(1 + size) /\ ~ (2 + y >= n)
              /\ 2 + z = (2 + y) + 1 + size /\ (2 + y) + 1 + size <= l
            BY <3>1, <3>2
        <3> QED BY <3>1, <3>3 DEF y, z, l
    <2>4. mem[o + 1] = get_number_type(num(i))
        <3> HIDE DEF o, size
        <3> QED BY <1>4, <2>2, <2>3
    <2>5. get_number_type(num(i)) \in 0..9 /\ TypeOrder[get_number_type(num(i)) + 1] = t
        <3> DEFINE x == num(i)
        <3>1. x.type \in AnyType
            BY <1>5
        <3> HIDE DEF x
        <3>2. get_number_type(x) \in 0..9 /\ TypeOrder[get_number_type(x) + 1] = x.type
            BY <3>1, TypeByte
        <3> QED BY <3>2 DEF x
    <2>6. TypeAt(mem, o) = t /\ After(mem, o) = o + 1 + size
        <3> HIDE DEF o
        <3>1. TypeAt(mem, o) = t
            BY <2>4, <2>5 DEF TypeAt
        <3> QED BY <3>1 DEF After
    <2>7. ~ (mem[o + 1] >= Len(TypeOrder))
        <3>1. Len(TypeOrder) = 10
            BY DEF TypeOrder
        <3> HIDE DEF o
        <3> QED BY <2>4, <2>5, <3>1
    <2>8. SubSeq(mem, o + 2, o + 1 + size) = b
        <3> DEFINE a == o + 1
        <3>1. b \in Seq(Bytes) /\ Len(b) = size
            BY <1>5
        <3>2. \A j \in 1..size : mem[a + j] = b[j]
            <4> SUFFICES ASSUME NEW j \in 1..size PROVE mem[a + j] = b[j]
                OBVIOUS
            <4>1. 1 + j \in 1..(1 + size) /\ a + j = o + (1 + j)
                <5> HIDE DEF o, size
                <5> QED BY <2>3
            <4>2. mem[o + (1 + j)] = e(i)[1 + j]
                <5> HIDE DEF o, size
                <5> QED BY <2>2, <4>1
            <4>3. e(i)[1 + j] = b[j]
                BY <1>4
            <4> QED BY <4>1, <4>2, <4>3
        <3>3. /\ a \in Nat /\ size \in Nat /\ a + size <= Len(mem) /\ size <= Len(b)
              /\ a + 1 = o + 2 /\ a + size = o + 1 + size
            <4> HIDE DEF o, size, b
            <4> QED BY <2>3, <3>1
        <3> HIDE DEF a, size, b
        <3>4. SubSeq(mem, a + 1, a + size) = SubSeq(b, 1, size)
            BY <3>1, <3>2, <3>3, SameBeginning
        <3>5. SubSeq(b, 1, Len(b)) = b
            BY <3>1, SubSeqFull
        <3> HIDE DEF o
        <3> QED BY <3>1, <3>3, <3>4, <3>5
    <2>9. NumberAt(mem, o) = num(i)
        <3>1. read_number(b, t) = num(i)
            BY <1>5
        <3> HIDE DEF o, t, size, b
        <3> QED BY <2>6, <2>8, <3>1 DEF NumberAt
    <2>10. g[o] = <<NumberAt(mem, o)>> \o g[After(mem, o)]
        <3> HIDE DEF o
        <3> QED BY <1>14, <2>3, <2>7, Zenon
    <2> HIDE DEF o, size
    <2>11. g[o] = <<num(i)>> \o g[2 + place[i]]
        BY <2>3, <2>6, <2>9, <2>10
    <2> QED BY <2>11 DEF o
<1> DEFINE nums == [i \in 1..m |-> num(i)]
           V == {num(i) : i \in 1..m}
<1>16. nums \in Seq(V) /\ Len(nums) = m /\ \A i \in 1..m : nums[i] = num(i)
    BY <1>1
<1> HIDE DEF nums, V
\* From the last one to the first.
<1>17. \A i \in 0..m : g[2 + place[i]] = SubSeq(nums, i + 1, m)
    <2> DEFINE P(k) == g[2 + place[m - k]] = SubSeq(nums, (m - k) + 1, m)
               T == {k \in 0..m : ~P(k)}
    <2>1. T = {}
        <3> SUFFICES ASSUME T # {} PROVE FALSE
            OBVIOUS
        <3>0. T \subseteq Nat
            OBVIOUS
        <3>1. PICK k \in T : \A y \in T : k <= y
            BY <3>0, LeastNat
        <3>2. CASE k = 0
            <4>1. m - 0 = m /\ m + 1 \in Int /\ m \in Int /\ m < m + 1
                BY <1>1
            <4>2. SubSeq(nums, m + 1, m) = << >>
                BY <4>1, SubSeqEmpty
            <4>3. g[n] = << >>
                BY <1>14
            <4>4. 2 + place[m] = n
                BY <1>9, <1>10
            <4> QED BY <3>1, <3>2, <4>1, <4>2, <4>3, <4>4
        <3>3. CASE k # 0
            <4> DEFINE i == (m - k) + 1
            <4>1. /\ k - 1 \in 0..m /\ ~ (k <= k - 1) /\ m - (k - 1) = i /\ i \in 1..m
                  /\ i - 1 = m - k /\ i \in Nat /\ i <= m
                BY <1>1, <3>1, <3>3
            <4>2. P(k - 1)
                BY <3>1, <4>1
            <4>3. g[2 + place[i]] = SubSeq(nums, i + 1, m)
                BY <4>1, <4>2
            <4>4. g[2 + place[m - k]] = <<num(i)>> \o g[2 + place[i]]
                BY <1>15, <4>1
            <4>5. SubSeq(nums, i, m) = <<nums[i]>> \o SubSeq(nums, i + 1, m)
                <5> HIDE DEF i
                <5>1. i \in 1..Len(nums) /\ m \in i..Len(nums)
                    BY <1>1, <1>16, <4>1
                <5> QED BY <1>16, <5>1, SubSeqRecursiveFirst
            <4>6. P(k)
                BY <1>16, <4>1, <4>3, <4>4, <4>5
            <4> QED BY <3>1, <4>6
        <3> QED BY <3>2, <3>3
    <2>2. ASSUME NEW i \in 0..m PROVE g[2 + place[i]] = SubSeq(nums, i + 1, m)
        <3>1. m - i \in 0..m /\ m - (m - i) = i
            BY <1>1
        <3>2. m - i \notin T
            BY <2>1
        <3> QED BY <3>1, <3>2
    <2> QED BY <2>2
<1>18. g[2] = nums
    <2>1. 0 \in 0..m /\ 2 + place[0] = 2 /\ 0 + 1 = 1
        BY <1>1, <1>9
    <2>2. g[2] = SubSeq(nums, 1, m)
        BY <1>17, <2>1
    <2>3. SubSeq(nums, 1, m) = nums
        BY <1>16, SubSeqFull
    <2> QED BY <2>2, <2>3
<1> QED BY <1>12, <1>18 DEF nums, m, num

\* The sum of numbers that double holds, and whose sum it holds.
RightSum(sum, args) ==
    (/\ \A i \in 1..Len(args) : Representable(args[i])
     /\ Total([i \in 1..Len(args) |-> args[i].mag]) <= DoublePrecision)
    => sum = Total([i \in 1..Len(args) |-> Exact(args[i])])

\* CallHandlerAdd adds them up.
LEMMA SumRead ==
    ASSUME NEW args \in Seq(Literal), Len(args) >= 1,
           \A i \in 1..Len(args) : parse_number(args[i]) # Invalid,
           NEW S, NEW mem \in Seq(S), NEW n \in Nat, n = 2 + Len(Body(args)),
           n <= Len(mem), mem[1] \in Nat, mem[2] \in Nat,
           \A i \in 1..Len(Body(args)) : mem[2 + i] = Body(args)[i]
    PROVE  RightSum(DoubleSum(NumbersFrom(mem, n, 2)), args)
<1> DEFINE m == Len(args)
           mag(i) == args[i].mag
           exact(i) == Exact(args[i])
           num(i) == parse_number(args[i])
           mags == [i \in 1..m |-> mag(i)]
           vals == [i \in 1..m |-> exact(i)]
           nums == [i \in 1..m |-> num(i)]
<1> SUFFICES ASSUME \A i \in 1..m : Representable(args[i]), Total(mags) <= DoublePrecision
             PROVE  DoubleSum(NumbersFrom(mem, n, 2)) = Total(vals)
    BY DEF RightSum
<1>1. m \in Nat /\ \A i \in 1..m : args[i] \in Literal
    BY LenProperties, ElementOfSeq
<1>2. NumbersFrom(mem, n, 2) = nums
    <2>1. Held(args)
        BY DEF Held
    <2> QED BY <2>1, NumbersFound
<1>3. ASSUME NEW i \in 1..m
      PROVE  /\ mag(i) \in Nat /\ exact(i) \in Int /\ Abs(exact(i)) = mag(i)
             /\ num(i).value = exact(i)
    <2> DEFINE l == args[i]
    <2>1. l \in Literal /\ Representable(l) /\ parse_number(l) # Invalid
        BY <1>1
    <2> HIDE DEF l
    <2>2. parse_number(l).value = Exact(l)
        BY <2>1, NumberArrives
    <2>3. Exact(l) \in Int /\ l.mag \in Nat
        BY <2>1, ExactType
    <2>4. Abs(Exact(l)) = l.mag
        BY <2>1, <2>3 DEF Abs, Exact
    <2> QED BY <2>2, <2>3, <2>4 DEF l
<1> HIDE DEF m, mag, exact, num
<1>4. /\ Len(nums) = m /\ Len(mags) = m /\ Len(vals) = m
      /\ \A i \in 1..m : /\ mags[i] \in Nat /\ vals[i] \in Int
                         /\ Abs(vals[i]) = mags[i] /\ nums[i].value = vals[i]
    <2>1. Len(nums) = m /\ Len(mags) = m /\ Len(vals) = m
        BY <1>1
    <2>2. \A i \in 1..m : mags[i] = mag(i) /\ vals[i] = exact(i) /\ nums[i] = num(i)
        OBVIOUS
    <2> HIDE DEF mags, vals, nums
    <2> QED BY <1>3, <2>1, <2>2
<1>5. Total(mags) <= DoublePrecision
    OBVIOUS
<1> HIDE DEF mags, vals, nums
<1>6. DoubleSum(nums) = Total(vals)
    <2>1. Operands(m, nums, mags, vals)
        BY <1>1, <1>4 DEF Operands
    <2> QED BY <2>1, <1>5, SumExact
<1> QED BY <1>2, <1>6

----------------------------------------------------------------------------
(* The handlers.                                                           *)

\* The answer r to client d is what the handlers find in n bytes of mem.
Found(d, mem, n, r) ==
    /\ "op" \in DOMAIN r
    /\ r.op \in TextPacket =>
        /\ "text" \in DOMAIN r /\ n >= 2 /\ ntohs(mem) \in {1, 3}
        /\ r.text = Payload(mem, n)
    /\ r.op = "SMSG_PRIVATE_MESSAGE" =>
        /\ "text" \in DOMAIN r /\ n >= 2 + IDLen /\ ntohs(mem) = 5
        /\ d = RecipientID(mem) /\ r.text = PrivateText(mem, n)
    /\ r.op = "SMSG_ADDITION_REQUEST" =>
        /\ ntohs(mem) = 2 /\ r.sum = DoubleSum(NumbersFrom(mem, n, 2))

\* A handler sends a client one packet, or none.
LEMMA OneAnswer ==
    ASSUME NEW c \in Client, NEW d \in Client, NEW mem, NEW n \in Nat
    PROVE  \/ CallHandler(c, mem, n)[d] = << >>
           \/ \E r : CallHandler(c, mem, n)[d] = <<r>> /\ Found(d, mem, n, r)
<1> DEFINE s == CallHandler(c, mem, n)
           o == ntohs(mem)
           nums == NumbersFrom(mem, n, OpcodeLen)
           sum == DoubleSum(nums)
           Good(r) == s[d] = <<r>> /\ Found(d, mem, n, r)
<1> USE DEF OpcodeLen, TextPacket, CMSG_ECHO_REQUEST, CMSG_ADDITION_REQUEST,
        CMSG_BROADCAST_MESSAGE, CMSG_SEND_MSG_TO_CLIENT, CMSG_SAY
<1>1. CASE n < 2
    <2> DEFINE r == [op |-> "Invalid packet."]
    <2>1. s = To(c, r)
        <3>1. n < OpcodeLen /\ ~ (n >= OpcodeLen)
            BY <1>1
        <3> QED BY <3>1, Zenon DEF CallHandler
    <2>2. Found(d, mem, n, r)
        BY DEF Found
    <2> HIDE DEF r
    <2> QED BY <2>1, <2>2 DEF To
<1>2. CASE n >= 2 /\ o = 1
    <2> DEFINE r == [op |-> "SMSG_ECHO_REQUEST", text |-> Payload(mem, n)]
    <2>1. s = To(c, r)
        BY <1>2 DEF CallHandler
    <2>2. Found(d, mem, n, r)
        BY <1>2 DEF Found
    <2> HIDE DEF r
    <2> QED BY <2>1, <2>2 DEF To
<1>3. CASE n >= 2 /\ o = 2
    <2> DEFINE r == [op |-> "SMSG_ADDITION_REQUEST", sum |-> sum]
    <2>1. s = [e \in Client |-> << >>] \/ s = To(c, r)
        BY <1>3 DEF CallHandler
    <2>2. Found(d, mem, n, r)
        <3> HIDE DEF sum
        <3>1. sum = DoubleSum(NumbersFrom(mem, n, 2))
            BY DEF sum
        <3> QED BY <1>3, <3>1 DEF Found
    <2> HIDE DEF r
    <2> QED BY <2>1, <2>2 DEF To
<1>4. CASE n >= 2 /\ o = 3
    <2> DEFINE r == [op |-> "SMSG_BROADCAST", text |-> Payload(mem, n)]
    <2>1. s = [e \in Client |-> <<r>>]
        BY <1>4 DEF CallHandler
    <2>2. Found(d, mem, n, r)
        BY <1>4 DEF Found
    <2> HIDE DEF r
    <2> QED BY <2>1, <2>2
<1>5. CASE n >= 2 /\ o = 5
    <2> DEFINE id == RecipientID(mem)
               r(x) == [op |-> "SMSG_PRIVATE_MSG_ERR", error |-> x]
               m == [op |-> "SMSG_PRIVATE_MESSAGE", text |-> PrivateText(mem, n)]
               why == IF id = c THEN "ERR_MSG_TO_SELF" ELSE "ERR_NO_CLIENT_FOUND"
               both == [e \in Client |-> CASE e = c -> <<r("ERR_OK")>>
                                           [] e = id -> <<m>> [] OTHER -> << >>]
    <2>1. \/ s = [e \in Client |-> << >>]
          \/ s = To(c, r(why))
          \/ s = both /\ n >= 2 + IDLen
        <3>1. CASE n < 2 + IDLen
            BY <1>5, <3>1 DEF CallHandler
        <3>2. CASE ~ (n < 2 + IDLen) /\ (id = c \/ id \notin Client)
            BY <1>5, <3>2 DEF CallHandler
        <3>3. CASE ~ (n < 2 + IDLen) /\ ~ (id = c \/ id \notin Client)
            <4>1. s = both
                BY <1>5, <3>3 DEF CallHandler
            <4>2. IDLen \in Nat
                BY PacketBufferAssumption
            <4>3. n >= 2 + IDLen
                BY <3>3, <4>2
            <4> QED BY <4>1, <4>3
        <3> QED BY <3>1, <3>2, <3>3
    <2>2. \A x : Found(d, mem, n, r(x))
        BY DEF Found
    <2>3. n >= 2 + IDLen /\ d = id => Found(d, mem, n, m)
        BY <1>5 DEF Found
    <2> HIDE DEF r, m, why, id
    <2> QED BY <2>1, <2>2, <2>3 DEF To
<1>6. CASE n >= 2 /\ o \notin {1, 2, 3, 5} /\ (o = 0 \/ o > 13)
    <2> DEFINE r == [op |-> "SMSG_MESSAGE"]
    <2>1. s = To(c, r)
        <3>1. /\ ~ (n < OpcodeLen) /\ n >= OpcodeLen
              /\ o = 0 \/ o > CMSG_SAY
            BY <1>6
        <3>2. ~ (o = 1) /\ ~ (o = 2) /\ ~ (o = 3) /\ ~ (o = 5)
            BY <1>6
        <3> QED BY <3>1, <3>2, Zenon DEF CallHandler
    <2>2. Found(d, mem, n, r)
        BY DEF Found
    <2> HIDE DEF r
    <2> QED BY <2>1, <2>2 DEF To
<1>7. CASE n >= 2 /\ o \notin {1, 2, 3, 5} /\ ~ (o = 0 \/ o > 13)
    <2>1. /\ ~ (n < OpcodeLen) /\ ~ (o = 1) /\ ~ (o = 2) /\ ~ (o = 3) /\ ~ (o = 5)
          /\ ~ (o = 0 \/ o > CMSG_SAY)
        BY <1>7
    <2>2. s = [e \in Client |-> << >>]
        BY <2>1, Zenon DEF CallHandler
    <2> QED BY <2>2
<1> QED BY <1>1, <1>2, <1>3, <1>4, <1>5, <1>6, <1>7

\* The command a packet carries, by its opcode.
LEMMA OpcodeTells ==
    ASSUME NEW command \in Command
    PROVE  /\ Opcode(command.op) \in {1, 2, 3, 5}
           /\ Opcode(command.op) \in {1, 3} =>
                command.op \in {"echo", "broadcast"} /\ command.text \in Seq(Bytes)
           /\ Opcode(command.op) = 5 =>
                /\ command.op = "send-msg" /\ command.to \in Literal
                /\ command.text \in Seq(Bytes)
                /\ is_unsigned_integer(parse_number(command.to)) =>
                        parse_number(command.to).value < Span(IDLen)
           /\ Opcode(command.op) = 2 => command.op = "add" /\ command.args \in Seq(Literal)
<1> USE DEF CMSG_ECHO_REQUEST, CMSG_ADDITION_REQUEST, CMSG_BROADCAST_MESSAGE,
        CMSG_SEND_MSG_TO_CLIENT
<1>1. CASE command \in [op : {"echo", "broadcast"}, text : Text]
    BY <1>1 DEF Opcode, Text, Bytes
<1>2. CASE command \in [op : {"add"}, args : Seq(Literal)]
    BY <1>2 DEF Opcode
<1>3. CASE /\ command \in [op : {"send-msg"}, to : Literal, text : Text]
           /\ is_unsigned_integer(parse_number(command.to)) =>
                    parse_number(command.to).value < Span(IDLen)
    <2>1. /\ command.op = "send-msg" /\ command.to \in Literal
          /\ command.text \in Seq(Bytes)
        BY <1>3 DEF Text, Bytes
    <2>2. Opcode(command.op) = 5
        BY <2>1 DEF Opcode
    <2> QED BY <1>3, <2>1, <2>2
<1> QED BY <1>1, <1>2, <1>3, CommandAssumption

\* What the handlers find at the beginning of a record is what its command says.
LEMMA HeadRead ==
    ASSUME NEW command \in Command, NEW packet \in Seq(AnyByte),
           Carries(packet, command), NEW n, n = Shorter(Len(packet), BufferLen),
           NEW mem \in Seq(AnyByte), Len(mem) = BufferLen + Overrun,
           \A i \in 1..n : mem[i] = packet[i]
    PROVE  /\ ntohs(mem) = Opcode(command.op)
           /\ ntohs(mem) \in {1, 3} =>
                Payload(mem, n) = Cut(command.text, BufferLen - OpcodeLen)
           /\ ntohs(mem) = 5 /\ n >= 2 + IDLen =>
                /\ RecipientID(mem) = parse_number(command.to).value
                /\ IsPrefix(Cut(command.text, BufferLen - OpcodeLen - IDLen),
                            PrivateText(mem, n))
           /\ ntohs(mem) = 2 =>
                RightSum(DoubleSum(NumbersFrom(mem, n, 2)), command.args)
<1> DEFINE text == command.text
<1>1. /\ BufferLen \in Nat /\ IDLen \in Nat /\ BufferLen >= 2 + IDLen
      /\ Len(mem) = BufferLen + (2 + IDLen + 8)
    BY PacketBufferAssumption DEF Overrun, OpcodeLen
<1>2. /\ Len(packet) \in Nat /\ Len(packet) >= 2
      /\ packet[1] = 0 /\ packet[2] = Opcode(command.op)
    BY DEF Carries
<1>3. n \in Nat /\ n >= 2 /\ n <= Len(packet) /\ n <= BufferLen
    BY <1>1, <1>2 DEF Shorter
<1>4. ntohs(mem) = Opcode(command.op)
    <2>1. mem[1] = 0 /\ mem[2] = Opcode(command.op)
        BY <1>2, <1>3
    <2>2. Opcode(command.op) \in {1, 2, 3, 5}
        BY OpcodeTells
    <2>3. Radix \in Nat
        BY NumParserAssumption
    <2> HIDE DEF Opcode
    <2> QED BY <2>1, <2>2, <2>3 DEF ntohs
<1>5. ASSUME ntohs(mem) \in {1, 3}
      PROVE  Payload(mem, n) = Cut(text, BufferLen - OpcodeLen)
    <2>1. command.op \in {"echo", "broadcast"} /\ text \in Seq(Bytes)
        BY <1>4, <1>5, OpcodeTells
    <2>2. /\ Len(packet) = 2 + Len(text)
          /\ \A i \in 1..Len(text) : packet[2 + i] = text[i]
        BY <2>1 DEF Carries
    <2>3. Len(text) \in Nat
        BY <2>1, LenProperties
    <2> DEFINE k == n - 2
    <2> HIDE DEF text
    <2>4. k \in Nat /\ k = Shorter(Len(text), BufferLen - 2) /\ k <= Len(text) /\ n = 2 + k
        BY <1>1, <1>3, <2>2, <2>3 DEF Shorter
    <2> HIDE DEF k
    <2>5. ASSUME NEW i \in 1..k PROVE mem[2 + i] = text[i]
        <3>1. 2 + i \in 1..n /\ i \in 1..Len(text)
            BY <1>3, <2>3, <2>4
        <3>2. mem[2 + i] = packet[2 + i] /\ packet[2 + i] = text[i]
            BY <2>2, <3>1
        <3> QED BY <3>1, <3>2
    <2>6. 2 + k <= Len(mem) /\ k <= Len(text)
        BY <1>1, <1>3, <2>3, <2>4
    <2>7. SubSeq(mem, 2 + 1, 2 + k) = SubSeq(text, 1, k)
        <3> DEFINE a == 2
        <3>1. a \in Nat /\ a + k <= Len(mem) /\ k <= Len(text)
            BY <2>4, <2>6
        <3>2. \A i \in 1..k : mem[a + i] = text[i]
            BY <2>5
        <3> HIDE DEF a
        <3>3. text \in Seq(Bytes) /\ k \in Nat
            BY <2>1, <2>4
        <3>4. SubSeq(mem, a + 1, a + k) = SubSeq(text, 1, k)
            BY <3>1, <3>2, <3>3, SameBeginning
        <3> QED BY <3>4 DEF a
    <2> QED BY <2>4, <2>7 DEF Payload, Cut, OpcodeLen
<1>6. ASSUME ntohs(mem) = 5, n >= 2 + IDLen
      PROVE  /\ RecipientID(mem) = parse_number(command.to).value
             /\ IsPrefix(Cut(text, BufferLen - OpcodeLen - IDLen), PrivateText(mem, n))
    <2> DEFINE v == parse_number(command.to).value
               id == LittleEndian(v, IDLen)
    <2>1. /\ command.op = "send-msg" /\ command.to \in Literal /\ text \in Seq(Bytes)
          /\ is_unsigned_integer(parse_number(command.to)) => v < Span(IDLen)
        BY <1>4, <1>6, OpcodeTells
    <2>2. /\ is_unsigned_integer(parse_number(command.to))
          /\ Len(packet) = 2 + IDLen + Len(text)
          /\ \A i \in 1..IDLen : packet[2 + i] = id[i]
          /\ \A i \in 1..Len(text) : packet[2 + IDLen + i] = text[i]
        BY <2>1 DEF Carries
    <2>3. Len(text) \in Nat /\ v \in Nat /\ v < Span(IDLen)
        BY <2>1, <2>2, LenProperties, UnsignedParsed
    <2>4. /\ id \in Seq(Bytes) /\ Len(id) = IDLen
          /\ FromLittleEndian(id) = v
        <3>1. IDLen \in {1, 2, 4, 8}
            BY PacketBufferAssumption
        <3> HIDE DEF v
        <3>2. v \in Int
            BY <2>3
        <3>3. /\ id \in Seq(Bytes) /\ Len(id) = IDLen
              /\ FromLittleEndian(id) = v % Span(IDLen)
            BY <3>1, <3>2, BytesAndBack
        <3>4. v % Span(IDLen) = v
            <4> DEFINE m == Span(IDLen)
            <4>1. m \in Nat /\ m # 0
                BY <3>1, SpanTypes
            <4>2. v \in Nat /\ v < m
                BY <2>3
            <4> HIDE DEF m
            <4>3. v % m = v
                BY <4>1, <4>2
            <4> QED BY <4>3 DEF m
        <3> QED BY <3>3, <3>4
    <2> HIDE DEF v, id, text
    <2>5. RecipientID(mem) = v
        <3>1. \A i \in 1..IDLen : mem[2 + i] = id[i]
            <4>1. \A i \in 1..IDLen : 2 + i \in 1..n
                BY <1>1, <1>3, <1>6
            <4> QED BY <1>3, <2>2, <4>1
        <3>2. 2 + IDLen <= Len(mem) /\ IDLen <= Len(id) /\ 2 \in Nat /\ IDLen \in Nat
            BY <1>1, <2>4
        <3>3. SubSeq(mem, 2 + 1, 2 + IDLen) = SubSeq(id, 1, IDLen)
            <4> DEFINE a == 2
            <4>1. a \in Nat /\ a + IDLen <= Len(mem) /\ \A i \in 1..IDLen : mem[a + i] = id[i]
                BY <3>1, <3>2
            <4> HIDE DEF a
            <4>2. SubSeq(mem, a + 1, a + IDLen) = SubSeq(id, 1, IDLen)
                BY <2>4, <3>2, <4>1, SameBeginning
            <4> QED BY <4>2 DEF a
        <3>4. SubSeq(id, 1, Len(id)) = id
            BY <2>4, SubSeqFull
        <3>5. SubSeq(mem, 2 + 1, 2 + IDLen) = id
            BY <2>4, <3>3, <3>4
        <3>6. RecipientID(mem) = FromLittleEndian(SubSeq(mem, 2 + 1, 2 + IDLen))
            BY DEF RecipientID, OpcodeLen
        <3> QED BY <2>4, <3>5, <3>6
    <2>6. IsPrefix(Cut(text, BufferLen - OpcodeLen - IDLen), PrivateText(mem, n))
        <3> DEFINE k == Shorter(Len(text), BufferLen - 2 - IDLen)
                   a == 2 + IDLen
                   s == SubSeq(text, 1, k)
                   t == SubSeq(mem, a + 1, a + n)
        <3>1. k \in Nat /\ k <= Len(text) /\ a + k <= n /\ k <= n /\ a \in Nat
            <4> DEFINE len == Len(text)
                       all == Len(packet)
            <4>1. /\ n = Shorter(all, BufferLen) /\ all = 2 + IDLen + len /\ len \in Nat
                  /\ n >= 2 + IDLen /\ k = Shorter(len, BufferLen - 2 - IDLen)
                BY <1>6, <2>2, <2>3
            <4> HIDE DEF len, all, k
            <4>2. k \in Nat /\ k <= len /\ k <= BufferLen - 2 - IDLen
                BY <1>1, <4>1 DEF Shorter
            <4>3. 2 + IDLen + k <= n /\ k <= n /\ 2 + IDLen \in Nat
                <5>1. CASE n = all
                    BY <1>1, <1>3, <4>1, <4>2, <5>1
                <5>2. CASE n = BufferLen
                    BY <1>1, <1>3, <4>1, <4>2, <5>2
                <5> QED BY <4>1, <5>1, <5>2 DEF Shorter
            <4> QED BY <4>2, <4>3 DEF len
        <3>2. a + n <= Len(mem)
            BY <1>1, <1>3
        <3> HIDE DEF k
        <3>3. s \in Seq(Bytes) /\ Len(s) = k /\ \A i \in 1..k : s[i] = text[i]
            <4>1. \A i \in 1..k : text[i] \in Bytes
                BY <2>1, <2>3, <3>1, ElementOfSeq
            <4>2. /\ s \in Seq(Bytes) /\ Len(s) = IF 1 <= k THEN k - 1 + 1 ELSE 0
                  /\ \A i \in 1..(k - 1 + 1) : s[i] = text[1 + i - 1]
                BY <3>1, <4>1, SubSeqProperties
            <4> HIDE DEF s
            <4>3. Len(s) = k /\ k - 1 + 1 = k /\ \A i \in 1..k : 1 + i - 1 = i
                BY <3>1, <4>2
            <4> QED BY <4>2, <4>3
        <3>4. /\ t \in Seq(AnyByte) /\ Len(t) = n
              /\ \A i \in 1..n : t[i] = mem[a + i]
            <4> HIDE DEF a
            <4>1. \A i \in 1..n : mem[a + i] = mem[a + i]
                OBVIOUS
            <4> QED BY <1>3, <3>1, <3>2, <4>1, SamePart
        <3> HIDE DEF s, t
        <3>5. \A i \in 1..k : s[0 + i] = t[0 + i]
            <4> SUFFICES ASSUME NEW i \in 1..k PROVE s[i] = t[i]
                BY <3>1
            <4>1. a + i \in 1..n /\ i \in 1..Len(text) /\ i \in 1..n
                BY <1>3, <2>3, <3>1
            <4>2. mem[a + i] = packet[a + i] /\ packet[a + i] = text[i]
                BY <2>2, <4>1
            <4> QED BY <3>3, <3>4, <4>1, <4>2
        <3>6. SubSeq(s, 1, k) = SubSeq(t, 1, k)
            <4>1. 0 \in Nat /\ 0 + k <= Len(s) /\ 0 + k <= Len(t)
                BY <3>1, <3>3, <3>4
            <4>2. SubSeq(s, 0 + 1, 0 + k) = SubSeq(t, 0 + 1, 0 + k)
                BY <3>1, <3>3, <3>4, <3>5, <4>1, SamePart
            <4> QED BY <3>1, <4>2
        <3>7. Len(s) <= Len(t)
            BY <3>1, <3>3, <3>4
        <3>8. IsPrefix(s, t)
            BY <3>3, <3>6, <3>7 DEF IsPrefix
        <3>9. s = Cut(text, BufferLen - OpcodeLen - IDLen) /\ t = PrivateText(mem, n)
            BY DEF s, t, k, Cut, PrivateText, OpcodeLen
        <3> QED BY <3>8, <3>9
    <2> QED BY <2>5, <2>6 DEF v
<1>7. ASSUME ntohs(mem) = 2
      PROVE  RightSum(DoubleSum(NumbersFrom(mem, n, 2)), command.args)
    <2> DEFINE args == command.args
               body == Body(args)
    <2>1. command.op = "add" /\ args \in Seq(Literal)
        BY <1>4, <1>7, OpcodeTells
    <2>2. /\ Len(packet) <= BufferLen /\ Len(args) >= 2
          /\ \A i \in 1..Len(args) : parse_number(args[i]) # Invalid
          /\ Len(packet) = 2 + Len(body)
          /\ \A i \in 1..Len(body) : packet[2 + i] = body[i]
        BY <2>1 DEF Carries
    <2> HIDE DEF args, body
    <2>3. n = Len(packet)
        BY <1>1, <1>2, <2>2 DEF Shorter
    <2>4. n = 2 + Len(body) /\ n <= Len(mem)
        BY <1>1, <1>3, <2>2, <2>3
    <2>5. mem[1] \in Nat /\ mem[2] \in Nat
        <3>1. mem[1] = 0 /\ mem[2] = ntohs(mem)
            BY <1>2, <1>3, <1>4
        <3> QED BY <1>7, <3>1
    <2>6. \A i \in 1..Len(body) : mem[2 + i] = body[i]
        <3>1. \A i \in 1..Len(body) : 2 + i \in 1..n
            BY <1>3, <2>4
        <3> QED BY <2>2, <3>1
    <2>7. Len(args) \in Nat /\ Len(args) >= 1
        BY <2>1, <2>2, LenProperties
    <2> HIDE DEF RightSum
    <2> QED BY <1>3, <2>1, <2>2, <2>4, <2>5, <2>6, <2>7, SumRead DEF body, args
<1> QED BY <1>4, <1>5, <1>6, <1>7

----------------------------------------------------------------------------
(* The invariant.                                                          *)

\* A packet for client d agrees with the command it answers.
RightText(d, packet, command) ==
    /\ packet.op \in TextPacket =>
        packet.text = Cut(command.text, BufferLen - OpcodeLen)
    /\ packet.op = "SMSG_PRIVATE_MESSAGE" =>
        /\ d = parse_number(command.to).value
        /\ IsPrefix(Cut(command.text, BufferLen - OpcodeLen - IDLen), packet.text)
    /\ packet.op = "SMSG_ADDITION_REQUEST" => RightSum(packet.sum, command.args)

RightPacket(d, p) ==
    /\ p.from \in Client
    /\ ~p.rest => /\ p.k \in 1..Len(typed[p.from])
                  /\ RightText(d, p.packet, typed[p.from][p.k])

WireRecord == [k : Nat, first : BOOLEAN, bytes : Seq(AnyByte)]

\* As far as the buffer reaches the bytes are those of a packet of the command.
BeginsAs(bytes, packet) ==
    /\ Shorter(Len(bytes), BufferLen) = Shorter(Len(packet), BufferLen)
    /\ \A i \in 1..Shorter(Len(packet), BufferLen) : bytes[i] = packet[i]

HeadOf(bytes, command) ==
    \E packet \in Seq(AnyByte) : Carries(packet, command) /\ BeginsAs(bytes, packet)

\* A record that begins a packet begins the one of its command, h[r.k].
RightRecord(r, h) == r.first => r.k \in 1..Len(h) /\ HeadOf(r.bytes, h[r.k])

\* What c has in its socket and, begun, in its session.
QueueCarries(c) ==
    /\ \A i \in 1..Len(inq[c]) : RightRecord(inq[c][i], typed[c])
    /\ \A i \in 1..Len(pend[c]) : ~pend[c][i].first

WireTypes ==
    /\ typed \in [Client -> Seq(Command)]
    /\ inq \in [Client -> Seq(WireRecord)]
    /\ pend \in [Client -> Seq(WireRecord)]
    /\ memory \in Seq(AnyByte) /\ Len(memory) = BufferLen + Overrun
    /\ \A d \in Client : got[d] \in Seq(Range(got[d]))

WireInv ==
    /\ WireTypes
    /\ \A c \in Client : QueueCarries(c)
    /\ \A d \in Client : \A p \in Range(got[d]) : RightPacket(d, p)

LEMMA WireInit == Init => WireInv
<1> SUFFICES ASSUME Init PROVE WireInv
    OBVIOUS
<1>1. /\ typed = [c \in Client |-> << >>] /\ inq = [c \in Client |-> << >>]
      /\ pend = [c \in Client |-> << >>] /\ got = [c \in Client |-> << >>]
    BY DEF Init
<1>2. PICK b \in Junk : memory = [k \in 1..(BufferLen + Overrun) |-> b]
    BY DEF Init
<1>3. memory \in Seq(AnyByte) /\ Len(memory) = BufferLen + Overrun
    <2>1. BufferLen + Overrun \in Nat
        BY PacketBufferAssumption DEF Overrun, OpcodeLen
    <2>2. b \in AnyByte
        BY DEF AnyByte
    <2> HIDE DEF Overrun, AnyByte
    <2> QED BY <1>2, <2>1, <2>2
<1>4. Range(<< >>) = {}
    BY DEF Range
<1>5. WireTypes
    <2> HIDE DEF AnyByte
    <2> QED BY <1>1, <1>3 DEF WireTypes
<1>6. \A c \in Client : QueueCarries(c)
    BY <1>1 DEF QueueCarries
<1>7. \A d \in Client : \A p \in Range(got[d]) : RightPacket(d, p)
    BY <1>1, <1>4
<1> QED BY <1>5, <1>6, <1>7 DEF WireInv

\* One more element.
LEMMA RangeOfAppend ==
    ASSUME NEW s, s \in Seq(Range(s)), NEW x
    PROVE  /\ s \o <<x>> \in Seq(Range(s \o <<x>>))
           /\ \A y \in Range(s \o <<x>>) : y \in Range(s) \/ y = x
<1> DEFINE R == Range(s)
           S == R \cup {x}
           t == s \o <<x>>
<1>1. s \in Seq(R)
    OBVIOUS
<1> HIDE DEF R
<1>2. Len(s) \in Nat /\ \A i \in 1..Len(s) : s[i] \in R
    BY <1>1, LenProperties, ElementOfSeq
<1>3. s \in Seq(S) /\ <<x>> \in Seq(S) /\ Len(<<x>>) = 1 /\ <<x>>[1] = x
    BY <1>1, <1>2, SeqOver
<1> DEFINE u == <<x>>
<1> HIDE DEF S, u
<1>4. /\ s \o u \in Seq(S) /\ Len(s \o u) = Len(s) + Len(u)
      /\ \A i \in 1..(Len(s) + Len(u)) : (s \o u)[i] =
            IF i <= Len(s) THEN s[i] ELSE u[i - Len(s)]
    BY <1>3, ConcatProperties DEF u
<1>5. t = s \o u
    BY DEF u
<1>6. \A i \in 1..Len(t) : t[i] \in R \/ t[i] = x
    <2> HIDE DEF t
    <2> SUFFICES ASSUME NEW i \in 1..Len(t) PROVE t[i] \in R \/ t[i] = x
        OBVIOUS
    <2>1. i \in 1..(Len(s) + 1) /\ Len(u) = 1 /\ u[1] = x
        BY <1>3, <1>4, <1>5 DEF u
    <2>2. CASE i <= Len(s)
        BY <1>2, <1>4, <1>5, <2>1, <2>2
    <2>3. CASE ~ (i <= Len(s))
        <3>1. i - Len(s) = 1
            BY <1>2, <2>1, <2>3
        <3> QED BY <1>4, <1>5, <2>1, <2>3, <3>1
    <2> QED BY <2>2, <2>3
<1> HIDE DEF t
<1>7. t \in Seq(S)
    BY <1>4, <1>5
<1>8. DOMAIN t = 1..Len(t)
    BY <1>7
<1>9. \A y \in Range(t) : y \in R \/ y = x
    BY <1>6, <1>8 DEF Range
<1>10. \A i \in 1..Len(t) : t[i] \in Range(t)
    BY <1>8 DEF Range
<1>11. t \in Seq(Range(t))
    BY <1>7, <1>10, SeqOver
<1> QED BY <1>9, <1>11 DEF t, R

\* SSL_read lays n bytes over the beginning of memory.
LEMMA Overwritten ==
    ASSUME NEW S, NEW s \in Seq(S), NEW m \in Seq(S), NEW n \in Nat,
           n <= Len(s), n <= Len(m)
    PROVE  LET x == SubSeq(s, 1, n) \o SubSeq(m, n + 1, Len(m))
           IN  x \in Seq(S) /\ Len(x) = Len(m) /\ \A i \in 1..n : x[i] = s[i]
<1> DEFINE a == SubSeq(s, 1, n)
           b == SubSeq(m, n + 1, Len(m))
<1>1. Len(s) \in Nat /\ Len(m) \in Nat
    BY LenProperties
<1>2. a \in Seq(S) /\ Len(a) = n /\ \A i \in 1..n : a[i] = s[i]
    <2>1. \A i \in 1..n : s[0 + i] = s[0 + i]
        OBVIOUS
    <2>2. 0 \in Nat /\ 0 + n <= Len(s)
        BY <1>1
    <2>3. LET y == SubSeq(s, 0 + 1, 0 + n)
          IN  y \in Seq(S) /\ Len(y) = n /\ \A i \in 1..n : y[i] = s[0 + i]
        BY <2>1, <2>2, SamePart
    <2>4. 0 + 1 = 1 /\ 0 + n = n /\ \A i \in 1..n : 0 + i = i
        BY SMTT(30)
    <2> QED BY <2>3, <2>4
<1>3. b \in Seq(S) /\ Len(b) = Len(m) - n
    <2> DEFINE k == Len(m) - n
    <2>1. k \in Nat /\ n + k = Len(m)
        BY <1>1
    <2> HIDE DEF k
    <2>2. \A i \in 1..k : m[n + i] = m[n + i]
        OBVIOUS
    <2>3. n + k <= Len(m)
        BY <1>1, <2>1
    <2>4. SubSeq(m, n + 1, n + k) \in Seq(S) /\ Len(SubSeq(m, n + 1, n + k)) = k
        BY <2>1, <2>2, <2>3, SamePart
    <2> QED BY <2>1, <2>4 DEF k
<1> HIDE DEF a, b
<1>4. /\ a \o b \in Seq(S) /\ Len(a \o b) = Len(a) + Len(b)
      /\ \A i \in 1..(Len(a) + Len(b)) : (a \o b)[i] =
            IF i <= Len(a) THEN a[i] ELSE b[i - Len(a)]
    BY <1>2, <1>3, ConcatProperties
<1>5. Len(a \o b) = Len(m)
    BY <1>1, <1>2, <1>3, <1>4
<1>6. \A i \in 1..n : (a \o b)[i] = s[i]
    <2>1. \A i \in 1..n : i \in 1..(Len(a) + Len(b)) /\ i <= Len(a)
        BY <1>1, <1>2, <1>3
    <2> QED BY <1>2, <1>4, <2>1
<1> QED BY <1>4, <1>5, <1>6 DEF a, b

\* Packets stay right when more is typed.
LEMMA TypeRight ==
    ASSUME WireInv, NEW c \in Client, NEW command \in Command, Type(c, command),
           NEW d \in Client, NEW p, RightPacket(d, p)
    PROVE  RightPacket(d, p)'
<1>1. /\ typed \in [Client -> Seq(Command)]
      /\ typed' = [typed EXCEPT ![c] = Append(typed[c], command)]
    BY DEF WireInv, WireTypes, Type
<1>2. p.from \in Client
    BY DEF RightPacket
<1>3. CASE p.rest
    BY <1>2, <1>3 DEF RightPacket
<1>4. CASE ~p.rest
    <2> DEFINE f == p.from
               k == p.k
    <2>1. k \in 1..Len(typed[f]) /\ RightText(d, p.packet, typed[f][k])
        BY <1>4 DEF RightPacket
    <2>2. f \in Client
        BY <1>2
    <2> HIDE DEF f, k
    <2>3. k \in 1..Len(typed'[f]) /\ typed'[f][k] = typed[f][k]
        <3>1. CASE f = c
            <4> DEFINE s == typed[c]
            <4>1. s \in Seq(Command) /\ typed'[f] = Append(s, command) /\ k \in 1..Len(s)
                BY <1>1, <2>1, <3>1
            <4> HIDE DEF s
            <4>2. /\ Len(Append(s, command)) = Len(s) + 1 /\ Append(s, command)[k] = s[k]
                  /\ Len(s) \in Nat
                BY <4>1, AppendProperties, LenProperties
            <4>3. k \in 1..(Len(s) + 1)
                BY <4>1, <4>2
            <4> QED BY <3>1, <4>1, <4>2, <4>3 DEF s
        <3>2. CASE f # c
            BY <1>1, <2>1, <2>2, <3>2
        <3> QED BY <3>1, <3>2
    <2>4. RightText(d, p.packet, typed'[f][k])
        BY <2>1, <2>3
    <2> QED BY <1>2, <2>3, <2>4 DEF RightPacket, RightText, f, k
<1> QED BY <1>3, <1>4

\* Every record of a packet is well formed, and the first one fills the buffer as the
\* packet would: a record has room for more than the buffer.
LEMMA RecordsOfPacket ==
    ASSUME NEW packet \in Seq(AnyByte), NEW k \in Nat
    PROVE  /\ SSL_write(packet, k) \in Seq(WireRecord)
           /\ \A i \in 1..Len(SSL_write(packet, k)) :
                /\ SSL_write(packet, k)[i].k = k
                /\ SSL_write(packet, k)[i].first =>
                        BeginsAs(SSL_write(packet, k)[i].bytes, packet)
<1> DEFINE R == RecordLen
           len == Len(packet)
           m == (len + R - 1) \div R
           part(i) == SubSeq(packet, (i - 1) * R + 1, Shorter(i * R, len))
           rec(i) == [k |-> k, first |-> i = 1, bytes |-> part(i)]
           s == [i \in 1..m |-> rec(i)]
<1>1. R \in Nat /\ R > 0 /\ BufferLen \in Nat /\ R >= BufferLen
    BY PacketBufferAssumption
<1>2. len \in Nat
    BY LenProperties
<1>3. SSL_write(packet, k) = s
    BY DEF SSL_write
<1> HIDE DEF R, len, AnyByte
<1>4. m \in Nat
    BY <1>1, <1>2, SMTT(30)
<1> HIDE DEF m
<1>5. ASSUME NEW i \in 1..m PROVE part(i) \in Seq(AnyByte)
    <2> DEFINE a == (i - 1) * R
               b == Shorter(i * R, len)
    <2>1. i - 1 \in Nat /\ i \in Nat
        BY <1>4
    <2>2. a \in Nat /\ i * R \in Nat
        BY <1>1, <2>1, SMTT(30)
    <2>3. b \in Nat /\ b <= len
        BY <1>2, <2>2 DEF Shorter
    <2> HIDE DEF a, b
    <2>4. \A x \in (a + 1)..b : packet[x] \in AnyByte
        BY <1>2, <2>2, <2>3, ElementOfSeq DEF len
    <2>5. a + 1 \in Int /\ b \in Int
        BY <2>2, <2>3
    <2> QED BY <2>4, <2>5, SubSeqProperties DEF a, b
<1> HIDE DEF part
<1>6. \A i \in 1..m : rec(i) \in WireRecord
    BY <1>5 DEF WireRecord
<1>7. s \in Seq(WireRecord) /\ Len(s) = m
    <2> HIDE DEF rec
    <2> QED BY <1>4, <1>6
<1>8. BeginsAs(part(1), packet)
    <2> DEFINE b == Shorter(R, len)
               x == Shorter(len, BufferLen)
    <2>1. b \in Nat /\ b <= len /\ Shorter(b, BufferLen) = x /\ x \in Nat /\ x <= b
        BY <1>1, <1>2 DEF Shorter
    <2>2. (1 - 1) * R + 1 = 0 + 1 /\ 1 * R = R
        BY <1>1
    <2>3. part(1) = SubSeq(packet, 0 + 1, 0 + b)
        <3>1. b = 0 + b
            BY <2>1
        <3> QED BY <2>2, <3>1 DEF part
    <2> HIDE DEF b, x
    <2>4. 0 + b <= Len(packet) /\ 0 \in Nat
        BY <2>1 DEF len
    <2>5. \A i \in 1..b : packet[0 + i] = packet[0 + i]
        OBVIOUS
    <2>6. Len(part(1)) = b /\ \A i \in 1..b : part(1)[i] = packet[0 + i]
        BY <2>1, <2>3, <2>4, <2>5, SamePart
    <2>7. \A i \in 1..b : 0 + i = i
        BY <2>1
    <2>8. \A i \in 1..x : i \in 1..b
        BY <2>1
    <2> QED BY <2>1, <2>6, <2>7, <2>8 DEF BeginsAs, len, x
<1>9. \A i \in 1..Len(s) : s[i].k = k /\ (s[i].first => BeginsAs(s[i].bytes, packet))
    BY <1>7, <1>8
<1> HIDE DEF s
<1> QED BY <1>3, <1>7, <1>9

\* A record stays right when more is typed.
LEMMA RecordStays ==
    ASSUME NEW h \in Seq(Command), NEW command \in Command, NEW r, RightRecord(r, h)
    PROVE  RightRecord(r, Append(h, command))
<1>1. /\ Len(Append(h, command)) = Len(h) + 1 /\ Len(h) \in Nat
      /\ \A i \in 1..Len(h) : Append(h, command)[i] = h[i]
    BY AppendProperties, LenProperties
<1>2. \A i \in 1..Len(h) : i \in 1..(Len(h) + 1)
    BY <1>1
<1> QED BY <1>1, <1>2 DEF RightRecord

\* The records of a command that is typed join the queue's end.
LEMMA TypeStep ==
    ASSUME WireInv, NEW c \in Client, NEW command \in Command, Type(c, command)
    PROVE  WireInv'
<1> DEFINE q == inq[c]
           h == typed[c]
<1>1. /\ typed \in [Client -> Seq(Command)] /\ inq \in [Client -> Seq(WireRecord)]
      /\ Packets(command) # << >>
      /\ typed' = [typed EXCEPT ![c] = Append(h, command)]
      /\ inq' = [inq EXCEPT ![c] = q \o SSL_write(Packets(command)[1], Len(h) + 1)]
      /\ pend' = pend /\ memory' = memory /\ got' = got
    BY DEF WireInv, WireTypes, Type
<1>2. PICK packet \in Seq(AnyByte) :
            Packets(command) = <<packet>> /\ Carries(packet, command)
    BY <1>1, PacketShape
<1> DEFINE rs == SSL_write(packet, Len(h) + 1)
           q2 == q \o rs
           h2 == Append(h, command)
<1>3. h \in Seq(Command) /\ q \in Seq(WireRecord)
      /\ \A i \in 1..Len(q) : RightRecord(q[i], h)
    BY <1>1 DEF WireInv, QueueCarries
<1>4. typed' = [typed EXCEPT ![c] = h2] /\ inq' = [inq EXCEPT ![c] = q2]
    <2>1. Packets(command)[1] = packet
        BY <1>2
    <2> QED BY <1>1, <2>1
<1> HIDE DEF q, h, AnyByte, WireRecord
<1>5. /\ h2 \in Seq(Command) /\ Len(h2) = Len(h) + 1 /\ Len(h) \in Nat
      /\ h2[Len(h) + 1] = command
    BY <1>3, AppendProperties, LenProperties
<1>a. /\ rs \in Seq(WireRecord)
      /\ \A i \in 1..Len(rs) : rs[i].k = Len(h) + 1
                                /\ (rs[i].first => BeginsAs(rs[i].bytes, packet))
    BY <1>5, RecordsOfPacket
<1> HIDE DEF rs
<1>6. /\ q2 \in Seq(WireRecord) /\ Len(q2) = Len(q) + Len(rs)
      /\ Len(q) \in Nat /\ Len(rs) \in Nat
      /\ \A i \in 1..(Len(q) + Len(rs)) : q2[i] =
            IF i <= Len(q) THEN q[i] ELSE rs[i - Len(q)]
    BY <1>3, <1>a, ConcatProperties, LenProperties
<1>b. \A i \in 1..Len(rs) : RightRecord(rs[i], h2)
    <2> SUFFICES ASSUME NEW i \in 1..Len(rs), rs[i].first
                 PROVE  rs[i].k \in 1..Len(h2) /\ HeadOf(rs[i].bytes, h2[rs[i].k])
        BY DEF RightRecord
    <2>1. rs[i].k = Len(h) + 1 /\ Len(h) + 1 \in 1..Len(h2)
        BY <1>5, <1>a
    <2>2. HeadOf(rs[i].bytes, command)
        BY <1>2, <1>a DEF HeadOf
    <2> QED BY <1>5, <2>1, <2>2
<1>c. \A i \in 1..Len(q) : RightRecord(q[i], h2)
    BY <1>3, RecordStays
<1> HIDE DEF q2, h2
<1>7. \A i \in 1..Len(q2) : RightRecord(q2[i], h2)
    <2> SUFFICES ASSUME NEW i \in 1..Len(q2) PROVE RightRecord(q2[i], h2)
        OBVIOUS
    <2>1. CASE i <= Len(q)
        <3>1. i \in 1..Len(q) /\ q2[i] = q[i]
            BY <1>6, <2>1
        <3> QED BY <1>c, <3>1
    <2>2. CASE ~ (i <= Len(q))
        <3>1. i - Len(q) \in 1..Len(rs) /\ q2[i] = rs[i - Len(q)]
            BY <1>6, <2>2
        <3> QED BY <1>b, <3>1
    <2> QED BY <2>1, <2>2
<1>8. (\A d \in Client : QueueCarries(d))'
    <2> SUFFICES ASSUME NEW d \in Client PROVE QueueCarries(d)'
        OBVIOUS
    <2>0. QueueCarries(d)
        BY DEF WireInv
    <2>1. CASE d = c
        <3>1. inq'[d] = q2 /\ typed'[d] = h2 /\ pend'[d] = pend[d]
            BY <1>1, <1>4, <2>1
        <3> QED BY <1>7, <2>0, <3>1 DEF QueueCarries
    <2>2. CASE d # c
        <3>1. inq'[d] = inq[d] /\ typed'[d] = typed[d] /\ pend'[d] = pend[d]
            BY <1>1, <1>4, <2>2
        <3> QED BY <2>0, <3>1 DEF QueueCarries
    <2> QED BY <2>1, <2>2
<1>9. WireTypes'
    <2>1. typed' \in [Client -> Seq(Command)]
        BY <1>1, <1>4, <1>5
    <2>a. inq' \in [Client -> Seq(WireRecord)]
        BY <1>1, <1>4, <1>6
    <2>2. /\ pend \in [Client -> Seq(WireRecord)]
          /\ memory \in Seq(AnyByte) /\ Len(memory) = BufferLen + Overrun
          /\ \A d \in Client : got[d] \in Seq(Range(got[d]))
        BY DEF WireInv, WireTypes
    <2> QED BY <1>1, <2>1, <2>a, <2>2 DEF WireTypes, WireRecord, AnyByte
<1>10. (\A d \in Client : \A p \in Range(got[d]) : RightPacket(d, p))'
    <2> SUFFICES ASSUME NEW d \in Client, NEW p \in Range(got[d]) PROVE RightPacket(d, p)'
        BY <1>1
    <2>1. RightPacket(d, p)
        BY DEF WireInv
    <2> QED BY <2>1, TypeRight
<1> QED BY <1>8, <1>9, <1>10 DEF WireInv

\* A handler's answer to the beginning of a packet is right.
LEMMA HeadAnswer ==
    ASSUME NEW command \in Command, NEW packet \in Seq(AnyByte),
           Carries(packet, command), NEW n, n = Shorter(Len(packet), BufferLen),
           NEW mem \in Seq(AnyByte), Len(mem) = BufferLen + Overrun,
           \A i \in 1..n : mem[i] = packet[i],
           NEW d, NEW r, Found(d, mem, n, r)
    PROVE  RightText(d, r, command)
<1>1. /\ ntohs(mem) \in {1, 3} =>
            Payload(mem, n) = Cut(command.text, BufferLen - OpcodeLen)
      /\ ntohs(mem) = 5 /\ n >= 2 + IDLen =>
            /\ RecipientID(mem) = parse_number(command.to).value
            /\ IsPrefix(Cut(command.text, BufferLen - OpcodeLen - IDLen),
                        PrivateText(mem, n))
      /\ ntohs(mem) = 2 => RightSum(DoubleSum(NumbersFrom(mem, n, 2)), command.args)
    BY HeadRead
<1> QED BY <1>1, Zenon DEF Found, RightText

\* A record that is served, or the rest of one.
LEMMA ServeStep ==
    ASSUME WireInv, NEW c \in Client, Serve(c)
    PROVE  WireInv'
<1> DEFINE q == inq[c]
           h == typed[c]
           rec == Unread(c)
           u == rec.bytes
           n == Returned(c)
           begun == pend[c] # << >>
           mem == SubSeq(u, 1, n) \o SubSeq(memory, n + 1, Len(memory))
           reply == CallHandler(c, mem, n)
           item(r) == [from |-> c, k |-> rec.k, rest |-> ~rec.first, packet |-> r]
<1>1. /\ typed \in [Client -> Seq(Command)] /\ inq \in [Client -> Seq(WireRecord)]
      /\ pend \in [Client -> Seq(WireRecord)]
      /\ memory \in Seq(AnyByte) /\ Len(memory) = BufferLen + Overrun
      /\ \A d \in Client : got[d] \in Seq(Range(got[d]))
    BY DEF WireInv, WireTypes
<1>2. /\ q # << >> /\ typed' = typed /\ memory' = mem
      /\ pend' = [pend EXCEPT ![c] = Left(c)]
      /\ inq' = [inq EXCEPT ![c] = IF begun THEN q ELSE Tail(q)]
    BY DEF Serve, SSL_read, Readable
<1>3. got' = [d \in Client |-> got[d] \o [i \in 1..Len(reply[d]) |-> item(reply[d][i])]]
    BY DEF Serve
<1>4. /\ h \in Seq(Command) /\ q \in Seq(WireRecord) /\ pend[c] \in Seq(WireRecord)
      /\ \A i \in 1..Len(q) : RightRecord(q[i], h)
      /\ \A i \in 1..Len(pend[c]) : ~pend[c][i].first
    BY <1>1 DEF WireInv, QueueCarries
<1>5. /\ rec = (IF begun THEN pend[c][1] ELSE q[1]) /\ n = Shorter(Len(u), BufferLen)
      /\ Left(c) = IF n = Len(u) THEN << >>
                   ELSE <<[k |-> rec.k, first |-> FALSE,
                           bytes |-> SubSeq(u, n + 1, Len(u))]>>
    BY DEF Unread, Returned, Left
<1> HIDE DEF q, h, n, AnyByte, WireRecord
<1>6. /\ Len(q) \in Nat /\ Len(q) >= 1 /\ Len(h) \in Nat
      /\ begun => 1 \in 1..Len(pend[c])
    <2>1. Len(q) \in Nat /\ Len(q) >= 1 /\ Len(h) \in Nat
        BY <1>2, <1>4, LenProperties, EmptySeq
    <2>2. begun => Len(pend[c]) \in Nat /\ Len(pend[c]) # 0
        BY <1>4, LenProperties, EmptySeq
    <2> QED BY <2>1, <2>2
<1> HIDE DEF begun, rec
<1>7. /\ rec \in WireRecord /\ u \in Seq(AnyByte) /\ RightRecord(rec, h)
      /\ rec.first => ~begun
    <2>1. 1 \in 1..Len(q)
        BY <1>6
    <2>2. CASE begun
        <3>1. rec \in WireRecord /\ ~rec.first
            BY <1>4, <1>5, <1>6, <2>2, ElementOfSeq
        <3> QED BY <3>1 DEF RightRecord, WireRecord
    <2>3. CASE ~begun
        <3>1. rec \in WireRecord /\ RightRecord(rec, h)
            BY <1>4, <1>5, <2>1, <2>3, ElementOfSeq
        <3> QED BY <2>3, <3>1 DEF WireRecord
    <2> QED BY <2>2, <2>3
<1> HIDE DEF u
<1>8. BufferLen \in Nat /\ BufferLen <= Len(memory)
    <2>1. BufferLen \in Nat /\ IDLen \in Nat
        BY PacketBufferAssumption
    <2> QED BY <1>1, <2>1 DEF Overrun, OpcodeLen
<1>9. Len(u) \in Nat /\ n \in Nat /\ n <= Len(u) /\ n <= Len(memory)
    <2>1. Len(u) \in Nat /\ Len(memory) \in Nat
        BY <1>1, <1>7, LenProperties
    <2> QED BY <1>5, <1>8, <2>1 DEF Shorter
<1>10. /\ mem \in Seq(AnyByte) /\ Len(mem) = BufferLen + Overrun
       /\ \A i \in 1..n : mem[i] = u[i]
    <2> DEFINE m == memory
    <2>1. m \in Seq(AnyByte) /\ n <= Len(m) /\ Len(m) = BufferLen + Overrun
        BY <1>1, <1>9
    <2>2. mem = SubSeq(u, 1, n) \o SubSeq(m, n + 1, Len(m))
        OBVIOUS
    <2> HIDE DEF m, mem
    <2> QED BY <1>7, <1>9, <2>1, <2>2, Overwritten
<1> HIDE DEF mem, reply, item
<1>11. Left(c) \in Seq(WireRecord) /\ \A i \in 1..Len(Left(c)) : ~Left(c)[i].first
    <2>1. \A i \in (n + 1)..Len(u) : u[i] \in AnyByte
        BY <1>7, <1>9, ElementOfSeq
    <2>2. n + 1 \in Int /\ Len(u) \in Int
        BY <1>9
    <2> DEFINE b == SubSeq(u, n + 1, Len(u))
               x == [k |-> rec.k, first |-> FALSE, bytes |-> b]
    <2>3. b \in Seq(AnyByte)
        BY <2>1, <2>2, SubSeqProperties
    <2> HIDE DEF b
    <2>4. x \in WireRecord /\ ~x.first
        BY <1>7, <2>3 DEF WireRecord
    <2>5. Left(c) = << >> \/ Left(c) = <<x>>
        BY <1>5 DEF b
    <2> HIDE DEF x
    <2>6. CASE Left(c) = << >>
        BY <2>6
    <2>7. CASE Left(c) = <<x>>
        <3>1. <<x>> \in Seq(WireRecord) /\ Len(<<x>>) = 1 /\ <<x>>[1] = x
            BY <2>4
        <3>2. \A i \in 1..1 : i = 1
            OBVIOUS
        <3> QED BY <2>4, <2>7, <3>1, <3>2
    <2> QED BY <2>5, <2>6, <2>7
<1>12. /\ Tail(q) \in Seq(WireRecord) /\ Len(Tail(q)) = Len(q) - 1
       /\ \A i \in 1..(Len(q) - 1) : Tail(q)[i] = q[i + 1]
    BY <1>2, <1>4, HeadTailProperties
\* What d is sent: nothing, or one packet.
<1>13. ASSUME NEW d \in Client
       PROVE  \/ got'[d] = got[d]
              \/ \E r : got'[d] = got[d] \o <<item(r)>> /\ Found(d, mem, n, r)
    <2>1. got'[d] = got[d] \o [i \in 1..Len(reply[d]) |-> item(reply[d][i])]
        BY <1>3
    <2>2. CASE reply[d] = << >>
        <3>1. [i \in 1..Len(reply[d]) |-> item(reply[d][i])] = << >>
            BY <2>2
        <3>2. got'[d] = got[d] \o << >>
            BY <2>1, <3>1
        <3>3. got[d] \in Seq(Range(got[d]))
            BY <1>1
        <3>4. got[d] \o << >> = got[d]
            <4> DEFINE R == Range(got[d])
            <4>1. got[d] \in Seq(R)
                BY <3>3
            <4> HIDE DEF R
            <4> QED BY <4>1, ConcatEmptySeq
        <3> QED BY <3>2, <3>4
    <2>3. ASSUME NEW r, reply[d] = <<r>>, Found(d, mem, n, r)
          PROVE  \E x : got'[d] = got[d] \o <<item(x)>> /\ Found(d, mem, n, x)
        <3>1. [i \in 1..Len(reply[d]) |-> item(reply[d][i])] = <<item(r)>>
            BY <2>3
        <3> QED BY <2>1, <2>3, <3>1
    <2>4. reply[d] = << >> \/ \E r : reply[d] = <<r>> /\ Found(d, mem, n, r)
        BY <1>9, OneAnswer DEF reply
    <2> QED BY <2>2, <2>3, <2>4
\* That packet is right.
<1>14. ASSUME NEW d \in Client, NEW r, Found(d, mem, n, r), NEW p, p = item(r)
       PROVE  RightPacket(d, p)'
    <2>1. p.from = c /\ p.k = rec.k /\ p.rest = ~rec.first /\ p.packet = r
        BY <1>14 DEF item
    <2>2. CASE ~rec.first
        BY <2>1, <2>2 DEF RightPacket
    <2>3. CASE rec.first
        <3> DEFINE command == h[rec.k]
        <3>1. rec.k \in 1..Len(h) /\ HeadOf(u, command)
            BY <1>7, <2>3 DEF RightRecord, u
        <3>2. command \in Command
            BY <1>4, <3>1, ElementOfSeq
        <3> HIDE DEF command
        <3>3. PICK packet \in Seq(AnyByte) : Carries(packet, command) /\ BeginsAs(u, packet)
            BY <3>1 DEF HeadOf
        <3>4. n = Shorter(Len(packet), BufferLen) /\ \A i \in 1..n : mem[i] = packet[i]
            BY <1>5, <1>10, <3>3 DEF BeginsAs
        <3>5. RightText(d, r, command)
            BY <1>10, <1>14, <3>2, <3>3, <3>4, HeadAnswer
        <3>6. typed'[c] = h
            BY <1>2 DEF h
        <3> QED BY <2>1, <3>1, <3>5, <3>6 DEF RightPacket, command
    <2> QED BY <2>2, <2>3
<1>15. (\A d \in Client : \A p \in Range(got[d]) : RightPacket(d, p))'
    <2> SUFFICES ASSUME NEW d \in Client, NEW p \in Range(got'[d])
                 PROVE  RightPacket(d, p)'
        OBVIOUS
    <2>1. p \in Range(got[d]) => RightPacket(d, p)'
        BY <1>2 DEF WireInv, RightPacket
    <2>2. CASE got'[d] = got[d]
        BY <2>1, <2>2
    <2>3. ASSUME NEW r, got'[d] = got[d] \o <<item(r)>>, Found(d, mem, n, r)
          PROVE  RightPacket(d, p)'
        <3>1. p \in Range(got[d]) \/ p = item(r)
            BY <1>1, <2>3, RangeOfAppend
        <3>2. p = item(r) => RightPacket(d, p)'
            BY <1>14, <2>3
        <3> QED BY <2>1, <3>1, <3>2
    <2> QED BY <1>13, <2>2, <2>3
<1>16. (\A d \in Client : QueueCarries(d))'
    <2> SUFFICES ASSUME NEW d \in Client PROVE QueueCarries(d)'
        OBVIOUS
    <2>0. QueueCarries(d)
        BY DEF WireInv
    <2>1. CASE d # c
        <3>1. inq'[d] = inq[d] /\ typed'[d] = typed[d] /\ pend'[d] = pend[d]
            BY <1>1, <1>2, <2>1
        <3> QED BY <2>0, <3>1 DEF QueueCarries
    <2>2. CASE d = c
        <3> DEFINE t == Tail(q)
        <3>1. /\ inq'[d] = (IF begun THEN q ELSE t) /\ typed'[d] = h /\ pend'[d] = Left(c)
            BY <1>1, <1>2, <2>2 DEF h
        <3>2. \A i \in 1..Len(t) : RightRecord(t[i], h)
            <4>1. \A i \in 1..Len(t) : i + 1 \in 1..Len(q) /\ t[i] = q[i + 1]
                BY <1>6, <1>12
            <4> QED BY <1>4, <4>1
        <3> HIDE DEF t
        <3>3. CASE begun
            BY <1>4, <1>11, <3>1, <3>3 DEF QueueCarries
        <3>4. CASE ~begun
            BY <1>11, <3>1, <3>2, <3>4 DEF QueueCarries
        <3> QED BY <3>3, <3>4
    <2> QED BY <2>1, <2>2
<1>17. WireTypes'
    <2>1. typed' \in [Client -> Seq(Command)] /\ inq' \in [Client -> Seq(WireRecord)]
        BY <1>1, <1>2, <1>4, <1>12
    <2>2. pend' \in [Client -> Seq(WireRecord)]
        BY <1>1, <1>2, <1>11
    <2>3. memory' \in Seq(AnyByte) /\ Len(memory') = BufferLen + Overrun
        BY <1>2, <1>10
    <2>4. ASSUME NEW d \in Client PROVE got'[d] \in Seq(Range(got'[d]))
        <3>1. CASE got'[d] = got[d]
            BY <1>1, <3>1
        <3>2. ASSUME NEW r, got'[d] = got[d] \o <<item(r)>>
              PROVE  got'[d] \in Seq(Range(got'[d]))
            BY <1>1, <3>2, RangeOfAppend
        <3> QED BY <1>13, <3>1, <3>2
    <2> QED BY <2>1, <2>2, <2>3, <2>4 DEF WireTypes, WireRecord, AnyByte
<1> QED BY <1>15, <1>16, <1>17 DEF WireInv

LEMMA WireInvariant == Spec => []WireInv
<1>1. WireInv /\ [Next]_vars => WireInv'
    <2> SUFFICES ASSUME WireInv, [Next]_vars PROVE WireInv'
        OBVIOUS
    <2>1. CASE Next
        <3>1. ASSUME NEW c \in Client, Serve(c) PROVE WireInv'
            BY <3>1, ServeStep
        <3>2. ASSUME NEW c \in Client, NEW command \in Command, Type(c, command)
              PROVE  WireInv'
            BY <3>2, TypeStep
        <3> QED BY <2>1, <3>1, <3>2 DEF Next
    <2>2. CASE UNCHANGED vars
        BY <2>2 DEF vars, WireInv, WireTypes, QueueCarries, RightPacket
    <2> QED BY <2>1, <2>2
<1> QED BY <1>1, WireInit, PTL DEF Spec

\* An echo and a broadcast carry the text that was typed, cut where the buffer ends,
\* whatever the buffer held before, however long the texts and however the records
\* of the clients alternate (std::string(buffer + sizeof(opcode), payloadSize -
\* sizeof(opcode)) in CallHandler).
THEOREM TextsArrive == Spec => []TextsAsTyped
<1>1. WireInv => TextsAsTyped
    <2> SUFFICES ASSUME WireInv, NEW p \in Heads(TextPacket)
                 PROVE  p.packet.text = Cut(Typed(p).text, BufferLen - OpcodeLen)
        BY DEF TextsAsTyped
    <2>1. PICK d \in Client : p \in Range(got[d]) /\ p.packet.op \in TextPacket /\ ~p.rest
        BY DEF Heads
    <2>2. RightPacket(d, p)
        BY <2>1 DEF WireInv
    <2> QED BY <2>1, <2>2, Zenon DEF RightPacket, RightText, Typed
<1> QED BY <1>1, WireInvariant, PTL

\* A private message reaches the client whose ID was typed and nobody else, and begins
\* with the text that was typed: the 8 bytes of the ID come back as the number that
\* Main.cpp parsed, and the bytes CallHandlerMsgToClient reads past the text come
\* after it.
THEOREM PrivateArrives == Spec => []PrivateAsTyped
<1>1. WireInv => PrivateAsTyped
    <2> SUFFICES ASSUME WireInv, NEW d \in Client, NEW p \in Range(got[d]),
                        p.packet.op = "SMSG_PRIVATE_MESSAGE", ~p.rest
                 PROVE  /\ d = parse_number(Typed(p).to).value
                        /\ IsPrefix(Cut(Typed(p).text, BufferLen - OpcodeLen - IDLen),
                                    p.packet.text)
        BY DEF PrivateAsTyped
    <2>1. RightPacket(d, p)
        BY DEF WireInv
    <2> QED BY <2>1, Zenon DEF RightPacket, RightText, Typed
<1> QED BY <1>1, WireInvariant, PTL

\* The answer to an addition is the sum of the numbers as they were typed, whenever
\* double holds each of them and every partial sum: CallHandlerAdd finds where each
\* number ends from its type byte alone, reads it back as it was written, and none of
\* sum += static_cast<double>(value) rounds, for any number of operands of any types.
THEOREM SumArrives == Spec => []SumAsTyped
<1>1. WireInv => SumAsTyped
    <2> SUFFICES ASSUME WireInv, NEW p \in Heads({"SMSG_ADDITION_REQUEST"})
                 PROVE  RightSum(p.packet.sum, Typed(p).args)
        BY DEF SumAsTyped, RightSum
    <2>1. PICK d \in Client : p \in Range(got[d])
                /\ p.packet.op = "SMSG_ADDITION_REQUEST" /\ ~p.rest
        BY DEF Heads
    <2>2. RightPacket(d, p)
        BY <2>1 DEF WireInv
    <2> QED BY <2>1, <2>2, Zenon DEF RightPacket, RightText, Typed
<1> QED BY <1>1, WireInvariant, PTL

=============================================================================
