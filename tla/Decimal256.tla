----------------------------- MODULE Decimal256 -----------------------------
(***************************************************************************)
(* The fixed-point decimals of proto-types/src/decimal256.rs: an unsigned  *)
(* integer of MaxUint + 1 values counts units of 10^-Places. A result is a *)
(* number of units, an error or Panic. What a number does on paper is      *)
(* stated at the end.                                                      *)
(***************************************************************************)
EXTENDS Numerals

CONSTANTS
    Places,         \* DECIMAL_PLACES (18)
    Overflow, DivideByZero      \* what is not a number

ASSUME PlacesAssumption ==
    /\ Places \in Nat \ {0}
    /\ Places % 2 = 0
    /\ MaxUint >= TenTo(2 * Places)
    /\ {Overflow, DivideByZero} \cap Nat = {}
    /\ Overflow # Panic

One == TenTo(Places)            \* DECIMAL_FRACTIONAL
OrElse(result, other) == IF result \in Uint THEN result ELSE other

(* Constructors. Uint256 multiplied by Uint256 panics when it overflows. *)
Percent(x) == Fits(x * TenTo(Places - 2), Panic)

FromAtomics(atomics, places) ==
    IF places <= Places
    THEN Fits(atomics * TenTo(Places - places), Overflow)
    ELSE atomics \div TenTo(places - Places)

CheckedFromRatio(numerator, denominator) ==
    IF denominator = 0
    THEN DivideByZero
    ELSE Fits((numerator * One) \div denominator, Overflow)

(* Arithmetic: the checked operations, and the operators, which panic. *)
CheckedAdd(d, e) == Fits(d + e, Overflow)
CheckedSub(d, e) == Fits(d - e, Overflow)
CheckedMul(d, e) == Fits((d * e) \div One, Overflow)
CheckedDiv(d, e) == CheckedFromRatio(d, e)
CheckedRem(d, e) == IF e = 0 THEN DivideByZero ELSE d % e

Added(d, e) == OrElse(CheckedAdd(d, e), Panic)
Subtracted(d, e) == OrElse(CheckedSub(d, e), Panic)
Multiplied(d, e) == OrElse(CheckedMul(d, e), Panic)
Divided(d, e) == OrElse(CheckedDiv(d, e), Panic)
Remainder(d, e) == OrElse(CheckedRem(d, e), Panic)
UintTimes(u, d) ==
    IF u = 0 \/ d = 0 THEN 0 ELSE Fits((u * d) \div One, Panic)
DividedByUint(d, u) == IF u = 0 THEN Panic ELSE d \div u
Summed(ds) ==
    LET sum[i \in 0 .. Len(ds)] ==
            IF i = 0 THEN 0
            ELSE IF sum[i - 1] = Panic THEN Panic ELSE Added(sum[i - 1], ds[i])
    IN  sum[Len(ds)]

SaturatingAdd(d, e) == OrElse(CheckedAdd(d, e), MaxUint)
SaturatingSub(d, e) == OrElse(CheckedSub(d, e), 0)
SaturatingMul(d, e) == OrElse(CheckedMul(d, e), MaxUint)

Floor(d) == (d \div One) * One
AbsDiff(d, e) == IF d < e THEN Subtracted(e, d) ELSE Subtracted(d, e)
Inv(d) == IF d = 0 THEN DivideByZero ELSE (One * One) \div d

(* checked_pow squares x and multiplies into y while n > 1; its last       *)
(* product is the operator's, which panics where the others return.        *)
Product(d, e) == IF Overflow \in {d, e} THEN Overflow ELSE CheckedMul(d, e)
Squared(s) ==
    [x |-> Product(s.x, s.x),
     y |-> IF s.n % 2 = 0 THEN s.y ELSE Product(s.x, s.y),
     n |-> s.n \div 2]

CheckedPow(d, e) ==
    LET loop[i \in 0 .. e] ==
            IF i = 0
            THEN [x |-> d, y |-> One, n |-> e]
            ELSE LET s == loop[i - 1] IN IF s.n <= 1 THEN s ELSE Squared(s)
        last == loop[e]
    IN  IF e = 0
        THEN One
        ELSE IF Overflow \in {last.x, last.y}
             THEN Overflow
             ELSE Multiplied(last.x, last.y)

SaturatingPow(d, e) ==
    LET power == CheckedPow(d, e) IN IF power = Overflow THEN MaxUint ELSE power

(* isqrt is the integer square root of Uint256. The precision is lowered   *)
(* until the multiplication before the root does not overflow.             *)
Isqrt(n) == CHOOSE r \in 0 .. n : r * r <= n /\ (r + 1) * (r + 1) > n

SqrtWithPrecision(d, precision) ==
    IF d * TenTo(2 * precision) > MaxUint
    THEN Overflow
    ELSE Fits(Isqrt(d * TenTo(2 * precision)) * TenTo(Places \div 2 - precision), Panic)

Precisions(d) == {p \in 0 .. Places \div 2 : SqrtWithPrecision(d, p) # Overflow}
Precision(d) == Max(Precisions(d))
Sqrt(d) == SqrtWithPrecision(d, Precision(d))

(* Text: a decimal's is the sequence of its parts between dots.             *)
(* FromStr: the whole part, then a fraction if there is a dot, whose value *)
(* is parsed before its length is looked at, then no second dot.           *)
FromStr(text) ==
    LET whole == ParsedUint(text[1])
        fraction == IF Len(text) > 1 THEN ParsedUint(text[2]) ELSE 0
        places == IF Len(text) > 1 THEN Len(text[2]) ELSE 0
        atomics == whole * One + fraction * TenTo(Places - places)
    IN  IF /\ whole # Malformed /\ whole * One <= MaxUint
           /\ fraction # Malformed /\ places <= Places
           /\ atomics <= MaxUint
           /\ Len(text) <= 2
        THEN atomics
        ELSE Malformed

(* Display: the fraction padded on the left with zeros to Places digits,   *)
(* and its trailing zeros dropped.                                         *)
UnpaddedFraction(numeral) == numeral  \* a wrong Padded
Padded(numeral) == [i \in 1 .. Places - Len(numeral) |-> 0] \o numeral
Trimmed(numeral) ==
    SubSeq(numeral, 1, Max({0} \cup {i \in DOMAIN numeral : numeral[i] # 0}))
Display(d) ==
    IF d % One = 0
    THEN <<Numeral(d \div One)>>
    ELSE <<Numeral(d \div One), Trimmed(Padded(Numeral(d % One)))>>

(* The protobuf representation is the numeral of the units. *)
ToCosmosProtoString(d) == Numeral(d)
FromCosmosProtoString(numeral) == ParsedUint(numeral)

-----------------------------------------------------------------------------
(* What a number does on paper.                                            *)

(* q is a / b rounded down, or a / b does not fit. *)
IsQuotient(q, a, b) ==
    IF q \in Uint THEN q * b <= a /\ a < (q + 1) * b ELSE a \div b > MaxUint

(* atomics, of which places are after the point, as units. *)
FromAtomicsIsExact(atomics, places) ==
    IsQuotient(FromAtomics(atomics, places), atomics * One, TenTo(places))

ArithmeticIsExact(d, e) ==
    /\ IsQuotient(CheckedMul(d, e), d * e, One)
    /\ IsQuotient(UintTimes(d, e), d * e, One)
    /\ e # 0 => /\ IsQuotient(CheckedDiv(d, e), d * One, e)
                /\ IsQuotient(DividedByUint(d, e), d, e)
                /\ IsQuotient(Inv(e), One * One, e)
                /\ CheckedRem(d, e) = d - e * (d \div e)
    /\ e = 0 => {CheckedDiv(d, e), CheckedRem(d, e), Inv(e)} = {DivideByZero}
    /\ IsQuotient(Floor(d) \div One, d, One)
    /\ AbsDiff(d, e) = AbsDiff(e, d)
    /\ e <= d => Added(AbsDiff(d, e), e) = d
    /\ SaturatingAdd(d, e) = Min({d + e, MaxUint})
    /\ SaturatingSub(d, e) = d - Min({d, e})
    /\ SaturatingMul(d, e) = Min({(d * e) \div One, MaxUint})
    /\ Summed(<<d, e, d>>) = Fits(d + e + d, Panic)

(* A power is rounded down, exact for whole numbers, and fails only where  *)
(* it does not fit.                                                        *)
PowerIsExact(d, n) ==
    LET power == CheckedPow(d, n)
        units == PowerOf(One, n - 1)
    IN  /\ SaturatingPow(d, n) \in {power, MaxUint}
        /\ IF n = 0 THEN power = One
           ELSE IF power \in Uint
           THEN /\ power * units <= PowerOf(d, n)
                /\ d % One = 0 => power * units = PowerOf(d, n)
           ELSE PowerOf(d, n) > MaxUint * units

(* Off by less than one unit of the precision it was computed with.       *)
RootIsExact(d) ==
    LET root == Sqrt(d)
        ulp == TenTo(Places \div 2 - Precision(d))
    IN  root \in Uint /\ root * root <= d * One /\ d * One < (root + ulp) * (root + ulp)

(* Display, FromStr and the protobuf text give back the number they are of. *)
TextsAreReadBack(d) ==
    /\ FromStr(Display(d)) = d
    /\ FromCosmosProtoString(ToCosmosProtoString(d)) = d

(* A text is read as the number it says, if that fits; one with an empty   *)
(* part, too many places or a second dot is refused.                       *)
TextIsExact(text) ==
    LET d == FromStr(text)
        places == IF Len(text) = 1 THEN 0 ELSE Len(text[2])
        atomics == (ValueOf(text[1]) * TenTo(places)
                      + (IF Len(text) = 1 THEN 0 ELSE ValueOf(text[2]))) * One
    IN  IF <<>> \in Range(text) \/ places > Places \/ Len(text) > 2
        THEN d = Malformed
        ELSE IsQuotient(OrElse(d, Overflow), atomics, TenTo(places))
=============================================================================
