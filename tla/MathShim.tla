------------------------------ MODULE MathShim ------------------------------
(***************************************************************************)
(* The rounding and sign functions wasm3 gets from src/src/math_shim.c, on *)
(* the bit patterns they work on.  The float and the double versions differ*)
(* in the widths of the exponent and of the fraction only, which are       *)
(* constants here, so that TLC can try every pattern of a small IEEE       *)
(* format.  Masks and shifts of the code are written with \div and %.      *)
(***************************************************************************)
EXTENDS Integers

CONSTANTS EB,   \* bits of the exponent: 8 or 11 in the code
          MB    \* bits of the fraction: 23 or 52 in the code

\* 1 << n.  (A function, so that what it does can be proved.)
Pow2[n \in Nat] == IF n = 0 THEN 1 ELSE 2 * Pow2[n - 1]

SignBit == Pow2[EB + MB]
Patterns == 0 .. 2 * SignBit - 1
Bias == Pow2[EB - 1] - 1
ExpMax == Pow2[EB] - 1

\* No more bits in the fraction than exponents above that of 1.0.
ASSUME WidthsAssumption == EB \in Nat \ {0, 1} /\ MB \in 1 .. Bias

Exponent(u) == (u \div Pow2[MB]) % Pow2[EB]
Fraction(u) == u % Pow2[MB]
Unbiased(u) == Exponent(u) - Bias
Signbit(u) == u \div SignBit
Neg(u) == Signbit(u) = 1
Fabs(u) == u % SignBit

Copysign(u, v) == Fabs(u) + SignBit * Signbit(v)

\* __fpclassifyd, __fpclassifyf
Classify(u) ==
    CASE Exponent(u) = ExpMax -> IF Fraction(u) # 0 THEN "nan" ELSE "infinite"
      [] Exponent(u) = 0      -> IF Fraction(u) # 0 THEN "subnormal" ELSE "zero"
      [] OTHER                -> "normal"

Finite(u) == Classify(u) \notin {"nan", "infinite"}

\* +0.0 and 1.0, with the sign of u.
SignedZero(u) == Copysign(0, u)
SignedOne(u) == Copysign(Bias * Pow2[MB], u)

-----------------------------------------------------------------------------
(* trunc, floor and ceil: decode the unbiased exponent e; with fraction    *)
(* bits to lose, clear them, after adding their mask when the result must  *)
(* round away from zero (the carry may run into the exponent).             *)

\* The mask of the fraction bits of u, plus one, for 0 <= e < MB.
Unit(u) == Pow2[MB - Unbiased(u)]
ClearBelow(u, unit) == u - (u % unit)
AwayFromZero(u) == ClearBelow(u + (Unit(u) - 1), Unit(u))

\* Mutant: the early return comes one exponent too soon.
IsIntegralSoon(u) == Unbiased(u) >= MB - 1 \/ (Unbiased(u) >= 0 /\ u % Unit(u) = 0)

\* The early returns: no fraction bits (NaN and infinities too), or none set.
IsIntegral(u) == Unbiased(u) >= MB \/ (Unbiased(u) >= 0 /\ u % Unit(u) = 0)
BelowOne(u) == Unbiased(u) < 0

Trunc(u) == IF IsIntegral(u) THEN u
            ELSE IF BelowOne(u) THEN SignedZero(u)
            ELSE ClearBelow(u, Unit(u))

\* The results for |x| < 1: a zero stays what it is.
Floor(u) == IF IsIntegral(u) \/ Fabs(u) = 0 THEN u
            ELSE IF BelowOne(u) THEN IF Neg(u) THEN SignedOne(u) ELSE SignedZero(u)
            ELSE IF Neg(u) THEN AwayFromZero(u) ELSE ClearBelow(u, Unit(u))

\* Mutant: the zero above a negative fraction loses its sign.
CeilLosesSign(u) == IF IsIntegral(u) \/ Fabs(u) = 0 THEN u
            ELSE IF BelowOne(u) THEN IF Neg(u) THEN 0 ELSE SignedOne(u)
            ELSE IF Neg(u) THEN ClearBelow(u, Unit(u)) ELSE AwayFromZero(u)

Ceil(u) == IF IsIntegral(u) \/ Fabs(u) = 0 THEN u
           ELSE IF BelowOne(u) THEN IF Neg(u) THEN SignedZero(u) ELSE SignedOne(u)
           ELSE IF Neg(u) THEN ClearBelow(u, Unit(u)) ELSE AwayFromZero(u)

-----------------------------------------------------------------------------
(* The reals the patterns stand for, as multiples of the smallest          *)
(* subnormal, and the floating-point addition of the hardware: the exact   *)
(* sum, rounded to MB + 1 significant bits, ties to even.                  *)

AbsVal(v) == IF v < 0 THEN -v ELSE v
Signed(u, v) == IF Neg(u) THEN -v ELSE v

Magnitude(u) == IF Exponent(u) = 0 THEN Fraction(u)
                ELSE (Pow2[MB] + Fraction(u)) * Pow2[Exponent(u) - 1]

Value(u) == Signed(u, Magnitude(u))

\* 1.0
One == Pow2[Bias - 1 + MB]

\* v / unit to the nearest integer, a tie to the even one; v >= 0.
HalfEven(v, unit) ==
    LET q == v \div unit
        r == v % unit
    IN  IF 2 * r > unit \/ (2 * r = unit /\ q % 2 = 1) THEN q + 1 ELSE q

Log2(v) == CHOOSE n \in 0 .. ExpMax + MB : Pow2[n] <= v /\ v < Pow2[n + 1]

\* The unit in the last place of a number of size v.
Ulp(v) == IF v < Pow2[MB] THEN 1 ELSE Pow2[Log2(v) - MB]

Rounded(v) == IF v < 0 THEN -(HalfEven(-v, Ulp(-v)) * Ulp(-v))
              ELSE HalfEven(v, Ulp(v)) * Ulp(v)

\* The pattern, without sign, of a number v >= 0 that has one.
Encode(v) == IF v < Pow2[MB] THEN v
             ELSE (Log2(v) - MB) * Pow2[MB] + v \div Ulp(v)

-----------------------------------------------------------------------------
(* rint: add and subtract 2^MB, in the sign of x.                          *)

ToInt == Pow2[MB] * One

\* Mutant: negative numbers take the path of the positive ones.
RintOneSided(u) ==
    IF Unbiased(u) >= MB THEN u
    ELSE LET y == Rounded(Rounded(Value(u) + ToInt) - ToInt)
         IN  IF y = 0 THEN SignedZero(u) ELSE Copysign(Encode(AbsVal(y)), IF y < 0 THEN SignBit ELSE 0)

Rint(u) ==
    IF Unbiased(u) >= MB THEN u
    ELSE LET y == IF Neg(u) THEN Rounded(Rounded(Value(u) - ToInt) + ToInt)
                  ELSE Rounded(Rounded(Value(u) + ToInt) - ToInt)
         IN  IF y = 0 THEN SignedZero(u)
             ELSE Copysign(Encode(AbsVal(y)), IF y < 0 THEN SignBit ELSE 0)

-----------------------------------------------------------------------------
(* A wasm program applies the functions to a number, one after the other.  *)

VARIABLE x

Init == x \in Patterns

Round == x' \in {Trunc(x), Floor(x), Ceil(x), Rint(x)}
Sign == x' = Fabs(x) \/ \E y \in {0, SignBit} : x' = Copysign(x, y)

Next == Round \/ Sign

Spec == Init /\ [][Next]_x

-----------------------------------------------------------------------------
(* Properties.                                                              *)

RoundsTo(u, w, v) == Classify(w) \in {"zero", "normal"} /\ Value(w) = v * One
                     /\ Signbit(w) = Signbit(u)

\* trunc, floor and ceil of every finite number are the integers that wasm
\* (and IEEE 754) define, exactly, with no carry lost between fraction and
\* exponent, and with the sign of the argument (-0.5 rounds up to -0.0).
DirectedRounding ==
    Finite(x) /\ Unbiased(x) < MB =>
        /\ RoundsTo(x, Trunc(x), Signed(x, AbsVal(Value(x)) \div One))
        /\ RoundsTo(x, Floor(x), Value(x) \div One)
        /\ RoundsTo(x, Ceil(x), -((-Value(x)) \div One))

\* Adding and subtracting 2^MB rounds half to even, as f32.nearest and
\* f64.nearest require, for every number the early return lets through
\* (math_shim.c:166-170), and keeps the sign of what becomes zero.
RintHalfEven ==
    Finite(x) /\ Unbiased(x) < MB =>
        RoundsTo(x, Rint(x), Signed(x, HalfEven(AbsVal(Value(x)), One)))

\* NaN (its payload too), infinities, numbers too large to have a fraction,
\* and what was rounded once already pass through unchanged, whatever the
\* function: rounding twice is rounding once.
RoundedStays ==
    \A w \in IF Unbiased(x) < MB THEN {Trunc(x), Floor(x), Ceil(x), Rint(x)} ELSE {x} :
        Trunc(w) = w /\ Floor(w) = w /\ Ceil(w) = w /\ Rint(w) = w

=============================================================================
