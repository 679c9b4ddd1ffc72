--------------------------- MODULE MathShimProofs ---------------------------
(***************************************************************************)
(* The rounding functions are right on every pattern, for all widths of    *)
(* exponent and fraction, those of float and double among them.            *)
(*                                                                         *)
(* The library's induction theorems take a predicate; SetInduction says    *)
(* the same of a set, and what a recursive definition computes is then     *)
(* proved by induction over the set of numbers for which it is so.         *)
(***************************************************************************)
EXTENDS MathShim, WellFoundedInduction, TLAPS

-----------------------------------------------------------------------------
(* Induction, and the powers of two.                                       *)

LessThan == {ss \in Nat \X Nat : ss[1] < ss[2]}

\* The natural numbers are well ordered.
LEMMA NatWellOrdered == IsWellFoundedOn(LessThan, Nat)
  BY NatLessThanWellFounded DEF OpToRel, LessThan

\* A set of numbers with 0 and every successor is the set of all numbers.
LEMMA SetInduction ==
    ASSUME NEW S \in SUBSET Nat, 0 \in S, \A n \in S : n + 1 \in S
    PROVE  S = Nat
<1> DEFINE T == Nat \ S
<1>1. SUFFICES ASSUME T # {} PROVE FALSE
  OBVIOUS
<1>2. PICK n \in T : \A m \in T : <<m, n>> \notin LessThan
  <2>1. T \subseteq Nat
    OBVIOUS
  <2> HIDE DEF T
  <2> QED
    BY <1>1, <2>1, NatWellOrdered, WFMin
<1>3. n \in Nat /\ n # 0
  OBVIOUS
<1>4. n - 1 \in T
  BY <1>3
<1>5. <<n - 1, n>> \in LessThan
  BY <1>3 DEF LessThan
<1> QED
  BY <1>2, <1>4, <1>5

\* f follows the recursion of Pow2 as far as n.
Upto(f, n) == /\ f \in [0 .. n -> Nat]
              /\ f[0] = 1
              /\ \A i \in 1 .. n : f[i] = 2 * f[i - 1]

\* There is such an f for every n.
LEMMA UptoExists == \A n \in Nat : \E f : Upto(f, n)
<1> DEFINE S == {n \in Nat : \E f : Upto(f, n)}
<1>1. 0 \in S
  <2>1. Upto([i \in 0 .. 0 |-> 1], 0)
    BY DEF Upto
  <2> QED
    BY <2>1
<1>2. ASSUME NEW n \in S PROVE n + 1 \in S
  <2>1. PICK f : Upto(f, n)
    OBVIOUS
  <2> DEFINE g == [i \in 0 .. n + 1 |-> IF i = n + 1 THEN 2 * f[n] ELSE f[i]]
  <2>2. Upto(g, n + 1)
    BY <2>1 DEF Upto
  <2> QED
    BY <2>2
<1>3. S \in SUBSET Nat
  OBVIOUS
<1> HIDE DEF S
<1>4. S = Nat
  BY <1>1, <1>2, <1>3, SetInduction
<1> QED
  BY <1>4 DEF S

\* And no two that differ.
LEMMA UptoAgree ==
    ASSUME NEW f, NEW g, NEW m \in Nat, NEW n \in Nat, Upto(f, m), Upto(g, n), m <= n
    PROVE  \A i \in 0 .. m : f[i] = g[i]
<1> DEFINE S == {i \in Nat : i <= m => f[i] = g[i]}
<1>1. 0 \in S
  BY DEF Upto
<1>2. ASSUME NEW i \in S PROVE i + 1 \in S
  BY DEF Upto
<1>3. S \in SUBSET Nat
  OBVIOUS
<1> HIDE DEF S
<1>4. S = Nat
  BY <1>1, <1>2, <1>3, SetInduction
<1> QED
  BY <1>4 DEF S

\* So the recursion defines a function.
LEMMA Pow2Def == Pow2 = [n \in Nat |-> IF n = 0 THEN 1 ELSE 2 * Pow2[n - 1]]
<1> DEFINE F(n) == CHOOSE f : Upto(f, n)
           h == [n \in Nat |-> F(n)[n]]
           rec(f) == [n \in Nat |-> IF n = 0 THEN 1 ELSE 2 * f[n - 1]]
<1>1. ASSUME NEW n \in Nat PROVE Upto(F(n), n)
  BY UptoExists
<1>2. h[0] = 1
  BY <1>1 DEF Upto
<1>3. ASSUME NEW n \in Nat, n # 0 PROVE h[n] = 2 * h[n - 1]
  <2>1. Upto(F(n), n) /\ Upto(F(n - 1), n - 1) /\ n - 1 \in Nat /\ n - 1 <= n
    BY <1>1, <1>3
  <2> HIDE DEF F
  <2>2. F(n - 1)[n - 1] = F(n)[n - 1]
    BY <2>1, UptoAgree
  <2>3. F(n)[n] = 2 * F(n)[n - 1]
    BY <2>1, <1>3 DEF Upto
  <2> QED
    BY <2>1, <2>2, <2>3
<1>4. h = rec(h)
  <2> HIDE DEF F
  <2> QED
    BY <1>2, <1>3
<1>5. \E f : f = rec(f)
  <2> HIDE DEF h, rec
  <2> QED
    BY <1>4
<1>6. Pow2 = CHOOSE f : f = rec(f)
  BY DEF Pow2
<1>7. Pow2 = rec(Pow2)
  <2> HIDE DEF rec
  <2> QED
    BY <1>5, <1>6
<1> QED
  BY <1>7

\* Its values, one after the other.
LEMMA Pow2Step == Pow2[0] = 1 /\ \A n \in Nat : Pow2[n + 1] = 2 * Pow2[n]
<1>1. ASSUME NEW n \in Nat PROVE Pow2[n + 1] = 2 * Pow2[n]
  <2>1. n + 1 \in Nat /\ n + 1 # 0 /\ (n + 1) - 1 = n
    OBVIOUS
  <2> QED
    BY <2>1, Pow2Def
<1> QED
  BY <1>1, Pow2Def

\* A power of two is a positive number.
LEMMA Pow2Nat == \A n \in Nat : Pow2[n] \in Nat \ {0}
<1> DEFINE S == {n \in Nat : Pow2[n] \in Nat \ {0}}
<1>1. 0 \in S /\ \A n \in S : n + 1 \in S
  BY Pow2Step
<1>2. S \in SUBSET Nat
  OBVIOUS
<1> HIDE DEF S
<1>3. S = Nat
  BY <1>1, <1>2, SetInduction
<1> QED
  BY <1>3 DEF S

\* Exponents add up.
LEMMA Pow2Sum == \A m, n \in Nat : Pow2[m + n] = Pow2[m] * Pow2[n]
<1> SUFFICES ASSUME NEW m \in Nat PROVE \A n \in Nat : Pow2[m + n] = Pow2[m] * Pow2[n]
  OBVIOUS
<1> DEFINE S == {n \in Nat : Pow2[m + n] = Pow2[m] * Pow2[n]}
<1>1. 0 \in S
  BY Pow2Step, Pow2Nat
<1>2. ASSUME NEW n \in S PROVE n + 1 \in S
  <2>1. m + n \in Nat /\ m + (n + 1) = (m + n) + 1
    OBVIOUS
  <2>2. Pow2[m + (n + 1)] = 2 * Pow2[m + n] /\ Pow2[n + 1] = 2 * Pow2[n]
    BY <2>1, Pow2Step
  <2>3. Pow2[m] \in Nat /\ Pow2[n] \in Nat /\ Pow2[m + n] = Pow2[m] * Pow2[n]
    BY Pow2Nat
  <2>4. \A a, b \in Nat : 2 * (a * b) = a * (2 * b)
    OBVIOUS
  <2> QED
    BY <2>1, <2>2, <2>3, <2>4
<1>3. S \in SUBSET Nat
  OBVIOUS
<1> HIDE DEF S
<1>4. S = Nat
  BY <1>1, <1>2, <1>3, SetInduction
<1> QED
  BY <1>4 DEF S

\* The larger exponent has the larger power, twice as large at least.
LEMMA Pow2Less ==
    ASSUME NEW m \in Nat, NEW n \in Nat
    PROVE  /\ m <= n => Pow2[m] <= Pow2[n]
           /\ m < n => 2 * Pow2[m] <= Pow2[n]
<1>1. ASSUME NEW k \in Nat, NEW d \in Nat PROVE Pow2[k] <= Pow2[k + d]
  <2>1. \A a, b \in Nat \ {0} : a <= a * b
    OBVIOUS
  <2> QED
    BY <2>1, Pow2Sum, Pow2Nat
<1>2. ASSUME m <= n PROVE Pow2[m] <= Pow2[n]
  <2>1. n - m \in Nat /\ n = m + (n - m)
    BY <1>2
  <2> QED
    BY <1>1, <2>1
<1>3. ASSUME m < n PROVE 2 * Pow2[m] <= Pow2[n]
  <2>1. n - (m + 1) \in Nat /\ n = (m + 1) + (n - (m + 1)) /\ m + 1 \in Nat
    BY <1>3
  <2> QED
    BY <1>1, <2>1, Pow2Step
<1> QED
  BY <1>2, <1>3

\* float and double have widths WidthsAssumption admits: what is proved here is
\* about the functions that are built.
LEMMA FormatsFit == 23 \in 1 .. Pow2[8 - 1] - 1 /\ 52 \in 1 .. Pow2[11 - 1] - 1
<1>1. Pow2[1] = 2 /\ Pow2[2] = 4 /\ Pow2[3] = 8 /\ Pow2[4] = 16 /\ Pow2[5] = 32
  <2>1. Pow2[1] = 2 * Pow2[0] /\ Pow2[2] = 2 * Pow2[1] /\ Pow2[3] = 2 * Pow2[2]
    BY Pow2Step, 0 + 1 = 1, 1 + 1 = 2, 2 + 1 = 3
  <2>2. Pow2[4] = 2 * Pow2[3] /\ Pow2[5] = 2 * Pow2[4]
    BY Pow2Step, 3 + 1 = 4, 4 + 1 = 5
  <2> QED
    BY <2>1, <2>2, Pow2Step
<1>2. Pow2[7] = Pow2[5] * Pow2[2] /\ Pow2[10] = Pow2[5] * Pow2[5]
  BY Pow2Sum, 5 + 2 = 7, 5 + 5 = 10
<1> QED
  BY <1>1, <1>2

\* Every positive number has a logarithm.
LEMMA LogExists ==
    \A n \in Nat : \A v \in 1 .. Pow2[n] - 1 :
        \E k \in Nat : k < n /\ Pow2[k] <= v /\ v < Pow2[k + 1]
<1> DEFINE Has(v, n) == \E k \in Nat : k < n /\ Pow2[k] <= v /\ v < Pow2[k + 1]
           S == {n \in Nat : \A v \in 1 .. Pow2[n] - 1 : Has(v, n)}
<1>1. 0 \in S
  BY Pow2Step
<1>2. ASSUME NEW n \in S PROVE n + 1 \in S
  <2>1. SUFFICES ASSUME NEW v \in 1 .. Pow2[n + 1] - 1 PROVE Has(v, n + 1)
    OBVIOUS
  <2>2. Pow2[n] \in Nat /\ Pow2[n + 1] \in Nat /\ n + 1 \in Nat
    BY Pow2Nat
  <2>3. CASE v < Pow2[n]
    <3>1. Has(v, n)
      BY <2>2, <2>3
    <3> QED
      BY <3>1
  <2>4. CASE Pow2[n] <= v
    BY <2>2, <2>4
  <2> QED
    BY <2>2, <2>3, <2>4
<1>3. S \in SUBSET Nat
  OBVIOUS
<1> HIDE DEF S
<1>4. S = Nat
  BY <1>1, <1>2, <1>3, SetInduction
<1> QED
  BY <1>4 DEF S

-----------------------------------------------------------------------------
(* Division.                                                                *)

\* What quotient and remainder are.
LEMMA DivMod ==
    ASSUME NEW a \in Int, NEW b \in Nat \ {0}
    PROVE  a \div b \in Int /\ a % b \in 0 .. b - 1 /\ a = b * (a \div b) + (a % b)
  OBVIOUS

\* And that nothing else is.
LEMMA DivUnique ==
    ASSUME NEW a \in Int, NEW b \in Nat \ {0}, NEW q \in Int, NEW r \in 0 .. b - 1,
           a = b * q + r
    PROVE  a \div b = q /\ a % b = r
<1>1. PICK p \in Int, t \in 0 .. b - 1 : p = a \div b /\ t = a % b /\ a = b * p + t
  BY DivMod
<1>2. b * (p - q) = r - t
  BY <1>1
<1>3. ~(p - q >= 1)
  <2> SUFFICES ASSUME p - q >= 1 PROVE FALSE
    OBVIOUS
  <2>1. b * (p - q) >= b
    BY <1>1
  <2> QED
    BY <1>1, <1>2, <2>1
<1>4. ~(p - q <= -1)
  <2> SUFFICES ASSUME p - q <= -1 PROVE FALSE
    OBVIOUS
  <2>1. b * (p - q) <= -b
    BY <1>1
  <2> QED
    BY <1>1, <1>2, <2>1
<1>5. p = q
  BY <1>1, <1>3, <1>4
<1> QED
  BY <1>1, <1>5

-----------------------------------------------------------------------------
(* The fields of a pattern.                                                *)

\* The leading bit that a normal number has and its pattern has not.
Hidden == Pow2[MB]

\* What the widths say of the constants of the format.
LEMMA Widths ==
    /\ MB \in Nat /\ MB >= 1 /\ Bias \in Nat /\ MB <= Bias
    /\ Hidden \in Nat \ {0} /\ One \in Nat \ {0} /\ SignBit \in Nat \ {0}
    /\ ExpMax = 2 * Bias + 1 /\ SignBit = Hidden * (ExpMax + 1)
    /\ Pow2[EB] = ExpMax + 1 /\ Hidden <= One /\ ToInt = Hidden * One
    /\ Hidden = 2 * Pow2[MB - 1] /\ Pow2[MB - 1] \in Nat
<1>1. EB - 1 \in Nat /\ EB \in Nat /\ (EB - 1) + 1 = EB
  BY WidthsAssumption
<1>2. Pow2[EB - 1] \in Nat \ {0} /\ Pow2[EB] = 2 * Pow2[EB - 1]
  BY <1>1, Pow2Nat, Pow2Step
<1>3. Bias \in Nat /\ MB \in Nat /\ 1 <= MB /\ MB <= Bias
  BY <1>2, WidthsAssumption DEF Bias
<1>4. ExpMax = 2 * Bias + 1 /\ Pow2[EB] = ExpMax + 1
  BY <1>2 DEF ExpMax, Bias
<1>5. Hidden \in Nat \ {0}
  BY <1>3, Pow2Nat DEF Hidden
<1>6. SignBit = Hidden * (ExpMax + 1)
  <2>1. SignBit = Pow2[EB] * Hidden
    BY <1>1, <1>3, Pow2Sum DEF SignBit, Hidden
  <2> QED
    BY <1>2, <1>4, <1>5, <2>1
<1>7. SignBit \in Nat \ {0}
  BY <1>1, <1>3, Pow2Nat DEF SignBit
<1>8. One \in Nat \ {0} /\ Hidden <= One
  <2>1. Bias - 1 + MB \in Nat /\ MB <= Bias - 1 + MB
    BY <1>3
  <2> QED
    BY <1>3, <2>1, Pow2Nat, Pow2Less DEF One, Hidden
<1>9. Hidden = 2 * Pow2[MB - 1] /\ Pow2[MB - 1] \in Nat
  <2>1. MB - 1 \in Nat /\ (MB - 1) + 1 = MB
    BY <1>3
  <2> QED
    BY <2>1, Pow2Step, Pow2Nat DEF Hidden
<1> QED
  BY <1>3, <1>4, <1>5, <1>6, <1>7, <1>8, <1>9 DEF ToInt, Hidden

\* The pattern with these fields.
Pack(s, e, f) == s * SignBit + (Hidden * e + f)

\* It has them.
LEMMA PackFields ==
    ASSUME NEW s \in {0, 1}, NEW e \in 0 .. ExpMax, NEW f \in 0 .. Hidden - 1,
           NEW u, u = Pack(s, e, f)
    PROVE  /\ u \in Patterns
           /\ Exponent(u) = e /\ Fraction(u) = f /\ Signbit(u) = s
           /\ Fabs(u) = Hidden * e + f
<1> DEFINE r == Hidden * e + f
<1> USE Widths
<1>1. ExpMax \in Nat /\ e \in Nat /\ f \in Nat /\ s \in Nat
  OBVIOUS
<1>2. r \in 0 .. SignBit - 1
  <2>1. Hidden * e <= Hidden * ExpMax /\ Hidden * e \in Nat /\ Hidden * ExpMax \in Nat
    BY <1>1
  <2>2. SignBit = Hidden * ExpMax + Hidden
    BY <1>1
  <2> QED
    BY <1>1, <2>1, <2>2
<1>3. u = SignBit * s + r /\ u \in Nat
  BY <1>1, <1>2 DEF Pack
<1>4. Signbit(u) = s /\ Fabs(u) = r
  <2>1. u \in Int /\ s \in Int /\ SignBit \in Nat \ {0}
    BY <1>1, <1>3
  <2> HIDE DEF r
  <2>2. u \div SignBit = s /\ u % SignBit = r
    BY ONLY <1>2, <1>3, <2>1, DivUnique, Zenon
  <2> QED
    BY <2>2 DEF Signbit, Fabs
<1>5. u \in Patterns
  <2> HIDE DEF r
  <2> QED
    BY <1>2, <1>3 DEF Patterns
<1>6. u = Hidden * ((ExpMax + 1) * s + e) + f
  <2>1. SignBit * s = Hidden * ((ExpMax + 1) * s)
    BY <1>1
  <2>2. (ExpMax + 1) * s \in Nat
    BY <1>1
  <2>3. Hidden * ((ExpMax + 1) * s + e) = Hidden * ((ExpMax + 1) * s) + Hidden * e
    BY <1>1, <2>2
  <2> QED
    BY <1>1, <1>3, <2>1, <2>2, <2>3
<1>7. u \div Hidden = (ExpMax + 1) * s + e /\ Fraction(u) = f
  <2>1. (ExpMax + 1) * s + e \in Int /\ u \in Int /\ Hidden \in Nat \ {0}
    BY <1>1, <1>3
  <2>2. u \div Hidden = (ExpMax + 1) * s + e /\ u % Hidden = f
    BY ONLY <1>6, <2>1, DivUnique, f \in 0 .. Hidden - 1, Zenon
  <2> QED
    BY <2>2 DEF Fraction, Hidden
<1>8. Exponent(u) = e
  <2>1. ((ExpMax + 1) * s + e) % (ExpMax + 1) = e
    <3>1. /\ (ExpMax + 1) * s + e \in Int /\ e \in 0 .. (ExpMax + 1) - 1
          /\ ExpMax + 1 \in Nat \ {0} /\ s \in Int
      BY <1>1
    <3> QED
      BY ONLY <3>1, DivUnique, Zenon
  <2> QED
    BY <1>7, <2>1 DEF Exponent, Hidden
<1> QED
  BY <1>4, <1>5, <1>7, <1>8

\* And every pattern is one of these.
LEMMA Fields ==
    ASSUME NEW u \in Patterns
    PROVE  /\ Signbit(u) \in {0, 1} /\ Exponent(u) \in 0 .. ExpMax
           /\ Fraction(u) \in 0 .. Hidden - 1
           /\ u = Pack(Signbit(u), Exponent(u), Fraction(u))
<1> USE Widths
<1>1. u \in Nat /\ u < 2 * SignBit /\ ExpMax \in Nat /\ ExpMax + 1 \in Nat \ {0}
  BY DEF Patterns
<1>2. PICK d \in Int, f \in 0 .. Hidden - 1 :
          d = u \div Hidden /\ f = Fraction(u) /\ u = Hidden * d + f
  <2>1. u \in Int
    BY <1>1
  <2>2. Fraction(u) = u % Hidden
    BY DEF Fraction, Hidden
  <2>3. /\ u \div Hidden \in Int /\ u % Hidden \in 0 .. Hidden - 1
        /\ u = Hidden * (u \div Hidden) + (u % Hidden)
    BY ONLY <2>1, DivMod, Widths, Zenon
  <2> QED
    BY ONLY <2>2, <2>3, Zenon
<1>3. PICK k \in Int, e \in 0 .. ExpMax : e = Exponent(u) /\ d = (ExpMax + 1) * k + e
  <2>1. Exponent(u) = d % (ExpMax + 1)
    BY <1>2 DEF Exponent, Hidden
  <2>2. /\ d \div (ExpMax + 1) \in Int /\ d % (ExpMax + 1) \in 0 .. (ExpMax + 1) - 1
        /\ d = (ExpMax + 1) * (d \div (ExpMax + 1)) + (d % (ExpMax + 1))
    BY ONLY <1>1, DivMod, d \in Int, Zenon
  <2>3. (ExpMax + 1) - 1 = ExpMax
    BY <1>1
  <2> QED
    BY ONLY <2>1, <2>2, <2>3, Zenon
<1>4. u = SignBit * k + (Hidden * e + f)
  <2>1. Hidden * ((ExpMax + 1) * k + e) = (Hidden * (ExpMax + 1)) * k + Hidden * e
    BY <1>1
  <2> QED
    BY <1>2, <1>3, <2>1
<1>5. Hidden * e + f \in 0 .. SignBit - 1
  <2>1. Hidden * e <= Hidden * ExpMax /\ Hidden * e \in Nat /\ Hidden * ExpMax \in Nat
    BY <1>1
  <2>2. SignBit = Hidden * ExpMax + Hidden
    BY <1>1
  <2> QED
    BY <1>1, <2>1, <2>2
<1>6. Signbit(u) = k
  <2>1. u \in Int
    BY <1>1
  <2>2. u \div SignBit = k
    BY ONLY <1>4, <1>5, <2>1, DivUnique, Widths, k \in Int, Zenon
  <2> QED
    BY <2>2 DEF Signbit
<1>7. k \in {0, 1}
  <2>1. SignBit * k > -SignBit /\ SignBit * k < 2 * SignBit
    BY <1>1, <1>4, <1>5
  <2>2. ~(k >= 2) /\ ~(k <= -1)
    BY <2>1
  <2> QED
    BY <2>2
<1>8. u = Pack(k, e, f)
  BY <1>1, <1>4, <1>7 DEF Pack
<1> QED
  BY <1>2, <1>3, <1>6, <1>7, <1>8

-----------------------------------------------------------------------------
(* Magnitudes.                                                              *)

\* The classes by their fields.
LEMMA ClassByFields ==
    ASSUME NEW u
    PROVE  /\ Exponent(u) \in 1 .. ExpMax - 1 => Classify(u) = "normal"
           /\ Exponent(u) = 0 /\ Fraction(u) = 0 => Classify(u) = "zero"
           /\ Exponent(u) = ExpMax <=> ~Finite(u)
<1>1. ExpMax \in Nat /\ ExpMax # 0
  BY Widths
<1> QED
  BY <1>1 DEF Classify, Finite

\* A magnitude is a number, and zero for the two zeros alone.
LEMMA MagnitudeNat ==
    ASSUME NEW u \in Patterns
    PROVE  /\ Magnitude(u) \in Nat
           /\ Magnitude(u) = 0 <=> Exponent(u) = 0 /\ Fraction(u) = 0
           /\ Magnitude(u) = 0 <=> Fabs(u) = 0
<1> USE Widths
<1>1. PICK s \in {0, 1}, e \in 0 .. ExpMax, f \in 0 .. Hidden - 1 :
          s = Signbit(u) /\ e = Exponent(u) /\ f = Fraction(u) /\ u = Pack(s, e, f)
  BY Fields
<1>2. Fabs(u) = Hidden * e + f
  BY <1>1, PackFields
<1>3. ExpMax \in Nat /\ e \in Nat /\ f \in Nat
  OBVIOUS
<1>4. CASE e = 0
  <2>1. Magnitude(u) = f
    BY <1>1, <1>4 DEF Magnitude
  <2>2. Fabs(u) = f
    BY <1>2, <1>3, <1>4
  <2> QED
    BY ONLY <1>1, <1>3, <1>4, <2>1, <2>2
<1>5. CASE e # 0
  <2>1. Pow2[e - 1] \in Nat \ {0}
    BY <1>3, <1>5, Pow2Nat
  <2>2. Magnitude(u) = (Hidden + f) * Pow2[e - 1]
    BY <1>1, <1>5 DEF Magnitude, Hidden
  <2>3. Magnitude(u) \in Nat \ {0}
    BY <1>3, <2>1, <2>2
  <2>4. Hidden * e >= Hidden /\ Hidden * e \in Nat
    BY <1>3, <1>5
  <2>5. Fabs(u) # 0
    BY <1>2, <1>3, <2>4
  <2> QED
    BY ONLY <1>1, <1>5, <2>3, <2>5
<1> QED
  BY <1>4, <1>5

\* What a carry out of the fraction does: the exponent takes it, and the value
\* is the one meant.
LEMMA Carry ==
    ASSUME NEW s \in {0, 1}, NEW e \in 1 .. ExpMax - 2, NEW f \in 0 .. Hidden,
           NEW w, w = Pack(s, e, f)
    PROVE  /\ w \in Patterns /\ Signbit(w) = s /\ Classify(w) = "normal"
           /\ Magnitude(w) = (Hidden + f) * Pow2[e - 1]
<1> USE Widths
<1>1. ExpMax \in Nat /\ e \in Nat /\ f \in Nat
  OBVIOUS
<1>2. CASE f < Hidden
  <2>1. f \in 0 .. Hidden - 1 /\ e \in 0 .. ExpMax
    BY <1>1, <1>2
  <2>2. w \in Patterns /\ Signbit(w) = s /\ Exponent(w) = e /\ Fraction(w) = f
    BY <2>1, PackFields
  <2>3. e \in 1 .. ExpMax - 1 /\ e # 0
    BY <1>1
  <2> QED
    BY <2>2, <2>3, ClassByFields DEF Magnitude, Hidden
<1>3. CASE f = Hidden
  <2>1. w = Pack(s, e + 1, 0)
    <3>1. Hidden * (e + 1) = Hidden * e + Hidden
      BY <1>1
    <3> QED
      BY <1>1, <1>3, <3>1 DEF Pack
  <2>2. e + 1 \in 0 .. ExpMax /\ 0 \in 0 .. Hidden - 1
    BY <1>1
  <2>3. w \in Patterns /\ Signbit(w) = s /\ Exponent(w) = e + 1 /\ Fraction(w) = 0
    BY <2>1, <2>2, PackFields
  <2>4. e + 1 \in 1 .. ExpMax - 1 /\ e + 1 # 0 /\ (e + 1) - 1 = e
    BY <1>1
  <2>5. Magnitude(w) = (Hidden + 0) * Pow2[e]
    <3> QED
      BY <2>3, <2>4 DEF Magnitude, Hidden
  <2>6. Pow2[e] = 2 * Pow2[e - 1] /\ Pow2[e - 1] \in Nat
    <3>1. e - 1 \in Nat /\ (e - 1) + 1 = e
      BY <1>1
    <3> QED
      BY <3>1, Pow2Step, Pow2Nat
  <2>7. (Hidden + 0) * (2 * Pow2[e - 1]) = (Hidden + Hidden) * Pow2[e - 1]
    BY <2>6
  <2> QED
    BY <1>3, <2>3, <2>4, <2>5, <2>6, <2>7, ClassByFields
<1> QED
  BY <1>1, <1>2, <1>3

\* w is the number n, with the sign of u.
Integral(u, w, n) ==
    /\ w \in Patterns /\ Signbit(w) = Signbit(u)
    /\ Classify(w) \in {"zero", "normal"}
    /\ Magnitude(w) = n * One

\* In the words of the properties.
LEMMA IntegralRoundsTo ==
    ASSUME NEW u, NEW w, NEW n \in Int, Integral(u, w, n)
    PROVE  RoundsTo(u, w, Signed(u, n))
<1>1. -(n * One) = (-n) * One /\ n * One \in Int
  BY Widths
<1> QED
  BY <1>1 DEF Integral, RoundsTo, Value, Signed, Neg

\* Signed zeros and ones are what their names say.
LEMMA SmallIntegrals ==
    ASSUME NEW u \in Patterns
    PROVE  Integral(u, SignedZero(u), 0) /\ Integral(u, SignedOne(u), 1)
<1> USE Widths
<1>1. PICK s \in {0, 1} : s = Signbit(u)
  BY Fields
<1>2. /\ 0 = Pack(0, 0, 0) /\ Bias * Hidden = Pack(0, Bias, 0)
      /\ Bias \in 0 .. ExpMax /\ Bias \in 1 .. ExpMax - 1
      /\ 0 \in 0 .. ExpMax /\ 0 \in 0 .. Hidden - 1
  BY DEF Pack
<1>3. Fabs(0) = Hidden * 0 + 0 /\ Fabs(Bias * Hidden) = Hidden * Bias + 0
  BY <1>2, PackFields
<1>4. SignedZero(u) = Pack(s, 0, 0) /\ SignedOne(u) = Pack(s, Bias, 0)
  BY <1>1, <1>3 DEF SignedZero, SignedOne, Copysign, Pack, Hidden
<1>5. Integral(u, Pack(s, 0, 0), 0)
  <2>1. PICK w : w = Pack(s, 0, 0)
    OBVIOUS
  <2>2. w \in Patterns /\ Signbit(w) = s /\ Exponent(w) = 0 /\ Fraction(w) = 0
    BY <1>2, <2>1, PackFields
  <2>3. Magnitude(w) = 0 * One
    BY <2>2 DEF Magnitude
  <2> QED
    BY <1>1, <2>1, <2>2, <2>3, ClassByFields DEF Integral
<1>6. Integral(u, Pack(s, Bias, 0), 1)
  <2>1. PICK w : w = Pack(s, Bias, 0)
    OBVIOUS
  <2>2. w \in Patterns /\ Signbit(w) = s /\ Exponent(w) = Bias /\ Fraction(w) = 0
    BY <1>2, <2>1, PackFields
  <2>3. One = Hidden * Pow2[Bias - 1]
    <3>1. Bias - 1 \in Nat /\ Bias - 1 + MB = MB + (Bias - 1)
      OBVIOUS
    <3> QED
      BY <3>1, Pow2Sum DEF One, Hidden
  <2>4. Magnitude(w) = 1 * One
    <3>1. Magnitude(w) = (Hidden + 0) * Pow2[Bias - 1]
      BY <2>2 DEF Magnitude, Hidden
    <3> QED
      BY <2>3, <3>1
  <2> QED
    BY <1>1, <1>2, <2>1, <2>2, <2>4, ClassByFields DEF Integral
<1> QED
  BY <1>4, <1>5, <1>6

-----------------------------------------------------------------------------
(* The numbers below one, and those with bits on both sides of the point.  *)

\* A number whose unbiased exponent is negative is less than one.
LEMMA BelowOneMagnitude ==
    ASSUME NEW u \in Patterns, BelowOne(u)
    PROVE  Magnitude(u) < One /\ Magnitude(u) \div One = 0 /\ Magnitude(u) % One = Magnitude(u)
<1> USE Widths
<1>1. PICK e \in 0 .. ExpMax, f \in 0 .. Hidden - 1 :
          e = Exponent(u) /\ f = Fraction(u) /\ e < Bias
  BY Fields DEF BelowOne, Unbiased
<1>2. Magnitude(u) < One
  <2>1. CASE e = 0
    <3>1. Magnitude(u) = f
      BY <1>1, <2>1 DEF Magnitude
    <3> QED
      BY <3>1
  <2>2. CASE e # 0
    <3>1. e - 1 \in Nat /\ MB + ((e - 1) + 1) = e + MB /\ e + MB <= Bias - 1 + MB
          /\ Bias - 1 + MB \in Nat /\ e + MB \in Nat
      BY <1>1, <2>2
    <3>2. Pow2[e - 1] \in Nat \ {0} /\ Pow2[(e - 1) + 1] = 2 * Pow2[e - 1]
      BY <3>1, Pow2Nat, Pow2Step
    <3>3. Magnitude(u) = (Hidden + f) * Pow2[e - 1]
      BY <1>1, <2>2 DEF Magnitude, Hidden
    <3>4. (Hidden + f) * Pow2[e - 1] < (Hidden + Hidden) * Pow2[e - 1]
      BY <3>2
    <3>5. (Hidden + Hidden) * Pow2[e - 1] = Hidden * (2 * Pow2[e - 1])
      BY <3>2
    <3>6. Hidden * (2 * Pow2[e - 1]) = Pow2[e + MB]
      <4>1. (e - 1) + 1 \in Nat
        BY <3>1
      <4> QED
        BY <3>1, <3>2, <4>1, Pow2Sum DEF Hidden
    <3>7. Pow2[e + MB] <= One
      BY <3>1, Pow2Less DEF One
    <3>8. (Hidden + f) * Pow2[e - 1] \in Nat /\ Pow2[e + MB] \in Nat
      BY <3>1, <3>2, Pow2Nat
    <3> QED
      BY <3>3, <3>4, <3>5, <3>6, <3>7, <3>8
  <2> QED
    BY <2>1, <2>2
<1>3. Magnitude(u) \in Nat
  BY MagnitudeNat
<1>4. PICK n \in Nat : n = Magnitude(u) /\ n < One
  BY <1>2, <1>3
<1>5. n \in 0 .. One - 1 /\ n \in Int /\ 0 \in Int /\ n = One * 0 + n
  BY <1>4
<1>6. n \div One = 0 /\ n % One = n
  BY ONLY <1>5, DivUnique, Widths, Zenon
<1> QED
  BY <1>4, <1>6

\* Some bits of the fraction are below the point.
Mixed(u) == Unbiased(u) \in 0 .. MB - 1

\* Splitting a pattern at the point: q and r are the bits of the fraction above
\* and below it, and the mask of the code is Unit(u) - 1.
Split(u, e, q, r, k) ==
    /\ e \in 1 .. ExpMax - 2 /\ q \in Nat /\ k \in Nat /\ q < k
    /\ r \in 0 .. Unit(u) - 1 /\ Unit(u) \in Nat \ {0}
    /\ u = Pack(Signbit(u), e, Unit(u) * q + r)
    /\ Hidden = Unit(u) * k /\ One = Unit(u) * Pow2[e - 1]
    /\ Exponent(u) = e /\ Fraction(u) = Unit(u) * q + r
    /\ \E j \in Int : u = Unit(u) * j + r

\* Every such pattern splits.
LEMMA SplitExists ==
    ASSUME NEW u \in Patterns, Mixed(u)
    PROVE  \E e, q, r, k : Split(u, e, q, r, k)
<1> USE Widths
<1>1. PICK s \in {0, 1}, e \in 0 .. ExpMax, f \in 0 .. Hidden - 1 :
          s = Signbit(u) /\ e = Exponent(u) /\ f = Fraction(u) /\ u = Pack(s, e, f)
  BY Fields
<1>2. e \in 1 .. ExpMax - 2 /\ e - Bias \in 0 .. MB - 1
  BY <1>1 DEF Mixed, Unbiased
<1>3. PICK a \in Nat, b \in Nat : a = MB - Unbiased(u) /\ b = e - Bias /\ a + b = MB
  BY <1>1, <1>2 DEF Unbiased
<1>4. PICK unit \in Nat \ {0} : unit = Unit(u) /\ unit = Pow2[a]
  BY <1>3, Pow2Nat DEF Unit
<1>5. PICK k \in Nat \ {0} : k = Pow2[b] /\ Hidden = unit * k
  <2>1. Pow2[a + b] = Pow2[a] * Pow2[b] /\ Pow2[b] \in Nat \ {0}
    BY Pow2Sum, Pow2Nat
  <2> QED
    BY <1>3, <1>4, <2>1 DEF Hidden
<1>6. One = unit * Pow2[e - 1]
  <2>1. e - 1 \in Nat /\ a + (e - 1) = Bias - 1 + MB
    BY <1>2, <1>3
  <2>2. Pow2[a + (e - 1)] = Pow2[a] * Pow2[e - 1]
    BY <2>1, Pow2Sum
  <2> QED
    BY ONLY <1>4, <2>1, <2>2 DEF One
<1>7. PICK q \in Int, r \in 0 .. unit - 1 : f = unit * q + r
  <2>1. f \in Int
    OBVIOUS
  <2> QED
    BY ONLY <2>1, <1>4, DivMod, Zenon
<1>8. q \in Nat /\ q < k
  <2>1. ~(q < 0)
    <3> SUFFICES ASSUME q <= -1 PROVE FALSE
      OBVIOUS
    <3>1. unit * q <= -unit
      OBVIOUS
    <3> QED
      BY <1>7, <3>1
  <2>2. ~(q >= k)
    <3> SUFFICES ASSUME q >= k PROVE FALSE
      OBVIOUS
    <3>1. unit * q >= unit * k
      OBVIOUS
    <3> QED
      BY <1>5, <1>7, <3>1
  <2> QED
    BY <2>1, <2>2
<1>9. \E j \in Int : u = unit * j + r
  <2>1. SignBit = unit * (k * (ExpMax + 1))
    BY <1>5
  <2>2. Hidden * e = unit * (k * e)
    BY <1>5
  <2>3. PICK m \in Int : m = k * (ExpMax + 1) /\ SignBit = unit * m
    BY <2>1
  <2>4. PICK l \in Int : l = k * e /\ Hidden * e = unit * l
    BY <2>2
  <2>5. u = s * (unit * m) + (unit * l + (unit * q + r))
    BY <1>1, <1>7, <2>3, <2>4 DEF Pack
  <2>6. s * (unit * m) + (unit * l + (unit * q + r)) = unit * ((s * m + l) + q) + r
    OBVIOUS
  <2>7. (s * m + l) + q \in Int
    OBVIOUS
  <2> QED
    BY <2>5, <2>6, <2>7
<1>10. Split(u, e, q, r, k)
  BY <1>1, <1>2, <1>4, <1>5, <1>6, <1>7, <1>8, <1>9 DEF Split
<1> QED
  BY <1>10

\* Both parts can be read off the magnitude.
LEMMA SplitMagnitude ==
    ASSUME NEW u \in Patterns, NEW e, NEW q, NEW r, NEW k, Split(u, e, q, r, k)
    PROVE  /\ u % Unit(u) = r
           /\ Magnitude(u) \div One = k + q
           /\ Magnitude(u) % One = 0 <=> r = 0
<1> USE Widths
<1>1. PICK unit \in Nat \ {0}, j \in Int : unit = Unit(u) /\ u = unit * j + r
  BY DEF Split
<1>2. /\ q \in Nat /\ k \in Nat /\ r \in 0 .. unit - 1 /\ e \in 1 .. ExpMax - 2
      /\ Exponent(u) = e /\ Fraction(u) = unit * q + r /\ Hidden = unit * k
  BY <1>1 DEF Split
<1>3. PICK p \in Nat \ {0} : p = Pow2[e - 1] /\ One = unit * p
  <2>1. e - 1 \in Nat
    BY <1>2
  <2> QED
    BY <1>1, <2>1, Pow2Nat DEF Split
<1>4. u % unit = r
  <2>1. u \in Int
    BY <1>1, <1>2
  <2> QED
    BY ONLY <1>1, <1>2, <2>1, DivUnique, Zenon
<1>5. Magnitude(u) = (unit * k + (unit * q + r)) * p
  BY <1>2, <1>3 DEF Magnitude, Hidden
<1>6. (unit * k + (unit * q + r)) * p = (unit * p) * (k + q) + r * p
  BY <1>2
<1>7. PICK t \in Nat : t = r * p /\ t < unit * p /\ (t = 0 <=> r = 0)
  <2>1. r * p \in Nat /\ r * p < unit * p
    BY <1>2
  <2>2. r * p = 0 <=> r = 0
    BY <1>2
  <2> QED
    BY <2>1, <2>2
<1>8. Magnitude(u) = One * (k + q) + t /\ t \in 0 .. One - 1 /\ k + q \in Int /\ Magnitude(u) \in Int
  BY <1>2, <1>3, <1>5, <1>6, <1>7, MagnitudeNat
<1>9. Magnitude(u) \div One = k + q /\ Magnitude(u) % One = t
  BY ONLY <1>8, DivUnique, Widths, Zenon
<1> QED
  BY <1>1, <1>4, <1>7, <1>9

\* Clearing the bits below the point rounds to zero; adding the mask before
\* rounds away from it, unless there was nothing to clear.
LEMMA ClearAndAway ==
    ASSUME NEW u \in Patterns, Mixed(u)
    PROVE  /\ Integral(u, ClearBelow(u, Unit(u)), Magnitude(u) \div One)
           /\ u % Unit(u) # 0 => Integral(u, AwayFromZero(u), Magnitude(u) \div One + 1)
           /\ Magnitude(u) % One = 0 <=> u % Unit(u) = 0
<1> USE Widths
<1>1. PICK e, q, r, k : Split(u, e, q, r, k)
  BY SplitExists
<1>2. PICK unit \in Nat \ {0}, j \in Int, s \in {0, 1} :
          unit = Unit(u) /\ u = unit * j + r /\ s = Signbit(u)
  BY <1>1, Fields DEF Split
<1>3. /\ e \in 1 .. ExpMax - 2 /\ q \in Nat /\ k \in Nat /\ q < k /\ r \in 0 .. unit - 1
      /\ u = Pack(s, e, unit * q + r) /\ Hidden = unit * k /\ One = unit * Pow2[e - 1]
  BY <1>1, <1>2 DEF Split
<1>4. u % unit = r /\ Magnitude(u) \div One = k + q /\ (Magnitude(u) % One = 0 <=> r = 0)
  <2>1. /\ u % Unit(u) = r /\ Magnitude(u) \div One = k + q
        /\ (Magnitude(u) % One = 0 <=> r = 0)
    BY ONLY <1>1, u \in Patterns, SplitMagnitude, SMT
  <2> QED
    BY <1>2, <2>1
<1>5. unit * q \in Nat /\ unit * q + unit <= Hidden /\ unit * (q + 1) = unit * q + unit
  <2>1. unit * (q + 1) <= unit * k
    BY <1>3
  <2> QED
    BY <1>3, <2>1
<1>6. PICK p \in Nat : p = Pow2[e - 1] /\ One = unit * p
  <2>1. e - 1 \in Nat
    BY <1>3
  <2> QED
    BY <1>3, <2>1, Pow2Nat
\* The pattern whose fraction ends at the point after the n-th unit.
<1>7. ASSUME NEW n \in Nat, unit * n <= Hidden, NEW w, w = Pack(s, e, unit * n)
      PROVE  Integral(u, w, k + n)
  <2>1. unit * n \in 0 .. Hidden
    BY <1>7
  <2>2. /\ w \in Patterns /\ Signbit(w) = s /\ Classify(w) = "normal"
        /\ Magnitude(w) = (Hidden + unit * n) * Pow2[e - 1]
    <3>1. e \in 1 .. ExpMax - 2
      BY <1>3
    <3> QED
      BY ONLY <1>7, <2>1, <3>1, Carry, s \in {0, 1}, Zenon
  <2>3. (unit * k + unit * n) * p = (k + n) * (unit * p)
    BY <1>3
  <2> QED
    BY <1>2, <1>3, <1>6, <2>2, <2>3 DEF Integral
<1>8. PICK high \in Int :
          high = s * SignBit + Hidden * e /\ \A f \in Int : Pack(s, e, f) = high + f
  <2>1. s * SignBit \in Int /\ Hidden * e \in Int
    BY <1>3
  <2>2. \A f \in Int : Pack(s, e, f) = (s * SignBit + Hidden * e) + f
    <3>1. \A a, b, f \in Int : a + (b + f) = (a + b) + f
      OBVIOUS
    <3> QED
      BY ONLY <2>1, <3>1, Zenon DEF Pack
  <2>3. s * SignBit + Hidden * e \in Int
    BY <2>1
  <2> QED
    BY ONLY <2>2, <2>3, Zenon
<1>9. ClearBelow(u, Unit(u)) = Pack(s, e, unit * q)
  <2>1. Pack(s, e, unit * q + r) = high + (unit * q + r) /\ Pack(s, e, unit * q) = high + unit * q
    BY <1>3, <1>5, <1>8
  <2>2. ClearBelow(u, Unit(u)) = u - r
    BY <1>2, <1>4 DEF ClearBelow
  <2> QED
    BY <1>3, <1>5, <2>1, <2>2
<1>10. ASSUME r # 0 PROVE AwayFromZero(u) = Pack(s, e, unit * (q + 1))
  <2>1. PICK v \in Int : v = u + (unit - 1) /\ v = unit * (j + 1) + (r - 1)
    <3>1. unit * (j + 1) = unit * j + unit
      OBVIOUS
    <3> QED
      BY <1>2, <1>3, <3>1
  <2>2. v % unit = r - 1
    <3>1. j + 1 \in Int /\ r - 1 \in 0 .. unit - 1
      BY <1>3, <1>10
    <3> QED
      BY ONLY <2>1, <3>1, DivUnique, v \in Int, unit \in Nat \ {0}, Zenon
  <2>3. AwayFromZero(u) = v - (r - 1)
    BY <1>2, <2>1, <2>2 DEF AwayFromZero, ClearBelow
  <2>4. /\ Pack(s, e, unit * q + r) = high + (unit * q + r)
        /\ Pack(s, e, unit * (q + 1)) = high + (unit * q + unit)
    BY <1>3, <1>5, <1>8
  <2> QED
    BY <1>3, <1>5, <2>1, <2>3, <2>4
<1>11. Integral(u, ClearBelow(u, Unit(u)), k + q)
  <2>1. unit * q <= Hidden
    BY <1>5
  <2> QED
    BY ONLY <1>3, <1>7, <1>9, <2>1, Zenon
<1>12. ASSUME r # 0 PROVE Integral(u, AwayFromZero(u), (k + q) + 1)
  <2>1. Integral(u, AwayFromZero(u), k + (q + 1))
    <3>1. q + 1 \in Nat /\ unit * (q + 1) <= Hidden
      BY <1>3, <1>5
    <3> QED
      BY ONLY <1>7, <1>10, <1>12, <3>1, Zenon
  <2> QED
    BY <1>3, <2>1
<1> QED
  BY <1>2, <1>4, <1>11, <1>12

-----------------------------------------------------------------------------
(* trunc, floor and ceil.                                                  *)

\* What is left of the cases: below one, and on both sides of the point.
LEMMA TwoCases ==
    ASSUME NEW u \in Patterns, Unbiased(u) < MB
    PROVE  Unbiased(u) \in Int /\ (BelowOne(u) \/ Mixed(u)) /\ ~(BelowOne(u) /\ Mixed(u))
<1>1. Unbiased(u) \in Int
  BY Fields, Widths DEF Unbiased
<1> QED
  BY <1>1, Widths DEF BelowOne, Mixed

\* The early return of an integral number is taken exactly then.
LEMMA IntegralReturn ==
    ASSUME NEW u \in Patterns, Mixed(u)
    PROVE  /\ IsIntegral(u) <=> Magnitude(u) % One = 0
           /\ IsIntegral(u) => ClearBelow(u, Unit(u)) = u
<1>1. u \in Int
  BY DEF Patterns
<1>2. Unbiased(u) \in Int /\ Unbiased(u) >= 0 /\ ~(Unbiased(u) >= MB)
  BY Widths DEF Mixed
<1>3. IsIntegral(u) <=> u % Unit(u) = 0
  BY <1>2 DEF IsIntegral
<1>4. Magnitude(u) % One = 0 <=> u % Unit(u) = 0
  BY ClearAndAway
<1> QED
  BY <1>1, <1>3, <1>4 DEF ClearBelow

\* trunc is the integer part.
LEMMA TruncIntegral ==
    ASSUME NEW u \in Patterns, Unbiased(u) < MB
    PROVE  Integral(u, Trunc(u), Magnitude(u) \div One)
<1>1. CASE Mixed(u)
  BY <1>1, TwoCases, ClearAndAway, IntegralReturn DEF Trunc
<1>2. CASE BelowOne(u)
  <2>1. ~IsIntegral(u)
    BY <1>2, TwoCases, Widths DEF IsIntegral, BelowOne
  <2> QED
    BY <1>2, <2>1, BelowOneMagnitude, SmallIntegrals DEF Trunc
<1> QED
  BY <1>1, <1>2, TwoCases

\* floor and ceil are the integer part too, or the integer next to it away
\* from zero: floor of a negative and ceil of a positive number with a fraction.
LEMMA FloorCeilIntegral ==
    ASSUME NEW u \in Patterns, Unbiased(u) < MB
    PROVE  LET part == Magnitude(u) \div One
               whole == Magnitude(u) % One = 0
           IN  /\ Integral(u, Floor(u), IF ~whole /\ Neg(u) THEN part + 1 ELSE part)
               /\ Integral(u, Ceil(u), IF ~whole /\ ~Neg(u) THEN part + 1 ELSE part)
<1>1. CASE Mixed(u)
  <2>1. CASE Magnitude(u) % One = 0
    <3>1. Floor(u) = u /\ Ceil(u) = u /\ ClearBelow(u, Unit(u)) = u
      BY <1>1, <2>1, IntegralReturn DEF Floor, Ceil
    <3> QED
      BY <1>1, <2>1, <3>1, ClearAndAway
  <2>2. CASE Magnitude(u) % One # 0
    <3>1. ~IsIntegral(u) /\ u % Unit(u) # 0 /\ ~BelowOne(u)
      BY <1>1, <2>2, IntegralReturn, ClearAndAway, TwoCases
    <3>2. Fabs(u) # 0
      <4>1. Magnitude(u) # 0
        <5>1. 0 % One = 0
          BY Widths
        <5> QED
          BY <2>2, <5>1
      <4> QED
        BY <4>1, MagnitudeNat
    <3> QED
      BY <1>1, <2>2, <3>1, <3>2, ClearAndAway DEF Floor, Ceil
  <2> QED
    BY <2>1, <2>2
<1>2. CASE BelowOne(u)
  <2>1. ~IsIntegral(u)
    BY <1>2, TwoCases, Widths DEF IsIntegral, BelowOne
  <2>2. Magnitude(u) \div One = 0 /\ Magnitude(u) % One = Magnitude(u)
    BY <1>2, BelowOneMagnitude
  <2>3. CASE Fabs(u) = 0
    <3>1. Magnitude(u) = 0 /\ Exponent(u) = 0 /\ Fraction(u) = 0
      BY <2>3, MagnitudeNat
    <3>2. Integral(u, u, 0)
      BY <3>1, ClassByFields, Widths DEF Integral
    <3> QED
      BY <2>2, <2>3, <3>1, <3>2 DEF Floor, Ceil
  <2>4. CASE Fabs(u) # 0
    <3>1. Magnitude(u) # 0
      BY <2>4, MagnitudeNat
    <3>2. 0 + 1 = 1
      OBVIOUS
    <3> QED
      BY <1>2, <2>1, <2>2, <2>4, <3>1, <3>2, SmallIntegrals DEF Floor, Ceil
  <2> QED
    BY <2>3, <2>4
<1> QED
  BY <1>1, <1>2, TwoCases

\* Dividing a negative number rounds away from zero.
LEMMA NegDiv ==
    ASSUME NEW n \in Nat, NEW d \in Nat \ {0}
    PROVE  (-n) \div d = IF n % d = 0 THEN -(n \div d) ELSE -(n \div d + 1)
<1>1. PICK q \in Int, r \in 0 .. d - 1 : q = n \div d /\ r = n % d /\ n = d * q + r
  <2>1. n \in Int
    OBVIOUS
  <2> QED
    BY ONLY <2>1, d \in Nat \ {0}, DivMod, Zenon
<1>2. CASE r = 0
  <2>1. -n \in Int /\ -q \in Int /\ 0 \in 0 .. d - 1 /\ -n = d * (-q) + 0
    BY <1>1, <1>2
  <2>2. (-n) \div d = -q
    BY ONLY <2>1, d \in Nat \ {0}, DivUnique, Zenon
  <2> QED
    BY <1>1, <1>2, <2>2
<1>3. CASE r # 0
  <2>1. d * (-(q + 1)) = -(d * q) - d
    OBVIOUS
  <2>2. /\ -n \in Int /\ -(q + 1) \in Int /\ d - r \in 0 .. d - 1
        /\ -n = d * (-(q + 1)) + (d - r)
    BY <1>1, <1>3, <2>1
  <2>3. (-n) \div d = -(q + 1)
    BY ONLY <2>2, d \in Nat \ {0}, DivUnique, Zenon
  <2> QED
    BY <1>1, <1>3, <2>3
<1> QED
  BY <1>2, <1>3

\* trunc, floor and ceil in the words of the property.
LEMMA DirectedRoundingHolds == x \in Patterns => DirectedRounding
<1> SUFFICES ASSUME x \in Patterns, Finite(x), Unbiased(x) < MB
             PROVE  /\ RoundsTo(x, Trunc(x), Signed(x, AbsVal(Value(x)) \div One))
                    /\ RoundsTo(x, Floor(x), Value(x) \div One)
                    /\ RoundsTo(x, Ceil(x), -((-Value(x)) \div One))
  BY DEF DirectedRounding
<1>1. PICK n \in Nat, part \in Int, rest \in Int :
          n = Magnitude(x) /\ part = n \div One /\ rest = n % One
  <2>1. Magnitude(x) \in Nat
    BY MagnitudeNat
  <2>2. Magnitude(x) \in Int /\ One \in Nat \ {0}
    BY <2>1, Widths
  <2>3. Magnitude(x) \div One \in Int /\ Magnitude(x) % One \in 0 .. One - 1
    BY ONLY <2>2, DivMod, Zenon
  <2>4. Magnitude(x) % One \in Int
    BY <2>2, <2>3
  <2> QED
    BY <2>1, <2>3, <2>4, Zenon
<1>2. Value(x) = Signed(x, n) /\ AbsVal(Value(x)) = n
  BY <1>1 DEF Value, AbsVal, Signed
<1>3. RoundsTo(x, Trunc(x), Signed(x, part))
  BY <1>1, TruncIntegral, IntegralRoundsTo
<1>4. (-n) \div One = IF rest = 0 THEN -part ELSE -(part + 1)
  BY <1>1, NegDiv, Widths
<1>5. /\ Integral(x, Floor(x), IF rest # 0 /\ Neg(x) THEN part + 1 ELSE part)
      /\ Integral(x, Ceil(x), IF rest # 0 /\ ~Neg(x) THEN part + 1 ELSE part)
  BY <1>1, FloorCeilIntegral
<1>6. RoundsTo(x, Floor(x), Value(x) \div One)
  <2>1. CASE Neg(x)
    <3>1. RoundsTo(x, Floor(x), Signed(x, IF rest # 0 THEN part + 1 ELSE part))
      BY <1>5, <2>1, IntegralRoundsTo
    <3> QED
      BY <1>2, <1>4, <2>1, <3>1 DEF Signed
  <2>2. CASE ~Neg(x)
    <3>1. RoundsTo(x, Floor(x), Signed(x, part))
      BY <1>5, <2>2, IntegralRoundsTo
    <3> QED
      BY <1>1, <1>2, <2>2, <3>1 DEF Signed
  <2> QED
    BY <2>1, <2>2
<1>7. RoundsTo(x, Ceil(x), -((-Value(x)) \div One))
  <2>1. CASE Neg(x)
    <3>1. RoundsTo(x, Ceil(x), Signed(x, part))
      BY <1>5, <2>1, IntegralRoundsTo
    <3>2. -Value(x) = n /\ Signed(x, part) = -part
      BY <1>2, <2>1 DEF Signed
    <3> QED
      BY <1>1, <3>1, <3>2
  <2>2. CASE ~Neg(x)
    <3>1. RoundsTo(x, Ceil(x), Signed(x, IF rest # 0 THEN part + 1 ELSE part))
      BY <1>5, <2>2, IntegralRoundsTo
    <3>2. -Value(x) = -n /\ \A v : Signed(x, v) = v
      BY <1>2, <2>2 DEF Signed
    <3>3. -((-n) \div One) = IF rest # 0 THEN part + 1 ELSE part
      BY <1>4
    <3> QED
      BY <3>1, <3>2, <3>3
  <2> QED
    BY <2>1, <2>2
<1> QED
  BY <1>1, <1>2, <1>3, <1>6, <1>7

-----------------------------------------------------------------------------
(* rint.                                                                    *)

\* The logarithm is the exponent of the power of two below.
LEMMA Log2Is ==
    ASSUME NEW n \in 0 .. ExpMax + MB, NEW v \in Nat, Pow2[n] <= v, v < Pow2[n + 1]
    PROVE  Log2(v) = n
<1>1. ExpMax + MB \in Nat /\ n \in Nat
  BY Widths
<1>2. ASSUME NEW m \in 0 .. ExpMax + MB, Pow2[m] <= v, v < Pow2[m + 1] PROVE m = n
  <2>1. m \in Nat /\ n \in Nat /\ m + 1 \in Nat /\ n + 1 \in Nat
    BY <1>1
  <2>2. /\ Pow2[m] \in Nat /\ Pow2[n] \in Nat
        /\ Pow2[m + 1] \in Nat /\ Pow2[n + 1] \in Nat
    BY <2>1, Pow2Nat
  <2>3. ~(m < n)
    <3> SUFFICES ASSUME m + 1 <= n PROVE FALSE
      BY <2>1
    <3>1. Pow2[m + 1] <= Pow2[n]
      BY <2>1, Pow2Less
    <3> QED
      BY <1>2, <2>2, <3>1
  <2>4. ~(n < m)
    <3> SUFFICES ASSUME n + 1 <= m PROVE FALSE
      BY <2>1
    <3>1. Pow2[n + 1] <= Pow2[m]
      BY <2>1, Pow2Less
    <3> QED
      BY <1>2, <2>2, <3>1
  <2> QED
    BY <2>1, <2>3, <2>4
<1> QED
  BY <1>2 DEF Log2

\* Rounding to a unit: the two neighbours, an even quotient added in front
\* changes nothing, and a multiple of the unit stays.
LEMMA HalfEvenFacts ==
    ASSUME NEW v \in Nat, NEW unit \in Nat \ {0}
    PROVE  /\ HalfEven(v, unit) \in {v \div unit, v \div unit + 1}
           /\ HalfEven(v, unit) \in Nat
           /\ \A even \in Nat : HalfEven(v + (2 * even) * unit, unit) = HalfEven(v, unit) + 2 * even
           /\ \A m \in Nat : v = m * unit => HalfEven(v, unit) = m /\ v \div unit = m
<1>1. PICK q \in Nat, r \in 0 .. unit - 1 : q = v \div unit /\ r = v % unit /\ v = unit * q + r
  <2>1. v \in Int
    OBVIOUS
  <2>2. /\ v \div unit \in Int /\ v % unit \in 0 .. unit - 1
        /\ v = unit * (v \div unit) + (v % unit)
    BY ONLY <2>1, unit \in Nat \ {0}, DivMod, Zenon
  <2>3. v \div unit \in Nat
    <3> SUFFICES ASSUME v \div unit <= -1 PROVE FALSE
      BY <2>2
    <3>1. unit * (v \div unit) <= -unit
      BY <2>2
    <3> QED
      BY <2>2, <3>1
  <2> QED
    BY ONLY <2>2, <2>3, Zenon
<1>2. HalfEven(v, unit) = IF 2 * r > unit \/ (2 * r = unit /\ q % 2 = 1) THEN q + 1 ELSE q
  BY <1>1 DEF HalfEven
<1>3. ASSUME NEW even \in Nat
      PROVE  HalfEven(v + (2 * even) * unit, unit) = HalfEven(v, unit) + 2 * even
  <2>1. PICK w \in Int, p \in Int : w = v + (2 * even) * unit /\ p = q + 2 * even
    OBVIOUS
  <2>2. w = unit * p + r
    <3>1. unit * (q + 2 * even) = unit * q + (2 * even) * unit
      OBVIOUS
    <3> QED
      BY <1>1, <2>1, <3>1
  <2>3. w \div unit = p /\ w % unit = r
    BY ONLY <2>2, w \in Int, p \in Int, r \in 0 .. unit - 1, unit \in Nat \ {0}, DivUnique, Zenon
  <2>4. p % 2 = q % 2
    BY <2>1
  <2>5. HalfEven(w, unit) = IF 2 * r > unit \/ (2 * r = unit /\ q % 2 = 1) THEN p + 1 ELSE p
    BY <2>3, <2>4 DEF HalfEven
  <2> QED
    BY <1>2, <2>1, <2>5
<1>4. ASSUME NEW m \in Nat, v = m * unit PROVE HalfEven(v, unit) = m /\ v \div unit = m
  <2>1. m \in Int /\ v \in Int /\ 0 \in 0 .. unit - 1 /\ v = unit * m + 0
    BY <1>4
  <2>2. v \div unit = m /\ v % unit = 0
    BY ONLY <2>1, unit \in Nat \ {0}, DivUnique, Zenon
  <2> QED
    BY <1>1, <1>2, <2>2
<1>5. HalfEven(v, unit) \in {v \div unit, v \div unit + 1} /\ HalfEven(v, unit) \in Nat
  BY <1>1, <1>2
<1> QED
  BY <1>3, <1>4, <1>5

\* The sum with 2^MB has its last place at 1.0: this is what rounds.
LEMMA RintAdds ==
    ASSUME NEW n \in Nat, n < ToInt
    PROVE  /\ HalfEven(n, One) \in 0 .. Hidden
           /\ Rounded(n + ToInt) = (HalfEven(n, One) + Hidden) * One
<1> USE Widths
<1>1. PICK v \in Nat, t \in Nat : v = n + ToInt /\ t = ToInt /\ t = Hidden * One
  <2>1. ToInt \in Nat
    OBVIOUS
  <2> QED
    BY <2>1
<1>2. PICK top \in Nat : top = MB + (Bias - 1 + MB)
  OBVIOUS
<1>3. Pow2[top] = t /\ Pow2[top + 1] = 2 * t
  <2>1. Bias - 1 + MB \in Nat
    OBVIOUS
  <2>2. Pow2[MB + (Bias - 1 + MB)] = Pow2[MB] * Pow2[Bias - 1 + MB]
    BY <2>1, Pow2Sum
  <2> QED
    BY <1>1, <1>2, <2>2, Pow2Step DEF Hidden, One
<1>4. Log2(v) = top
  <2>1. top \in 0 .. ExpMax + MB
    BY <1>2
  <2>2. Pow2[top] <= v /\ v < Pow2[top + 1]
    BY <1>1, <1>3
  <2> QED
    BY <2>1, <2>2, Log2Is
<1>5. Hidden <= t
  <2>1. \A a, b \in Nat \ {0} : a <= a * b
    OBVIOUS
  <2> QED
    BY <1>1, <2>1
<1>6. Ulp(v) = One
  <2>1. ~(v < Pow2[MB])
    BY <1>1, <1>5 DEF Hidden
  <2>2. top - MB = Bias - 1 + MB
    BY <1>2
  <2> QED
    BY <1>4, <2>1, <2>2 DEF Ulp, One
<1>7. HalfEven(v, One) = HalfEven(n, One) + Hidden
  <2>1. PICK half \in Nat : 2 * half = Hidden
    OBVIOUS
  <2>2. v = n + (2 * half) * One
    BY <1>1, <2>1
  <2>3. \A even \in Nat : HalfEven(n + (2 * even) * One, One) = HalfEven(n, One) + 2 * even
    BY ONLY n \in Nat, One \in Nat \ {0}, HalfEvenFacts, Zenon
  <2> QED
    BY <2>1, <2>2, <2>3
<1>8. HalfEven(n, One) \in 0 .. Hidden
  <2>1. n \in Int
    OBVIOUS
  <2>2. n \div One \in Int /\ n % One \in 0 .. One - 1 /\ n = One * (n \div One) + (n % One)
    BY ONLY <2>1, One \in Nat \ {0}, DivMod, Zenon
  <2>3. PICK q \in Int, r \in 0 .. One - 1 : q = n \div One /\ n = One * q + r
    BY ONLY <2>2, Zenon
  <2>4. q < Hidden
    <3> SUFFICES ASSUME q >= Hidden PROVE FALSE
      BY <2>3
    <3>1. One * q >= One * Hidden /\ One * Hidden = Hidden * One
      OBVIOUS
    <3> QED
      BY <1>1, <2>3, <3>1
  <2>5. HalfEven(n, One) \in {q, q + 1} /\ HalfEven(n, One) \in Nat
    BY <2>3, HalfEvenFacts
  <2> QED
    BY <2>3, <2>4, <2>5
<1>9. Rounded(v) = HalfEven(v, One) * One
  BY <1>1, <1>6 DEF Rounded
<1> QED
  BY <1>1, <1>7, <1>8, <1>9

\* Rounding a sum that is zero or negative.
LEMMA RoundedNeg ==
    ASSUME NEW v \in Nat
    PROVE  Rounded(-v) = -Rounded(v) /\ Rounded(0) = 0
<1>1. HalfEven(0, 1) = 0
  BY HalfEvenFacts
<1>2. Ulp(0) = 1
  BY Widths DEF Ulp, Hidden
<1>3. Rounded(0) = 0
  BY <1>1, <1>2 DEF Rounded
<1>4. CASE v = 0
  BY <1>3, <1>4
<1>5. CASE v > 0
  <2>1. -v < 0 /\ -(-v) = v /\ ~(v < 0)
    BY <1>5
  <2> QED
    BY <1>3, <2>1 DEF Rounded
<1> QED
  BY <1>3, <1>4, <1>5

\* An integer up to 2^MB has a pattern: rounding leaves it, and Encode finds it.
LEMMA IntegerEncodes ==
    ASSUME NEW h \in 1 .. Hidden
    PROVE  /\ Rounded(h * One) = h * One
           /\ \E e \in 1 .. ExpMax - 1, f \in 0 .. Hidden - 1 :
                  Encode(h * One) = Hidden * e + f /\ (Hidden + f) * Pow2[e - 1] = h * One
<1> USE Widths
<1>1. PICK v \in Nat : v = h * One /\ One <= v /\ v <= ToInt
  <2>1. \A a, b, c \in Nat : a <= b => a * c <= b * c
    OBVIOUS
  <2>2. 1 * One <= h * One /\ h * One <= Hidden * One
    BY <2>1
  <2> QED
    BY <2>2
<1>2. PICK low \in Nat : low = Bias - 1 + MB
  OBVIOUS
<1>3. PICK n \in Nat : n <= MB + low /\ Pow2[n] <= v /\ v < Pow2[n + 1]
  <2>1. MB + low + 1 \in Nat /\ MB + low \in Nat
    BY <1>2
  <2>2. Pow2[MB + low] = ToInt
    BY <1>2, Pow2Sum DEF Hidden, One
  <2>3. Pow2[MB + low + 1] = 2 * Pow2[MB + low] /\ Pow2[MB + low] \in Nat \ {0}
    BY <2>1, Pow2Step, Pow2Nat
  <2>4. v \in 1 .. Pow2[MB + low + 1] - 1
    BY <1>1, <2>2, <2>3
  <2>5. PICK k \in Nat : k < MB + low + 1 /\ Pow2[k] <= v /\ v < Pow2[k + 1]
    BY <2>1, <2>4, LogExists
  <2> QED
    BY <2>1, <2>5
<1>4. MB <= n
  <2> SUFFICES ASSUME n + 1 <= MB PROVE FALSE
    OBVIOUS
  <2>1. n + 1 \in Nat
    OBVIOUS
  <2>2. Pow2[n + 1] <= Hidden /\ Pow2[n + 1] \in Nat
    BY <2>1, Pow2Less, Pow2Nat DEF Hidden
  <2> QED
    BY <1>1, <1>3, <2>2
<1>5. PICK g \in Nat, j \in Nat : g = n - MB /\ j = low - g /\ n = MB + g
  BY <1>3, <1>4
<1>6. PICK U \in Nat \ {0}, V \in Nat \ {0} : U = Pow2[g] /\ V = Pow2[j] /\ One = U * V
  <2>1. low = g + j
    BY <1>5
  <2>2. Pow2[g + j] = Pow2[g] * Pow2[j]
    BY Pow2Sum
  <2> QED
    BY <1>2, <2>1, <2>2, Pow2Nat DEF One
<1>7. Log2(v) = n
  <2>1. n \in 0 .. ExpMax + MB
    BY <1>2, <1>3
  <2> QED
    BY <1>3, <2>1, Log2Is
<1>8. Ulp(v) = U /\ ~(v < Pow2[MB])
  <2>1. ~(v < Pow2[MB])
    BY <1>1 DEF Hidden
  <2> QED
    BY <1>5, <1>6, <1>7, <2>1 DEF Ulp
<1>9. PICK p \in Nat : p = h * V /\ v = p * U
  <2>1. h * (U * V) = (h * V) * U /\ h * V \in Nat
    OBVIOUS
  <2> QED
    BY <1>1, <1>6, <2>1
<1>10. HalfEven(v, U) = p /\ v \div U = p
  BY <1>9, HalfEvenFacts
<1>11. Rounded(v) = v
  <2>1. ~(v < 0)
    OBVIOUS
  <2> QED
    BY <1>8, <1>9, <1>10, <2>1 DEF Rounded
<1>12. Hidden <= p /\ p < 2 * Hidden
  <2>1. Pow2[n] = Hidden * U /\ Pow2[n + 1] = 2 * Pow2[n]
    BY <1>5, <1>6, Pow2Sum, Pow2Step DEF Hidden
  <2>2. Hidden * U <= p * U /\ p * U < (2 * Hidden) * U
    BY <1>3, <1>9, <2>1
  <2>3. \A a, b, c \in Nat : a <= b => a * c <= b * c
    OBVIOUS
  <2>4. ~(p <= Hidden - 1)
    <3> SUFFICES ASSUME p + 1 <= Hidden PROVE FALSE
      OBVIOUS
    <3>1. (p + 1) * U <= Hidden * U /\ (p + 1) * U = p * U + U /\ p * U \in Nat
      BY <2>3
    <3> QED
      BY <2>2, <3>1
  <2>5. ~(2 * Hidden <= p)
    <3> SUFFICES ASSUME 2 * Hidden <= p PROVE FALSE
      OBVIOUS
    <3>1. (2 * Hidden) * U <= p * U /\ p * U \in Nat /\ (2 * Hidden) * U \in Nat
      BY <2>3
    <3> QED
      BY <2>2, <3>1
  <2> QED
    BY <2>4, <2>5
<1>13. Encode(v) = g * Hidden + p
  BY <1>5, <1>7, <1>8, <1>10 DEF Encode, Hidden
<1>14. g * Hidden + p = Hidden * (g + 1) + (p - Hidden)
  <2>1. PICK b \in Nat : b = Hidden
    OBVIOUS
  <2>2. g * b + p = b * (g + 1) + (p - b)
    BY ONLY b \in Nat, g \in Nat, p \in Nat
  <2> QED
    BY ONLY <2>1, <2>2, Zenon
<1>15. g + 1 \in 1 .. ExpMax - 1 /\ p - Hidden \in 0 .. Hidden - 1 /\ (g + 1) - 1 = g
  BY <1>2, <1>5, <1>12
<1>16. (Hidden + (p - Hidden)) * Pow2[(g + 1) - 1] = v
  BY <1>6, <1>9, <1>15
<1> QED
  BY <1>1, <1>11, <1>13, <1>14, <1>15, <1>16

\* The numbers rint does not return early for are below 2^MB.
LEMMA BelowToInt ==
    ASSUME NEW u \in Patterns, Unbiased(u) < MB
    PROVE  Magnitude(u) \in Nat /\ Magnitude(u) < ToInt
<1> USE Widths
<1>1. PICK e \in 0 .. ExpMax, f \in 0 .. Hidden - 1 :
          e = Exponent(u) /\ f = Fraction(u) /\ e - Bias < MB
  BY Fields DEF Unbiased
<1>2. CASE e = 0
  <2>1. Magnitude(u) = f
    BY <1>1, <1>2 DEF Magnitude
  <2>2. \A a, b \in Nat \ {0} : a <= a * b
    OBVIOUS
  <2>3. Hidden <= Hidden * One /\ Hidden * One \in Nat
    BY <2>2
  <2> QED
    BY <2>1, <2>3
<1>3. CASE e # 0
  <2>1. PICK d \in Nat : d = e - 1 /\ d < Bias - 1 + MB
    BY <1>1, <1>3
  <2>2. PICK P \in Nat \ {0} : P = Pow2[d]
    BY Pow2Nat
  <2>3. 2 * P <= One
    <3>1. Bias - 1 + MB \in Nat
      OBVIOUS
    <3> QED
      BY <2>1, <2>2, <3>1, Pow2Less DEF One
  <2>4. Magnitude(u) = (Hidden + f) * P
    BY <1>1, <1>3, <2>1, <2>2 DEF Magnitude, Hidden
  <2>5. (Hidden + f) * P < (Hidden + Hidden) * P /\ (Hidden + Hidden) * P = Hidden * (2 * P)
    OBVIOUS
  <2>6. Hidden * (2 * P) <= Hidden * One
    <3>1. \A a, b, c \in Nat : a <= b => c * a <= c * b
      OBVIOUS
    <3> QED
      BY <2>3, <3>1
  <2>7. (Hidden + f) * P \in Nat /\ Hidden * (2 * P) \in Nat /\ Hidden * One \in Nat
    OBVIOUS
  <2> QED
    BY <2>4, <2>5, <2>6, <2>7
<1> QED
  BY <1>2, <1>3

\* The sum of rint, before its sign is looked at.
RintSum(u) == IF Neg(u) THEN Rounded(Rounded(Value(u) - ToInt) + ToInt)
                        ELSE Rounded(Rounded(Value(u) + ToInt) - ToInt)

\* It is the nearest integer, the even one of two.
LEMMA RintSumIs ==
    ASSUME NEW u \in Patterns, Unbiased(u) < MB, NEW h, h = HalfEven(Magnitude(u), One)
    PROVE  /\ h \in 0 .. Hidden
           /\ RintSum(u) = Signed(u, h * One)
<1> USE Widths
<1>1. PICK n \in Nat : n = Magnitude(u) /\ n < ToInt
  BY BelowToInt
<1>2. h \in 0 .. Hidden /\ Rounded(n + ToInt) = (h + Hidden) * One
  BY <1>1, RintAdds
<1>3. PICK v \in Nat, t \in Nat \ {0} :
          v = h * One /\ t = ToInt /\ Rounded(n + t) = v + t
  <2>1. (h + Hidden) * One = h * One + Hidden * One /\ h * One \in Nat
        /\ Hidden * One \in Nat \ {0}
    BY <1>2
  <2> QED
    BY <1>2, <2>1
<1>4. Rounded(v) = v
  <2>1. CASE h = 0
    BY <1>3, <2>1, RoundedNeg
  <2>2. CASE h # 0
    BY <1>2, <1>3, <2>2, IntegerEncodes
  <2> QED
    BY <2>1, <2>2
<1>5. CASE Neg(u)
  <2>1. Value(u) = -n
    BY <1>1, <1>5 DEF Value, Signed
  <2>2. n + t \in Nat /\ -n - t = -(n + t) /\ -(v + t) + t = -v
    OBVIOUS
  <2>3. Rounded(-n - t) = -(v + t)
    BY <1>3, <2>2, RoundedNeg
  <2>4. Rounded(-v) = -v
    BY <1>4, RoundedNeg
  <2> QED
    BY <1>2, <1>3, <1>5, <2>1, <2>2, <2>3, <2>4 DEF RintSum, Signed
<1>6. CASE ~Neg(u)
  <2>1. Value(u) = n
    BY <1>1, <1>6 DEF Value, Signed
  <2>2. (v + t) - t = v
    OBVIOUS
  <2> QED
    BY <1>2, <1>3, <1>4, <1>6, <2>1, <2>2 DEF RintSum, Signed
<1> QED
  BY <1>5, <1>6

\* The two masks copysign takes a sign from.
LEMMA SignMasks == Signbit(0) = 0 /\ Signbit(SignBit) = 1
<1>1. /\ 0 = Pack(0, 0, 0) /\ SignBit = Pack(1, 0, 0)
      /\ 0 \in 0 .. ExpMax /\ 0 \in 0 .. Hidden - 1
  BY Widths DEF Pack
<1> QED
  BY <1>1, PackFields

\* rint is the nearest integer, the even one of two, with the sign of the argument.
LEMMA RintIntegral ==
    ASSUME NEW u \in Patterns, Unbiased(u) < MB
    PROVE  Integral(u, Rint(u), HalfEven(Magnitude(u), One))
<1> USE Widths
<1>1. PICK h \in 0 .. Hidden : h = HalfEven(Magnitude(u), One) /\ RintSum(u) = Signed(u, h * One)
  BY RintSumIs
<1>2. Rint(u) = IF RintSum(u) = 0 THEN SignedZero(u)
                ELSE Copysign(Encode(AbsVal(RintSum(u))), IF RintSum(u) < 0 THEN SignBit ELSE 0)
  <2>1. ~(Unbiased(u) >= MB)
    BY TwoCases
  <2> QED
    BY <2>1 DEF Rint, RintSum
<1>3. CASE h = 0
  <2>1. RintSum(u) = 0
    BY <1>1, <1>3 DEF Signed
  <2> QED
    BY <1>1, <1>2, <1>3, <2>1, SmallIntegrals
<1>4. CASE h # 0
  <2>1. h \in 1 .. Hidden
    BY <1>4
  <2>2. PICK e \in 1 .. ExpMax - 1, f \in 0 .. Hidden - 1 :
            Encode(h * One) = Hidden * e + f /\ (Hidden + f) * Pow2[e - 1] = h * One
    BY <2>1, IntegerEncodes
  <2>3. PICK s \in {0, 1} : s = Signbit(u)
    BY Fields
  <2>4. PICK v \in Nat \ {0} : v = h * One
    <3>1. \A a, b \in Nat \ {0} : a * b \in Nat \ {0}
      OBVIOUS
    <3> QED
      BY <2>1, <3>1
  <2>5. /\ RintSum(u) # 0 /\ AbsVal(RintSum(u)) = v
        /\ Signbit(IF RintSum(u) < 0 THEN SignBit ELSE 0) = s
    BY <1>1, <2>3, <2>4, SignMasks DEF Signed, AbsVal, Neg
  <2>6. Rint(u) = Fabs(Encode(v)) + SignBit * s
    BY <1>2, <2>5 DEF Copysign
  <2>7. e \in 0 .. ExpMax /\ 0 \in {0, 1} /\ Hidden * e + f = Pack(0, e, f)
    BY DEF Pack
  <2>8. Fabs(Encode(v)) = Hidden * e + f
    BY <2>2, <2>4, <2>7, PackFields
  <2>9. Rint(u) = Pack(s, e, f)
    BY <2>6, <2>8 DEF Pack
  <2>10. PICK w : w = Rint(u)
    OBVIOUS
  <2>11. w \in Patterns /\ Signbit(w) = s /\ Exponent(w) = e /\ Fraction(w) = f
    BY <2>7, <2>9, <2>10, PackFields
  <2>12. e # 0 /\ Magnitude(w) = h * One
    BY <2>2, <2>11 DEF Magnitude, Hidden
  <2> QED
    BY <1>1, <2>3, <2>10, <2>11, <2>12, ClassByFields DEF Integral
<1> QED
  BY <1>3, <1>4

\* rint in the words of the property.
LEMMA RintHalfEvenHolds == x \in Patterns => RintHalfEven
<1> SUFFICES ASSUME x \in Patterns, Finite(x), Unbiased(x) < MB
             PROVE  RoundsTo(x, Rint(x), Signed(x, HalfEven(AbsVal(Value(x)), One)))
  BY DEF RintHalfEven
<1>1. PICK n \in Nat : n = Magnitude(x) /\ n < ToInt
  BY BelowToInt
<1>2. AbsVal(Value(x)) = n
  BY <1>1 DEF Value, AbsVal, Signed
<1>3. HalfEven(n, One) \in Int
  BY <1>1, RintAdds, Widths
<1>4. Integral(x, Rint(x), HalfEven(n, One))
  BY <1>1, RintIntegral
<1> QED
  BY <1>2, <1>3, <1>4, IntegralRoundsTo

-----------------------------------------------------------------------------
(* Rounding twice.                                                          *)

\* A larger exponent is a larger number.
LEMMA MagnitudeOrder ==
    ASSUME NEW u \in Patterns, NEW w \in Patterns, Exponent(u) < Exponent(w)
    PROVE  Magnitude(u) < Magnitude(w)
<1> USE Widths
<1>1. PICK e \in Nat, f \in 0 .. Hidden - 1, i \in Nat, g \in 0 .. Hidden - 1 :
          /\ e = Exponent(u) /\ f = Fraction(u) /\ i = Exponent(w) /\ g = Fraction(w)
          /\ e < i
  <2>1. Exponent(u) \in Nat /\ Exponent(w) \in Nat
    BY Fields
  <2> QED
    BY <2>1, Fields
<1>2. PICK Q \in Nat \ {0} : Q = Pow2[i - 1] /\ Magnitude(w) = (Hidden + g) * Q
  <2>1. i - 1 \in Nat /\ i # 0
    BY <1>1
  <2> QED
    BY <1>1, <2>1, Pow2Nat DEF Magnitude, Hidden
<1>3. Hidden * Q <= (Hidden + g) * Q /\ Hidden <= Hidden * Q
      /\ Hidden * Q \in Nat /\ (Hidden + g) * Q \in Nat
  <2>1. \A a, b, c \in Nat : a <= b => a * c <= b * c
    OBVIOUS
  <2>2. \A a, b \in Nat \ {0} : a <= a * b
    OBVIOUS
  <2> QED
    BY <2>1, <2>2
<1>4. CASE e = 0
  <2>1. Magnitude(u) = f
    BY <1>1, <1>4 DEF Magnitude
  <2> QED
    BY <1>2, <1>3, <2>1
<1>5. CASE e # 0
  <2>1. PICK P \in Nat \ {0} : P = Pow2[e - 1] /\ Magnitude(u) = (Hidden + f) * P
    <3>1. e - 1 \in Nat
      BY <1>5
    <3> QED
      BY <1>1, <1>5, <3>1, Pow2Nat DEF Magnitude, Hidden
  <2>2. 2 * P <= Q
    <3>1. e - 1 \in Nat /\ i - 1 \in Nat /\ e - 1 < i - 1
      BY <1>1, <1>5
    <3> QED
      BY <1>2, <2>1, <3>1, Pow2Less
  <2>3. (Hidden + f) * P < (Hidden + Hidden) * P /\ (Hidden + Hidden) * P = Hidden * (2 * P)
    OBVIOUS
  <2>4. Hidden * (2 * P) <= Hidden * Q
    <3>1. \A a, b, c \in Nat : a <= b => c * a <= c * b
      OBVIOUS
    <3> QED
      BY <2>2, <3>1
  <2>5. (Hidden + f) * P \in Nat /\ Hidden * (2 * P) \in Nat
    OBVIOUS
  <2> QED
    BY <1>2, <1>3, <2>1, <2>3, <2>4, <2>5
<1> QED
  BY <1>4, <1>5

\* No two patterns of one sign stand for the same number.
LEMMA MagnitudeInjective ==
    ASSUME NEW u \in Patterns, NEW w \in Patterns,
           Signbit(u) = Signbit(w), Magnitude(u) = Magnitude(w)
    PROVE  u = w
<1> USE Widths
<1>1. Exponent(u) \in Nat /\ Exponent(w) \in Nat /\ Magnitude(u) \in Nat /\ Magnitude(w) \in Nat
  BY Fields, MagnitudeNat
<1>2. Exponent(u) = Exponent(w)
  <2>1. ~(Exponent(u) < Exponent(w)) /\ ~(Exponent(w) < Exponent(u))
    BY <1>1, MagnitudeOrder
  <2> QED
    BY <1>1, <2>1
<1>3. Fraction(u) = Fraction(w)
  <2>1. PICK f \in 0 .. Hidden - 1, g \in 0 .. Hidden - 1 : f = Fraction(u) /\ g = Fraction(w)
    BY Fields
  <2>2. CASE Exponent(u) = 0
    BY <1>2, <2>2 DEF Magnitude
  <2>3. CASE Exponent(u) # 0
    <3>1. PICK P \in Nat \ {0} : P = Pow2[Exponent(u) - 1]
      BY <1>1, <2>3, Pow2Nat
    <3>2. (Hidden + f) * P = (Hidden + g) * P
      BY <1>2, <2>1, <2>3, <3>1 DEF Magnitude, Hidden
    <3>3. \A a, b \in Nat : a < b => a * P < b * P
      OBVIOUS
    <3>4. Hidden + f \in Nat /\ Hidden + g \in Nat
      OBVIOUS
    <3>5. ~(Hidden + f < Hidden + g) /\ ~(Hidden + g < Hidden + f)
      <4>1. (Hidden + f) * P \in Nat
        BY <3>4
      <4> QED
        BY <3>2, <3>3, <3>4, <4>1
    <3> QED
      BY <2>1, <3>4, <3>5
  <2> QED
    BY <2>2, <2>3
<1> QED
  BY <1>2, <1>3, Fields

\* Every function leaves what has no fraction.
Stays(w) == Trunc(w) = w /\ Floor(w) = w /\ Ceil(w) = w /\ Rint(w) = w

\* A pattern too large to have a fraction is returned early.
LEMMA LargeStays == ASSUME NEW w, Unbiased(w) >= MB PROVE Stays(w)
  BY DEF Stays, Trunc, Floor, Ceil, Rint, IsIntegral

\* An integer stays what it is.
LEMMA IntegralStays ==
    ASSUME NEW u, NEW w, NEW n \in Int, Integral(u, w, n)
    PROVE  Stays(w)
<1> USE Widths
<1>1. w \in Patterns /\ Magnitude(w) = n * One
  BY DEF Integral
<1>2. CASE Unbiased(w) >= MB
  BY <1>2, LargeStays
<1>3. CASE ~(Unbiased(w) >= MB)
  <2>1. Unbiased(w) < MB
    BY <1>1, <1>3, Fields DEF Unbiased
  <2>2. n \in Nat
    <3> SUFFICES ASSUME n <= -1 PROVE FALSE
      OBVIOUS
    <3>1. n * One <= -One
      OBVIOUS
    <3>2. n * One \in Nat
      BY <1>1, MagnitudeNat
    <3> QED
      BY <3>1, <3>2
  <2>3. Rint(w) = w
    <3>1. PICK v \in Nat : v = n * One
      BY <2>2
    <3>2. HalfEven(v, One) = n
      BY <2>2, <3>1, HalfEvenFacts
    <3>3. Integral(w, Rint(w), n)
      BY <1>1, <2>1, <3>1, <3>2, RintIntegral
    <3> QED
      BY <1>1, <3>3, MagnitudeInjective DEF Integral
  <2>4. Magnitude(w) % One = 0
    <3>1. PICK v \in Int : v = n * One
      OBVIOUS
    <3>2. 0 \in 0 .. One - 1 /\ v = One * n + 0
      BY <3>1
    <3>3. v % One = 0
      BY ONLY <3>2, v \in Int, n \in Int, One \in Nat \ {0}, DivUnique, Zenon
    <3> QED
      BY <1>1, <3>1, <3>3
  <2>5. CASE Mixed(w)
    <3>1. IsIntegral(w)
      BY <1>1, <2>4, <2>5, IntegralReturn
    <3> QED
      BY <2>3, <3>1 DEF Stays, Trunc, Floor, Ceil
  <2>6. CASE BelowOne(w)
    <3>1. Magnitude(w) = 0
      BY <1>1, <2>4, <2>6, BelowOneMagnitude
    <3>2. Fabs(w) = 0
      BY <1>1, <3>1, MagnitudeNat
    <3>3. ~IsIntegral(w)
      BY <1>1, <2>1, <2>6, TwoCases DEF IsIntegral, BelowOne
    <3>4. SignedZero(w) = w
      <4>1. /\ SignedZero(w) \in Patterns /\ Signbit(SignedZero(w)) = Signbit(w)
            /\ Magnitude(SignedZero(w)) = 0 * One
        BY <1>1, SmallIntegrals DEF Integral
      <4>2. 0 * One = 0
        OBVIOUS
      <4> QED
        BY <1>1, <3>1, <4>1, <4>2, MagnitudeInjective
    <3> QED
      BY <2>3, <2>6, <3>2, <3>3, <3>4 DEF Stays, Trunc, Floor, Ceil
  <2> QED
    BY <1>1, <2>1, <2>5, <2>6, TwoCases
<1> QED
  BY <1>2, <1>3

\* The results on a number with an early return by its size.
LEMMA LargeResults ==
    ASSUME NEW u, Unbiased(u) >= MB
    PROVE  \A w \in {Trunc(u), Floor(u), Ceil(u), Rint(u)} : w = u
  BY LargeStays DEF Stays

\* The results on the others are integers.
LEMMA SmallResults ==
    ASSUME NEW u \in Patterns, Unbiased(u) < MB
    PROVE  \A w \in {Trunc(u), Floor(u), Ceil(u), Rint(u)} :
               \E n \in Int : Integral(u, w, n)
<1>1. PICK part \in Int : part = Magnitude(u) \div One
  <2>1. Magnitude(u) \in Nat /\ One \in Nat \ {0}
    BY MagnitudeNat, Widths
  <2> QED
    BY <2>1
<1>2. part + 1 \in Int /\ HalfEven(Magnitude(u), One) \in Int
  BY BelowToInt, RintAdds, Widths
<1> QED
  BY <1>1, <1>2, TruncIntegral, FloorCeilIntegral, RintIntegral

\* Rounding twice is rounding once.
LEMMA RoundedStaysHolds == x \in Patterns => RoundedStays
<1> SUFFICES ASSUME x \in Patterns,
                    NEW w \in IF Unbiased(x) < MB THEN {Trunc(x), Floor(x), Ceil(x), Rint(x)}
                              ELSE {x}
             PROVE  Stays(w)
  BY DEF RoundedStays, Stays
<1>1. Unbiased(x) \in Int /\ MB \in Int
  BY Fields, Widths DEF Unbiased
<1>2. CASE Unbiased(x) >= MB
  <2>1. w = x
    BY <1>1, <1>2
  <2> QED
    BY <1>2, <2>1, LargeStays
<1>3. CASE Unbiased(x) < MB
  BY <1>3, SmallResults, IntegralStays
<1> QED
  BY <1>1, <1>2, <1>3

-----------------------------------------------------------------------------
(* The theorems.                                                            *)

\* Every function of the shim returns a pattern.
LEMMA ResultsInPatterns == x \in Patterns /\ Next => x' \in Patterns
<1> SUFFICES ASSUME x \in Patterns, Next PROVE x' \in Patterns
  OBVIOUS
<1> USE Widths
<1>1. CASE Round
  <2>1. CASE Unbiased(x) >= MB
    BY <1>1, <2>1, LargeResults DEF Round
  <2>2. CASE ~(Unbiased(x) >= MB)
    <3>1. Unbiased(x) < MB
      BY <2>2, Fields DEF Unbiased
    <3> QED
      BY <1>1, <3>1, SmallResults DEF Round, Integral
  <2> QED
    BY <2>1, <2>2
<1>2. CASE Sign
  <2>1. PICK s \in {0, 1}, e \in 0 .. ExpMax, f \in 0 .. Hidden - 1 : x = Pack(s, e, f)
    BY Fields
  <2>2. Fabs(x) = Pack(0, e, f) /\ Fabs(x) + SignBit * 0 = Pack(0, e, f)
        /\ Fabs(x) + SignBit * 1 = Pack(1, e, f)
    <3>1. Fabs(x) = Hidden * e + f
      BY <2>1, PackFields
    <3>2. Hidden * e + f \in Int
      OBVIOUS
    <3> QED
      BY <3>1, <3>2 DEF Pack
  <2>3. \A t \in {0, 1} : Pack(t, e, f) \in Patterns
    BY PackFields
  <2> QED
    BY <1>2, <2>2, <2>3, SignMasks DEF Sign, Copysign
<1> QED
  BY <1>1, <1>2 DEF Next

\* The inductive invariant: a wasm program only ever sees patterns.
InPatterns == x \in Patterns

LEMMA PatternsAlways == Spec => []InPatterns
<1>1. Init => InPatterns
  BY DEF Init, InPatterns
<1>2. InPatterns /\ [Next]_x => InPatterns'
  BY ResultsInPatterns DEF InPatterns
<1> QED
  BY <1>1, <1>2, PTL DEF Spec

\* trunc, floor and ceil (math_shim.c:71-164) return the integers that IEEE 754
\* defines, for every format, those of float and double among them.
THEOREM DirectedRoundingAlways == Spec => []DirectedRounding
<1>1. InPatterns => DirectedRounding
  BY DirectedRoundingHolds DEF InPatterns
<1> QED
  BY <1>1, PatternsAlways, PTL

\* Adding and subtracting 2^MB (rint, math_shim.c:172-194) rounds half to even
\* in every format.
THEOREM RintHalfEvenAlways == Spec => []RintHalfEven
<1>1. InPatterns => RintHalfEven
  BY RintHalfEvenHolds DEF InPatterns
<1> QED
  BY <1>1, PatternsAlways, PTL

\* Whatever was rounded once, or has no fraction, passes through unchanged.
THEOREM RoundedStaysAlways == Spec => []RoundedStays
<1>1. InPatterns => RoundedStays
  BY RoundedStaysHolds DEF InPatterns
<1> QED
  BY <1>1, PatternsAlways, PTL

=============================================================================
