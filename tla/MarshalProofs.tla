---------------------------- MODULE MarshalProofs ----------------------------
(***************************************************************************)
(* That values cross between Python and wasm as Marshal says, for every    *)
(* width of the types and of the port, for every integer, and for every    *)
(* conversion between float and double that keeps what is a float already. *)
(***************************************************************************)
EXTENDS Marshal, TLAPS

\* a and b differ by a multiple of m.
Cong(a, b, m) == \E k \in Int : a = b + m * k

-----------------------------------------------------------------------------
(* Arithmetic.                                                              *)

\* Congruence is transitive.
LEMMA CongTrans ==
    ASSUME NEW a \in Int, NEW b \in Int, NEW c \in Int, NEW m \in Int,
           Cong(a, b, m), Cong(b, c, m)
    PROVE  Cong(a, c, m)
<1>1. PICK k \in Int : a = b + m * k
  BY DEF Cong
<1>2. PICK l \in Int : b = c + m * l
  BY DEF Cong
<1>3. m * (k + l) = m * k + m * l
  OBVIOUS
<1>4. k + l \in Int /\ a = c + m * (k + l)
  BY <1>1, <1>2, <1>3
<1> QED
  BY <1>4 DEF Cong

\* Congruence modulo a multiple of m is congruence modulo m.
LEMMA CongWeaken ==
    ASSUME NEW a \in Int, NEW b \in Int, NEW m \in Int, NEW f \in Int, NEW big,
           big = m * f, Cong(a, b, big)
    PROVE  Cong(a, b, m)
<1>1. PICK k \in Int : a = b + (m * f) * k
  BY DEF Cong
<1>2. f * k \in Int /\ (m * f) * k = m * (f * k)
  OBVIOUS
<1> QED
  BY <1>1, <1>2 DEF Cong

\* Congruence works in both directions.
LEMMA CongSym ==
    ASSUME NEW a \in Int, NEW b \in Int, NEW m \in Int, Cong(a, b, m)
    PROVE  Cong(b, a, m)
<1>1. PICK k \in Int : a = b + m * k
  BY DEF Cong
<1>2. -k \in Int /\ b = a + m * (-k)
  BY <1>1
<1> QED
  BY <1>2 DEF Cong

\* Two congruent numbers in the same window of the modulus are equal.
LEMMA CongUnique ==
    ASSUME NEW a \in Int, NEW b \in Int, NEW m \in Nat \ {0}, NEW low \in Int,
           low <= a, a < low + m, low <= b, b < low + m, Cong(a, b, m)
    PROVE  a = b
<1>1. PICK k \in Int : a = b + m * k
  BY DEF Cong
<1>2. CASE k >= 1
  <2>1. m * k >= m
    BY <1>2
  <2> QED
    BY <1>1, <2>1
<1>3. CASE k <= -1
  <2>1. m * k <= -m
    BY <1>3
  <2> QED
    BY <1>1, <2>1
<1>4. CASE k = 0
  BY <1>1, <1>4
<1> QED
  BY <1>2, <1>3, <1>4

\* A remainder is congruent to what it is a remainder of.
LEMMA ModFacts ==
    ASSUME NEW v \in Int, NEW m \in Nat \ {0}
    PROVE  v % m \in Int /\ 0 <= v % m /\ v % m < m /\ Cong(v % m, v, m)
<1>1. v % m \in Int /\ 0 <= v % m /\ v % m < m
  OBVIOUS
<1>2. v \div m \in Int /\ v = m * (v \div m) + (v % m)
  OBVIOUS
<1>3. -(v \div m) \in Int /\ v % m = v + m * (-(v \div m))
  BY <1>1, <1>2
<1> QED
  BY <1>1, <1>3 DEF Cong

\* A conversion to a signed width is congruent to its argument, and fits.
LEMMA WrapFacts ==
    ASSUME NEW v \in Int, NEW h \in Nat \ {0}
    PROVE  Wrap(v, h) \in Int /\ Fits(Wrap(v, h), h) /\ Cong(Wrap(v, h), v, 2 * h)
<1>1. 2 * h \in Nat \ {0} /\ v + h \in Int
  OBVIOUS
<1>2. /\ (v + h) % (2 * h) \in Int
      /\ 0 <= (v + h) % (2 * h) /\ (v + h) % (2 * h) < 2 * h
      /\ Cong((v + h) % (2 * h), v + h, 2 * h)
  BY <1>1, ModFacts
<1>3. PICK k \in Int : (v + h) % (2 * h) = (v + h) + (2 * h) * k
  BY <1>2 DEF Cong
<1>4. Wrap(v, h) = v + (2 * h) * k
  BY <1>1, <1>3 DEF Wrap
<1> QED
  BY <1>2, <1>4 DEF Wrap, Fits, Cong

\* A number that fits is its own conversion, and the only one.
LEMMA WrapUnique ==
    ASSUME NEW v \in Int, NEW w \in Int, NEW h \in Nat \ {0},
           Fits(w, h), Cong(w, v, 2 * h)
    PROVE  w = Wrap(v, h)
<1>1. 2 * h \in Nat \ {0} /\ -h \in Int
  OBVIOUS
<1>2. Wrap(v, h) \in Int /\ Fits(Wrap(v, h), h) /\ Cong(Wrap(v, h), v, 2 * h)
  BY WrapFacts
<1>3. Cong(v, Wrap(v, h), 2 * h)
  BY <1>1, <1>2, CongSym
<1>4. Cong(w, Wrap(v, h), 2 * h)
  <2>1. \A a, b, c, m \in Int : Cong(a, b, m) /\ Cong(b, c, m) => Cong(a, c, m)
    BY CongTrans
  <2> QED
    BY <1>1, <1>2, <1>3, <2>1
<1>5. \A a, b, low \in Int, m \in Nat \ {0} :
          low <= a /\ a < low + m /\ low <= b /\ b < low + m /\ Cong(a, b, m) => a = b
  BY CongUnique
<1>6. -h <= w /\ w < -h + 2 * h /\ -h <= Wrap(v, h) /\ Wrap(v, h) < -h + 2 * h
  BY <1>1, <1>2 DEF Fits
<1> QED
  BY <1>1, <1>2, <1>4, <1>5, <1>6

-----------------------------------------------------------------------------
(* The widths, and one crossing.                                            *)

\* The width of each type and of the port is a multiple of the narrower one.
LEMMA Widths ==
    ASSUME port \in {HALF32, HALF64}, NEW t \in Types
    PROVE  /\ Half(t) \in Nat \ {0} /\ port \in Nat \ {0} /\ Narrow(t) \in Nat \ {0}
           /\ Narrow(t) \in {Half(t), port}
           /\ Narrow(t) <= Half(t) /\ Narrow(t) <= port
           /\ \E f \in Int : 2 * Half(t) = (2 * Narrow(t)) * f
           /\ \E f \in Int : 2 * port = (2 * Narrow(t)) * f
<1> USE WidthsAssumption
<1>1. HALF32 \in Nat \ {0} /\ HALF64 \in Nat \ {0} /\ HALF32 <= HALF64
  <2>1. 2 * HALF32 * HALF32 >= HALF32 /\ 2 * HALF32 * HALF32 \in Nat
    OBVIOUS
  <2> QED
    BY <2>1
<1>2. Half(t) \in {HALF32, HALF64}
  BY DEF Half
<1>3. /\ Half(t) \in Nat \ {0} /\ port \in Nat \ {0} /\ Narrow(t) \in Nat \ {0}
      /\ Narrow(t) \in {Half(t), port}
      /\ Narrow(t) <= Half(t) /\ Narrow(t) <= port
  BY <1>1, <1>2 DEF Narrow
<1>4. Narrow(t) = HALF64 => Half(t) = HALF64 /\ port = HALF64
  BY <1>1, <1>2 DEF Narrow
<1>5. Narrow(t) \in {HALF32, HALF64}
  BY <1>2, <1>3
<1>6. \A h \in {HALF32, HALF64} : \E f \in Int : 2 * h = (2 * HALF32) * f
  <2>1. 2 * HALF32 = (2 * HALF32) * 1
    BY <1>1
  <2>2. 2 * HALF64 = (2 * HALF32) * (2 * HALF32)
    BY <1>1
  <2>3. 1 \in Int /\ 2 * HALF32 \in Int
    BY <1>1
  <2> QED
    BY <2>1, <2>2, <2>3
<1>7. 2 * HALF64 = (2 * HALF64) * 1 /\ 1 \in Int
  BY <1>1
<1>8. /\ \E f \in Int : 2 * Half(t) = (2 * Narrow(t)) * f
      /\ \E f \in Int : 2 * port = (2 * Narrow(t)) * f
  <2>1. CASE Narrow(t) = HALF32
    BY <2>1, <1>2, <1>6
  <2>2. CASE Narrow(t) = HALF64
    BY <2>2, <1>4, <1>7
  <2> QED
    BY <2>1, <2>2, <1>5
<1> QED
  BY <1>3, <1>8

\* What wasm_to_py makes of an integer g that stands for v, at any width.
LEMMA Crossing ==
    ASSUME port \in {HALF32, HALF64}, NEW t \in Types, Integer(t), NEW v \in Int,
           NEW g \in Int, Cong(g, v, 2 * Narrow(t))
    PROVE  WasmToPy(t, Encoded(t, g)) = Wrap(v, Narrow(t))
<1> DEFINE n == Narrow(t)
           p == g % (2 * Half(t))
           x == Wrap(p, Half(t))
           y == Wrap(x, port)
<1>1. /\ Half(t) \in Nat \ {0} /\ port \in Nat \ {0} /\ n \in Nat \ {0}
      /\ n \in {Half(t), port} /\ n <= Half(t) /\ n <= port
  BY Widths
<1>2. PICK f \in Int : 2 * Half(t) = (2 * n) * f
  BY Widths
<1>3. PICK e \in Int : 2 * port = (2 * n) * e
  BY Widths
<1>4. y = WasmToPy(t, Encoded(t, g))
  BY DEF WasmToPy, Encoded
<1>5. g \in Int /\ Cong(g, v, 2 * n)
  OBVIOUS
<1>6. p \in Int /\ Cong(p, g, 2 * Half(t))
  <2>1. 2 * Half(t) \in Nat \ {0}
    BY <1>1
  <2> QED
    BY <2>1, <1>5, ModFacts
<1>7. x \in Int /\ Cong(x, p, 2 * Half(t)) /\ Fits(x, Half(t))
  <2> HIDE DEF p
  <2> QED
    BY <1>1, <1>6, WrapFacts
<1>8. y \in Int /\ Cong(y, x, 2 * port) /\ Fits(y, port)
  <2> HIDE DEF x
  <2> QED
    BY <1>1, <1>7, WrapFacts
<1> HIDE DEF n, p, x
<1>9. 2 * n \in Int
  BY <1>1
<1>10. \A a, b, big \in Int, k \in Int :
          big = (2 * n) * k /\ Cong(a, b, big) => Cong(a, b, 2 * n)
  BY <1>9, CongWeaken
<1>11. /\ Cong(g, v, 2 * n) /\ Cong(p, g, 2 * n) /\ Cong(x, p, 2 * n)
       /\ Cong(y, x, 2 * n)
  <2>1. 2 * Half(t) \in Int /\ 2 * port \in Int
    BY <1>1
  <2> HIDE DEF y
  <2> QED
    BY <2>1, <1>2, <1>3, <1>5, <1>6, <1>7, <1>8, <1>10
<1>12. Cong(y, v, 2 * n)
  <2>1. \A a, b, c \in Int : Cong(a, b, 2 * n) /\ Cong(b, c, 2 * n) => Cong(a, c, 2 * n)
    BY <1>9, CongTrans
  <2> HIDE DEF y
  <2> QED
    BY <2>1, <1>5, <1>6, <1>7, <1>8, <1>11
<1>13. Fits(y, n)
  <2>1. CASE n = port
    BY <2>1, <1>8
  <2>2. CASE n = Half(t)
    <3>1. Fits(x, port)
      BY <2>2, <1>1, <1>7 DEF Fits
    <3>2. x = x + (2 * port) * 0
      BY <1>1, <1>7
    <3>3. Cong(x, x, 2 * port)
      BY <3>2 DEF Cong
    <3>4. x = y
      BY <3>1, <3>3, <1>1, <1>7, WrapUnique
    <3> QED
      BY <2>2, <3>4, <1>7
  <2> QED
    BY <2>1, <2>2, <1>1
<1>14. y = Wrap(v, n)
  <2> HIDE DEF y
  <2> QED
    BY <1>1, <1>8, <1>12, <1>13, WrapUnique
<1> QED
  BY <1>4, <1>14 DEF n

\* What wasm keeps of a value has the width of the type.
LEMMA EncodedRange ==
    ASSUME port \in {HALF32, HALF64}, NEW t \in Types, NEW v \in Int, ~Integer(t) => v \in Slot
    PROVE  Encoded(t, v) \in Int /\ 0 <= Encoded(t, v) /\ Encoded(t, v) < 2 * Half(t)
<1>1. Half(t) \in Nat \ {0} /\ HALF64 \in Nat
  BY Widths, WidthsAssumption
<1>2. CASE Integer(t)
  <2> DEFINE m == 2 * Half(t)
  <2>1. m \in Nat \ {0}
    BY <1>1
  <2>2. Encoded(t, v) = v % m
    BY <1>2 DEF Encoded
  <2> HIDE DEF m
  <2>3. Encoded(t, v) \in Int /\ 0 <= Encoded(t, v) /\ Encoded(t, v) < m
    BY <2>1, <2>2
  <2> QED
    BY <2>3 DEF m
<1>3. CASE t = "f32"
  <2>1. Encoded(t, v) \in Singles
    BY <1>3, FloatsAssumption DEF Encoded, Integer
  <2> QED
    BY <1>3, <2>1, WidthsAssumption DEF Half, Singles
<1>4. CASE t = "f64"
  BY <1>1, <1>4 DEF Encoded, Integer, Half, Slot
<1> QED
  BY <1>2, <1>3, <1>4 DEF Types, Integer

\* What was written to a slot is read back, whatever was there before.
LEMMA ReadWritten ==
    ASSUME port \in {HALF32, HALF64}, NEW t \in Types, NEW s \in Int,
           NEW w \in Int, 0 <= w, w < 2 * Half(t)
    PROVE  Written(t, s, w) \in Int /\ Read(t, Written(t, s, w)) = w
<1> DEFINE m == 2 * Half(t)
           u == Written(t, s, w)
           r == u % m
<1>1. m \in Nat \ {0} /\ port \in Nat \ {0}
  BY Widths
<1>2. w \in Int /\ 0 <= w /\ w < m
  OBVIOUS
<1>3. u = (s - (s % m)) + w
  BY DEF Written, Read
<1> HIDE DEF m, u
<1>4. PICK k \in Int : s % m = s + m * k
  BY <1>1, ModFacts DEF Cong
<1>5. -k \in Int /\ u = w + m * (-k)
  BY <1>1, <1>2, <1>3, <1>4
<1>6. u \in Int /\ Cong(u, w, m)
  BY <1>1, <1>2, <1>5 DEF Cong
<1>7. r \in Int /\ 0 <= r /\ r < m /\ Cong(r, u, m)
  BY <1>1, <1>6, ModFacts
<1> HIDE DEF r
<1>8. Cong(r, w, m)
  BY <1>1, <1>2, <1>6, <1>7, CongTrans
<1>9. r = w
  <2>1. 0 \in Int /\ r < 0 + m /\ w < 0 + m
    BY <1>1, <1>2, <1>7
  <2> QED
    BY <2>1, <1>1, <1>2, <1>7, <1>8, CongUnique
<1>10. Read(t, u) = r
  BY DEF Read, r, m
<1> QED
  BY <1>2, <1>6, <1>9, <1>10 DEF u

\* What is written to a slot fits it, whatever the width of the value.
LEMMA WrittenFits ==
    ASSUME NEW t \in Types, NEW s \in Slot,
           NEW w \in Int, 0 <= w, w < 2 * Half(t)
    PROVE  Written(t, s, w) \in Slot
<1> DEFINE m == 2 * Half(t)
           q == s \div m
           top == 2 * HALF64
<1>1. m \in Nat \ {0} /\ top \in Nat \ {0} /\ s \in Nat /\ s < top
  <2>1. HALF32 \in Nat \ {0} /\ HALF64 \in Nat \ {0}
    <3>1. 2 * HALF32 * HALF32 >= HALF32 /\ 2 * HALF32 * HALF32 \in Nat
      BY WidthsAssumption
    <3> QED
      BY <3>1, WidthsAssumption
  <2> QED
    BY <2>1 DEF Half, Slot
<1>2. PICK f \in Int : top = m * f
  <2>1. CASE Half(t) = HALF32
    <3>1. top = (2 * HALF32) * (2 * HALF32) /\ 2 * HALF32 \in Int
      BY WidthsAssumption
    <3> QED
      BY <2>1, <3>1
  <2>2. CASE Half(t) = HALF64
    <3>1. m = top
      BY <2>2
    <3>2. m = m * 1 /\ 1 \in Int
      BY <1>1
    <3> HIDE DEF m, top
    <3> QED
      BY <3>1, <3>2
  <2> QED
    BY <2>1, <2>2 DEF Half
<1>3. w \in Int /\ 0 <= w /\ w < m
  OBVIOUS
<1>4. Written(t, s, w) = (s - (s % m)) + w
  BY DEF Written, Read
<1>5. Slot = 0 .. top - 1
  BY DEF Slot
<1> HIDE DEF m, q, top
<1>6. q \in Int /\ q >= 0 /\ s = m * q + (s % m) /\ s % m \in Int /\ 0 <= s % m
  BY <1>1 DEF q
<1>7. q < f
  <2> SUFFICES ASSUME q >= f PROVE FALSE
    BY <1>2, <1>6
  <2>1. m * q >= m * f
    BY <1>1, <1>2, <1>6
  <2> QED
    BY <2>1, <1>1, <1>2, <1>6
<1>8. m * q + m <= top
  <2>1. m * (q + 1) <= m * f /\ m * (q + 1) = m * q + m
    BY <1>1, <1>2, <1>6, <1>7
  <2> QED
    BY <2>1, <1>2
<1>9. m * q >= 0 /\ m * q \in Int
  BY <1>1, <1>6
<1>10. PICK z \in Int : z = m * q
  BY <1>9
<1>11. Written(t, s, w) = z + w /\ z >= 0 /\ z + m <= top
  <2>1. z >= 0 /\ z + m <= top
    BY <1>8, <1>9, <1>10
  <2>2. PICK r \in Int : r = s % m
    BY <1>6
  <2>3. s = z + r /\ s \in Int
    BY <1>1, <1>6, <1>10, <2>2
  <2>4. Written(t, s, w) = (s - r) + w
    BY <1>4, <2>2
  <2>5. (s - r) + w = z + w
    BY <1>3, <2>3
  <2> QED
    BY <2>1, <2>4, <2>5
<1> QED
  BY <1>1, <1>3, <1>5, <1>11

\* An integer or the bits of a float, converted, is what Crosses promises.
LEMMA ConvertedCrosses ==
    ASSUME port \in {HALF32, HALF64}, type \in Types, single \in BOOLEAN, NEW v \in Int, NEW g \in Int,
           IF Integer(type) THEN Cong(g, v, 2 * Narrow(type)) ELSE g = v /\ v \in Slot,
           NEW w, w = WasmToPy(type, Encoded(type, g))
    PROVE  Crosses(v, w)
<1>1. Narrow(type) \in Nat \ {0}
  BY Widths
<1>2. CASE Integer(type)
  <2>1. w = Wrap(v, Narrow(type))
    BY <1>2, Crossing
  <2>2. ASSUME Fits(v, Narrow(type)) PROVE w = v
    <3>1. v = v + (2 * Narrow(type)) * 0
      BY <1>1
    <3>2. Cong(v, v, 2 * Narrow(type))
      BY <3>1 DEF Cong
    <3> QED
      BY <1>1, <2>1, <2>2, <3>2, WrapUnique
  <2> QED
    BY <1>2, <2>1, <2>2 DEF Crosses
<1>3. CASE ~Integer(type)
  <2>1. ToSingle[v] \in Singles /\ ToSingle[AsSingle(v)] = ToSingle[v]
    BY <1>3, FloatsAssumption DEF AsSingle
  <2>2. AsSingle(AsSingle(v)) = AsSingle(v)
    BY <2>1 DEF AsSingle
  <2>3. CASE type = "f32"
    <3>1. w = MpFloat(AsSingle(v))
      BY <1>3, <2>3 DEF WasmToPy, Encoded, AsSingle
    <3>2. w = AsSingle(v)
      BY <3>1, <2>2 DEF MpFloat
    <3> QED
      BY <1>3, <2>3, <3>2 DEF Crosses
  <2>4. CASE type = "f64"
    <3>1. w = MpFloat(v)
      BY <1>3, <2>4 DEF WasmToPy, Encoded
    <3> QED
      BY <1>3, <2>4, <3>1 DEF Crosses
  <2> QED
    BY <1>3, <2>3, <2>4 DEF Types, Integer
<1> QED
  BY <1>2, <1>3

\* What py_to_wasm makes of a value stands for it.
LEMMA GetIntStands ==
    ASSUME port \in {HALF32, HALF64}, type \in Types, NEW v \in Int, ~Integer(type) => v \in Slot
    PROVE  \E g \in Int : /\ PyToWasm(type, v) = Encoded(type, g)
                          /\ IF Integer(type) THEN Cong(g, v, 2 * Narrow(type)) ELSE g = v /\ v \in Slot
<1>1. CASE Integer(type)
  <2>1. port \in Nat \ {0} /\ Narrow(type) \in Nat \ {0}
    BY Widths
  <2>2. PICK g : g = GetInt(v)
    OBVIOUS
  <2>3. g \in Int /\ Cong(g, v, 2 * port)
    BY <2>1, <2>2, WrapFacts DEF GetInt
  <2>4. PICK f \in Int : 2 * port = (2 * Narrow(type)) * f
    BY Widths
  <2>5. 2 * port \in Int /\ 2 * Narrow(type) \in Int
    BY <2>1
  <2>6. Cong(g, v, 2 * Narrow(type))
    <3> DEFINE n == 2 * Narrow(type)
               p == 2 * port
    <3> HIDE DEF n, p
    <3>1. p \in Int /\ n \in Int /\ p = n * f /\ Cong(g, v, p)
      BY <2>3, <2>4, <2>5 DEF n, p
    <3>2. Cong(g, v, n)
      BY <2>3, <3>1, CongWeaken
    <3> QED
      BY <3>2 DEF n
  <2>7. PyToWasm(type, v) = Encoded(type, g)
    BY <1>1, <2>2 DEF PyToWasm
  <2> QED
    BY <1>1, <2>3, <2>6, <2>7
<1>2. CASE ~Integer(type)
  BY <1>2 DEF PyToWasm
<1> QED
  BY <1>1, <1>2

\* A value of wasm's own stands for itself.
LEMMA SelfStands == ASSUME NEW v \in Int, NEW m \in Int PROVE Cong(v, v, m)
<1>1. v = v + m * 0
  OBVIOUS
<1> QED
  BY <1>1 DEF Cong

-----------------------------------------------------------------------------
(* The inductive invariant: while a value is on its way, its slot holds     *)
(* what py_to_wasm made of it, and it was not refused.                      *)

\* What Python has as a float, it can have.
PyFloat(v) == ~Integer(type) => v \in Slot /\ MpFloat(v) = v

OnItsWay ==
    /\ port \in {HALF32, HALF64}
    /\ type \in Types
    /\ single \in BOOLEAN /\ computed \in BOOLEAN
    /\ slot \in Int /\ passed \in Int /\ answered \in Int
    /\ pc = "wasm" => Read(type, slot) = PyToWasm(type, passed)
    /\ pc = "answered" => /\ ~Integer(type) => answered \in Slot
                          /\ Read(type, slot) = IF computed THEN Encoded(type, answered)
                                                ELSE PyToWasm(type, answered)
    /\ pc \in {"wasm", "host"} => ~Refused(passed) /\ PyFloat(passed)
    /\ pc \in {"answered", "returned"} /\ ~computed => ~Refused(answered) /\ PyFloat(answered)

Inv == OnItsWay /\ ArgumentCrosses /\ ResultCrosses

\* What Python passes is an integer, or the bits of a float Python can have.
LEMMA PyValuesFacts ==
    ASSUME single \in BOOLEAN, NEW v \in PyValues(type) PROVE v \in Int /\ PyFloat(v)
<1>1. CASE Integer(type)
  BY <1>1, WidthsAssumption DEF PyValues, PyFloat
<1>2. CASE ~Integer(type)
  <2>1. PICK u \in Floats : v = MpFloat(u)
    BY <1>2 DEF PyValues
  <2>2. /\ u \in Slot /\ AsSingle(u) \in Slot
        /\ AsSingle(AsSingle(u)) = AsSingle(u)
    BY FloatsAssumption DEF AsSingle
  <2>3. v \in Slot /\ MpFloat(v) = v
    BY <2>1, <2>2 DEF MpFloat
  <2>4. Slot \subseteq Int
    BY WidthsAssumption DEF Slot
  <2> QED
    BY <2>3, <2>4 DEF PyFloat
<1> QED
  BY <1>1, <1>2

\* So is what wasm computes.
LEMMA WasmValuesFacts ==
    ASSUME NEW v \in WasmValues(type) PROVE v \in Int /\ (~Integer(type) => v \in Slot)
<1>1. Slot \subseteq Int
  BY WidthsAssumption DEF Slot
<1> QED
  BY <1>1, WidthsAssumption, FloatsAssumption DEF WasmValues, AsSingle

\* The next-state relation preserves the invariant.
LEMMA InvStep == Inv /\ [Next]_vars => Inv'
<1> SUFFICES ASSUME Inv, [Next]_vars PROVE Inv'
  OBVIOUS
<1> USE DEF Inv, OnItsWay
<1>0. 0 \in Int /\ 2 * HALF64 - 1 \in Int
  BY WidthsAssumption
<1>1. ASSUME NEW v \in PyValues(type), PassArgument(v) PROVE Inv'
  <2>1. v \in Int /\ PyFloat(v) /\ ~Refused(v)
    BY <1>1, PyValuesFacts DEF PassArgument
  <2>2. slot' \in Int /\ Read(type, slot') = PyToWasm(type, v)
    <3>1. PICK g \in Int : /\ PyToWasm(type, v) = Encoded(type, g)
                           /\ IF Integer(type) THEN Cong(g, v, 2 * Narrow(type)) ELSE g = v /\ v \in Slot
      BY <2>1, GetIntStands DEF PyFloat
    <3>2. Encoded(type, g) \in Int /\ 0 <= Encoded(type, g) /\ Encoded(type, g) < 2 * Half(type)
      BY <3>1, EncodedRange
    <3> QED
      BY <1>1, <3>1, <3>2, ReadWritten DEF PassArgument
  <2> QED
    BY <1>1, <2>1, <2>2
       DEF PassArgument, build, ArgumentCrosses, ResultCrosses, Crosses, Narrow, Refused, PyFloat, MpFloat, PyToWasm, GetInt
<1>2. ASSUME CallImport PROVE Inv'
  <2>1. Crosses(passed, seen')
    <3>1. passed \in Int /\ PyFloat(passed)
      BY <1>2 DEF CallImport
    <3>2. PICK g \in Int : /\ PyToWasm(type, passed) = Encoded(type, g)
                           /\ IF Integer(type) THEN Cong(g, passed, 2 * Narrow(type)) ELSE g = passed /\ passed \in Slot
      BY <3>1, GetIntStands DEF PyFloat
    <3>3. seen' = WasmToPy(type, Encoded(type, g))
      BY <1>2, <3>2 DEF CallImport
    <3> QED
      BY <3>1, <3>2, <3>3, ConvertedCrosses
  <2> QED
    BY <1>0, <1>2, <2>1
       DEF CallImport, build, ArgumentCrosses, ResultCrosses, Crosses, Narrow, Refused, PyFloat, MpFloat, PyToWasm, GetInt
<1>3. ASSUME NEW v \in PyValues(type), HostReturn(v) PROVE Inv'
  <2>1. v \in Int /\ PyFloat(v) /\ ~Refused(v)
    BY <1>3, PyValuesFacts DEF HostReturn
  <2>2. slot' \in Int /\ Read(type, slot') = PyToWasm(type, v)
    <3>1. PICK g \in Int : /\ PyToWasm(type, v) = Encoded(type, g)
                           /\ IF Integer(type) THEN Cong(g, v, 2 * Narrow(type)) ELSE g = v /\ v \in Slot
      BY <2>1, GetIntStands DEF PyFloat
    <3>2. Encoded(type, g) \in Int /\ 0 <= Encoded(type, g) /\ Encoded(type, g) < 2 * Half(type)
      BY <3>1, EncodedRange
    <3> QED
      BY <1>3, <3>1, <3>2, ReadWritten DEF HostReturn
  <2> QED
    BY <1>3, <2>1, <2>2
       DEF HostReturn, build, ArgumentCrosses, ResultCrosses, Crosses, Narrow, Refused, PyFloat, MpFloat, PyToWasm, GetInt
<1>4. ASSUME NEW v \in WasmValues(type), Compute(v) PROVE Inv'
  <2>1. v \in Int /\ (~Integer(type) => v \in Slot)
    BY WasmValuesFacts
  <2>2. Encoded(type, v) \in Int /\ 0 <= Encoded(type, v) /\ Encoded(type, v) < 2 * Half(type)
    BY <2>1, EncodedRange
  <2>3. slot' \in Int /\ Read(type, slot') = Encoded(type, v)
    BY <1>4, <2>2, ReadWritten DEF Compute
  <2> QED
    BY <1>4, <2>1, <2>3
       DEF Compute, build, ArgumentCrosses, ResultCrosses, Crosses, Narrow, Refused, PyFloat, MpFloat
<1>5. ASSUME ReturnResult PROVE Inv'
  <2>1. Crosses(answered, result')
    <3>1. PICK g \in Int : /\ Read(type, slot) = Encoded(type, g)
                           /\ IF Integer(type) THEN Cong(g, answered, 2 * Narrow(type)) ELSE g = answered /\ answered \in Slot
      <4>1. CASE computed
        <5>1. Narrow(type) \in Nat
          BY Widths
        <5>2. 2 * Narrow(type) \in Int
          BY <5>1
        <5>3. Cong(answered, answered, 2 * Narrow(type))
          BY <5>2, SelfStands
        <5> QED
          BY <1>5, <4>1, <5>3 DEF ReturnResult
      <4>2. CASE ~computed
        BY <1>5, <4>2, GetIntStands DEF ReturnResult
      <4> QED
        BY <4>1, <4>2
    <3>2. result' = WasmToPy(type, Encoded(type, g))
      BY <1>5, <3>1 DEF ReturnResult
    <3> QED
      BY <3>1, <3>2, ConvertedCrosses
  <2> QED
    BY <1>5, <2>1
       DEF ReturnResult, build, ArgumentCrosses, ResultCrosses, Crosses, Narrow, Refused, PyFloat, MpFloat
<1>6. ASSUME HostRaise \/ Again PROVE Inv'
  BY <1>6 DEF HostRaise, Again, build, ArgumentCrosses, ResultCrosses
<1>7. ASSUME UNCHANGED vars PROVE Inv'
  BY <1>7 DEF vars, build, ArgumentCrosses, ResultCrosses, Crosses, Narrow, Refused, PyFloat, MpFloat, PyToWasm, GetInt
<1> QED
  BY <1>1, <1>2, <1>3, <1>4, <1>5, <1>6, <1>7 DEF Next

\* The invariant holds of every reachable state.
LEMMA Invariance == Spec => []Inv
<1>1. Init => Inv
  <2>1. 0 \in Int /\ 2 * HALF64 - 1 \in Int
    BY WidthsAssumption
  <2> QED
    BY <2>1 DEF Init, Inv, OnItsWay, ArgumentCrosses, ResultCrosses
<1> QED
  BY <1>1, InvStep, PTL DEF Spec

\* What a value that crosses becomes is a number.
LEMMA CrossesInt ==
    ASSUME port \in {HALF32, HALF64}, type \in Types, single \in BOOLEAN,
           NEW v \in Int, ~Integer(type) => v \in Slot, NEW w, Crosses(v, w)
    PROVE  w \in Int
<1>1. CASE Integer(type)
  <2>1. Narrow(type) \in Nat \ {0}
    BY Widths
  <2> QED
    BY <1>1, <2>1, WrapFacts DEF Crosses
<1>2. CASE ~Integer(type)
  <2>1. Slot \subseteq Int /\ AsSingle(v) \in Slot
    BY <1>2, WidthsAssumption, FloatsAssumption DEF Slot, AsSingle
  <2> QED
    BY <1>2, <2>1 DEF Crosses, MpFloat
<1> QED
  BY <1>1, <1>2

\* A slot never holds more than its 64 bits, and what crosses stays a number,
\* at every width of the port.
THEOREM TypeCorrect == Spec => []TypeOK
<1>1. Init => TypeOK
  <2>1. 0 \in Slot /\ 2 * HALF64 - 1 \in Slot
    <3>1. HALF64 \in Nat \ {0}
      <4>1. 2 * HALF32 * HALF32 >= HALF32 /\ 2 * HALF32 * HALF32 \in Nat
        BY WidthsAssumption
      <4> QED
        BY <4>1, WidthsAssumption
    <3> QED
      BY <3>1 DEF Slot
  <2> SUFFICES ASSUME Init PROVE TypeOK
    OBVIOUS
  <2>2. slot \in Slot /\ pc \in {"python", "wasm", "host", "answered", "returned"}
    BY <2>1 DEF Init
  <2>3. {passed, seen, answered, result} \subseteq Int
    BY DEF Init
  <2>4. {single, natmod, computed} \subseteq BOOLEAN
    BY Zenon DEF Init
  <2> QED
    BY <2>2, <2>3, <2>4 DEF Init, TypeOK
<1>2. TypeOK /\ Inv /\ Inv' /\ [Next]_vars => TypeOK'
  <2> SUFFICES ASSUME TypeOK, Inv, Inv', [Next]_vars PROVE TypeOK'
    OBVIOUS
  <2> USE DEF TypeOK
  <2>0. 0 \in Slot /\ 2 * HALF64 - 1 \in Slot
    <3>1. HALF64 \in Nat \ {0}
      <4>1. 2 * HALF32 * HALF32 >= HALF32 /\ 2 * HALF32 * HALF32 \in Nat
        BY WidthsAssumption
      <4> QED
        BY <4>1, WidthsAssumption
    <3> QED
      BY <3>1 DEF Slot
  <2>1. ASSUME NEW v \in PyValues(type), PassArgument(v) \/ HostReturn(v) PROVE TypeOK'
    <3>1. v \in Int /\ (~Integer(type) => v \in Slot)
      BY PyValuesFacts DEF PyFloat
    <3>2. PICK g \in Int : /\ PyToWasm(type, v) = Encoded(type, g)
                           /\ IF Integer(type) THEN Cong(g, v, 2 * Narrow(type)) ELSE g = v /\ v \in Slot
      BY <3>1, GetIntStands
    <3>3. Encoded(type, g) \in Int /\ 0 <= Encoded(type, g) /\ Encoded(type, g) < 2 * Half(type)
      BY <3>2, EncodedRange
    <3>4. slot' \in Slot
      BY <2>1, <3>2, <3>3, WrittenFits DEF PassArgument, HostReturn
    <3> QED
      BY <2>1, <3>1, <3>4 DEF PassArgument, HostReturn, build
  <2>2. ASSUME CallImport PROVE TypeOK'
    <3>1. Crosses(passed, seen')
      BY <2>2 DEF Inv, OnItsWay, ArgumentCrosses, CallImport, build, Crosses, Narrow, MpFloat
    <3>2. ~Integer(type) => passed \in Slot
      BY <2>2 DEF Inv, OnItsWay, PyFloat, CallImport
    <3>3. seen' \in Int
      BY <3>1, <3>2, CrossesInt DEF Inv, OnItsWay
    <3> QED
      BY <2>0, <2>2, <3>3 DEF CallImport, build
  <2>3. ASSUME NEW v \in WasmValues(type), Compute(v) PROVE TypeOK'
    <3>1. v \in Int /\ (~Integer(type) => v \in Slot)
      BY WasmValuesFacts
    <3>2. Encoded(type, v) \in Int /\ 0 <= Encoded(type, v) /\ Encoded(type, v) < 2 * Half(type)
      BY <3>1, EncodedRange
    <3>3. slot' \in Slot
      BY <2>3, <3>2, WrittenFits DEF Compute
    <3> QED
      BY <2>3, <3>1, <3>3 DEF Compute, build
  <2>4. ASSUME ReturnResult PROVE TypeOK'
    <3>1. Crosses(answered, result')
      BY <2>4 DEF Inv, OnItsWay, ResultCrosses, ReturnResult, build, Crosses, Narrow, MpFloat
    <3>2. ~Integer(type) => answered \in Slot
      BY <2>4 DEF Inv, OnItsWay, ReturnResult
    <3>3. result' \in Int
      BY <3>1, <3>2, CrossesInt DEF Inv, OnItsWay
    <3> QED
      BY <2>4, <3>3 DEF ReturnResult, build
  <2>5. CASE HostRaise \/ Again
    BY <2>5 DEF HostRaise, Again, build
  <2>6. CASE UNCHANGED vars
    BY <2>6 DEF vars, build
  <2> QED
    BY <2>1, <2>2, <2>3, <2>4, <2>5, <2>6 DEF Next
<1> QED
  BY <1>1, <1>2, Invariance, PTL DEF Spec

\* Arguments of a host import cross unharmed, or reduced to the narrower of
\* the type and mp_int_t, at every width and for all integers.
THEOREM ArgumentCrossesAlways == Spec => []ArgumentCrosses
  BY Invariance, PTL DEF Inv

\* Its answer does so on the way back.
THEOREM ResultCrossesAlways == Spec => []ResultCrosses
  BY Invariance, PTL DEF Inv

\* A usermod never passes on an i64 other than the one it was given.
THEOREM I64ExactAlways == Spec => []I64Exact
<1>1. Inv => I64Exact
  <2> SUFFICES ASSUME Inv, ~natmod, type = "i64"
               PROVE  /\ pc = "host" => seen = passed
                      /\ pc = "returned" /\ ~computed => result = answered
    BY DEF I64Exact
  <2>1. port <= HALF64 /\ port \in Int /\ HALF64 \in Int
    <3>1. HALF32 \in Nat /\ HALF64 \in Nat /\ HALF32 <= HALF64
      <4>1. 2 * HALF32 * HALF32 >= HALF32 /\ 2 * HALF32 * HALF32 \in Nat
        BY WidthsAssumption
      <4> QED
        BY <4>1, WidthsAssumption
    <3> QED
      BY <3>1 DEF Inv, OnItsWay
  <2>2. Narrow(type) = port
    BY <2>1 DEF Narrow, Half
  <2> QED
    BY <2>2 DEF Inv, OnItsWay, ArgumentCrosses, ResultCrosses, Crosses, Refused, Integer
<1> QED
  BY <1>1, Invariance, PTL

\* An f64 is handed over exactly, unless wasm computed it and the port's
\* mp_float_t is a float.
THEOREM F64ExactAlways == Spec => []F64Exact
<1>1. Inv => F64Exact
  <2> SUFFICES ASSUME Inv, type = "f64"
               PROVE  /\ pc = "host" => seen = passed
                      /\ pc = "returned" /\ ~(single /\ computed) => result = answered
    BY DEF F64Exact
  <2>1. ~Integer(type) /\ type # "f32"
    BY DEF Integer
  <2>2. single \in BOOLEAN /\ computed \in BOOLEAN
    BY DEF Inv, OnItsWay
  <2>3. ASSUME pc = "host" PROVE seen = passed
    <3>1. MpFloat(passed) = passed /\ seen = MpFloat(passed)
      BY <2>1, <2>3 DEF Inv, OnItsWay, ArgumentCrosses, Crosses, PyFloat
    <3> QED
      BY <3>1
  <2>4. ASSUME pc = "returned", ~(single /\ computed) PROVE result = answered
    <3>1. result = MpFloat(answered)
      BY <2>1, <2>4 DEF Inv, ResultCrosses, Crosses
    <3>2. CASE ~computed
      BY <2>1, <2>4, <3>1, <3>2 DEF Inv, OnItsWay, PyFloat
    <3>3. CASE ~single
      BY <3>1, <3>3 DEF MpFloat
    <3> QED
      BY <2>2, <2>4, <3>2, <3>3
  <2> QED
    BY <2>3, <2>4
<1> QED
  BY <1>1, Invariance, PTL

=============================================================================
