--------------------------- MODULE LibcAllocProofs ---------------------------
(***************************************************************************)
(* That the overflow test of calloc is exact, for a size_t of any width.   *)
(***************************************************************************)
EXTENDS LibcAlloc, TLAPS

\* Multiplying and dividing by the same positive number gives it back.
LEMMA DivOfProduct ==
    ASSUME NEW a \in Nat, NEW b \in Nat, b > 0
    PROVE  (a * b) \div b = a
<1> DEFINE q == (a * b) \div b
           r == (a * b) % b
<1>1. q \in Nat /\ r \in 0 .. b - 1 /\ a * b = b * q + r
  OBVIOUS
<1>2. r = b * (a - q)
  BY <1>1
<1>3. CASE a - q >= 1
  <2>1. b * (a - q) >= b
    BY <1>1, <1>3
  <2> QED
    BY <1>1, <1>2, <2>1
<1>4. CASE a - q <= -1
  <2>1. b * (a - q) <= -b
    BY <1>1, <1>4
  <2> QED
    BY <1>1, <1>2, <2>1
<1> QED
  BY <1>1, <1>3, <1>4

\* The test in calloc (libc_shim.c:58-61) refuses exactly the requests whose
\* true size does not fit a size_t: no overflow passes, and nothing that fits
\* is refused.
THEOREM OverflowsExact ==
    ASSUME NEW num \in Sizes, NEW size \in Sizes
    PROVE  Overflows(num, size) <=> num * size >= SIZE_MOD
<1> DEFINE p == num * size
           b == Product(num, size)
<1>1. num \in Nat /\ size \in Nat /\ SIZE_MOD \in Nat /\ SIZE_MOD > 0
  BY SizeModAssumption DEF Sizes
<1>2. p \in Nat
  BY <1>1
<1>3. b \in Nat /\ b < SIZE_MOD /\ b <= p /\ (p < SIZE_MOD => b = p)
  <2> HIDE DEF p
  <2>1. b = p % SIZE_MOD
    BY DEF Product, p
  <2> HIDE DEF b
  <2> QED
    BY <1>1, <1>2, <2>1
<1>4. CASE size = 0
  BY <1>1, <1>4 DEF Overflows
<1>5. CASE size > 0 /\ p < SIZE_MOD
  <2>1. b \div size = num
    BY <1>1, <1>3, <1>5, DivOfProduct
  <2> QED
    BY <1>1, <1>2, <1>5, <2>1 DEF Overflows
<1>6. CASE size > 0 /\ p >= SIZE_MOD
  <2>1. b < p
    BY <1>1, <1>2, <1>3, <1>6
  <2>2. b \div size # num
    <3> SUFFICES ASSUME b \div size = num PROVE FALSE
      OBVIOUS
    <3> DEFINE r == b % size
    <3>1. b = size * num + r /\ r \in Nat
      <4> HIDE DEF b
      <4> QED
        BY <1>1, <1>3, <1>6
    <3>2. size * num = p /\ num \in Nat /\ size \in Nat
      BY <1>1
    <3> HIDE DEF p, b, r
    <3> QED
      BY <1>2, <1>3, <2>1, <3>1, <3>2
  <2> QED
    BY <1>1, <1>6, <2>2 DEF Overflows
<1> QED
  BY <1>1, <1>2, <1>4, <1>5, <1>6

\* What a block has room for is what was asked for, and a size.
LEMMA AllocInvariance == AllocSpec => [](AllocTypeOK /\ BlockHolds)
<1>1. AllocInit => AllocTypeOK /\ BlockHolds
  BY DEF AllocInit, AllocTypeOK, BlockHolds, NULL
<1>2. AllocTypeOK /\ BlockHolds /\ [AllocNext]_allocVars => AllocTypeOK' /\ BlockHolds'
  <2> SUFFICES ASSUME AllocTypeOK, BlockHolds, [AllocNext]_allocVars
               PROVE  AllocTypeOK' /\ BlockHolds'
    OBVIOUS
  <2> USE SizeModAssumption
  <2>1. ASSUME NEW num \in Sizes, NEW size \in Sizes, Calloc(num, size)
        PROVE  AllocTypeOK' /\ BlockHolds'
    <3>1. num * size \in Nat /\ num * size < SIZE_MOD
      BY <2>1, OverflowsExact DEF Calloc, Sizes
    <3>2. Product(num, size) = num * size
      <4> DEFINE p == num * size
      <4>1. p \in Nat /\ p < SIZE_MOD
        BY <3>1
      <4>2. Product(num, size) = p % SIZE_MOD
        BY DEF Product
      <4> HIDE DEF p
      <4>3. p % SIZE_MOD = p
        BY <4>1
      <4> QED
        BY <4>2, <4>3 DEF p
    <3>3. block' = num * size /\ asked' = num * size
      BY <2>1, <3>2 DEF Calloc
    <3> QED
      BY <3>1, <3>3 DEF AllocTypeOK, BlockHolds, Sizes
  <2>2. ASSUME NEW size \in Sizes, Realloc(size)
        PROVE  AllocTypeOK' /\ BlockHolds'
    BY <2>2 DEF Realloc, AllocTypeOK, BlockHolds, Sizes
  <2>3. CASE Free
    BY <2>3 DEF Free, AllocTypeOK, BlockHolds, NULL
  <2>4. CASE UNCHANGED allocVars
    BY <2>4 DEF allocVars, AllocTypeOK, BlockHolds
  <2> QED
    BY <2>1, <2>2, <2>3, <2>4 DEF AllocNext
<1> QED
  BY <1>1, <1>2, PTL DEF AllocSpec

\* A block is never larger than a size_t can say.
THEOREM AllocTypeCorrect == AllocSpec => []AllocTypeOK
  BY AllocInvariance, PTL

\* Every block wasm3 gets has room for what it asked for, whatever the width
\* of size_t.
THEOREM BlockHoldsAlways == AllocSpec => []BlockHolds
  BY AllocInvariance, PTL

=============================================================================
