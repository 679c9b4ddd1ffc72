-------------------------- MODULE LibcStringsProofs --------------------------
(***************************************************************************)
(* That memcmp, strlen, strcmp and strncmp read no byte they may not, and  *)
(* return what C defines, on blocks of any length.                         *)
(***************************************************************************)
EXTENDS LibcStrings, SequenceTheorems, TLAPS

\* A block is a sequence of bytes.
LEMMA BlocksAreSequences ==
    ASSUME NEW b \in Blocks PROVE b \in Seq(Bytes) /\ Len(b) <= MAX_LEN
<1>1. PICK k \in 0 .. MAX_LEN : b \in [1 .. k -> Bytes]
  BY DEF Blocks
<1>2. b \in Seq(Bytes)
  BY <1>1, SeqDef, BytesAssumption
<1>3. Len(b) = k
  BY <1>1, <1>2, LenProperties, BytesAssumption
<1> QED
  BY <1>1, <1>2, <1>3, BytesAssumption

\* What is to be read next is inside, if there is anything left to compare.
LEMMA NextCounts ==
    ASSUME StringsTypeOK, Walked, ~UsedUp, NEW b \in Seq(Bytes), Stops(b),
           \A j \in 1 .. i - 1 : j <= Len(b) /\ (fn # "memcmp" => b[j] # 0)
    PROVE  Counts(b, i)
<1> USE DEF StringsTypeOK
<1>1. CASE fn # "memcmp" /\ Terminated(b)
  <2>1. PICK k \in 1 .. Len(b) : b[k] = 0
    BY <1>1 DEF Terminated
  <2>2. Len(b) \in Nat
    OBVIOUS
  <2>3. ~(k < i)
    BY <1>1, <2>1, <2>2
  <2> QED
    BY <1>1, <2>1, <2>2, <2>3 DEF Counts
<1>2. CASE Counted /\ n + i - 1 <= Len(b)
  <2>1. n >= 1
    BY <1>2 DEF UsedUp
  <2> QED
    BY <1>2, <2>1 DEF Counts
<1> QED
  BY <1>1, <1>2 DEF Stops

\* A byte is a number.
LEMMA AtInt ==
    ASSUME NEW b \in Seq(Bytes), NEW k \in Nat PROVE At(b, k) \in 0 .. 255
<1>1. CASE k \in 1 .. Len(b)
  <2>1. b[k] \in Bytes
    BY <1>1
  <2> QED
    BY <1>1, <2>1, BytesAssumption DEF At
<1>2. CASE k \notin 1 .. Len(b)
  BY <1>2 DEF At
<1> QED
  BY <1>1, <1>2

\* The invariant holds of every reachable state.
THEOREM StringsInvariance == StringsSpec => []StringsIInv
<1>1. StringsInit => StringsIInv
  <2> SUFFICES ASSUME StringsInit PROVE StringsIInv
    OBVIOUS
  <2>1. StringsTypeOK
    BY BlocksAreSequences, BytesAssumption DEF StringsInit, StringsTypeOK
  <2>2. Walked /\ Returned
    BY DEF StringsInit, Walked, Returned
  <2>3. Stops(l) /\ (fn # "strlen" => Stops(r))
    BY <2>1 DEF StringsInit, Stops, Callable, Counted, StringsTypeOK
  <2> QED
    BY <2>1, <2>2, <2>3 DEF StringsIInv
<1>2. StringsIInv /\ [StringsNext]_stringsVars => StringsIInv'
  <2> SUFFICES ASSUME StringsIInv, [StringsNext]_stringsVars PROVE StringsIInv'
    OBVIOUS
  <2> USE DEF StringsIInv
  <2>1. CASE Iterate
    <3>1. ~UsedUp /\ Counts(l, i) /\ (fn # "strlen" => Counts(r, i))
      BY <2>1, NextCounts DEF Iterate, GoesOn, Walked, StringsTypeOK
    <3>2. StringsTypeOK'
      BY <2>1, <3>1 DEF Iterate, StringsTypeOK, UsedUp
    <3>3. Walked'
      <4>1. At(l, i) = l[i] /\ (fn # "strlen" => At(r, i) = r[i])
        BY <3>1 DEF At, Counts, StringsTypeOK
      <4>2. i <= Len(l) /\ (fn # "memcmp" => l[i] # 0)
        BY <2>1, <3>1, <4>1 DEF Iterate, GoesOn, Counts
      <4>3. fn # "strlen" => i <= Len(r) /\ l[i] = r[i]
        BY <2>1, <3>1, <4>1 DEF Iterate, GoesOn, Counts
      <4>4. \A j \in 1 .. i' - 1 : j \in 1 .. i - 1 \/ j = i
        BY <2>1 DEF Iterate, StringsTypeOK
      <4> QED
        BY <2>1, <4>2, <4>3, <4>4 DEF Iterate, Walked
    <3>4. Stops(l)' /\ (fn # "strlen" => Stops(r))'
      BY <2>1, <3>1 DEF Iterate, Stops, Counted, Terminated, UsedUp, StringsTypeOK
    <3>5. Returned'
      BY <2>1 DEF Iterate, Returned
    <3> QED
      BY <3>2, <3>3, <3>4, <3>5
  <2>2. CASE Return
    <3>1. Difference \in Int
      <4>1. l \in Seq(Bytes) /\ r \in Seq(Bytes) /\ i \in Nat
        BY DEF StringsTypeOK
      <4>2. At(l, i) \in Int /\ At(r, i) \in Int
        <5>1. At(l, i) \in 0 .. 255 /\ At(r, i) \in 0 .. 255
          BY <4>1, AtInt
        <5> QED
          BY <5>1
      <4> QED
        BY <4>2 DEF Difference
    <3>2. StringsTypeOK'
      <4>1. i - 1 \in Int /\ 0 \in Int
        BY DEF StringsTypeOK
      <4>2. ret' \in Int
        BY <2>2, <3>1, <4>1, Zenon DEF Return
      <4> QED
        BY <2>2, <4>2 DEF Return, StringsTypeOK
    <3>3. Walked' /\ Stops(l)' /\ (fn # "strlen" => Stops(r))'
      BY <2>2 DEF Return, Walked, Stops, Counted, Terminated
    <3>4. Returned'
      BY <2>2 DEF Return, Returned, GoesOn, UsedUp, Counted, At, Difference
    <3> QED
      BY <3>2, <3>3, <3>4
  <2>3. CASE UNCHANGED stringsVars
    BY <2>3 DEF stringsVars, StringsTypeOK, Walked, Returned, Stops, Counted, Terminated, GoesOn, UsedUp, At, Difference
  <2> QED
    BY <2>1, <2>2, <2>3 DEF StringsNext
<1> QED
  BY <1>1, <1>2, PTL DEF StringsSpec

\* No byte outside of a block, behind a terminator, or beyond n is ever read.
THEOREM ReadsInsideAlways == StringsSpec => []ReadsInside
<1>1. StringsIInv => ReadsInside
  <2> SUFFICES ASSUME StringsIInv, running, ~UsedUp
               PROVE  Counts(l, i) /\ (fn # "strlen" => Counts(r, i))
    BY DEF ReadsInside
  <2>1. \A j \in 1 .. i - 1 : j <= Len(l) /\ (fn # "memcmp" => l[j] # 0)
    BY DEF StringsIInv, Walked
  <2>2. Counts(l, i)
    BY <2>1, NextCounts DEF StringsIInv, StringsTypeOK
  <2>3. ASSUME fn # "strlen" PROVE Counts(r, i)
    <3>1. \A j \in 1 .. i - 1 : j <= Len(r) /\ (fn # "memcmp" => r[j] # 0)
      BY <2>3 DEF StringsIInv, Walked
    <3> QED
      BY <2>3, <3>1, NextCounts DEF StringsIInv, StringsTypeOK
  <2> QED
    BY <2>2, <2>3
<1> QED
  BY <1>1, StringsInvariance, PTL

\* What memcmp, strcmp and strncmp return is the order of the first bytes that
\* differ among those that count, or 0; what strlen returns is the length.
THEOREM ResultRightAlways == StringsSpec => []ResultRight
<1>1. StringsIInv => ResultRight
  <2> SUFFICES ASSUME StringsIInv, ~running PROVE ResultRight
    BY DEF ResultRight
  <2> USE DEF StringsIInv
  <2>0. StringsTypeOK /\ Walked /\ ~GoesOn
    BY DEF Returned
  <2>1. i \in Nat \ {0} /\ n \in Nat /\ l \in Seq(Bytes) /\ r \in Seq(Bytes)
    BY <2>0 DEF StringsTypeOK
  <2>2. ~UsedUp => Counts(l, i) /\ (fn # "strlen" => Counts(r, i))
    <3>1. \A j \in 1 .. i - 1 : j <= Len(l) /\ (fn # "memcmp" => l[j] # 0)
      BY <2>0 DEF Walked
    <3>2. fn # "strlen" => \A j \in 1 .. i - 1 : j <= Len(r) /\ (fn # "memcmp" => r[j] # 0)
      BY <2>0 DEF Walked
    <3> QED
      BY <2>0, <2>1, <3>1, <3>2, NextCounts
  <2>3. ~UsedUp => At(l, i) = l[i] /\ (fn # "strlen" => At(r, i) = r[i])
    BY <2>1, <2>2 DEF At, Counts
  <2>4. CASE fn = "strlen"
    <3>1. ~UsedUp
      BY <2>4 DEF UsedUp, Counted
    <3>2. ret = i - 1 /\ l[i] = 0
      BY <2>0, <2>3, <2>4, <3>1 DEF Returned, GoesOn
    <3>3. ret + 1 = i
      BY <2>1, <3>2
    <3> QED
      BY <2>2, <2>4, <3>1, <3>2, <3>3 DEF ResultRight
  <2>5. CASE fn # "strlen" /\ UsedUp
    <3>1. ret = 0
      BY <2>5 DEF Returned
    <3>2. Limit = i - 1
      BY <2>1, <2>5 DEF Limit, UsedUp
    <3>3. Differing = {}
      BY <2>0, <2>5, <3>2 DEF Differing, Walked
    <3> QED
      BY <2>5, <3>1, <3>3 DEF ResultRight
  <2>6. CASE fn # "strlen" /\ ~UsedUp /\ l[i] # r[i]
    <3>1. ret = l[i] - r[i]
      BY <2>3, <2>6 DEF Returned, Difference
    <3>2. i \in 1 .. Limit
      <4>1. CASE Counted
        <5>1. Limit = n + i - 1 /\ n # 0
          BY <2>6, <4>1, Zenon DEF Limit, UsedUp
        <5> QED
          BY <2>1, <5>1
      <4>2. CASE ~Counted
        <5>1. Limit = MAX_LEN
          BY <4>2, Zenon DEF Limit
        <5>2. i <= Len(l) /\ Len(l) <= MAX_LEN /\ Len(l) \in Nat
          BY <2>1, <2>2, <2>6 DEF Counts, StringsTypeOK
        <5> QED
          BY <2>1, <5>1, <5>2, BytesAssumption
      <4> QED
        BY <4>1, <4>2
    <3>3. i \in Differing
      BY <2>2, <2>6, <3>2 DEF Differing
    <3>4. \A j \in Differing : i <= j
      <4> SUFFICES ASSUME NEW j \in Differing, ~(i <= j) PROVE FALSE
        OBVIOUS
      <4>1. Limit \in Int
        BY <2>1, BytesAssumption DEF Limit
      <4>2. j \in 1 .. i - 1 /\ l[j] # r[j]
        BY <2>1, <4>1 DEF Differing
      <4> QED
        BY <2>0, <2>6, <4>2 DEF Walked
    <3> QED
      BY <2>6, <3>1, <3>3, <3>4 DEF ResultRight
  <2>7. CASE fn # "strlen" /\ ~UsedUp /\ l[i] = r[i]
    <3>1. fn # "memcmp" /\ l[i] = 0
      BY <2>0, <2>3, <2>7 DEF GoesOn
    <3>2. ret = 0
      <4>1. l[i] \in Int
        BY <3>1
      <4>2. ret = l[i] - r[i]
        BY <2>3, <2>7 DEF Returned, Difference
      <4> QED
        BY <2>7, <4>1, <4>2
    <3>3. Differing = {}
      <4> SUFFICES ASSUME NEW j \in Differing PROVE FALSE
        OBVIOUS
      <4>1. Limit \in Int
        BY <2>1, BytesAssumption DEF Limit
      <4>2. j \in Int /\ 1 <= j /\ l[j] # r[j] /\ \A k \in 1 .. j - 1 : l[k] # 0
        BY <3>1, <4>1 DEF Differing, Counts
      <4>3. CASE j < i
        BY <2>0, <2>1, <2>7, <4>2, <4>3 DEF Walked
      <4>4. CASE j = i
        BY <2>7, <4>2, <4>4
      <4>5. CASE i < j
        BY <2>1, <3>1, <4>2, <4>5
      <4> QED
        BY <2>1, <4>2, <4>3, <4>4, <4>5
    <3> QED
      BY <2>7, <3>2, <3>3 DEF ResultRight
  <2> QED
    BY <2>4, <2>5, <2>6, <2>7
<1> QED
  BY <1>1, StringsInvariance, PTL

=============================================================================
