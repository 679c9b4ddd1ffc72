----------------------------- MODULE LibcStrings -----------------------------
(***************************************************************************)
(* The loops of src/src/libc_shim.c that walk memory: memcmp, strlen,      *)
(* strcmp and strncmp, one iteration a step.  A string or block is a       *)
(* sequence of bytes that ends where its memory does.                      *)
(***************************************************************************)
EXTENDS Integers, Sequences

CONSTANTS Bytes,    \* the bytes that occur, 0 among them
          MAX_LEN   \* bound: the length of a block

ASSUME BytesAssumption == 0 \in Bytes /\ Bytes \subseteq 0 .. 255 /\ MAX_LEN \in Nat

Blocks == UNION {[1 .. k -> Bytes] : k \in 0 .. MAX_LEN}
Terminated(b) == \E k \in 1 .. Len(b) : b[k] = 0

VARIABLES fn, l, r, n,   \* the call and its arguments
          i,             \* how far l and r were advanced, from 1
          running,       \* the call has not returned
          ret            \* the result of one that has

stringsVars == <<fn, l, r, n, i, running, ret>>

\* What C asks of the arguments.
Callable(f, a, b, k) ==
    \/ f = "memcmp" /\ k <= Len(a) /\ k <= Len(b)
    \/ f = "strlen" /\ Terminated(a) /\ b = <<>> /\ k = 0
    \/ f = "strcmp" /\ Terminated(a) /\ Terminated(b) /\ k = 0
    \/ /\ f = "strncmp"
       /\ Terminated(a) \/ k <= Len(a)
       /\ Terminated(b) \/ k <= Len(b)

StringsInit ==
    /\ fn \in {"memcmp", "strlen", "strcmp", "strncmp"}
    /\ l \in Blocks /\ r \in Blocks /\ n \in 0 .. MAX_LEN
    /\ Callable(fn, l, r, n)
    /\ i = 1
    /\ running = TRUE
    /\ ret = 0

-----------------------------------------------------------------------------

\* memcmp and strncmp stop before they read when n is used up.
Counted == fn \in {"memcmp", "strncmp"}
UsedUp == Counted /\ n = 0

\* A byte outside of the block is some other byte.
At(b, k) == IF k \in 1 .. Len(b) THEN b[k] ELSE 1

\* Mutant: strcmp and strncmp go on behind the terminator.
GoesOnBehind == ~UsedUp /\ IF fn = "strlen" THEN At(l, i) # 0 ELSE At(l, i) = At(r, i)

\* The condition of the loop.
GoesOn == /\ ~UsedUp
          /\ fn # "strlen" => At(l, i) = At(r, i)
          /\ fn # "memcmp" => At(l, i) # 0

Iterate == /\ running
           /\ GoesOn
           /\ i' = i + 1
           /\ n' = IF Counted THEN n - 1 ELSE n
           /\ UNCHANGED <<fn, l, r, running, ret>>

\* Mutant: the bytes are compared as signed chars.
SignedDifference == ((At(l, i) + 128) % 256) - ((At(r, i) + 128) % 256)

\* The bytes are compared as unsigned chars.
Difference == At(l, i) - At(r, i)

Return == /\ running
          /\ ~GoesOn
          /\ running' = FALSE
          /\ ret' = IF fn = "strlen" THEN i - 1
                    ELSE IF UsedUp THEN 0 ELSE Difference
          /\ UNCHANGED <<fn, l, r, n, i>>

StringsNext == Iterate \/ Return

StringsSpec == StringsInit /\ [][StringsNext]_stringsVars

-----------------------------------------------------------------------------

\* The k-th byte of b counts: it is in the block, and in a string no terminator
\* comes before it.
Counts(b, k) == k <= Len(b) /\ (fn # "memcmp" => \A j \in 1 .. k - 1 : b[j] # 0)

\* No byte is read outside of a block, or behind the terminator of a string,
\* or once n is used up: the order of the tests in each loop condition.
ReadsInside ==
    running /\ ~UsedUp =>
        Counts(l, i) /\ (fn # "strlen" => Counts(r, i))

SignOf(k) == IF k < 0 THEN -1 ELSE IF k > 0 THEN 1 ELSE 0

\* How many bytes n allowed at the start.
Limit == IF Counted THEN n + i - 1 ELSE MAX_LEN

\* The positions at which the two differ, among those that count.
Differing == {k \in 1 .. Limit : Counts(l, k) /\ Counts(r, k) /\ l[k] # r[k]}

\* The result is the one C defines: the length, or the order of the first
\* bytes that differ, as unsigned chars, and 0 if none do.
ResultRight ==
    ~running =>
        IF fn = "strlen" THEN Counts(l, ret + 1) /\ l[ret + 1] = 0
        ELSE IF Differing = {} THEN ret = 0
        ELSE \E k \in Differing : /\ \A j \in Differing : k <= j
                                  /\ SignOf(ret) = SignOf(l[k] - r[k])

-----------------------------------------------------------------------------
(* The inductive invariant the proofs in LibcStringsProofs rest on.         *)

StringsTypeOK ==
    /\ fn \in {"memcmp", "strlen", "strcmp", "strncmp"}
    /\ l \in Seq(Bytes) /\ r \in Seq(Bytes)
    /\ Len(l) <= MAX_LEN /\ Len(r) <= MAX_LEN
    /\ n \in Nat /\ i \in Nat \ {0} /\ ret \in Int
    /\ running \in BOOLEAN

\* What was walked over counts, and is the same on both sides.
Walked ==
    \A j \in 1 .. i - 1 :
        /\ j <= Len(l)
        /\ fn # "memcmp" => l[j] # 0
        /\ fn # "strlen" => j <= Len(r) /\ l[j] = r[j]

\* What stops the walk in b: its terminator, or the n that is left.
Stops(b) == \/ fn # "memcmp" /\ Terminated(b)
            \/ Counted /\ n + i - 1 <= Len(b)

\* Once it has returned, the loop had ended there.
Returned ==
    ~running => ~GoesOn /\ ret = IF fn = "strlen" THEN i - 1
                                 ELSE IF UsedUp THEN 0 ELSE Difference

StringsIInv == /\ StringsTypeOK /\ Walked /\ Returned
               /\ Stops(l) /\ (fn # "strlen" => Stops(r))

=============================================================================
