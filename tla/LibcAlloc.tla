------------------------------ MODULE LibcAlloc ------------------------------
(***************************************************************************)
(* The allocator wasm3 sees in a natmod (src/src/libc_shim.c): calloc,     *)
(* realloc and free over m_realloc_maybe of MicroPython, which may find    *)
(* the heap full.  One block is followed; sizes are size_t, so the product *)
(* calloc computes wraps modulo SIZE_MOD.                                  *)
(***************************************************************************)
EXTENDS Integers

CONSTANT SIZE_MOD   \* 2^32 or 2^64 in the code: SIZE_MAX + 1

ASSUME SizeModAssumption == SIZE_MOD \in Nat \ {0}

Sizes == 0 .. SIZE_MOD - 1
NULL == -1

VARIABLES block,   \* how many bytes are really there, or NULL
          asked    \* how many wasm3 believes to be there: count times size

allocVars == <<block, asked>>

AllocTypeOK == block \in Sizes \cup {NULL} /\ asked \in Nat

AllocInit == block = NULL /\ asked = 0

\* Mutant: the product is taken to be a mathematical one.
ProductWide(num, size) == num * size

\* num * size, in a size_t
Product(num, size) == (num * size) % SIZE_MOD

\* Mutant: a product that wraps to something larger than a factor is let through.
OverflowsIfSmaller(num, size) == size # 0 /\ Product(num, size) < num

\* The test of calloc, which divides instead of multiplying wider.
Overflows(num, size) == size # 0 /\ Product(num, size) \div size # num

\* What m_realloc_maybe is asked for succeeds; if not, calloc and realloc
\* return NULL and nothing changes.
Calloc(num, size) ==
    /\ block = NULL
    /\ ~Overflows(num, size)
    /\ block' = Product(num, size)
    /\ asked' = num * size

Realloc(size) ==
    /\ block' = size
    /\ asked' = size

Free == block' = NULL /\ asked' = 0

AllocNext ==
    \/ \E num, size \in Sizes : Calloc(num, size)
    \/ \E size \in Sizes : Realloc(size)
    \/ Free

AllocSpec == AllocInit /\ [][AllocNext]_allocVars

-----------------------------------------------------------------------------

\* Whatever count and element size wasm3 asks for, a block it gets has room
\* for all of it: the division in calloc lets no wrapped product through.
BlockHolds == block # NULL => block = asked

=============================================================================
