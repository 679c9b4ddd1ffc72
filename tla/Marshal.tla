------------------------------- MODULE Marshal -------------------------------
(***************************************************************************)
(* How values cross between Python and wasm (py_to_wasm, wasm_to_py and    *)
(* the trampoline of src/src/wasm3_mp.c): a value goes from Python through *)
(* mp_int_t or mp_float_t into a 64-bit slot of wasm3, out of it to a host *)
(* import, and what that answers, or what wasm computes itself, goes back  *)
(* the same way.  Widths are given by half their moduli (2^31, 2^63), so   *)
(* that small ones can be checked.  A floating-point value is given by the *)
(* bits of the double that is equal to it.  Port and build are chosen at   *)
(* the start, for good.                                                    *)
(***************************************************************************)
EXTENDS Integers

CONSTANTS HALF32,     \* half the modulus of an i32
          HALF64,     \* of an i64, and of a slot
          Ints,       \* the integers a program passes and wasm computes
          Floats,     \* the same of floating-point values
          ToSingle,   \* the conversion from double to float, on bits
          ToDouble    \* and back

ASSUME WidthsAssumption == /\ HALF32 \in Nat \ {0}
                           /\ HALF64 = 2 * HALF32 * HALF32
                           /\ Ints \subseteq Int

Types == {"i32", "i64", "f32", "f64"}
Integer(t) == t \in {"i32", "i64"}
Half(t) == IF t \in {"i32", "f32"} THEN HALF32 ELSE HALF64

Slot == 0 .. 2 * HALF64 - 1
Singles == 0 .. 2 * HALF32 - 1

\* A float is a double too, and comes back as it was (NaNs are left out).
ASSUME FloatsAssumption == /\ Floats \subseteq Slot
                           /\ ToSingle \in [Slot -> Singles]
                           /\ ToDouble \in [Singles -> Slot]
                           /\ \A w \in Singles : ToSingle[ToDouble[w]] = w

VARIABLES port,       \* the port: half the modulus of its mp_int_t
          single,     \* and whether its mp_float_t is a float
          natmod,     \* the build: TRUE if mp_obj_get_int truncates
          type,       \* of the one parameter and result of the import
          pc,         \* where the value is
          slot,       \* the 64-bit slot of wasm3 it crosses in
          passed, seen,      \* the argument of call(), and of the callable
          answered, result,  \* what the callable or wasm answered, and call() returns
          computed           \* wasm computed the answer itself

build == <<port, single, natmod, type>>
vars == <<build, pc, slot, passed, seen, answered, result, computed>>

TypeOK == /\ port \in {HALF32, HALF64}
          /\ {single, natmod, computed} \subseteq BOOLEAN
          /\ type \in Types
          /\ pc \in {"python", "wasm", "host", "answered", "returned"}
          /\ slot \in Slot
          /\ {passed, seen, answered, result} \subseteq Int

Init == /\ port \in {HALF32, HALF64}
        /\ single \in BOOLEAN
        /\ natmod \in BOOLEAN
        /\ type \in Types
        /\ pc = "python"
        /\ slot \in {0, 2 * HALF64 - 1}   \* whatever was there
        /\ passed = 0 /\ seen = 0 /\ answered = 0 /\ result = 0
        /\ computed = FALSE

-----------------------------------------------------------------------------

Fits(v, half) == -half <= v /\ v < half

\* A conversion to a signed integer of that width.
Wrap(v, half) == ((v + half) % (2 * half)) - half

\* Mutant: nothing is refused.
NeverRefused(v) == FALSE

\* mp_obj_get_int: a usermod's raises OverflowError, a natmod's truncates.
Refused(v) == Integer(type) /\ ~natmod /\ ~Fits(v, port)
GetInt(v) == Wrap(v, port)

\* The value of a double that was a float for a while.
AsSingle(v) == ToDouble[ToSingle[v]]

\* WASM3_FLOAT: the conversion to mp_float_t.
MpFloat(v) == IF single THEN AsSingle(v) ELSE v

\* Mutants: the cast to an unsigned number is missing; an f64 is converted as
\* an f32 is.
EncodedSigned(t, v) == IF Integer(t) THEN v ELSE IF t = "f32" THEN ToSingle[v] ELSE v
EncodedSingle(t, v) == IF Integer(t) THEN v % (2 * Half(t)) ELSE IF t = "f32" THEN ToSingle[v] ELSE AsSingle(v)

\* A value as wasm keeps it: an integer in two's complement, a float as bits.
Encoded(t, v) == IF Integer(t) THEN v % (2 * Half(t)) ELSE IF t = "f32" THEN ToSingle[v] ELSE v

PyToWasm(t, v) == Encoded(t, IF Integer(t) THEN GetInt(v) ELSE v)

\* Mutant: an i32 is not sign-extended.
WasmToPyUnsigned(t, w) == IF Integer(t) THEN Wrap(w, port) ELSE MpFloat(w)

WasmToPy(t, w) ==
    IF Integer(t) THEN Wrap(Wrap(w, Half(t)), port)
    ELSE MpFloat(IF t = "f32" THEN ToDouble[w] ELSE w)

\* The trampoline reads and writes the lower half of a slot for an i32 and an
\* f32, and leaves the upper half as it was.
Read(t, s) == s % (2 * Half(t))

\* Mutant: the slot is not cleared before it is written.
WrittenInto(t, s, w) == (s + w) % (2 * HALF64)

Written(t, s, w) == (s - Read(t, s)) + w

-----------------------------------------------------------------------------

\* What Python has of the type to pass, and what wasm can compute.
PyValues(t) == IF Integer(t) THEN Ints ELSE {MpFloat(v) : v \in Floats}
WasmValues(t) == IF Integer(t) THEN {v \in Ints : Fits(v, Half(t))}
                 ELSE IF t = "f32" THEN {AsSingle(v) : v \in Floats} ELSE Floats

\* call(): the argument is converted and becomes a slot.
PassArgument(v) ==
    /\ pc = "python"
    /\ ~Refused(v)
    /\ passed' = v
    /\ slot' = Written(type, slot, PyToWasm(type, v))
    /\ pc' = "wasm"
    /\ UNCHANGED <<build, seen, answered, result, computed>>

\* The trampoline converts it for the callable; the slot of the result is
\* another one, with anything in it.
CallImport ==
    /\ pc = "wasm"
    /\ seen' = WasmToPy(type, Read(type, slot))
    /\ slot' \in {0, 2 * HALF64 - 1}
    /\ pc' = "host"
    /\ UNCHANGED <<build, passed, answered, result, computed>>

\* wasm computes a result without asking the host.
Compute(v) ==
    /\ pc = "wasm"
    /\ answered' = v
    /\ computed' = TRUE
    /\ slot' = Written(type, slot, Encoded(type, v))
    /\ pc' = "answered"
    /\ UNCHANGED <<build, passed, seen, result>>

\* The callable returns, and its answer is stored.
HostReturn(v) ==
    /\ pc = "host"
    /\ ~Refused(v)
    /\ answered' = v
    /\ computed' = FALSE
    /\ slot' = Written(type, slot, PyToWasm(type, v))
    /\ pc' = "answered"
    /\ UNCHANGED <<build, passed, seen, result>>

\* The answer is refused (or the callable raises): the call is abandoned.
HostRaise ==
    /\ pc = "host"
    /\ pc' = "python"
    /\ UNCHANGED <<build, slot, passed, seen, answered, result, computed>>

\* wasm returns the answer, and call() converts it.
ReturnResult ==
    /\ pc = "answered"
    /\ result' = WasmToPy(type, Read(type, slot))
    /\ pc' = "returned"
    /\ UNCHANGED <<build, slot, passed, seen, answered, computed>>

Again == /\ pc = "returned"
         /\ pc' = "python"
         /\ UNCHANGED <<build, slot, passed, seen, answered, result, computed>>

Next == \/ \E v \in PyValues(type) : PassArgument(v) \/ HostReturn(v)
        \/ \E v \in WasmValues(type) : Compute(v)
        \/ CallImport \/ HostRaise \/ ReturnResult \/ Again

Spec == Init /\ [][Next]_vars

-----------------------------------------------------------------------------

\* The width that limits what can cross: the type's, or the port's.
Narrow(t) == IF Half(t) < port THEN Half(t) ELSE port

\* What the other side sees of v.  Of an integer: all of it if it fits both the
\* type and mp_int_t, and else v in two's complement at the narrower width.  Of
\* a floating-point value: v at the narrower precision.
Crosses(v, w) ==
    IF Integer(type) THEN w = Wrap(v, Narrow(type)) /\ (Fits(v, Narrow(type)) => w = v)
    ELSE w = IF type = "f32" THEN AsSingle(v) ELSE MpFloat(v)

\* An argument reaches a host import as Crosses says, whatever was in its slot
\* before: no bit of the slot's upper half, and no sign, leaks into it.
ArgumentCrosses == pc = "host" => Crosses(passed, seen)

\* And so does what the import answers, or wasm computes, on its way back to
\* the caller.
ResultCrosses == pc = "returned" => Crosses(answered, result)

\* In a usermod an i64 of Python is never altered in silence: what does not fit
\* mp_int_t raises, and what is passed on is what was given, also where that is
\* said not to cross (SmallIntsOnly).  One that wasm computed is cut down to
\* mp_int_t.
I64Exact ==
    ~natmod /\ type = "i64" =>
        /\ pc = "host" => seen = passed
        /\ pc = "returned" /\ ~computed => result = answered

\* What is said of i64 on a 32-bit port (wasm3_mp.c:129-130, README.md:468-470):
\* "values outside the small-int range will not round-trip".  A small int has
\* one bit less than mp_int_t; up to mp_int_t, values do cross.
SmallInt(v) == Fits(v, port \div 2)
SmallIntsOnly ==
    port = HALF32 /\ type = "i64" /\ pc = "host" /\ ~SmallInt(passed) => seen # passed

\* An f64 is never altered ("f64 is unaffected", wasm3_mp.c:133) but for one
\* that wasm computed and a port with single-precision floats hands to Python.
F64Exact ==
    type = "f64" =>
        /\ pc = "host" => seen = passed
        /\ pc = "returned" /\ ~(single /\ computed) => result = answered

=============================================================================
