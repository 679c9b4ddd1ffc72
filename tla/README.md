# micropython-wasm3 in TLA+

A specification of the native module and of the Python wrapper of
micropython-wasm3, model-checked with TLC, with the central results proved with
TLAPS. Paths below are those of the repository (`src/wasm3_mp.c`, ...).

## 1. Inventory of the system

| Part | State | Operations | What makes it correct |
|---|---|---|---|
| Slot table (`src/wasm3_mp.c`) | `wasm3_mp_env`, `wasm3_mp_slots[]`: runtime, module, blob, fns, n_fns, in_use | `load`, `unload`, `find`, `link` | no pointer dangles, a handle resolves to one load, nothing leaks when a step of `load` fails, indices stay valid |
| Calls (`src/wasm3_mp.c`) | C frames of `call` and of the trampoline; windows onto memory | `call`, host imports, `memory`, `mem_size` | control never returns into freed objects; a callable in use is not collected; a grown memory is noticed |
| Marshalling (`src/wasm3_mp.c:124-164`) | none | `py_to_wasm`, `wasm_to_py` | values survive, or are refused |
| Wrapper (`src/wasm3.py`) | `Module._h`, `Module._fns`, `Function._h/_i` | `Module()`, `function`, `close`, `with` | an open Module owns its slot; a Function runs the export it is named after; no slot is lost |
| libm for natmods (`src/math_shim.c`) | none | `trunc floor ceil rint fabs copysign`, classification | IEEE results on every pattern |
| libc for natmods (`src/libc_shim.c`) | the GC heap | `calloc realloc free`, `mem*`, `str*`, `abort`, stubs | no overflow in sizes; `abort` unwinds as an exception |
| Native stack (`src/wasm3_mp_config.h`, `src/wasm3_mp.c`) | the C stack, the depth at which wasm3 traps | every call and return | the two guards bound what is taken of the stack; a runaway recursion ends in an exception |
| Example host (`natmod/examples/run_wiring_app.py`) | a cached window | the `wiring` imports | never uses a stale window |
| CI harness, tests, build files | none in the program | | |

Interactions. The wrapper calls the native functions with a small int. `call`
enters wasm3, which calls back into the trampoline, which calls a Python
callable, which may use the whole API again. A Python exception (or, in a
natmod, wasm3's `abort()`) unwinds all C frames in between. MicroPython's
collector may run at any allocation from the GC heap and frees what it does not
reach; in a natmod it scans `.bss` and wasm3's memory is on its heap, in a
usermod neither is so (`usermod/micropython.cmake:15-19`). For the same reason a
soft reset takes everything of a natmod away, and of a usermod the Python
objects only. There are no threads and no messages: what is hard is re-entrancy,
exceptions that skip clean-up, partial failure of `load`, reuse of slots, the
collector, soft resets, and one C stack for all of it.

## 2. Modules

**HandleTable** is what the module promises about handles: a fixed set of
handles, each naming at most one instance, no instance named twice or opened
twice; a reset may free all of them at once.

**Wasm3Slots** is the slot table. Every attempt at `load()` has a number, its
*generation*; the copy of the bytes, the runtime and the module it allocates are
named by it, in the sets `blobs`, `runtimes`, `modules` of what is allocated. A
pointer is a generation or `NULL`; it dangles if it is in no such set. `load()`
is one action per call in it that can fail (`CopyBlob`, `NewRuntime`,
`ParseModule`, `LoadModule`, their failures, `Abort`), so a failure meets
exactly what was allocated before it and a collection can come in between.
`Unload`, `Find`, `Link` are single actions: nothing in them runs Python code,
and what they allocate changes nothing of their result. Calls that raise before
they change anything are stuttering steps. `NATMOD` selects the build, which
decides what the collector scans; `ABORTS` says whether wasm3 may `abort()`,
and `aborted` remembers which generations it cut short: what they had allocated
is the one thing `NothingLeaks` lets stay behind. `SoftReset` ends the program:
a natmod is imported anew with an empty table (`TableAnew`), a usermod finds its
table, runtimes and modules as they were, without the copies of the bytes and
the callables, which were Python objects. Generations go on counting, so what is
left of an earlier program can be told apart from what is new.

**Wasm3Calls** composes the table with the stack of calls in flight. Each frame
holds what the C locals hold: slot, function, whether arguments are being
converted (which may run Python), wasm runs, or a host import does, and the
callable of that import. Whenever Python runs, every action of the table can be
taken, `Unload` of a module whose call is in flight too; with `ADVISED` a program
does that to spent runtimes only, as the documents advise. A call whose module is
gone may raise, which touches nothing of the module; what it does if it goes on
instead is undefined, and no step of it is taken (`FrameLive` in `EnterWasm` and
`HostReturn`). `Grow` is `memory.grow`, which may move the memory; `Memory` is the
check-and-refetch of the example host. `ResetAll` is a soft reset, which the
exception that asks for it reaches only after it has unwound every call.

**NativeStack** is the C stack under those calls. A frame has a kind (Python,
`call()` before and from `m3_Call` on, wasm, the trampoline), the depth of the
stack above it, and the depth at which the `m3_Call` it belongs to was entered; the
bytes are abstracted to a unit. Two guards share the stack: wasm3 traps beyond `limit`,
which `StartWasm` sets to `d_m3MaxNativeStack` below itself, and MicroPython refuses
to enter a Python function beyond a fixed depth. `Need` is what the two let a
program take together; whether the stack has that much room is up to the port. `runaway` chooses a program in
which nothing returns or catches, only recurses. What becomes of `limit` when an
inner call ends is up to wasm3, so both outcomes are allowed.

**Wasm3Py** composes the table with `Module` and `Function` objects. A program
creates, resolves, closes and drops them in any order; `SoftResetPy` takes all of
them away, and `orphans` are the slots in use that nobody is left to close.
HandleTable is used a second time here: the Modules of a program are handles of
their own (`MT`), closed by `close()` and not by `unload()`.

**MathShim** has the functions of `math_shim.c` on integers that are bit
patterns, with the two widths of the format as constants. `Magnitude` is the
number a pattern stands for, and `Rounded` the hardware's addition, defined from
exact integers. `Pow2` is a recursive function, so that it can be reasoned about.

**LibcAlloc** has `calloc`, `realloc` and `free` with sizes modulo `SIZE_MOD`.

**LibcStrings** has the loops of `memcmp`, `strlen`, `strcmp` and `strncmp`, one
iteration a step, on blocks of memory that end. `Counts` says which bytes the
call may look at, `Callable` what C asks of the arguments.

**Marshal** sends a value of one of the four types from Python through
`py_to_wasm`, a slot and `wasm_to_py` to a host import, and the import's answer,
or a value wasm computed (`Compute`), back. `HALF32`, `HALF64` and `port` are
half the moduli of `i32`, `i64` and `mp_int_t`. A natmod's `mp_obj_get_int`
(dynruntime) truncates, a usermod's raises `OverflowError`. A floating-point
value is the bits of the double equal to it; `ToSingle` and `ToDouble` are the
conversions between the formats, of which only `FloatsAssumption` is used: a
float survives being a double. `single` says that `mp_float_t` is a float.

`MCWasm3Slots`, `MCWasm3Calls`, `MCWasm3Py` and `MCMarshal` instantiate modules for
TLC (symmetry sets, inputs); `MCShims` puts MathShim, LibcStrings and LibcAlloc, which
share no state, into one run whose behaviours follow one of them each; NativeStack is
run directly. `*Proofs` hold the theorems. Definitions
marked *Mutant* in the modules are plausible wrong versions of a definition next
to them; substituting one for the other breaks the property it is listed with.

## 3. Runs

| Run | Bounds | Shows |
|---|---|---|
| `MCWasm3Slots.cfg` | 2 slots, 2 functions each, 3 loads, 2 names, 2 callables; natmod, with aborts and soft resets; 643,759 states | `NoDangling`, `Coherent`, `NothingLeaks`, `BlobAlive`, `CallableAlive`, `IndicesStable`, refinement of HandleTable, the inductive invariant `IInv` |
| `MCWasm3Slots_usermod_blob.cfg` | usermod | violation: the copy of a loaded module is collected |
| `MCWasm3Slots_usermod_callable.cfg` | usermod | violation: a linked callable is collected |
| `MCWasm3Calls.cfg` | 2 slots, 2 loads, depth 2, 2 pages, 2 callables; natmod, aborts, soft resets; `ADVISED = FALSE`; 1,356,088 states | `CalleeAlive`, `SizeDetectsGrow`, the action property `FramesKept`, the inductive invariant `CallsIInv` |
| `MCWasm3Calls_caveat.cfg` | same, `ADVISED = TRUE` | violation of `FramesLive` |
| `NativeStack.cfg` | a stack of 18 units, budget 4, Python limit 7, frames of 1 or 2; 92,505 states | `DepthBounded`, `FullBudget`, `FramesBounded`, the inductive invariant `SIInv`, liveness `RunawayEnds` |
| `NativeStack_rp2040.cfg` | units of 512 bytes: stack and budget of 16, Python limit 8 | violation of `StackBounded` |
| `MCWasm3Py.cfg` | 3 Modules, 2 slots, 2 names, 3 loads; usermod with soft resets; 1,532,756 states | `OwnsSlot`, `SlotsAccounted`, `OneEntryPerName`, `FunctionsRight`, `StaleRunsLater`, refinement of HandleTable by the Modules (`ModulesImplementHandleTable`), the table's `NoDangling` and `NothingLeaks` in a usermod, the inductive invariant `PyIInv` |
| `MCWasm3Py_stale.cfg` | 2 Modules | violation: a stale Function is accepted |
| `MCShims.cfg` | formats of 4 exponent and 5 fraction bits, all 1024 patterns; blocks of up to 3 of the bytes 0, 1, 200; 7-bit sizes, all pairs; 26,363 states | `DirectedRounding`, `RintHalfEven`, `RoundedStays`; `ReadsInside`, `ResultRight`, the inductive invariant `StringsIInv`; `BlockHolds` |
| `MCMarshal.cfg` | 4-bit i32 and f32, 8-bit i64 and f64, all ports and both builds; 1,109,736 states | `ArgumentCrosses`, `ResultCrosses`, `I64Exact`, `F64Exact` |
| `MCMarshal_smallint.cfg` | the same | violation of `SmallIntsOnly` |

The runs check the type invariants too: in Wasm3Slots, Marshal and LibcAlloc by
themselves, in Wasm3Calls, Wasm3Py, NativeStack and LibcStrings as parts of the
inductive invariants. MathShim's only variable is always a pattern (`InPatterns`,
proved). TLC checked every inductive invariant of a run before it was proved.

Bounds. Two slots are the least where one can be confused with another, and
three loads the least where a slot is reused while the other is busy. Two
functions make "the entry before" and "the entry after" differ and fill the
table. Two callables allow one to be linked over while it runs. A depth of two
has a call within a callback, and that is where a frame can be outlived; two
pages let the memory grow once, and move or stay. `MAX_LOADS`, `MAX_DEPTH` and
`MAX_PAGES` only stop counters; the first two appear in guards. In MathShim the
exponent range exceeds the fraction's width on both sides of 1.0, as in the real
formats, so every branch is taken, and carries into the exponent happen.
The integers of Marshal are all those next to a boundary of some width, signed
and unsigned; its doubles are zero, the ends of the range and what lies on either
side of a float. The stack of NativeStack is just `Need`, and a
behaviour that fills it to the last unit exists; its frames come in
two sizes, so a guard is met both exactly and by overshooting, and there is room
for two calls in one another and for wasm recursion inside both. The bytes of LibcStrings have one on each side of 128. Only
`MCShims.cfg` disables the deadlock check: a call of a string function ends when it
returns.

Fairness. The API is synchronous: a step of the other modules is taken only
because a program takes it, and whether wasm code returns is up to the wasm code,
so they state none. NativeStack does: `WF_vars(Len(frames) > 1 /\ Run)`. The
program has one thread, and a function that has been entered goes on with its next
step; the main loop (`Len(frames) = 1`) may wait for ever. Under it `RunawayEnds`
says that a program in which nothing returns still comes back to the main loop,
through a trap or through MicroPython's check. It does where the stack has room for
`Need`, as in that run; on a smaller stack it may overflow first. It is the claim of
`src/wasm3_mp_config.h:56-58`. Wasm that loops without calling anything is outside
of it: nothing in the code stops that.

### What the violations mean

* *Copy collected* and *callable collected* (usermod). The comments at
  `src/wasm3_mp.c:21-25` and `:327-328` describe the natmod; in a usermod the
  slot table is not a root, as `usermod/micropython.cmake:15-19` itself says,
  and the copy is still allocated from the GC heap.
* *Spent runtime*. "Treat that runtime as spent and `close()` it"
  (`README.md:475-476`) is right once no call of the runtime is in flight. If
  the exception is caught in a host import of an outer call of the same runtime,
  closing it there frees what the outer call returns into. `FramesKept`, in the
  passing run, is what holds of every program: nothing but such an `unload()` takes
  a module away from a call in flight, no load, failure, exception or collection.
* *Stale Function*. `tests/test_wasm3.py:112` tests a stale handle while its
  slot is free. Once the slot is loaded again, the old handle is valid again.
  `StaleRunsLater`, in the passing run, bounds the damage: what such a Function
  runs was loaded after the Module it came from, never what `close()` freed.
* *RP2040*. "`d_m3MaxNativeStack` turns that into a trap instead of a crash"
  (`README.md:326-328`) needs the trap to come before the end of the stack. The
  default of 8 KiB (`src/wasm3_mp_config.h:76`) counts from where wasm3 is entered,
  and the whole stack of a Cortex-M0+ is 8 KB (`src/wasm3_mp.c:265-266`). Python's
  guard is set to half the stack in that run, so that Python alone never overflows
  it; wasm does. `DepthBounded` says how much room suffices.
* *Small ints*. `src/wasm3_mp.c:129-130` and `README.md:468-470` say that on a 32-bit
  port an i64 outside the small-int range does not round-trip. Every value of
  `mp_int_t` does, and small ints have one bit less: `mp_obj_new_int` makes a big int
  of the rest. `ArgumentCrosses` and `ResultCrosses` say what becomes of all others.

## 4. Proofs

`Wasm3SlotsProofs` proves, for every number of slots, functions and loads and
every set of names, imports and callables (assumptions `SizesAssumption` and
`NamesAssumption`):

* `Invariance`: `Spec => []IInv`. `IInv` is what the safety properties need to
  be inductive: generations are `Fresh` (nothing is newer than the last load, a
  running load owns the newest); slots are `Disjoint` (freeing one slot's objects
  cannot hurt another); a running load is `Filling` a slot not in use with its
  own generation; modules not loaded yet are `Unlinked`; `NatmodAlive` is what
  the natmod's collector keeps; `Exact` is the absence of leaks in the middle of
  a load, `Remains` being what aborted loads left in a slot. Without `Disjoint`, `Unload` would break `NoDangling` of another slot;
  without `Fresh`, `CopyBlob` would break `Disjoint`. One lemma per action, the
  failure exits of `load()` sharing one (`LoadFailedIInv`).
* From it: `TypeCorrect`, `NoDanglingAlways`, `CoherentAlways`,
  `NothingLeaksAlways`; with `NATMOD`, `BlobAliveAlways` and
  `CallableAliveAlways`; and the action property `IndicesStableAlways`.
* `Refinement`: `Spec => ImplementsHandleTable`. `LoadModule` opens a handle,
  `Unload` closes one, every other action is a stutter of the abstract table
  (`InitRefines`, `StepRefines`).
* `OneOwnerAlways`: what holds of the abstract table is therefore inherited; no
  instance is ever named by two handles.

The theorems hold for either build. In the usermod `NoDangling` and
`NothingLeaks` are checked under the wrapper, through soft resets (`MCWasm3Py.cfg`).

`LibcAllocProofs` proves `OverflowsExact` (`calloc` refuses exactly the products
that do not fit, for any width of `size_t`) and `BlockHoldsAlways`.

`MarshalProofs` proves `ArgumentCrossesAlways`, `ResultCrossesAlways` and
`I64ExactAlways` for every width and every integer. The argument is congruence:
every conversion changes a number by a multiple of its modulus, all moduli are
multiples of the narrower one (`Widths`), and a number that fits is the only one
of its class that does (`WrapUnique`); so the chain of conversions equals one
(`Crossing`). The invariant `OnItsWay` says what the slot holds in between.

`F64ExactAlways` and `ResultCrossesAlways` cover floating-point values for every
pair of conversions that satisfies `FloatsAssumption`. `TypeCorrect` adds that a
slot never holds more than its bits (`WrittenFits`).

`Wasm3CallsProofs` proves `CallsIInv` invariant, and with it `CallsTypeCorrect`,
`CalleeAliveAlways` and `SizeDetectsGrowAlways`, for every depth, number of pages
and size of the table, and for every program, one that unloads modules in the middle
of their calls included. `CallsIInv` is the table's `IInv` with the properties
themselves, `Growing` (memory moves only when it grows, and no window is larger than
its memory) and `WasmLive` (the module whose wasm code runs is there, which a step of
wasm code needs). The lemmas about the table are used as they are; what each adds is
that a step of the table keeps the frames' modules (`LiveStays`).

* `FramesKeptAlways`: a call starts in a live module (`NewFrameLive`), and only an
  `unload()` of its slot takes that away. What a call does in a freed module is
  undefined and not modelled, so this is as much as can be said of a program that
  does that.
* `CarefulFramesLive`: a program that unloads no module with a call in flight never
  returns into a freed one.
* Under every nesting of calls and callbacks the table keeps `IInv`
  (`CallsTableInvariance`), still implements the abstract table (`CallsRefinement`)
  and moves no index (`CallsIndicesStable`). Each step of the calls is one of the
  table, or leaves alone what the abstract table shows, a collection that spares the
  callables of calls in flight included (`CallsStepTable`).

`Wasm3PyProofs` proves `PyIInv` invariant, and with it `PyTypeCorrect`,
`OwnsSlotAlways`, `SlotsAccountedAlways`, `OneEntryPerNameAlways` and
`FunctionsRightAlways`, in both builds and through soft resets. To the properties
`PyIInv` adds `MadeFirst` (a Module without `__init__` done has nothing),
`CacheRight` (a cached index is that of an open Module and names the right
function: without it a hit could hand out a wrong one), `SameHandle`,
`FiniteCaches` (so that adding a name adds one to the cardinality), and `Later`
(what is in the slot of a closed Module was loaded after it).

* `StaleRunsLaterAlways`: a Function that outlives `close()` raises or runs code
  loaded later. `StaleRunsLater` is not inductive: a new tenant of the slot may
  not have resolved a function yet, and the stale Function still raises. `Later`
  compares the tenant itself, and says that `load()` only makes newer ones.
* `PyUsesTable`: `PySpec => Spec`. Every step of the wrapper is a step of the table
  or leaves it alone, so each theorem of `Wasm3SlotsProofs` holds under the wrapper.
* `ModulesRefinement`: the open Modules implement the abstract table of handles.
  `__init__` opens one when `load()` has succeeded (`InitDoneOpens`), `close()`
  closes it (`CloseCloses`), a soft reset frees them all, and no other step touches
  them (`OthersKeepModules`). It rests on `OwnsSlot`: what a Module names is what
  the native part finds behind its handle.

`NativeStackProofs` proves `SIInv` invariant, and with it `DepthBoundedAlways` and
`FullBudgetAlways`, for all sizes of frames, budget and stack (`FramesAssumption`
only says that they are numbers, and that Python and wasm calls take some stack).
The argument is the table `Reach`: a Python frame begins below `PY_LIMIT`, a
`call()` above a Python frame, wasm below the budget of its `call()`. Since an
inner limit may stay in force after its call has ended, `Stacked` is needed: a
later limit is never lower than an earlier one. `StackBoundedAlways` is the
corollary for a port with `Need <= STACK`.

`FramesBoundedAlways` bounds the number of frames: at most `2 * Need + 2`. `Dense` is
the invariant behind it: the sizes of `call()` and of the trampoline may be 0, but
below each of them there is a frame that takes some stack (`Slack`). It is the safety
half of `RunawayEnds`, as a runaway goes deeper until an exception gets to the main
loop; what is left to TLC is that a step is always possible and taken, that is,
fairness and `ENABLED`.

`LibcStringsProofs` proves `StringsIInv` invariant, and from it
`ReadsInsideAlways` and `ResultRightAlways`, for blocks of any length and any set
of bytes. `Walked` says that what was passed over is inside, equal on both sides
and no terminator; `Stops`, that a terminator or the rest of `n` lies ahead. What
is read next is then inside (`NextCounts`).

`MathShimProofs` proves `DirectedRoundingAlways`, `RintHalfEvenAlways` and
`RoundedStaysAlways` for every format with `WidthsAssumption`; `FormatsFit` shows
that 8/23 and 11/52 bits, which are far too many patterns to enumerate, are two of
them. The steps:

* Powers of two. Induction is used in the form "a set of naturals with 0 that is
  closed under successor is `Nat`" (`SetInduction`), which follows from the
  well-foundedness of `<` and has no operator for a parameter. With it `Pow2` exists
  (`Pow2Def`), is monotonic and turns sums into products, and every number has a
  logarithm (`LogExists`).
* Patterns. `Fields` and `PackFields`: a pattern is its sign, exponent and fraction;
  `MagnitudeOrder`: patterns are ordered as the numbers they stand for, and so equal
  if these are (`MagnitudeInjective`).
* `trunc`, `floor`, `ceil`. `SplitMagnitude` divides a number at its unit bit;
  `ClearAndAway` shows that clearing the bits below gives its integral part, and
  adding their mask first the next one, also when the carry runs into the exponent
  (`Carry`).
* `rint`. For magnitudes below `2^MB` the exponent of the sum with `2^MB` is known,
  its unit in the last place is one (`RintAdds`), so the rounding of the sum is the
  rounding to an integer, and the subtraction is exact (`IntegerEncodes`,
  `RintSumIs`).
* The invariant is `InPatterns`: the results are patterns again.

`Rounded`, the hardware's addition, is a definition these results rest on: with
excess precision, which `natmod/Makefile` rules out on x86, `RintHalfEven` is not
claimed.

Model-checked only: `RunawayEnds` (liveness is out of the prover's reach), and
everything listed as a violation.

## 5. Assumptions about code outside the repository

The wasm3 submodule and MicroPython are external; what is assumed of them is
what the code relies on.

* `m3_ParseModule` stores NULL in the module pointer when it fails;
  `m3_FreeRuntime` frees the modules loaded into it and no other;
  `m3_LoadModule` leaves a module it refuses to its caller.
* `memory.grow` may move the memory only when it makes it larger.
* A natmod's collector follows every pointer from the slot table through wasm3's
  structures. The repository's README calls that open for a usermod with wasm3
  on the GC heap, because MicroPython's collector ignores pointers into the
  middle of a block; for natmods the model takes the comments' word.
* Locals of C frames are seen by the collector.
* `mp_obj_get_int` truncates in a natmod and checks in a usermod.
* A failed lookup in `find` or `link` changes nothing.
* A soft reset of MicroPython starts the GC heap anew and initialises neither the
  firmware's `.bss` nor the C heap; a `.mpy` that is imported again gets a new,
  zeroed `.bss`.
* wasm3 checks the native stack when a wasm function is entered and traps if it is
  deeper than its limit; MicroPython checks it when a Python function is entered.
  A callable given to `link` is a Python function: a native one, `call` itself for
  instance, is entered without that check.
* wasm3's trap and MicroPython's guard are the only bounds on the C stack. That a
  port's stack has room for `Need` is assumed by the run `NativeStack.cfg` (for
  `RunawayEnds`) and by no theorem but `StackBoundedAlways`. It is the "comfortably
  under the port's actual stack size" of `src/wasm3_mp_config.h:59` made precise.
* A conversion from float to double and back gives the same float (NaNs left out).

## 6. Not modelled

* The bytes of modules and of memory, and so the buffer `load()` holds while it
  converts `stack_bytes`, and results that fail to convert after wasm has run.
* Windows onto memory that outlive `unload()`: no code of the repository
  invalidates them.
* Several results of one import (only the first is written), NaNs, wording of
  errors.
* Where wasm3 keeps the operands of a call nested in another one of the same
  runtime: wasm3 is a submodule whose code is not in the repository.
* `m3_CallArgv` stubs, the file stubs and `isspace` of `libc_shim.c`: constant
  functions. `memcpy`, `memmove`, `memset`: calls of MicroPython's.
* Settings of `wasm3_mp_config.h` other than the native stack and the number of
  pages, header shadows, build files, CI scripts, the fixture generator.
* Ports without a C heap, where wasm3 cannot run.

## 7. What could follow

Windows with a life beyond `unload()`, as a violation once a document says what
a program may do with them; imports with several results.
