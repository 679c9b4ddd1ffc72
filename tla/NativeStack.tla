---------------------------- MODULE NativeStack ----------------------------
(***************************************************************************)
(* The native stack under call() and the trampoline of a host import       *)
(* (src/src/wasm3_mp.c).  Without tail calls every wasm call takes a C     *)
(* frame, and two guards share the one stack: wasm3 gives each entry a     *)
(* budget (d_m3MaxNativeStack, src/src/wasm3_mp_config.h) counted from     *)
(* where the entry happens, and MicroPython refuses to enter a Python      *)
(* function beyond a fixed depth.  The guards themselves are code of wasm3 *)
(* and of MicroPython; the callables that are linked are Python functions. *)
(*                                                                         *)
(* Sizes and depths are in an arbitrary unit.                              *)
(***************************************************************************)
EXTENDS Integers, Sequences

CONSTANTS STACK,          \* the C stack of the port
          BUDGET,         \* d_m3MaxNativeStack
          PY_LIMIT,       \* the depth beyond which no Python function is entered
          PY_FRAME,       \* the most that one Python call takes
          CALL_FRAME,     \* what call() takes, with its arrays of MAX_ARGS values
          WASM_FRAME,     \* the most that one wasm call takes
          IMPORT_FRAME    \* what the trampoline takes

ASSUME FramesAssumption ==
    /\ STACK \in Nat /\ BUDGET \in Nat /\ PY_LIMIT \in Nat
    /\ CALL_FRAME \in Nat /\ IMPORT_FRAME \in Nat
    /\ PY_FRAME \in Nat \ {0} /\ WASM_FRAME \in Nat \ {0}

\* What the two guards let a program take: wasm entered as deep as Python may
\* be, that uses its budget up and calls one more import.  Nothing in the build
\* compares it with STACK.
Need == PY_LIMIT + PY_FRAME + CALL_FRAME + BUDGET + WASM_FRAME + IMPORT_FRAME

\* Mutant: the budget is counted from the main loop.
LimitFromTop(entry) == BUDGET

\* Where wasm3 traps, when it is entered at this depth.
LimitFrom(entry) == entry + BUDGET

VARIABLES frames,    \* the stack, from the program's main loop up
          limit,     \* the depth at which wasm3 traps
          runaway    \* the program recurses for ever: nothing in it returns

vars == <<frames, limit, runaway>>

\* A frame: its kind, how deep the stack is above it, and how deep it was when
\* the m3_Call it belongs to was entered.  A call() is "args" as long as it
\* converts its arguments, and "call" from m3_Call on.
Frame == [kind : {"py", "args", "call", "wasm", "import"}, top : Nat, entry : Nat]

StackTypeOK ==
    /\ frames \in Seq(Frame) \ {<<>>}
    /\ limit \in Nat
    /\ runaway \in BOOLEAN

Init ==
    /\ frames = <<[kind |-> "py", top |-> 0, entry |-> 0]>>
    /\ limit = LimitFrom(0)
    /\ runaway \in BOOLEAN

Top == frames[Len(frames)]

\* What a program does whose stack has overflown is undefined; none does here.
Push(kind, size, entry) ==
    /\ Top.top <= STACK
    /\ frames' = Append(frames, [kind |-> kind, top |-> Top.top + size, entry |-> entry])
    /\ UNCHANGED runaway

\* Back to the k-th frame.  Whether the limit of an abandoned or a finished
\* call() stays in force is up to wasm3, so both are possible.
BackTo(k) ==
    /\ Top.top <= STACK
    /\ frames' = SubSeq(frames, 1, k)
    /\ limit' \in {limit, LimitFrom(frames[k].entry)}
    /\ UNCHANGED runaway

\* The frames an exception may be caught in: Python code, which in a runaway
\* recursion is the main loop alone.
Handlers == {k \in 1 .. Len(frames) : frames[k].kind = "py" /\ (runaway => k = 1)}

\* An exception unwinds to a handler, through the C frames of wasm3 too.
Unwind == \E k \in Handlers : BackTo(k)

-----------------------------------------------------------------------------
(* Python: from other Python code, from the trampoline, or from an argument *)
(* of call() that converts itself.                                          *)

\* Mutant: no guard on Python functions.
NeverTooDeep == FALSE

\* mp_cstack_check
TooDeep == Top.top > PY_LIMIT

EnterPython ==
    /\ Top.kind \in {"py", "args", "import"}
    /\ ~TooDeep
    /\ \E size \in 1 .. PY_FRAME : Push("py", size, Top.entry)
    /\ UNCHANGED limit

\* "maximum recursion depth exceeded"
PythonRefused ==
    /\ Top.kind \in {"py", "args", "import"}
    /\ TooDeep
    /\ Unwind

-----------------------------------------------------------------------------
(* wasm: from call(), and from wasm itself.                                *)

CallWasm ==
    /\ Top.kind = "py"
    /\ Push("args", CALL_FRAME, Top.entry)
    /\ UNCHANGED limit

\* m3_Call, in the same frame.
StartWasm ==
    /\ Top.kind = "args"
    /\ Top.top <= STACK
    /\ frames' = [frames EXCEPT ![Len(frames)] =
                     [kind |-> "call", top |-> Top.top, entry |-> Top.top]]
    /\ limit' = LimitFrom(Top.top)
    /\ UNCHANGED runaway

\* Mutant: the guard is not there.
NeverSpent == FALSE

Spent == Top.top > limit

\* Mutant: with tail calls a wasm call would take no stack.
EnterWasmTail ==
    /\ Top.kind \in {"call", "wasm"}
    /\ ~Spent
    /\ Push("wasm", 0, Top.entry)
    /\ UNCHANGED limit

EnterWasm ==
    /\ Top.kind \in {"call", "wasm"}
    /\ ~Spent
    /\ \E size \in 1 .. WASM_FRAME : Push("wasm", size, Top.entry)
    /\ UNCHANGED limit

CallImport ==
    /\ Top.kind = "wasm"
    /\ Push("import", IMPORT_FRAME, Top.entry)
    /\ UNCHANGED limit

\* Mutant: call() ignores what m3_Call returns, and goes on in Python.
TrapUnchecked ==
    /\ Top.kind \in {"call", "wasm"}
    /\ Spent
    /\ \E k \in 1 .. Len(frames) :
           /\ frames[k].kind = "py"
           /\ \A j \in k + 1 .. Len(frames) : frames[j].kind # "py"
           /\ BackTo(k)

\* "[trap] stack overflow": m3_Call returns it, and check() raises it.
Trap ==
    /\ Top.kind \in {"call", "wasm"}
    /\ Spent
    /\ Unwind

-----------------------------------------------------------------------------

\* A function returns to the one that called it, unless nothing ever returns.
Return ==
    /\ ~runaway
    /\ Len(frames) > 1
    /\ BackTo(Len(frames) - 1)

\* Any other exception: of Python code, of a value that does not convert, or
\* of another trap.
Throw ==
    /\ ~runaway
    /\ Unwind

Run == \/ EnterPython \/ PythonRefused
       \/ CallWasm \/ StartWasm \/ EnterWasm \/ CallImport \/ Trap
       \/ Return \/ Throw

Next == Run

\* The program has one thread, and what has been entered goes on running.
Fairness == WF_vars(Len(frames) > 1 /\ Run)

Spec == Init /\ [][Next]_vars /\ Fairness

-----------------------------------------------------------------------------
(* Safety and liveness.                                                    *)

\* Python and wasm take no more of the stack than Need, however they call each
\* other: wasm entered again from a host import gets a budget of its own, but
\* Python's guard bounds how deep that may happen.
DepthBounded == Top.top <= Need

\* The stack never overflows: d_m3MaxNativeStack turns too deep a recursion into
\* a trap instead of a crash, on a device with a few KB of stack too
\* (README.md:326-328, wasm3_mp_config.h:56-58).  By DepthBounded it does where
\* Need <= STACK, and the default budget of 8 KiB is not chosen so.
StackBounded == Top.top <= STACK

\* However deep call() was entered, wasm has the whole budget from there on,
\* after calls that nested in it returned or were abandoned too: it never traps
\* because of what was on the stack before it.
FullBudget == Top.kind \in {"call", "wasm"} /\ Spent => Top.top > Top.entry + BUDGET

\* A runaway recursion, in wasm or through host imports, ends in an exception
\* that the main loop gets (wasm3_mp_config.h:56-58), instead of a crash.
RunawayEnds == runaway /\ Len(frames) > 1 ~> Len(frames) = 1

\* The guards bound the frames too, not only their size: every second one at
\* least takes some of the stack, since wasm calls are no tail calls here.
FramesBounded == Len(frames) <= 2 * Need + 2

-----------------------------------------------------------------------------
(* The inductive invariant the proofs in NativeStackProofs rest on.         *)

\* How deep the stack may be above a frame of each kind.
Reach ==
    [py |-> PY_LIMIT + PY_FRAME,
     args |-> PY_LIMIT + PY_FRAME + CALL_FRAME,
     call |-> PY_LIMIT + PY_FRAME + CALL_FRAME,
     wasm |-> PY_LIMIT + PY_FRAME + CALL_FRAME + BUDGET + WASM_FRAME,
     import |-> Need]

\* No frame is deeper than its kind allows, and neither is the limit.
Reached ==
    /\ \A k \in 1 .. Len(frames) : frames[k].top <= Reach[frames[k].kind]
    /\ limit <= LimitFrom(Reach.call)

\* Depths and entries grow towards the top of the stack, and the limit in force
\* is not below that of the call() that runs.
Stacked ==
    /\ \A j, k \in 1 .. Len(frames) :
           j <= k => frames[j].top <= frames[k].top /\ frames[j].entry <= frames[k].entry
    /\ \A k \in 1 .. Len(frames) :
           /\ frames[k].entry <= frames[k].top
           /\ frames[k].entry <= Reach.call
    /\ LimitFrom(Top.entry) <= limit

\* Python and wasm take some stack; there is one of them below every call() and
\* every trampoline.
Slack(kind) == IF kind \in {"py", "wasm"} THEN 1 ELSE 2
Dense == \A k \in 1 .. Len(frames) : k <= 2 * frames[k].top + Slack(frames[k].kind)

SIInv == StackTypeOK /\ Reached /\ Stacked /\ Dense

=============================================================================
