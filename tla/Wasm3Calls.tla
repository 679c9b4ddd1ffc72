----------------------------- MODULE Wasm3Calls -----------------------------
(***************************************************************************)
(* Calls in both directions on top of the slot table: call() enters wasm,  *)
(* an import of the wasm code enters the trampoline and the Python         *)
(* callable behind it, and that callable may use the whole API again       *)
(* before it returns or raises.  The C frames of call() and of the         *)
(* trampoline keep pointers (the function, its module, the callable)       *)
(* across all of that, and Python keeps windows onto linear memory that    *)
(* memory.grow may have moved.                                             *)
(***************************************************************************)
EXTENDS Wasm3Slots, Sequences

CONSTANTS MAX_DEPTH,   \* bound: how many calls may be in flight
          MAX_PAGES,   \* d_m3MaxLinearMemoryPages
          ADVISED      \* TRUE: in mid-call the program unloads spent runtimes only

ASSUME CallsAssumption == /\ MAX_DEPTH \in Nat
                          /\ MAX_PAGES \in Nat \ {0}
                          /\ ADVISED \in BOOLEAN

VARIABLES frames,   \* the calls in flight, the innermost one last
          spent,    \* modules a call of which was abandoned by an exception
          pages,    \* the size of each module's linear memory
          base,     \* where that memory is: a counter of its moves
          window    \* the bytearray Python last got for each module

callVars == <<frames, spent, pages, base, window>>
allVars == <<vars, callVars>>

\* A call() in flight: the slot and function it was made with, whether it
\* still converts its arguments, its wasm code runs, or a host import of it
\* does, and the callable of that import.
Frame == [slot : Slots, fn : [module : Loads, name : Names \cup {NULL}],
          at : {"args", "wasm", "host"},
          callable : Callables \cup {NULL}]

NoWindow == [len |-> 0, base |-> 0]
Window == [len : 0 .. MAX_PAGES, base : 0 .. MAX_PAGES]

CallsTypeOK ==
    /\ TypeOK
    /\ frames \in Seq(Frame) /\ Len(frames) <= MAX_DEPTH
    /\ spent \in SUBSET Loads
    /\ pages \in [Loads -> 1 .. MAX_PAGES]
    /\ base \in [Loads -> 1 .. MAX_PAGES]
    /\ window \in [Loads -> Window]

CallsInit ==
    /\ Init
    /\ frames = <<>>
    /\ spent = {}
    /\ pages = [g \in Loads |-> 1]
    /\ base = [g \in Loads |-> 1]
    /\ window = [g \in Loads |-> NoWindow]

Top == frames[Len(frames)]
Outer == SubSeq(frames, 1, Len(frames) - 1)

\* wasm code runs, or Python does: at the top level, in the __int__ or the
\* __float__ of an argument, or in a host import.
At(where) == pc = "idle" /\ frames # <<>> /\ Top.at = where
WasmRuns == At("wasm")
PythonRuns == ~WasmRuns

\* What a frame needs of the table: its module is allocated, and still is the
\* module of its slot.
FrameLive(frame) ==
    /\ frame.fn.module \in runtimes \cap modules
    /\ in_use[frame.slot]
    /\ runtime[frame.slot] = frame.fn.module

-----------------------------------------------------------------------------
(* call() and the trampoline.                                              *)

\* Mutant: call() runs the entry that find() has not filled yet.
BadIndex(s, k) == k <= n_fns[s]

\* call() checks the handle and the function index.
GoodIndex(s, k) == k < n_fns[s]

\* call(): the function is read from the slot before the arguments are
\* converted, and converting an object may run Python code.
Call(s, k) ==
    /\ PythonRuns
    /\ HandleOK(s)
    /\ GoodIndex(s, k)
    /\ Len(frames) < MAX_DEPTH
    /\ frames' = Append(frames, [slot |-> s, fn |-> fns[s][k],
                                 at |-> "args", callable |-> NULL])
    /\ UNCHANGED <<vars, spent, pages, base, window>>

\* The arguments convert, and m3_Call enters wasm code.  (If the module was
\* freed meanwhile, what follows is undefined, and no step of it is taken here.)
EnterWasm ==
    /\ At("args")
    /\ FrameLive(Top)
    /\ frames' = Append(Outer, [Top EXCEPT !.at = "wasm"])
    /\ UNCHANGED <<vars, spent, pages, base, window>>

\* They do not (or are too few, or too many), and call() raises.
ArgsRaise ==
    /\ At("args")
    /\ frames' = Outer
    /\ UNCHANGED <<vars, spent, pages, base, window>>

\* m3_Call comes back, with the results or with a trap that check() raises.
CallEnds ==
    /\ WasmRuns
    /\ frames' = Outer
    /\ UNCHANGED <<vars, spent, pages, base, window>>

\* wasm code calls an import that is linked: the trampoline converts the
\* arguments and calls the callable.
CallImport(i) ==
    /\ WasmRuns
    /\ LET c == wired[Top.fn.module][i]
       IN  /\ c # NULL
           /\ frames' = Append(Outer, [Top EXCEPT !.at = "host", !.callable = c])
    /\ UNCHANGED <<vars, spent, pages, base, window>>

\* The callable returns; the trampoline stores its result and wasm goes on.
\* (Into a module that was freed meanwhile: undefined, as above.)
HostReturn ==
    /\ At("host")
    /\ FrameLive(Top)
    /\ frames' = Append(Outer, [Top EXCEPT !.at = "wasm", !.callable = NULL])
    /\ UNCHANGED <<vars, spent, pages, base, window>>

\* The callable raises, or a value does not convert: the exception unwinds the
\* trampoline, wasm3 and call(), down to the Python code that made the call.
\* That touches nothing of the module, freed or not.
HostRaise ==
    /\ At("host")
    /\ frames' = Outer
    /\ spent' = spent \cup {Top.fn.module}
    /\ UNCHANGED <<vars, pages, base, window>>

\* abort() of a natmod does the same from within wasm3.
AbortCall ==
    /\ ABORTS
    /\ WasmRuns
    /\ frames' = Outer
    /\ spent' = spent \cup {Top.fn.module}
    /\ UNCHANGED <<vars, pages, base, window>>

-----------------------------------------------------------------------------
(* Linear memory.                                                          *)

\* memory.grow: the memory gets larger, and realloc may move it.
Grow ==
    /\ WasmRuns
    /\ LET g == Top.fn.module
       IN  /\ pages[g] < MAX_PAGES
           /\ pages' = [pages EXCEPT ![g] = @ + 1]
           /\ \E moved \in {0, 1} : base' = [base EXCEPT ![g] = @ + moved]
    /\ UNCHANGED <<vars, frames, spent, window>>

\* Mutant: a window once bound is used for good.
BoundOnce(g) == window[g] # NoWindow

\* The size check of run_wiring_app.py: the window still fits the memory.
StillFits(g) == window[g].len = pages[g]

\* memory(): Python uses the window it has, or takes a new one.
Memory(s) ==
    /\ PythonRuns
    /\ HandleOK(s)
    /\ ~StillFits(runtime[s])
    /\ window' = [window EXCEPT ![runtime[s]] =
                     [len |-> pages[runtime[s]], base |-> base[runtime[s]]]]
    /\ UNCHANGED <<vars, frames, spent, pages, base>>

-----------------------------------------------------------------------------
(* The rest of the API, and the collector.                                 *)

InFlight(g) == \E n \in 1 .. Len(frames) : frames[n].fn.module = g

\* Nothing in the code keeps a program from unloading a module while a call of
\* it is in flight.  One that is ADVISED does so only when the runtime is spent,
\* which is what README.md tells it to do.
MayUnload(s) == ADVISED /\ InFlight(runtime[s]) => runtime[s] \in spent

SlotStep ==
    /\ PythonRuns
    /\ \/ Load
       \/ \E s \in Slots : MayUnload(s) /\ Unload(s)
       \/ \E s \in Slots, name \in Names : Find(s, name)
       \/ \E s \in Slots, i \in Imports, c \in Callables : Link(s, i, c)
       \/ \E c \in Callables : Define(c) \/ Drop(c)
    /\ UNCHANGED callVars

\* The exception that asks for a soft reset has unwound every call before it;
\* no window outlives it.
ResetAll ==
    /\ frames = <<>>
    /\ SoftReset
    /\ window' = [g \in Loads |-> NoWindow]
    /\ UNCHANGED <<frames, spent, pages, base>>

\* Mutant: the trampoline keeps no pointer to the callable while it runs.
NothingRuns == {}

\* The callables that trampolines are running, in locals on the C stack.
Running == {frames[n].callable : n \in 1 .. Len(frames)} \ {NULL}

\* wasm code allocates too (code pages, memory.grow), in a natmod from the
\* collected heap.
CollectInCall ==
    /\ NATMOD \/ PythonRuns
    /\ CollectKeeping(Running)
    /\ UNCHANGED callVars

CallsNext ==
    \/ SlotStep
    \/ CollectInCall \/ ResetAll
    \/ \E s \in Slots : Memory(s) \/ \E k \in FnSlots : Call(s, k)
    \/ \E i \in Imports : CallImport(i)
    \/ EnterWasm \/ ArgsRaise
    \/ CallEnds \/ HostReturn \/ HostRaise \/ AbortCall
    \/ Grow

CallsSpec == CallsInit /\ [][CallsNext]_allVars

-----------------------------------------------------------------------------
(* Safety.                                                                  *)

\* Every call in flight is one of a module that is allocated and that still is
\* the module of the slot the call was made with.  (call() uses the function it
\* read after the arguments and the wasm code have run, and the trampoline after
\* the callable has: wasm3_mp.c:279-317, 362-374.)  Not even programs that do as
\* they are advised have this.
FramesLive == \A n \in 1 .. Len(frames) : FrameLive(frames[n])

\* What programs have, whatever callbacks and conversions in the middle of calls
\* load, unload, find, link, abort or collect: a call starts in a live module,
\* and only unload() of that very module, in the middle of the call, can take
\* it away.  No load() into any slot, failure exit, trap, exception further in,
\* or collection does.
InFlightCalls == {frames[n] : n \in 1 .. Len(frames)}
FrameKept ==
    /\ \A f \in InFlightCalls' \ InFlightCalls : FrameLive(f)'
    /\ \A f \in InFlightCalls : FrameLive(f) => FrameLive(f)' \/ Unload(f.slot)
FramesKept == [][FrameKept]_allVars

\* A callable is not collected while a trampoline runs it, even if it was
\* meanwhile linked over and dropped by the program.
CalleeAlive ==
    NATMOD => \A n \in 1 .. Len(frames) : frames[n].callable \in callables \cup {NULL}

\* What the example host relies on: a window whose length equals the size of
\* the memory is a window onto that memory, so comparing the two is enough to
\* detect every memory.grow, in nested calls too.
SizeDetectsGrow ==
    \A g \in Loads : StillFits(g) => window[g].base = base[g]

\* Memory only grows, and moves only when it grows.
Growing == \A g \in Loads : window[g].len <= pages[g] /\ base[g] <= pages[g]

\* wasm code runs in the innermost call only, and in a module that is there.
WasmLive ==
    \A n \in 1 .. Len(frames) :
        frames[n].at = "wasm" => pc = "idle" /\ n = Len(frames) /\ FrameLive(frames[n])

\* The inductive invariant behind these (Wasm3CallsProofs): it adds that of the
\* slot table.
CallsIInv ==
    /\ IInv /\ CallsTypeOK
    /\ WasmLive /\ CalleeAlive /\ SizeDetectsGrow /\ Growing

=============================================================================
