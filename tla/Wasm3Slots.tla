----------------------------- MODULE Wasm3Slots -----------------------------
(***************************************************************************)
(* The native part of the module (src/src/wasm3_mp.c): the table of slots  *)
(* behind load(), unload(), find() and link(), the wasm3 objects and the   *)
(* copy of the .wasm bytes a slot owns, and the MicroPython garbage        *)
(* collector that may run at any allocation.                               *)
(*                                                                         *)
(* Every attempt at load() has a number (its generation, 1..MAX_LOADS) and *)
(* the blob copy, the M3Runtime and the M3Module it allocates are named by *)
(* it, each in its own set of live objects: a pointer is a generation, a   *)
(* dangling pointer one that is in no such set.  Calls that raise before   *)
(* they change anything (a bad handle, a failed lookup) are stuttering     *)
(* steps and have no action.  Time does not stop at a soft reset of the    *)
(* interpreter: generations go on counting through it.                     *)
(***************************************************************************)
EXTENDS Integers, FiniteSets

CONSTANTS MAX_SLOTS,   \* WASM3_MP_MAX_SLOTS
          MAX_FNS,     \* the size of wasm3_slot_t.fns
          MAX_LOADS,   \* bound: how many times load() gets past its checks
          Names,       \* names of wasm exports
          Imports,     \* names of wasm imports
          Callables,   \* Python callables given to link()
          NATMOD,      \* TRUE: a .mpy, on the GC heap; FALSE: a usermod
          ABORTS       \* TRUE: wasm3 may abort() in the middle of a load()

ASSUME SizesAssumption == /\ MAX_SLOTS \in Nat
                          /\ MAX_FNS \in Nat
                          /\ MAX_LOADS \in Nat
                          /\ NATMOD \in BOOLEAN
                          /\ ABORTS \in BOOLEAN
                          /\ ABORTS => NATMOD

NULL == 0
Slots == 0 .. MAX_SLOTS - 1
FnSlots == 0 .. MAX_FNS - 1
Loads == 1 .. MAX_LOADS
NoSlot == -1

ASSUME NamesAssumption == NULL \notin Names /\ NULL \notin Callables

\* An IM3Function: which module's code it is, and which export; NoFunction
\* is what .bss holds before the first find().
Function == [module : Loads \cup {NULL}, name : Names \cup {NULL}]
NoFunction == [module |-> NULL, name |-> NULL]

VARIABLES
    env,                          \* wasm3_mp_env was created
    runtime, module, blob,        \* wasm3_mp_slots[..]: pointers or NULL
    fns, n_fns, in_use,
    pc, idx, loads,               \* how far the running load() is, into which
                                  \* slot, and the generation it creates
    aborted,                      \* the generations whose load() was aborted
    runtimes, modules, blobs,     \* the objects that are allocated
    loaded,                       \* modules m3_LoadModule gave to their runtime
    wired,                        \* the callable behind each import of a module
    callables, held               \* callables alive, and those Python refers to

bss == <<env, runtime, module, blob, fns, n_fns, in_use>>
control == <<pc, idx, loads, aborted>>
heap == <<runtimes, modules, blobs, loaded>>
python == <<wired, callables, held>>
vars == <<bss, control, heap, python>>

TypeOK ==
    /\ env \in BOOLEAN
    /\ runtime \in [Slots -> Loads \cup {NULL}]
    /\ module \in [Slots -> Loads \cup {NULL}]
    /\ blob \in [Slots -> Loads \cup {NULL}]
    /\ fns \in [Slots -> [FnSlots -> Function]]
    /\ n_fns \in [Slots -> 0 .. MAX_FNS]
    /\ in_use \in [Slots -> BOOLEAN]
    /\ pc \in {"idle", "blob", "runtime", "parsed"}
    /\ idx \in Slots \cup {NoSlot}
    /\ loads \in 0 .. MAX_LOADS
    /\ aborted \in SUBSET Loads
    /\ runtimes \in SUBSET Loads
    /\ modules \in SUBSET Loads
    /\ blobs \in SUBSET Loads
    /\ loaded \in SUBSET Loads
    /\ wired \in [Loads -> [Imports -> Callables \cup {NULL}]]
    /\ callables \in SUBSET Callables
    /\ held \in SUBSET Callables

\* What the loader of the firmware, or of a .mpy, puts into .bss: zeros.
NoPointers == [s \in Slots |-> NULL]
NoFunctions == [s \in Slots |-> [k \in FnSlots |-> NoFunction]]

Init ==
    /\ env = FALSE
    /\ runtime = NoPointers
    /\ module = NoPointers
    /\ blob = NoPointers
    /\ fns = NoFunctions
    /\ n_fns = [s \in Slots |-> 0]
    /\ in_use = [s \in Slots |-> FALSE]
    /\ pc = "idle"
    /\ idx = NoSlot
    /\ loads = 0
    /\ aborted = {}
    /\ runtimes = {}
    /\ modules = {}
    /\ blobs = {}
    /\ loaded = {}
    /\ wired = [g \in Loads |-> [i \in Imports |-> NULL]]
    /\ callables = {}
    /\ held = {}

-----------------------------------------------------------------------------
(* load(): one action per call that can fail, so that each failure meets   *)
(* exactly what was allocated before it.                                   *)

\* Mutant: the scan stops at the first slot, in use or not.
FirstSlot == {s \in Slots : \A t \in Slots : t < s => in_use[t]}

\* The slots the scan of load() may stop at: the first one not in use.
FirstFree == {s \in Slots : /\ ~in_use[s]
                            /\ \A t \in Slots : t < s => in_use[t]}

\* load() creates the environment, then refuses: no bytes, or no free slot.
LoadRefused ==
    /\ pc = "idle"
    /\ env' = TRUE
    /\ UNCHANGED <<runtime, module, blob, fns, n_fns, in_use, control, heap, python>>

\* A slot is chosen and the bytes are copied; m_malloc raises before it
\* changes anything, so only its success is a step.
CopyBlob(s) ==
    /\ pc = "idle"
    /\ loads < MAX_LOADS
    /\ s \in FirstFree
    /\ env' = TRUE
    /\ loads' = loads + 1
    /\ idx' = s
    /\ blobs' = blobs \cup {loads'}
    /\ blob' = [blob EXCEPT ![s] = loads']
    /\ pc' = "blob"
    /\ UNCHANGED <<runtime, module, fns, n_fns, in_use, aborted,
                   runtimes, modules, loaded, python>>

NewRuntime ==
    /\ pc = "blob"
    /\ runtimes' = runtimes \cup {loads}
    /\ runtime' = [runtime EXCEPT ![idx] = loads]
    /\ pc' = "runtime"
    /\ UNCHANGED <<env, module, blob, fns, n_fns, in_use, idx, loads, aborted,
                   modules, blobs, loaded, python>>

\* m3_NewRuntime returned NULL: only the copy has to go.
NewRuntimeFails ==
    /\ pc = "blob"
    /\ runtime' = [runtime EXCEPT ![idx] = NULL]
    /\ blobs' = blobs \ {blob[idx]}
    /\ blob' = [blob EXCEPT ![idx] = NULL]
    /\ pc' = "idle"
    /\ idx' = NoSlot
    /\ UNCHANGED <<env, module, fns, n_fns, in_use, loads, aborted,
                   runtimes, modules, loaded, python>>

ParseModule ==
    /\ pc = "runtime"
    /\ modules' = modules \cup {loads}
    /\ module' = [module EXCEPT ![idx] = loads]
    /\ pc' = "parsed"
    /\ UNCHANGED <<env, runtime, blob, fns, n_fns, in_use, idx, loads, aborted,
                   runtimes, blobs, loaded, python>>

\* Mutants: one of the pointers of the slot survives what it pointed to.
ClearAllButModule(s) ==
    runtime' = [runtime EXCEPT ![s] = NULL] /\ UNCHANGED module /\ blob' = [blob EXCEPT ![s] = NULL]
ClearAllButBlob(s) ==
    runtime' = [runtime EXCEPT ![s] = NULL] /\ module' = [module EXCEPT ![s] = NULL] /\ UNCHANGED blob

\* What unload() and a failed load() leave in the slot's pointers.
ClearPointers(s) ==
    /\ runtime' = [runtime EXCEPT ![s] = NULL]
    /\ module' = [module EXCEPT ![s] = NULL]
    /\ blob' = [blob EXCEPT ![s] = NULL]

\* What they free: the runtime, the modules loaded into it, and the copy.
FreedModules(s) == loaded \cap {runtime[s]}
FreeObjects(s, m) ==
    /\ modules' = modules \ ({m} \cup FreedModules(s))
    /\ runtimes' = runtimes \ {runtime[s]}
    /\ blobs' = blobs \ {blob[s]}

\* The common exit of a failed parse or load, with s->module = m: a module
\* that is not in its runtime yet is freed by itself, before the runtime.
LoadFailed(m) ==
    /\ FreeObjects(idx, m)
    /\ ClearPointers(idx)
    /\ pc' = "idle"
    /\ idx' = NoSlot
    /\ UNCHANGED <<env, fns, n_fns, in_use, loads, aborted, loaded, python>>

\* m3_ParseModule frees what it built and stores NULL in s->module.
ParseModuleFails == pc = "runtime" /\ LoadFailed(NULL)

\* Mutant: m3_FreeRuntime is trusted with a module it does not own yet.
LoadModuleFailsKeepsModule == pc = "parsed" /\ LoadFailed(NULL)

LoadModuleFails == pc = "parsed" /\ LoadFailed(module[idx])

LoadModule ==
    /\ pc = "parsed"
    /\ loaded' = loaded \cup {module[idx]}
    /\ n_fns' = [n_fns EXCEPT ![idx] = 0]
    /\ in_use' = [in_use EXCEPT ![idx] = TRUE]
    /\ pc' = "idle"
    /\ idx' = NoSlot
    /\ UNCHANGED <<env, runtime, module, blob, fns, loads, aborted,
                   runtimes, modules, blobs, python>>

\* abort() of a natmod raises a RuntimeError: it unwinds load() from within
\* wasm3 and skips the clean-up.  (A usermod's abort() ends the program.)
Abort ==
    /\ ABORTS
    /\ pc # "idle"
    /\ aborted' = aborted \cup {loads}
    /\ pc' = "idle"
    /\ idx' = NoSlot
    /\ UNCHANGED <<bss, loads, heap, python>>

-----------------------------------------------------------------------------
(* The operations on a loaded module.                                      *)

\* slot_of() accepts the handle (and no load() is running).
HandleOK(s) == pc = "idle" /\ in_use[s]

\* unload(): m3_FreeRuntime frees the modules loaded into the runtime too.
Unload(s) ==
    /\ HandleOK(s)
    /\ FreeObjects(s, NULL)
    /\ ClearPointers(s)
    /\ n_fns' = [n_fns EXCEPT ![s] = 0]
    /\ in_use' = [in_use EXCEPT ![s] = FALSE]
    /\ UNCHANGED <<env, fns, control, loaded, python>>

\* Mutants: the table is full one entry too late; every function is stored in
\* the first entry.
FnsOverfull(s) == n_fns[s] > MAX_FNS
FirstFn(s) == 0

\* find() refuses when the table is full, and otherwise uses its next entry.
FnsFull(s) == n_fns[s] >= MAX_FNS
NextFn(s) == n_fns[s]

\* find(): the function found in the modules of the slot's runtime takes the
\* next entry of fns, and its index is what Python gets.
Find(s, name) ==
    /\ HandleOK(s)
    /\ ~FnsFull(s)
    /\ \E g \in loaded \cap {runtime[s]} :
           fns' = [fns EXCEPT ![s] = [@ EXCEPT ![NextFn(s)] =
                                        [module |-> g, name |-> name]]]
    /\ n_fns' = [n_fns EXCEPT ![s] = n_fns[s] + 1]
    /\ UNCHANGED <<env, runtime, module, blob, in_use, control, heap, python>>

\* link(): the callable becomes the userdata of the module's import.
Link(s, i, c) ==
    /\ HandleOK(s)
    /\ c \in held
    /\ wired' = [wired EXCEPT ![module[s]] = [@ EXCEPT ![i] = c]]
    /\ UNCHANGED <<bss, control, heap, callables, held>>

-----------------------------------------------------------------------------
(* Python and its garbage collector (external to this repository).         *)

\* The program makes a callable.  It is a new object: no import refers to it.
Define(c) ==
    /\ pc = "idle"
    /\ c \notin callables
    /\ \A g \in modules, i \in Imports : wired[g][i] # c
    /\ callables' = callables \cup {c}
    /\ held' = held \cup {c}
    /\ UNCHANGED <<bss, control, heap, wired>>

\* The program drops its last reference to a callable.
Drop(c) ==
    /\ c \in held
    /\ held' = held \ {c}
    /\ UNCHANGED <<bss, control, heap, wired, callables>>

\* What the collector reaches from the slot table.  A natmod's .bss is
\* scanned, and wasm3's own memory is on the GC heap, so the collector walks
\* from a slot to its runtime, its module and the callables in its imports.
\* A usermod's .bss is not scanned and wasm3's memory is on the C heap.
Scanned(ptr) == IF NATMOD THEN {ptr[s] : s \in Slots} ELSE {}

ScannedModules == Scanned(module) \cup (loaded \cap Scanned(runtime))

\* Mutant: the userdata of an import is kept where nothing is scanned.
NoScannedCallables == {}

ScannedCallables == {wired[g][i] : g \in ScannedModules \cap Loads, i \in Imports}

\* A collection that finds the callables in stack on the C stack.  In a natmod
\* any allocation of load() may start one; in a usermod wasm3 allocates from
\* the C heap and load() collects nothing.
CollectKeeping(stack) ==
    /\ NATMOD \/ pc = "idle"
    /\ blobs' = blobs \cap Scanned(blob)
    /\ runtimes' = IF NATMOD THEN runtimes \cap Scanned(runtime) ELSE runtimes
    /\ modules' = IF NATMOD THEN modules \cap ScannedModules ELSE modules
    /\ callables' = callables \cap (held \cup stack \cup ScannedCallables)
    /\ UNCHANGED <<bss, control, loaded, wired, held>>

Collect == CollectKeeping({})

\* Mutant: the .bss outlives the reset, and wasm3's memory does not.
TableSurvives == UNCHANGED bss /\ runtimes' = {} /\ modules' = {}

EmptyTable ==
    /\ env' = FALSE
    /\ runtime' = NoPointers
    /\ module' = NoPointers
    /\ blob' = NoPointers
    /\ fns' = NoFunctions
    /\ n_fns' = [s \in Slots |-> 0]
    /\ in_use' = [s \in Slots |-> FALSE]

\* A natmod is imported anew, and wasm3's memory went with the GC heap.
TableAnew == EmptyTable /\ runtimes' = {} /\ modules' = {}

\* Mutant: a usermod's table is initialised again, as by an __init__.
TableCleared == EmptyTable /\ UNCHANGED <<runtimes, modules>>

\* A usermod's table is in the .bss of the firmware, and wasm3's objects are on
\* the C heap.
TableKept == UNCHANGED <<bss, runtimes, modules>>

\* A soft reset ends the program and starts the GC heap anew: no Python object
\* outlives it.
SoftReset ==
    /\ pc = "idle"
    /\ \/ NATMOD /\ TableAnew
       \/ ~NATMOD /\ TableKept
    /\ blobs' = {}
    /\ callables' = {}
    /\ held' = {}
    /\ UNCHANGED <<control, loaded, wired>>

-----------------------------------------------------------------------------

LoadRaises == NewRuntimeFails \/ ParseModuleFails \/ LoadModuleFails \/ Abort

Load == \/ LoadRefused
        \/ \E s \in Slots : CopyBlob(s)
        \/ NewRuntime \/ ParseModule \/ LoadModule
        \/ LoadRaises

SlotOp(s) == \/ Unload(s)
             \/ \E name \in Names : Find(s, name)
             \/ \E i \in Imports, c \in Callables : Link(s, i, c)

Next == \/ Load
        \/ \E s \in Slots : SlotOp(s)
        \/ \E c \in Callables : Define(c) \/ Drop(c)
        \/ Collect
        \/ SoftReset

Spec == Init /\ [][Next]_vars

-----------------------------------------------------------------------------
(* Safety.                                                                  *)

InUse == {s \in Slots : in_use[s]}

\* No pointer in the slot table dangles, in the middle of a load() too: every
\* runtime and module a slot points to is allocated, and every function that
\* find() handed out and call() would run is code of an allocated module.
\* (The failure exits of load() and unload() free in three steps, and the
\* collector frees what it does not reach.)
NoDangling ==
    \A s \in Slots :
        /\ runtime[s] # NULL => runtime[s] \in runtimes
        /\ module[s] # NULL => module[s] \in modules
        /\ in_use[s] => \A k \in FnSlots : k < n_fns[s] => fns[s][k].module \in modules

\* A handle resolves to one load: the runtime, the module, the blob and every
\* function index of an in-use slot are of the same generation, and that
\* module was accepted by that runtime.  A slot that was used before, or whose
\* last load failed or aborted half-way, leaves nothing behind in it.
Coherent ==
    \A s \in InUse :
        /\ runtime[s] \in loaded
        /\ module[s] = runtime[s] /\ blob[s] = runtime[s]
        /\ \A k \in FnSlots : k < n_fns[s] => fns[s][k].module = runtime[s]

\* Whenever no load() is running, everything allocated belongs to an in-use
\* slot and a free slot points to nothing: a load() that failed at any point
\* gave back all it had taken, and so did unload().  The remains of an aborted
\* load() are the only exception; no slot in use ever holds any of them.
NothingLeaks ==
    pc = "idle" =>
        /\ runtimes \ aborted = {runtime[s] : s \in InUse}
        /\ modules \ aborted = {module[s] : s \in InUse}
        /\ blobs \ aborted \subseteq {blob[s] : s \in InUse}
        /\ \A s \in Slots \ InUse :
               {runtime[s], module[s], blob[s]} \subseteq aborted \cup {NULL}

\* The bytes a module is parsed from, and runs from, stay allocated as long as
\* its slot (wasm3_mp.c:21-25): true of a natmod, not of a usermod.
BlobAlive == \A s \in Slots : blob[s] # NULL => blob[s] \in blobs

\* The callable behind an import of a loaded module is alive, whatever the
\* program dropped (wasm3_mp.c:327-328): true of a natmod, not of a usermod.
CallableAlive ==
    \A s \in InUse, i \in Imports :
        wired[module[s]][i] # NULL => wired[module[s]][i] \in callables

\* As long as a handle stays loaded, an index that find() returned keeps
\* naming the function it was returned for (wasm3.py caches it for good).
IndexStable ==
    \A s \in Slots, k \in FnSlots :
        in_use[s] /\ in_use'[s] /\ runtime'[s] = runtime[s] /\ k < n_fns[s]
            => k < n_fns'[s] /\ fns'[s][k] = fns[s][k]

IndicesStable == [][IndexStable]_vars

\* The slot table implements the abstract table of handles: the instance a
\* handle names is the generation of its runtime, and the instances that were
\* ever opened are the modules that were loaded into their runtimes.
HT == INSTANCE HandleTable WITH
          Handles <- Slots, Instances <- Loads, Free <- NULL,
          table <- [s \in Slots |-> IF in_use[s] THEN runtime[s] ELSE NULL],
          opened <- loaded

ImplementsHandleTable == HT!Spec

-----------------------------------------------------------------------------
(* The inductive invariant the proofs in Wasm3SlotsProofs rest on.          *)

\* Generations are fresh: nothing in the table or in the heap is newer than the
\* last load(), and a running load() has only just begun to use its own.
Fresh ==
    /\ \A s \in Slots : runtime[s] <= loads /\ module[s] <= loads /\ blob[s] <= loads
    /\ \A g \in loaded : g <= loads /\ g \notin aborted
    /\ \A g \in aborted : g <= loads
    /\ pc # "idle" =>
          /\ loads \notin loaded /\ loads \notin aborted
          /\ \A s \in Slots \ {idx} :
                 runtime[s] # loads /\ module[s] # loads /\ blob[s] # loads

\* Two slots never point to the same object.
Disjoint ==
    \A s, t \in Slots : s # t =>
        /\ runtime[s] = runtime[t] => runtime[s] = NULL
        /\ module[s] = module[t] => module[s] = NULL
        /\ blob[s] = blob[t] => blob[s] = NULL

\* The running load() fills a slot that is not in use, one pointer at a time.
Filling ==
    /\ pc = "idle" <=> idx = NoSlot
    /\ pc # "idle" => ~in_use[idx] /\ loads \in Loads /\ blob[idx] = loads
    /\ pc \in {"runtime", "parsed"} => runtime[idx] = loads
    /\ pc = "parsed" => module[idx] = loads

\* A module whose load() has not finished has no import linked.
Unlinked == \A g \in Loads \ loaded, i \in Imports : wired[g][i] = NULL

\* What the collector of a natmod keeps.
NatmodAlive == NATMOD => BlobAlive /\ CallableAlive /\ held \subseteq callables

\* What a slot may hold that no load() has put there.
Remains == aborted \cup {NULL}

\* Nothing is allocated that the table does not point to, and a free slot is
\* empty, but for the remains of aborted loads; the load() in progress has
\* nothing else left over.
Exact ==
    /\ \A g \in runtimes \ aborted : \E s \in Slots : runtime[s] = g
    /\ \A g \in modules \ aborted : \E s \in Slots : module[s] = g
    /\ \A g \in blobs \ aborted : \E s \in Slots : blob[s] = g
    /\ \A s \in Slots : ~in_use[s] /\ s # idx =>
           runtime[s] \in Remains /\ module[s] \in Remains /\ blob[s] \in Remains
    /\ pc = "blob" => runtime[idx] \in Remains
    /\ pc \in {"blob", "runtime"} => module[idx] \in Remains

IInv == /\ TypeOK /\ NoDangling /\ Coherent /\ Fresh /\ Disjoint /\ Filling
        /\ Unlinked /\ NatmodAlive /\ Exact

=============================================================================
