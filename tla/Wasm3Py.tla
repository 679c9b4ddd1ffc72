------------------------------- MODULE Wasm3Py -------------------------------
(***************************************************************************)
(* The Python wrapper (src/src/wasm3.py) on top of the slot table: Module  *)
(* objects that hold a handle and a cache of the functions they resolved,  *)
(* and Function objects that hold a handle and an index, and that outlive  *)
(* the Module they came from.  The programs modelled use the wrapper only, *)
(* and drop objects whenever they like.                                    *)
(***************************************************************************)
EXTENDS Wasm3Slots

CONSTANTS Objects,   \* the Module objects a program may create
          Nobody     \* no Module is being created

ASSUME NobodyAssumption == Nobody \notin Objects

VARIABLES creating,   \* the Module whose __init__ waits for load()
          handle,     \* Module._h: a slot, or None
          cache,      \* Module._fns: the index cached under a name, or NoIndex
          made,       \* which load() made the Module; NULL before __init__
          dropped,    \* Modules the program let go of without close()
          orphans,    \* slots in use whose Module a soft reset took away
          functions   \* the Function objects in the program's hands

None == -1
NoIndex == -1
EmptyCache == [name \in Names |-> NoIndex]

pyVars == <<creating, handle, cache, made, dropped, orphans, functions>>
allVars == <<vars, pyVars>>

\* A Function: its handle, index and name, and the Module that made it.
FunctionObject == [h : Slots, i : FnSlots, name : Names, of : Objects]

PyTypeOK ==
    /\ TypeOK
    /\ creating \in Objects \cup {Nobody}
    /\ handle \in [Objects -> Slots \cup {None}]
    /\ cache \in [Objects -> [Names -> FnSlots \cup {NoIndex}]]
    /\ made \in [Objects -> Loads \cup {NULL}]
    /\ dropped \in SUBSET Objects
    /\ orphans \in SUBSET Slots
    /\ functions \in SUBSET FunctionObject

PyInit ==
    /\ Init
    /\ creating = Nobody
    /\ handle = [m \in Objects |-> None]
    /\ cache = [m \in Objects |-> EmptyCache]
    /\ made = [m \in Objects |-> NULL]
    /\ dropped = {}
    /\ orphans = {}
    /\ functions = {}

\* The program holds the Module; it is open if it was not closed.
InHand(m) == made[m] # NULL /\ m \notin dropped
Open(m) == handle[m] # None

-----------------------------------------------------------------------------
(* Module.__init__ stores the handle when load() returns it; when load()   *)
(* raises, the program gets no Module.                                     *)

InitBegins(m) ==
    /\ made[m] = NULL
    /\ \E s \in Slots : CopyBlob(s)
    /\ creating' = m
    /\ UNCHANGED <<handle, cache, made, dropped, orphans, functions>>

InitRefused ==
    /\ LoadRefused
    /\ UNCHANGED pyVars

InitGoesOn ==
    /\ NewRuntime \/ ParseModule
    /\ UNCHANGED pyVars

InitRaises ==
    /\ LoadRaises
    /\ creating' = Nobody
    /\ UNCHANGED <<handle, cache, made, dropped, orphans, functions>>

InitDone ==
    /\ LoadModule
    /\ handle' = [handle EXCEPT ![creating] = idx]
    /\ cache' = [cache EXCEPT ![creating] = EmptyCache]
    /\ made' = [made EXCEPT ![creating] = loads]
    /\ creating' = Nobody
    /\ UNCHANGED <<dropped, orphans, functions>>

-----------------------------------------------------------------------------
(* Module.function and Module.close.                                       *)

\* Mutants: the cache is never filled; find() returns the index after the one
\* it filled.
NotCached(m, name, k) == cache
CachedNext(m, name, k) == [cache EXCEPT ![m] = [@ EXCEPT ![name] = k + 1]]

\* _fns[name] = fn
Cached(m, name, k) == [cache EXCEPT ![m] = [@ EXCEPT ![name] = k]]

\* A name resolved before: the Function comes from the cache.
FunctionHit(m, name) ==
    /\ InHand(m)
    /\ cache[m][name] # NoIndex
    /\ functions' = functions \cup
           {[h |-> handle[m], i |-> cache[m][name], name |-> name, of |-> m]}
    /\ UNCHANGED <<vars, creating, handle, cache, made, dropped, orphans>>

\* A name resolved for the first time: find() gives its index.
FunctionMiss(m, name) ==
    /\ InHand(m) /\ Open(m)
    /\ cache[m][name] = NoIndex
    /\ Find(handle[m], name)
    /\ cache' = Cached(m, name, n_fns[handle[m]])
    /\ functions' = functions \cup
           {[h |-> handle[m], i |-> n_fns[handle[m]], name |-> name, of |-> m]}
    /\ UNCHANGED <<creating, handle, made, dropped, orphans>>

\* Mutants: close() forgets to clear the handle; close() forgets to unload.
CloseKeepsHandle(m) ==
    /\ InHand(m) /\ Open(m)
    /\ Unload(handle[m])
    /\ cache' = [cache EXCEPT ![m] = EmptyCache]
    /\ UNCHANGED <<creating, handle, made, dropped, orphans, functions>>
CloseKeepsSlot(m) ==
    /\ InHand(m) /\ Open(m)
    /\ handle' = [handle EXCEPT ![m] = None]
    /\ cache' = [cache EXCEPT ![m] = EmptyCache]
    /\ UNCHANGED <<vars, creating, made, dropped, orphans, functions>>

\* close(): a second one finds no handle and does nothing.
Close(m) ==
    /\ InHand(m) /\ Open(m)
    /\ Unload(handle[m])
    /\ handle' = [handle EXCEPT ![m] = None]
    /\ cache' = [cache EXCEPT ![m] = EmptyCache]
    /\ UNCHANGED <<creating, made, dropped, orphans, functions>>

\* Module.link passes the handle on.
LinkImport(m, i, c) ==
    /\ InHand(m) /\ Open(m)
    /\ Link(handle[m], i, c)
    /\ UNCHANGED pyVars

-----------------------------------------------------------------------------
(* The program lets go of an object; nothing in the wrapper reacts to it.  *)

DropModule(m) ==
    /\ InHand(m)
    /\ dropped' = dropped \cup {m}
    /\ UNCHANGED <<vars, creating, handle, cache, made, orphans, functions>>

DropFunction(f) ==
    /\ functions' = functions \ {f}
    /\ UNCHANGED <<vars, creating, handle, cache, made, dropped, orphans>>

\* A soft reset takes every object of the wrapper away; what the slot table
\* still holds after it, no Module can close any more.
SoftResetPy ==
    /\ SoftReset
    /\ handle' = [m \in Objects |-> None]
    /\ cache' = [m \in Objects |-> EmptyCache]
    /\ made' = [m \in Objects |-> NULL]
    /\ dropped' = {}
    /\ orphans' = {s \in Slots : in_use'[s]}
    /\ functions' = {}
    /\ UNCHANGED creating

ModuleOp(m) ==
    \/ InitBegins(m) \/ Close(m) \/ DropModule(m)
    \/ \E name \in Names : FunctionHit(m, name) \/ FunctionMiss(m, name)
    \/ \E i \in Imports, c \in Callables : LinkImport(m, i, c)

PyNext ==
    \/ \E m \in Objects : ModuleOp(m)
    \/ InitRefused \/ InitGoesOn \/ InitRaises \/ InitDone
    \/ \E f \in functions : DropFunction(f)
    \/ (\E c \in Callables : Define(c)) /\ UNCHANGED pyVars
    \/ Collect /\ UNCHANGED pyVars
    \/ SoftResetPy

PySpec == PyInit /\ [][PyNext]_allVars

-----------------------------------------------------------------------------
(* Safety.                                                                  *)

\* An open Module owns the slot it holds, for as long as it is open: close()
\* of one Module never unloads, and function() never resolves in, another's.
OwnsSlot ==
    \A m \in Objects : Open(m) =>
        in_use[handle[m]] /\ runtime[handle[m]] = made[m]

\* Every slot in use is the slot of exactly one Module that was not closed: a
\* constructor that raised, a Module that was closed and, in a natmod, a soft
\* reset hold none back.  In a usermod a soft reset costs the slots of all
\* Modules it finds open, for good.
SlotsAccounted ==
    /\ \A s \in Slots : in_use[s] <=> s \in orphans \/ \E m \in Objects : handle[m] = s
    /\ \A m, n \in Objects : Open(m) /\ handle[m] = handle[n] => m = n
    /\ \A m \in Objects : handle[m] \notin orphans
    /\ NATMOD => orphans = {}

\* The names a Module's cache knows.
Resolved == [m \in Objects |-> {name \in Names : cache[m][name] # NoIndex}]

\* Resolving costs one native entry per name, never two: the entries used in
\* the slot of an open Module are exactly the names in its cache.
OneEntryPerName ==
    \A m \in Objects : Open(m) => n_fns[handle[m]] = Cardinality(Resolved[m])

\* The export a Function object runs when it is called: what call() finds at
\* its handle and index, or NoFunction when it raises.
Runs(f) == IF in_use[f.h] /\ f.i < n_fns[f.h] THEN fns[f.h][f.i] ELSE NoFunction

\* As long as its Module is open (or was only dropped), a Function runs the
\* export it is named after, of the load its Module made.  (Whether the bytes of
\* that load are still there is a matter of BlobAlive.)
FunctionsRight ==
    \A f \in functions : Open(f.of) =>
        Runs(f) = [module |-> made[f.of], name |-> f.name]

\* Once its Module was closed, a Function raises when it is called
\* (test_wasm3.py:112, "stale handle rejected").  It does not when a later
\* load() was given the same slot.
StaleRejected ==
    \A f \in functions : ~Open(f.of) => Runs(f) = NoFunction

\* What it runs instead, if anything, is code that was loaded after its Module:
\* never anything of the bytes that close() freed.
StaleRunsLater ==
    \A f \in functions : ~Open(f.of) =>
        Runs(f) = NoFunction \/ Runs(f).module > made[f.of]

\* The Modules of a program are handles, too: each names one instance, from
\* __init__ to close(), and no other Module ever names it.  The instance is the
\* one that the native part finds behind the handle the Module holds.
MT == INSTANCE HandleTable WITH
          Handles <- Objects, Instances <- Loads, Free <- NULL,
          table <- [m \in Objects |-> IF Open(m) THEN runtime[handle[m]] ELSE NULL],
          opened <- loaded

ModulesImplementHandleTable == MT!Spec

-----------------------------------------------------------------------------
(* The inductive invariant the proofs in Wasm3PyProofs rest on.             *)

\* Only a Module whose __init__ is done has a handle or made a Function.
MadeFirst ==
    /\ creating = Nobody <=> pc = "idle"
    /\ creating # Nobody => made[creating] = NULL
    /\ \A m \in Objects : made[m] = NULL => ~Open(m)
    /\ \A f \in functions : made[f.of] # NULL

\* An index in the cache is of an open Module, and names the right function.
CacheRight ==
    \A m \in Objects : \A name \in Resolved[m] :
        /\ Open(m)
        /\ cache[m][name] < n_fns[handle[m]]
        /\ fns[handle[m]][cache[m][name]] = [module |-> made[m], name |-> name]

\* A Function has the handle of its Module, as long as that has one.
SameHandle == \A f \in functions : Open(f.of) => f.h = handle[f.of]

FiniteCaches == \A m \in Objects : IsFiniteSet(Resolved[m])

\* What made a Module was loaded, and the slot of a closed one is free or was
\* taken by a load() that came after.
Later ==
    /\ \A m \in Objects : made[m] # NULL => made[m] \in loaded
    /\ \A f \in functions : ~Open(f.of) /\ in_use[f.h] => runtime[f.h] > made[f.of]

PyIInv == /\ IInv /\ PyTypeOK /\ OwnsSlot /\ SlotsAccounted /\ OneEntryPerName
          /\ FunctionsRight /\ MadeFirst /\ CacheRight /\ SameHandle /\ FiniteCaches
          /\ Later

=============================================================================
