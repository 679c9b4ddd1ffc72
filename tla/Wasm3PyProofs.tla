---------------------------- MODULE Wasm3PyProofs ----------------------------
(***************************************************************************)
(* The safety of the Python wrapper, for any number of slots, Modules and  *)
(* names, in both builds, across soft resets and aborted loads.            *)
(***************************************************************************)
EXTENDS Wasm3Py, Wasm3SlotsProofs, FiniteSetTheorems

USE DEF NULL, Slots, FnSlots, Loads, NoSlot, Function, NoFunction, None, NoIndex, EmptyCache

\* The Functions that call() does not refuse, and for which it finds the export
\* they are named after.
Found == {f \in functions :
             /\ in_use[f.h] /\ f.i < n_fns[f.h]
             /\ fns[f.h][f.i] = [module |-> made[f.of], name |-> f.name]}

\* A Function that was made is right if and only if call() finds its export.
RightIfFound == FunctionsRight <=> \A f \in functions : handle[f.of] # None => f \in Found

\* So it is, in any state that is well typed.
LEMMA RightIsFound == PyTypeOK /\ MadeFirst => RightIfFound
  <1> SUFFICES ASSUME PyTypeOK, MadeFirst, NEW f \in functions
               PROVE  Runs(f) = [module |-> made[f.of], name |-> f.name] <=> f \in Found
    BY DEF RightIfFound, FunctionsRight, Open
  <1>1. f.of \in Objects /\ made[f.of] \in Loads
    BY DEF PyTypeOK, MadeFirst, FunctionObject
  <1>2. [module |-> made[f.of], name |-> f.name] # NoFunction
    BY <1>1, SizesAssumption
  <1> QED
    BY <1>2 DEF Runs, Found

-----------------------------------------------------------------------------
(* What the wrapper relies on in the table.                                 *)

\* All of the invariant that relates the wrapper to the table.
Related == /\ OwnsSlot /\ SlotsAccounted /\ OneEntryPerName
           /\ FunctionsRight /\ CacheRight /\ SameHandle /\ FiniteCaches

\* What the steps of the table that neither fill nor empty a slot leave alone.
Quiet == /\ UNCHANGED <<in_use, fns, n_fns>>
         /\ \A s \in Slots : in_use[s] => runtime'[s] = runtime[s]

\* A load() that has not finished, or fails, changes no slot in use; neither
\* do link(), a collection and the rest of the program.
LEMMA QuietSteps ==
    ASSUME IInv,
           \/ LoadRefused \/ NewRuntime \/ ParseModule \/ LoadRaises
           \/ \E s \in Slots : CopyBlob(s)
           \/ \E s \in Slots, i \in Imports, c \in Callables : Link(s, i, c)
           \/ \E c \in Callables : Define(c)
           \/ Collect
           \/ UNCHANGED vars
    PROVE  Quiet
  <1>1. CASE NewRuntime \/ NewRuntimeFails
    BY <1>1, LoadFacts DEF NewRuntime, NewRuntimeFails, Quiet, IInv, TypeOK
  <1>2. CASE ParseModuleFails \/ LoadModuleFails
    BY <1>2, LoadFacts DEF ParseModuleFails, LoadModuleFails, LoadFailed, ClearPointers,
       Quiet, IInv, TypeOK
  <1>3. CASE \/ LoadRefused \/ ParseModule \/ Abort \/ Collect \/ UNCHANGED vars
             \/ \E s \in Slots : CopyBlob(s)
             \/ \E s \in Slots, i \in Imports, c \in Callables : Link(s, i, c)
             \/ \E c \in Callables : Define(c)
    BY <1>3 DEF LoadRefused, ParseModule, Abort, CopyBlob, Define, Link, Collect, CollectKeeping,
       Quiet, vars, bss
  <1> QED
    BY <1>1, <1>2, <1>3 DEF LoadRaises

\* Such a step keeps the wrapper and the table related.
LEMMA QuietRelated ==
    ASSUME PyIInv, Quiet, UNCHANGED <<handle, cache, made, orphans>>,
           functions' \subseteq functions
    PROVE  Related'
  <1> USE DEF Quiet
  <1>1. \A m \in Objects : Open(m)' = Open(m) /\ Resolved'[m] = Resolved[m]
    BY DEF Open, Resolved
  <1>2. \A m \in Objects : Open(m) => handle[m] \in Slots /\ in_use[handle[m]]
    BY DEF Open, PyIInv, PyTypeOK, OwnsSlot
  <1>3. OwnsSlot'
    BY <1>1, <1>2 DEF PyIInv, OwnsSlot
  <1>4. SlotsAccounted'
    BY <1>1 DEF PyIInv, SlotsAccounted
  <1>5. OneEntryPerName' /\ FiniteCaches'
    BY <1>1, <1>2 DEF PyIInv, OneEntryPerName, FiniteCaches
  <1>6. FunctionsRight'
    BY <1>1 DEF PyIInv, PyTypeOK, FunctionObject, FunctionsRight, Runs, Open
  <1>7. CacheRight' /\ SameHandle'
    BY <1>1 DEF PyIInv, CacheRight, SameHandle, Open
  <1> QED
    BY <1>3, <1>4, <1>5, <1>6, <1>7 DEF Related

-----------------------------------------------------------------------------
(* The steps of the wrapper that change what is open or resolved.           *)

\* __init__ stores the handle of a slot that nobody held.
LEMMA InitDoneRelated == ASSUME PyIInv, IInv', PyTypeOK', InitDone PROVE Related'
  <1>0. PICK c \in Objects : c = creating
    BY DEF InitDone, LoadModule, PyIInv, PyTypeOK, MadeFirst
  <1>1. /\ idx \in Slots /\ ~in_use[idx] /\ loads \in Loads
        /\ runtime[idx] = loads /\ UNCHANGED <<runtime, fns>>
        /\ in_use' = [in_use EXCEPT ![idx] = TRUE] /\ n_fns' = [n_fns EXCEPT ![idx] = 0]
    BY LoadFacts DEF InitDone, LoadModule, PyIInv
  <1>2. c \in Objects /\ made[c] = NULL /\ ~Open(c) /\ pc = "parsed"
    BY <1>0, NobodyAssumption DEF InitDone, LoadModule, PyIInv, PyTypeOK, MadeFirst
  <1>3. /\ handle' = [handle EXCEPT ![c] = idx] /\ cache' = [cache EXCEPT ![c] = EmptyCache]
        /\ made' = [made EXCEPT ![c] = loads] /\ UNCHANGED <<orphans, functions>>
    BY <1>0 DEF InitDone
  <1>4. \A m \in Objects : handle[m] # idx
    BY <1>1 DEF PyIInv, SlotsAccounted
  <1>5. \A m \in Objects : m # c =>
            /\ handle'[m] = handle[m] /\ cache'[m] = cache[m] /\ made'[m] = made[m]
            /\ Open(m)' = Open(m) /\ Resolved'[m] = Resolved[m]
    BY <1>2, <1>3 DEF PyIInv, PyTypeOK, Open, Resolved
  <1>6. handle'[c] = idx /\ made'[c] = loads /\ Resolved'[c] = {} /\ Open(c)'
    <2>1. handle'[c] = idx /\ made'[c] = loads /\ cache'[c] = EmptyCache
      BY <1>2, <1>3 DEF PyIInv, PyTypeOK
    <2>2. \A x \in Names : cache'[c][x] = NoIndex
      BY <2>1
    <2>3. Resolved'[c] = {}
      BY <1>2, <2>2 DEF Resolved
    <2> QED
      BY <1>1, <2>1, <2>3 DEF Open
  <1>7. \A m \in Objects : Open(m) => handle[m] \in Slots /\ in_use[handle[m]]
    BY DEF Open, PyIInv, PyTypeOK, OwnsSlot
  <1>8. \A s \in Slots : s # idx => in_use'[s] = in_use[s] /\ n_fns'[s] = n_fns[s]
    BY <1>1 DEF PyIInv, IInv, TypeOK
  <1>9. in_use'[idx] /\ n_fns'[idx] = 0
    BY <1>1 DEF PyIInv, IInv, TypeOK
  <1>10. OwnsSlot'
    BY <1>1, <1>4, <1>5, <1>6, <1>7, <1>8, <1>9 DEF PyIInv, OwnsSlot
  <1>11. SlotsAccounted'
    <2>1. \A s \in Slots : in_use'[s] <=> s \in orphans' \/ \E m \in Objects : handle'[m] = s
      BY <1>1, <1>2, <1>3, <1>4, <1>5, <1>6, <1>8, <1>9 DEF PyIInv, SlotsAccounted, Open
    <2>2. idx \notin orphans
      BY <1>1 DEF PyIInv, SlotsAccounted
    <2>3. \A m, n \in Objects : Open(m)' /\ handle'[m] = handle'[n] => m = n
      BY <1>4, <1>5, <1>6 DEF PyIInv, SlotsAccounted
    <2> QED
      BY <1>3, <1>5, <1>6, <2>1, <2>2, <2>3 DEF PyIInv, SlotsAccounted
  <1>12. OneEntryPerName'
    <2> SUFFICES ASSUME NEW m \in Objects, Open(m)'
                 PROVE  n_fns'[handle'[m]] = Cardinality(Resolved'[m])
      BY DEF OneEntryPerName
    <2>1. CASE m = c
      BY <1>6, <1>9, <2>1, FS_EmptySet
    <2>2. CASE m # c
      <3>1. handle'[m] = handle[m] /\ Open(m) /\ Resolved'[m] = Resolved[m]
        BY <1>5, <2>2
      <3> QED
        BY <1>4, <1>7, <1>8, <3>1 DEF PyIInv, OneEntryPerName
    <2> QED
      BY <2>1, <2>2
  <1>13. FiniteCaches'
    BY <1>5, <1>6, FS_EmptySet DEF PyIInv, FiniteCaches
  <1>14. \A f \in functions : f.of \in Objects /\ f.of # c /\ f.h \in Slots
    BY <1>2 DEF PyIInv, PyTypeOK, FunctionObject, MadeFirst
  <1>15. FunctionsRight'
    <2> SUFFICES ASSUME NEW f \in functions, Open(f.of)
                 PROVE  Runs(f)' = [module |-> made'[f.of], name |-> f.name]
      BY <1>3, <1>5, <1>14 DEF FunctionsRight
    <2>1. f.h # idx
      BY <1>4, <1>14 DEF PyIInv, SameHandle
    <2> QED
      BY <1>1, <1>5, <1>8, <1>14, <2>1 DEF PyIInv, FunctionsRight, Runs
  <1>16. CacheRight'
    BY <1>1, <1>4, <1>5, <1>6, <1>7, <1>8 DEF PyIInv, CacheRight
  <1>17. SameHandle'
    BY <1>3, <1>5, <1>14 DEF PyIInv, SameHandle
  <1> QED
    BY <1>10, <1>11, <1>12, <1>13, <1>15, <1>16, <1>17 DEF Related

\* A name found in the cache gives a Function as right as the cache.
LEMMA HitRelated ==
    ASSUME PyIInv, NEW m \in Objects, NEW name \in Names, FunctionHit(m, name)
    PROVE  Related' /\ MadeFirst'
  <1> DEFINE f == [h |-> handle[m], i |-> cache[m][name], name |-> name, of |-> m]
  <1> USE DEF FunctionHit, InHand, vars, bss, control
  <1>1. Open(m) /\ in_use[f.h] /\ f.i < n_fns[f.h]
        /\ fns[f.h][f.i] = [module |-> made[m], name |-> name]
    BY DEF PyIInv, CacheRight, Resolved, OwnsSlot
  <1>2. functions' = functions \cup {f} /\ made[f.of] # NULL /\ f.of = m
    OBVIOUS
  <1>3. UNCHANGED <<handle, cache, made, orphans, creating, pc, in_use, fns, n_fns, runtime>>
    OBVIOUS
  <1>4. OwnsSlot' /\ SlotsAccounted' /\ OneEntryPerName' /\ CacheRight' /\ FiniteCaches'
    BY <1>3 DEF PyIInv, OwnsSlot, SlotsAccounted, OneEntryPerName, CacheRight, FiniteCaches,
       Open, Resolved
  <1>5. FunctionsRight'
    BY <1>1, <1>2, <1>3 DEF PyIInv, FunctionsRight, Runs, Open
  <1>6. SameHandle' /\ MadeFirst'
    BY <1>2, <1>3 DEF PyIInv, SameHandle, MadeFirst, Open
  <1> QED
    BY <1>4, <1>5, <1>6 DEF Related

\* A name resolved for the first time takes the next entry of its Module's
\* slot, and moves no other entry.
LEMMA MissRelated ==
    ASSUME PyIInv, PyTypeOK', NEW m \in Objects, NEW name \in Names, FunctionMiss(m, name)
    PROVE  Related' /\ MadeFirst'
  <1>0. PICK s, k, f, e : /\ s = handle[m] /\ k = n_fns[s]
                          /\ f = [h |-> s, i |-> k, name |-> name, of |-> m]
                          /\ e = [module |-> made[m], name |-> name]
    OBVIOUS
  <1>1. Open(m) /\ s \in Slots /\ in_use[s] /\ runtime[s] = made[m] /\ made[m] \in Loads
    BY <1>0 DEF FunctionMiss, InHand, Open, PyIInv, PyTypeOK, OwnsSlot
  <1>2. /\ functions' = functions \cup {f} /\ cache' = [cache EXCEPT ![m] = [@ EXCEPT ![name] = k]]
        /\ cache[m][name] = NoIndex
        /\ UNCHANGED <<handle, made, orphans, creating, in_use, runtime, pc>>
    BY <1>0 DEF FunctionMiss, Find, Cached, heap, control
  <1>3. k \in FnSlots /\ n_fns' = [n_fns EXCEPT ![s] = k + 1] /\ k \in Nat
    BY <1>0, <1>1, SizesAssumption DEF FunctionMiss, Find, FnsFull, PyIInv, IInv, TypeOK
  <1>4. fns' = [fns EXCEPT ![s] = [@ EXCEPT ![k] = e]]
    BY <1>0, <1>1 DEF FunctionMiss, Find, NextFn
  <1>5. \A t \in Slots : t # s => fns'[t] = fns[t] /\ n_fns'[t] = n_fns[t]
    BY <1>3, <1>4 DEF PyIInv, IInv, TypeOK
  <1>6. n_fns'[s] = k + 1 /\ fns'[s][k] = e /\ \A j \in FnSlots : j # k => fns'[s][j] = fns[s][j]
    BY <1>1, <1>3, <1>4 DEF PyIInv, IInv, TypeOK
  <1>7. \A n \in Objects : n # m => cache'[n] = cache[n] /\ (Open(n) => handle[n] # s)
    BY <1>0, <1>1, <1>2 DEF PyIInv, PyTypeOK, SlotsAccounted
  <1>8. cache'[m][name] = k /\ \A x \in Names : x # name => cache'[m][x] = cache[m][x]
    BY <1>2 DEF PyIInv, PyTypeOK
  <1>9. \A n \in Objects : Open(n)' = Open(n) /\ (n # m => Resolved'[n] = Resolved[n])
    BY <1>2, <1>7 DEF Open, Resolved
  <1>10. Resolved'[m] = Resolved[m] \cup {name} /\ name \notin Resolved[m]
    BY <1>2, <1>3, <1>8 DEF Resolved
  <1>11. \A g \in functions : g.h \in Slots /\ g.i \in FnSlots /\ g.of \in Objects
    BY DEF PyIInv, PyTypeOK, FunctionObject
  <1>12. \A g \in functions : handle[g.of] # None => g \in Found
    BY RightIsFound DEF PyIInv, RightIfFound
  <1>13. \A n \in Objects : Open(n) => handle[n] \in Slots
    BY DEF PyIInv, PyTypeOK, Open
  <1>14. OwnsSlot' /\ SlotsAccounted'
    BY <1>2, <1>9 DEF PyIInv, OwnsSlot, SlotsAccounted
  <1>15. IsFiniteSet(Resolved[m]) /\ Cardinality(Resolved[m]) = k
    BY <1>0, <1>1 DEF PyIInv, FiniteCaches, OneEntryPerName
  <1>16. IsFiniteSet(Resolved'[m]) /\ Cardinality(Resolved'[m]) = k + 1
    BY <1>10, <1>15, FS_AddElement
  <1>17. OneEntryPerName'
    <2> SUFFICES ASSUME NEW n \in Objects, Open(n)
                 PROVE  n_fns'[handle[n]] = Cardinality(Resolved'[n])
      BY <1>2, <1>9 DEF OneEntryPerName
    <2>1. CASE n = m
      BY <1>0, <1>6, <1>16, <2>1
    <2>2. CASE n # m
      BY <1>5, <1>7, <1>9, <1>13, <2>2 DEF PyIInv, OneEntryPerName
    <2> QED
      BY <2>1, <2>2
  <1>18. FiniteCaches'
    BY <1>9, <1>16 DEF PyIInv, FiniteCaches
  <1>19. \A g \in functions : handle[g.of] # None => g \in Found'
    <2> SUFFICES ASSUME NEW g \in functions, handle[g.of] # None PROVE g \in Found'
      OBVIOUS
    <2>1. /\ in_use[g.h] /\ g.i < n_fns[g.h]
          /\ fns[g.h][g.i] = [module |-> made[g.of], name |-> g.name]
      BY <1>12 DEF Found
    <2>2. g.i < n_fns'[g.h] /\ fns'[g.h][g.i] = fns[g.h][g.i]
      <3>1. CASE g.h = s
        BY <1>0, <1>3, <1>6, <1>11, <2>1, <3>1
      <3>2. CASE g.h # s
        BY <1>5, <1>11, <2>1, <3>2
      <3> QED
        BY <3>1, <3>2
    <2> QED
      BY <1>2, <2>1, <2>2 DEF Found
  <1>20. f \in Found'
    <2>1. f.h = s /\ f.i = k /\ f.of = m /\ f.name = name
      BY <1>0
    <2>2. in_use'[s] /\ k < n_fns'[s] /\ fns'[s][k] = e /\ made'[m] = made[m]
      BY <1>1, <1>2, <1>3, <1>6
    <2> QED
      BY <1>0, <1>2, <2>1, <2>2 DEF Found
  <1>21. MadeFirst'
    BY <1>0, <1>1, <1>2 DEF PyIInv, MadeFirst, Open
  <1>22. RightIfFound'
    BY PyTypeOK', <1>21, RightIsFound, PTL
  <1>23. FunctionsRight'
    BY <1>2, <1>19, <1>20, <1>22 DEF RightIfFound
  <1>24. CacheRight'
    <2> SUFFICES ASSUME NEW n \in Objects, NEW x \in Resolved'[n]
                 PROVE  /\ Open(n)
                        /\ cache'[n][x] < n_fns'[handle[n]]
                        /\ fns'[handle[n]][cache'[n][x]] = [module |-> made[n], name |-> x]
      BY <1>2, <1>9 DEF CacheRight
    <2>1. CASE n = m /\ x = name
      BY <1>0, <1>1, <1>3, <1>6, <1>8, <2>1
    <2>2. CASE n = m /\ x # name
      <3>1. x \in Resolved[m] /\ cache'[m][x] = cache[m][x] /\ cache[m][x] < k
            /\ fns[s][cache[m][x]] = [module |-> made[m], name |-> x]
        BY <1>0, <1>8, <1>10, <2>2 DEF PyIInv, CacheRight, Resolved
      <3>2. cache[m][x] \in FnSlots
        BY <3>1 DEF PyIInv, PyTypeOK, Resolved
      <3> QED
        BY <1>0, <1>1, <1>3, <1>6, <2>2, <3>1, <3>2
    <2>3. CASE n # m
      <3>1. x \in Resolved[n] /\ cache'[n] = cache[n]
        BY <1>7, <1>9, <2>3
      <3>2. Open(n) /\ cache[n][x] < n_fns[handle[n]]
            /\ fns[handle[n]][cache[n][x]] = [module |-> made[n], name |-> x]
        BY <3>1 DEF PyIInv, CacheRight
      <3> QED
        BY <1>5, <1>7, <1>13, <2>3, <3>1, <3>2
    <2> QED
      BY <2>1, <2>2, <2>3
  <1>25. SameHandle'
    BY <1>0, <1>1, <1>2 DEF PyIInv, SameHandle, Open
  <1> QED
    BY <1>14, <1>17, <1>18, <1>21, <1>23, <1>24, <1>25 DEF Related

\* close() empties the slot of its Module, and no other.
LEMMA CloseRelated == ASSUME PyIInv, NEW m \in Objects, Close(m) PROVE Related' /\ MadeFirst'
  <1>0. PICK s : s = handle[m]
    OBVIOUS
  <1>1. Open(m) /\ s \in Slots /\ in_use[s]
    BY <1>0 DEF Close, Open, PyIInv, PyTypeOK, OwnsSlot
  <1>2. /\ in_use' = [in_use EXCEPT ![s] = FALSE] /\ n_fns' = [n_fns EXCEPT ![s] = 0]
        /\ runtime' = [runtime EXCEPT ![s] = NULL]
        /\ handle' = [handle EXCEPT ![m] = None] /\ cache' = [cache EXCEPT ![m] = EmptyCache]
        /\ UNCHANGED <<fns, made, orphans, functions, creating, pc>>
    BY <1>0 DEF Close, Unload, ClearPointers, control
  <1>3. \A n \in Objects : n # m => /\ handle'[n] = handle[n] /\ cache'[n] = cache[n]
                                    /\ Open(n)' = Open(n) /\ Resolved'[n] = Resolved[n]
                                    /\ handle[n] # s
    BY <1>0, <1>1, <1>2 DEF PyIInv, PyTypeOK, SlotsAccounted, Open, Resolved
  <1>4. handle'[m] = None /\ ~Open(m)' /\ Resolved'[m] = {}
    <2>1. handle'[m] = None /\ cache'[m] = EmptyCache
      BY <1>2 DEF PyIInv, PyTypeOK
    <2>2. \A x \in Names : cache'[m][x] = NoIndex
      BY <2>1
    <2> QED
      BY <2>1, <2>2 DEF Open, Resolved
  <1>5. \A t \in Slots : t # s =>
            in_use'[t] = in_use[t] /\ n_fns'[t] = n_fns[t] /\ runtime'[t] = runtime[t]
    BY <1>2 DEF PyIInv, IInv, TypeOK
  <1>6. ~in_use'[s]
    BY <1>1, <1>2 DEF PyIInv, IInv, TypeOK
  <1>7. \A n \in Objects : Open(n) => handle[n] \in Slots
    BY DEF Open, PyIInv, PyTypeOK
  <1>8. OwnsSlot'
    BY <1>2, <1>3, <1>4, <1>5, <1>7 DEF PyIInv, OwnsSlot
  <1>9. SlotsAccounted'
    <2>1. \A t \in Slots : in_use'[t] <=> t \in orphans' \/ \E n \in Objects : handle'[n] = t
      <3> SUFFICES ASSUME NEW t \in Slots
                   PROVE  in_use'[t] <=> t \in orphans \/ \E n \in Objects : handle'[n] = t
        BY <1>2
      <3>1. CASE t = s
        <4>1. s \notin orphans /\ s # None
          BY <1>0, <1>1 DEF PyIInv, SlotsAccounted
        <4> QED
          BY <1>3, <1>4, <1>6, <3>1, <4>1
      <3>2. CASE t # s
        <4>1. handle[m] # t /\ handle'[m] # t
          BY <1>0, <1>4, <3>2
        <4>2. \A n \in Objects : handle'[n] = t <=> handle[n] = t
          BY <1>3, <4>1
        <4> QED
          BY <1>5, <3>2, <4>2 DEF PyIInv, SlotsAccounted
      <3> QED
        BY <3>1, <3>2
    <2>2. \A n \in Objects : handle'[n] \notin orphans'
      <3>1. None \notin orphans
        BY DEF PyIInv, PyTypeOK
      <3> QED
        BY <1>2, <1>3, <1>4, <3>1 DEF PyIInv, SlotsAccounted
    <2>3. ASSUME NEW n \in Objects, NEW p \in Objects, Open(n)', handle'[n] = handle'[p]
          PROVE  n = p
      <3>1. n # m /\ p # m
        BY <1>4, <2>3 DEF Open
      <3> QED
        BY <1>3, <2>3, <3>1 DEF PyIInv, SlotsAccounted
    <2> QED
      BY <1>2, <2>1, <2>2, <2>3 DEF PyIInv, SlotsAccounted
  <1>10. OneEntryPerName' /\ FiniteCaches'
    <2>1. OneEntryPerName'
      BY <1>3, <1>4, <1>5, <1>7 DEF PyIInv, OneEntryPerName
    <2>2. \A n \in Objects : IsFiniteSet(Resolved'[n])
      BY <1>3, <1>4, FS_EmptySet DEF PyIInv, FiniteCaches
    <2> QED
      BY <2>1, <2>2 DEF FiniteCaches
  <1>11. \A f \in functions : f.of \in Objects /\ f.h \in Slots
    BY DEF PyIInv, PyTypeOK, FunctionObject
  <1>12. FunctionsRight'
    <2> SUFFICES ASSUME NEW f \in functions, Open(f.of)'
                 PROVE  Runs(f)' = [module |-> made'[f.of], name |-> f.name]
      BY <1>2 DEF FunctionsRight
    <2>1. f.of # m /\ Open(f.of)
      BY <1>3, <1>4, <1>11
    <2>2. f.h # s
      BY <1>3, <1>11, <2>1 DEF PyIInv, SameHandle
    <2> QED
      BY <1>2, <1>5, <1>11, <2>1, <2>2 DEF PyIInv, FunctionsRight, Runs
  <1>13. CacheRight'
    BY <1>2, <1>3, <1>4, <1>5, <1>7 DEF PyIInv, CacheRight
  <1>14. SameHandle' /\ MadeFirst'
    <2>1. SameHandle'
      <3> SUFFICES ASSUME NEW f \in functions, Open(f.of)' PROVE f.h = handle'[f.of]
        BY <1>2 DEF SameHandle
      <3> QED
        BY <1>3, <1>4, <1>11 DEF PyIInv, SameHandle
    <2>2. \A n \in Objects : made[n] = NULL => ~Open(n)'
      BY <1>3, <1>4 DEF PyIInv, MadeFirst
    <2> QED
      BY <1>2, <2>1, <2>2 DEF PyIInv, MadeFirst
  <1> QED
    BY <1>8, <1>9, <1>10, <1>12, <1>13, <1>14 DEF Related

\* After a soft reset no Module is open and no Function is left.
LEMMA SoftResetRelated == ASSUME PyIInv, SoftResetPy PROVE Related' /\ MadeFirst'
  <1>1. /\ handle' = [m \in Objects |-> None] /\ cache' = [m \in Objects |-> EmptyCache]
        /\ made' = [m \in Objects |-> NULL] /\ functions' = {}
        /\ orphans' = {s \in Slots : in_use'[s]} /\ UNCHANGED <<creating, pc>> /\ pc = "idle"
    BY DEF SoftResetPy, SoftReset, control
  <1>2. \A m \in Objects : ~Open(m)' /\ Resolved'[m] = {}
    BY <1>1 DEF Open, Resolved
  <1>3. OwnsSlot' /\ OneEntryPerName' /\ FunctionsRight' /\ CacheRight' /\ SameHandle'
    BY <1>1, <1>2 DEF OwnsSlot, OneEntryPerName, FunctionsRight, CacheRight, SameHandle
  <1>4. FiniteCaches'
    BY <1>2, FS_EmptySet DEF FiniteCaches
  <1>5. NATMOD => \A s \in Slots : ~in_use'[s]
    BY DEF SoftResetPy, SoftReset, TableAnew, EmptyTable
  <1>6. SlotsAccounted'
    BY <1>1, <1>2, <1>5 DEF SlotsAccounted
  <1>7. MadeFirst'
    BY <1>1, <1>2 DEF PyIInv, MadeFirst
  <1> QED
    BY <1>3, <1>4, <1>6, <1>7 DEF Related

-----------------------------------------------------------------------------
(* The theorems.                                                            *)

\* The wrapper does nothing to the slot table but call its operations.
LEMMA PyStepsTable == ASSUME PyTypeOK, [PyNext]_allVars PROVE [Next]_vars
  <1>1. CASE \/ InitRefused \/ InitGoesOn \/ InitRaises \/ InitDone
             \/ \E m \in Objects : InitBegins(m)
    BY <1>1 DEF InitBegins, InitRefused, InitGoesOn, InitRaises, InitDone, Next, Load
  <1>2. ASSUME NEW m \in Objects, Open(m),
               \/ Close(m)
               \/ \E name \in Names : FunctionMiss(m, name)
               \/ \E i \in Imports, c \in Callables : LinkImport(m, i, c)
        PROVE  Next
    <2>1. handle[m] \in Slots
      BY <1>2 DEF PyTypeOK, Open
    <2>2. SlotOp(handle[m])
      BY <1>2 DEF Close, FunctionMiss, LinkImport, SlotOp
    <2> QED
      BY <2>1, <2>2 DEF Next
  <1>3. CASE \/ \E m \in Objects : DropModule(m) \/ \E name \in Names : FunctionHit(m, name)
             \/ \E f \in functions : DropFunction(f)
             \/ UNCHANGED allVars
    BY <1>3 DEF DropModule, FunctionHit, DropFunction, allVars
  <1>4. CASE (\E c \in Callables : Define(c)) \/ Collect \/ SoftResetPy
    BY <1>4 DEF Next, SoftResetPy
  <1> QED
    BY <1>1, <1>2, <1>3, <1>4 DEF PyNext, ModuleOp, Close, FunctionMiss, LinkImport

\* No step of the wrapper or the table breaks a type.
LEMMA PyTypeOKStep == ASSUME PyIInv, TypeOK', [PyNext]_allVars PROVE PyTypeOK'
  <1> USE DEF FunctionObject
  <1>1. CASE InitDone
    <2>1. idx \in Slots /\ loads \in Loads
      BY <1>1, LoadFacts DEF InitDone, LoadModule, PyIInv
    <2> QED
      BY <1>1, <2>1 DEF InitDone, PyIInv, PyTypeOK
  <1>2. CASE InitRefused \/ InitGoesOn \/ InitRaises \/ \E m \in Objects : InitBegins(m)
    BY <1>2 DEF InitRefused, InitGoesOn, InitRaises, InitBegins, PyIInv, PyTypeOK, pyVars
  <1>3. ASSUME NEW m \in Objects, NEW name \in Names, FunctionHit(m, name) PROVE PyTypeOK'
    <2>1. handle[m] \in Slots /\ cache[m][name] \in FnSlots
      <3>1. name \in Resolved[m] /\ cache[m][name] \in FnSlots
        BY <1>3 DEF FunctionHit, PyIInv, PyTypeOK, Resolved
      <3>2. Open(m)
        BY <3>1 DEF PyIInv, CacheRight
      <3> QED
        BY <3>1, <3>2 DEF Open, PyIInv, PyTypeOK
    <2> QED
      BY <1>3, <2>1 DEF FunctionHit, PyIInv, PyTypeOK
  <1>4. ASSUME NEW m \in Objects, NEW name \in Names, FunctionMiss(m, name) PROVE PyTypeOK'
    <2>1. handle[m] \in Slots
      BY <1>4 DEF FunctionMiss, Open, PyIInv, PyTypeOK
    <2>2. n_fns[handle[m]] \in FnSlots
      BY <1>4, <2>1, SizesAssumption DEF FunctionMiss, Find, FnsFull, PyIInv, PyTypeOK, TypeOK
    <2>3. cache' \in [Objects -> [Names -> FnSlots \cup {NoIndex}]]
      BY <1>4, <2>2 DEF FunctionMiss, Cached, PyIInv, PyTypeOK
    <2> QED
      BY <1>4, <2>1, <2>2, <2>3 DEF FunctionMiss, PyIInv, PyTypeOK
  <1>5. ASSUME NEW m \in Objects,
               \/ Close(m) \/ DropModule(m)
               \/ \E i \in Imports, c \in Callables : LinkImport(m, i, c)
        PROVE  PyTypeOK'
    <2>1. CASE Close(m)
      <3>1. /\ handle' \in [Objects -> Slots \cup {None}]
            /\ cache' \in [Objects -> [Names -> FnSlots \cup {NoIndex}]]
        BY <2>1 DEF Close, PyIInv, PyTypeOK
      <3> QED
        BY <2>1, <3>1 DEF Close, PyIInv, PyTypeOK
    <2>2. CASE DropModule(m)
      BY <2>2 DEF DropModule, PyIInv, PyTypeOK
    <2>3. CASE \E i \in Imports, c \in Callables : LinkImport(m, i, c)
      BY <2>3 DEF LinkImport, PyIInv, PyTypeOK, pyVars
    <2> QED
      BY <1>5, <2>1, <2>2, <2>3
  <1>6. CASE \/ \E f \in functions : DropFunction(f)
             \/ (\E c \in Callables : Define(c)) /\ UNCHANGED pyVars
             \/ Collect /\ UNCHANGED pyVars
             \/ UNCHANGED allVars
    BY <1>6 DEF DropFunction, PyIInv, PyTypeOK, pyVars, allVars
  <1>7. CASE SoftResetPy
    BY <1>7 DEF SoftResetPy, PyIInv, PyTypeOK
  <1> QED
    BY <1>1, <1>2, <1>3, <1>4, <1>5, <1>6, <1>7 DEF PyNext, ModuleOp

\* A Module is being created exactly while a load() runs.
LEMMA MadeFirstStep ==
    ASSUME PyIInv,
           \/ InitRefused \/ InitGoesOn \/ InitRaises \/ InitDone
           \/ \E m \in Objects : \/ InitBegins(m) \/ DropModule(m)
                                 \/ \E i \in Imports, c \in Callables : LinkImport(m, i, c)
           \/ \E f \in functions : DropFunction(f)
           \/ (\E c \in Callables : Define(c)) /\ UNCHANGED pyVars
           \/ Collect /\ UNCHANGED pyVars
           \/ UNCHANGED allVars
    PROVE  MadeFirst'
  <1>1. CASE InitRaises
    BY <1>1 DEF InitRaises, LoadRaises, NewRuntimeFails, ParseModuleFails, LoadModuleFails,
       LoadFailed, Abort, PyIInv, MadeFirst, Open
  <1>2. CASE InitDone
    <2>1. PICK c \in Objects : c = creating
      BY <1>2 DEF InitDone, LoadModule, PyIInv, PyTypeOK, MadeFirst
    <2>2. /\ made' = [made EXCEPT ![c] = loads] /\ handle' = [handle EXCEPT ![c] = idx]
          /\ UNCHANGED functions /\ creating' = Nobody /\ pc' = "idle" /\ loads # NULL
      BY <1>2, <2>1, LoadFacts DEF InitDone, LoadModule, PyIInv
    <2>3. \A n \in Objects : made'[n] = NULL => n # c /\ made[n] = NULL /\ ~Open(n)'
      BY <2>2 DEF PyIInv, PyTypeOK, MadeFirst, Open
    <2>4. \A f \in functions : f.of \in Objects /\ made[f.of] # NULL
      BY DEF PyIInv, PyTypeOK, MadeFirst, FunctionObject
    <2> QED
      BY <2>2, <2>3, <2>4 DEF MadeFirst
  <1>3. CASE \E m \in Objects : InitBegins(m)
    BY <1>3, NobodyAssumption DEF InitBegins, CopyBlob, PyIInv, MadeFirst, Open
  <1>4. CASE InitGoesOn
    BY <1>4 DEF InitGoesOn, NewRuntime, ParseModule, PyIInv, MadeFirst, Open, pyVars
  <1>5. CASE \/ InitRefused
             \/ \E m \in Objects : \/ DropModule(m)
                                   \/ \E i \in Imports, c \in Callables : LinkImport(m, i, c)
             \/ \E f \in functions : DropFunction(f)
             \/ (\E c \in Callables : Define(c)) /\ UNCHANGED pyVars
             \/ Collect /\ UNCHANGED pyVars
             \/ UNCHANGED allVars
    BY <1>5 DEF InitRefused, LoadRefused, DropModule, LinkImport, Link, DropFunction, Define, Collect,
       CollectKeeping, PyIInv, MadeFirst, Open, vars, pyVars, allVars, control
  <1> QED
    BY <1>1, <1>2, <1>3, <1>4, <1>5

\* A step that leaves slots in use, Modules and Functions as they were leaves
\* what a closed Module's Functions may find.
LEMMA QuietLater ==
    ASSUME PyIInv, Quiet, UNCHANGED <<handle, made>>, functions' \subseteq functions,
           loaded \subseteq loaded'
    PROVE  Later'
  <1>1. \A f \in functions : f.h \in Slots /\ (Open(f.of)' <=> Open(f.of))
    BY DEF Open, PyIInv, PyTypeOK, FunctionObject
  <1> QED
    BY <1>1 DEF Quiet, PyIInv, Later

\* What a closed Module's Functions may find was loaded after that Module.
LEMMA LaterStep == ASSUME PyIInv, [PyNext]_allVars PROVE Later'
  <1>1. \A f \in functions : /\ f.h \in Slots /\ f.of \in Objects
                             /\ made[f.of] \in loaded /\ made[f.of] \in Nat
    BY DEF PyIInv, PyTypeOK, FunctionObject, MadeFirst, Later
  <1>2. CASE InitDone
    <2>1. PICK c \in Objects : c = creating /\ made[c] = NULL
      BY <1>2 DEF InitDone, LoadModule, PyIInv, PyTypeOK, MadeFirst
    <2>2. /\ idx \in Slots /\ runtime' = runtime /\ runtime[idx] = loads
          /\ loads \in Loads /\ loads \notin loaded /\ loaded' = loaded \cup {loads}
          /\ in_use' = [in_use EXCEPT ![idx] = TRUE]
      BY <1>2, LoadFacts DEF InitDone, LoadModule, PyIInv
    <2>3. /\ made' = [made EXCEPT ![c] = loads] /\ handle' = [handle EXCEPT ![c] = idx]
          /\ functions' = functions
      BY <1>2, <2>1 DEF InitDone
    <2>4. \A m \in Objects : made'[m] # NULL => made'[m] \in loaded'
      BY <2>1, <2>2, <2>3 DEF PyIInv, PyTypeOK, Later
    <2>5. ASSUME NEW f \in functions, ~Open(f.of)', in_use'[f.h]
          PROVE  runtime'[f.h] > made'[f.of]
      <3>1. f.of # c
        BY <2>1, <2>5 DEF PyIInv, MadeFirst
      <3>2. ~Open(f.of) /\ made'[f.of] = made[f.of]
        BY <1>1, <2>3, <2>5, <3>1 DEF Open, PyIInv, PyTypeOK
      <3>3. CASE f.h = idx
        <4>1. made[f.of] <= loads /\ made[f.of] # loads
          BY <1>1, <2>2 DEF PyIInv, IInv, Fresh
        <4> QED
          BY <1>1, <2>2, <3>2, <3>3, <4>1
      <3>4. CASE f.h # idx
        <4>1. in_use[f.h]
          BY <1>1, <2>2, <2>5, <3>4 DEF PyIInv, IInv, TypeOK
        <4> QED
          BY <2>2, <3>2, <4>1 DEF PyIInv, Later
      <3> QED
        BY <3>3, <3>4
    <2> QED
      BY <2>3, <2>4, <2>5 DEF Later
  <1>3. ASSUME NEW m \in Objects, NEW name \in Names, FunctionHit(m, name) PROVE Later'
    <2>1. Open(m)
      BY <1>3 DEF FunctionHit, PyIInv, CacheRight, Resolved
    <2> QED
      BY <1>3, <2>1 DEF FunctionHit, PyIInv, Later, Open, vars, bss, heap
  <1>4. ASSUME NEW m \in Objects, NEW name \in Names, FunctionMiss(m, name) PROVE Later'
    BY <1>4 DEF FunctionMiss, Find, PyIInv, Later, Open, heap
  <1>5. ASSUME NEW m \in Objects, Close(m) PROVE Later'
    <2>1. PICK h \in Slots : h = handle[m]
      BY <1>5 DEF Close, Open, PyIInv, PyTypeOK
    <2>2. /\ in_use' = [in_use EXCEPT ![h] = FALSE] /\ runtime' = [runtime EXCEPT ![h] = NULL]
          /\ UNCHANGED <<loaded, made, functions>> /\ handle' = [handle EXCEPT ![m] = None]
      BY <1>5, <2>1 DEF Close, Unload, ClearPointers
    <2>3. \A s \in Slots : s # h => in_use'[s] = in_use[s] /\ runtime'[s] = runtime[s]
      BY <2>2 DEF PyIInv, IInv, TypeOK
    <2>4. ~in_use'[h]
      BY <2>2 DEF PyIInv, IInv, TypeOK
    <2>5. ASSUME NEW f \in functions, ~Open(f.of)', in_use'[f.h] PROVE ~Open(f.of) /\ f.h # h
      <3>1. f.h # h
        BY <2>4, <2>5
      <3>2. f.of # m
        <4>1. Open(m)
          BY <1>5 DEF Close
        <4> QED
          BY <2>1, <3>1, <4>1 DEF PyIInv, SameHandle
      <3> QED
        BY <1>1, <2>2, <2>5, <3>1, <3>2 DEF Open, PyIInv, PyTypeOK
    <2> QED
      BY <1>1, <2>2, <2>3, <2>5 DEF PyIInv, Later
  <1>6. CASE SoftResetPy
    BY <1>6 DEF SoftResetPy, Later
  <1>7. CASE \/ InitRefused \/ InitGoesOn \/ InitRaises
             \/ \E m \in Objects : \/ InitBegins(m) \/ DropModule(m)
                                   \/ \E i \in Imports, c \in Callables : LinkImport(m, i, c)
             \/ \E f \in functions : DropFunction(f)
             \/ (\E c \in Callables : Define(c)) /\ UNCHANGED pyVars
             \/ Collect /\ UNCHANGED pyVars
             \/ UNCHANGED allVars
    <2>1. UNCHANGED <<handle, made>> /\ functions' \subseteq functions
      BY <1>7 DEF InitRefused, InitGoesOn, InitRaises, InitBegins, DropModule, LinkImport,
         DropFunction, pyVars, allVars
    <2>2. \/ LoadRefused \/ NewRuntime \/ ParseModule \/ LoadRaises
          \/ \E s \in Slots : CopyBlob(s)
          \/ \E s \in Slots, i \in Imports, c \in Callables : Link(s, i, c)
          \/ \E c \in Callables : Define(c)
          \/ Collect
          \/ UNCHANGED vars
      BY <1>7 DEF InitRefused, InitGoesOn, InitRaises, InitBegins, DropModule, LinkImport,
         DropFunction, allVars, Open, PyIInv, PyTypeOK
    <2>3. UNCHANGED loaded
      BY <2>2 DEF LoadRefused, NewRuntime, ParseModule, LoadRaises, NewRuntimeFails, ParseModuleFails,
         LoadModuleFails, LoadFailed, Abort, CopyBlob, Link, Define, Collect, CollectKeeping,
         vars, heap
    <2> QED
      BY <2>1, <2>2, <2>3, QuietSteps, QuietLater DEF PyIInv
  <1> QED
    BY <1>2, <1>3, <1>4, <1>5, <1>6, <1>7 DEF PyNext, ModuleOp

\* The invariant is inductive.
LEMMA PyNextIInv == PyIInv /\ [PyNext]_allVars => PyIInv'
  <1> SUFFICES ASSUME PyIInv, [PyNext]_allVars PROVE PyIInv'
    OBVIOUS
  <1>1. IInv' /\ TypeOK'
    BY PyStepsTable, NextIInv DEF PyIInv, IInv
  <1>2. PyTypeOK' /\ Later'
    BY <1>1, PyTypeOKStep, LaterStep
  <1>3. CASE InitDone
    BY <1>1, <1>2, <1>3, InitDoneRelated, MadeFirstStep DEF PyIInv, Related
  <1>4. ASSUME NEW m \in Objects, NEW name \in Names, FunctionHit(m, name) PROVE PyIInv'
    BY <1>1, <1>2, <1>4, HitRelated DEF PyIInv, Related
  <1>5. ASSUME NEW m \in Objects, NEW name \in Names, FunctionMiss(m, name) PROVE PyIInv'
    BY <1>1, <1>2, <1>5, MissRelated DEF PyIInv, Related
  <1>6. ASSUME NEW m \in Objects, Close(m) PROVE PyIInv'
    BY <1>1, <1>2, <1>6, CloseRelated DEF PyIInv, Related
  <1>7. CASE SoftResetPy
    BY <1>1, <1>2, <1>7, SoftResetRelated DEF PyIInv, Related
  <1>8. CASE \/ InitRefused \/ InitGoesOn \/ InitRaises
             \/ \E m \in Objects : \/ InitBegins(m) \/ DropModule(m)
                                   \/ \E i \in Imports, c \in Callables : LinkImport(m, i, c)
             \/ \E f \in functions : DropFunction(f)
             \/ (\E c \in Callables : Define(c)) /\ UNCHANGED pyVars
             \/ Collect /\ UNCHANGED pyVars
             \/ UNCHANGED allVars
    <2>1. MadeFirst'
      BY <1>8, MadeFirstStep
    <2>2. UNCHANGED <<handle, cache, made, orphans>> /\ functions' \subseteq functions
      BY <1>8 DEF InitRefused, InitGoesOn, InitRaises, InitBegins, DropModule, LinkImport,
         DropFunction, pyVars, allVars
    <2>3. \/ LoadRefused \/ NewRuntime \/ ParseModule \/ LoadRaises
          \/ \E s \in Slots : CopyBlob(s)
          \/ \E s \in Slots, i \in Imports, c \in Callables : Link(s, i, c)
          \/ \E c \in Callables : Define(c)
          \/ Collect
          \/ UNCHANGED vars
      BY <1>8 DEF InitRefused, InitGoesOn, InitRaises, InitBegins, DropModule, LinkImport,
         DropFunction, allVars, Open, PyIInv, PyTypeOK
    <2>4. Related'
      BY <2>2, <2>3, QuietSteps, QuietRelated DEF PyIInv
    <2> QED
      BY <1>1, <1>2, <2>1, <2>4 DEF PyIInv, Related
  <1> QED
    BY <1>3, <1>4, <1>5, <1>6, <1>7, <1>8 DEF PyNext, ModuleOp

\* No Module is open when the program starts.
LEMMA PyInitIInv == PyInit => PyIInv
  <1> SUFFICES ASSUME PyInit PROVE PyIInv
    OBVIOUS
  <1>1. IInv /\ TypeOK
    BY InitIInv DEF PyInit, IInv
  <1>2. \A m \in Objects : ~Open(m) /\ Resolved[m] = {}
    BY DEF PyInit, Open, Resolved
  <1>3. PyTypeOK
    BY <1>1 DEF PyInit, PyTypeOK
  <1>4. OwnsSlot /\ OneEntryPerName /\ FunctionsRight /\ CacheRight /\ SameHandle
    BY <1>2 DEF PyInit, OwnsSlot, OneEntryPerName, FunctionsRight, CacheRight, SameHandle
  <1>5. FiniteCaches
    BY <1>2, FS_EmptySet DEF FiniteCaches
  <1>6. SlotsAccounted /\ MadeFirst /\ Later
    BY <1>2 DEF PyInit, Init, SlotsAccounted, MadeFirst, Later
  <1> QED
    BY <1>1, <1>3, <1>4, <1>5, <1>6 DEF PyIInv

\* The inductive invariant holds of every reachable state of the wrapper and
\* the table under it.
THEOREM PyInvariance == PySpec => []PyIInv
  BY PyInitIInv, PyNextIInv, PTL DEF PySpec

\* Every variable of the wrapper keeps its type.
THEOREM PyTypeCorrect == PySpec => []PyTypeOK
  BY PyInvariance, PTL DEF PyIInv

\* An open Module's handle stays its own: no other Module's close() or load()
\* takes its slot away.
THEOREM OwnsSlotAlways == PySpec => []OwnsSlot
  BY PyInvariance, PTL DEF PyIInv

\* Every slot in use is the slot of exactly one open Module, or was taken from
\* one by a soft reset, which happens in usermods only.
THEOREM SlotsAccountedAlways == PySpec => []SlotsAccounted
  BY PyInvariance, PTL DEF PyIInv

\* A Module uses one entry of the function table per name it resolved.
THEOREM OneEntryPerNameAlways == PySpec => []OneEntryPerName
  BY PyInvariance, PTL DEF PyIInv

\* A Function object of an open Module runs the export it is named after.
THEOREM FunctionsRightAlways == PySpec => []FunctionsRight
  BY PyInvariance, PTL DEF PyIInv

\* A Function object that outlives its Module's close() raises, or runs code
\* that was loaded later: it never runs what close() freed.
THEOREM StaleRunsLaterAlways == PySpec => []StaleRunsLater
  <1>1. PyIInv => StaleRunsLater
    <2> SUFFICES ASSUME PyIInv, NEW f \in functions, ~Open(f.of), Runs(f) # NoFunction
                 PROVE  Runs(f).module > made[f.of]
      BY DEF StaleRunsLater
    <2>1. f.h \in Slots /\ f.i \in FnSlots
      BY DEF PyIInv, PyTypeOK, FunctionObject
    <2>2. in_use[f.h] /\ f.i < n_fns[f.h] /\ Runs(f) = fns[f.h][f.i]
      BY DEF Runs
    <2>3. fns[f.h][f.i].module = runtime[f.h]
      BY <2>1, <2>2 DEF PyIInv, IInv, Coherent, InUse
    <2> QED
      BY <2>2, <2>3 DEF PyIInv, Later
  <1> QED
    BY <1>1, PyInvariance, PTL

\* Every behaviour of the wrapper is one of the slot table, so whatever is
\* proved of the table holds under the wrapper: the wrapper cannot even ask for
\* something the table's invariant does not cover.
THEOREM PyUsesTable == PySpec => Spec
  <1>1. PyInit => Init
    BY DEF PyInit
  <1>2. PyTypeOK /\ [PyNext]_allVars => [Next]_vars
    BY PyStepsTable
  <1> QED
    BY <1>1, <1>2, PyTypeCorrect, PTL DEF PySpec, Spec

-----------------------------------------------------------------------------
(* The refinement: Modules are handles, too.                                *)

\* The instance behind each Module.
ModuleTable == [m \in Objects |-> IF Open(m) THEN runtime[handle[m]] ELSE NULL]

\* __init__ opens a Module that was not, with an instance never seen before.
LEMMA InitDoneOpens ==
    ASSUME PyIInv, InitDone
    PROVE  \E m \in Objects, g \in Loads : MT!Open(m, g)
  <1>1. PICK c \in Objects : c = creating /\ made[c] = NULL /\ ~Open(c)
    BY DEF InitDone, LoadModule, PyIInv, PyTypeOK, MadeFirst
  <1>2. PICK g \in Loads : /\ g = loads /\ idx \in Slots /\ runtime' = runtime /\ runtime[idx] = g
                           /\ g \notin loaded /\ loaded' = loaded \cup {g}
    BY LoadFacts DEF InitDone, LoadModule, PyIInv
  <1>3. handle' = [handle EXCEPT ![c] = idx]
    BY <1>1 DEF InitDone
  <1>4. \A m \in Objects : m # c => handle'[m] = handle[m]
    BY <1>3 DEF PyIInv, PyTypeOK
  <1>5. handle'[c] = idx /\ idx # None
    BY <1>2, <1>3 DEF PyIInv, PyTypeOK
  <1>6. ModuleTable' = [ModuleTable EXCEPT ![c] = g] /\ ModuleTable[c] = NULL
    BY <1>1, <1>2, <1>4, <1>5 DEF ModuleTable, Open
  <1>7. MT!Open(c, g)
    BY <1>2, <1>6 DEF MT!Open, ModuleTable
  <1> QED
    BY <1>7

\* close() ends the one Module it is called on.
LEMMA CloseCloses == ASSUME PyIInv, NEW m \in Objects, Close(m) PROVE MT!Close(m)
  <1>1. PICK h \in Slots : h = handle[m] /\ Open(m)
    BY DEF Close, Open, PyIInv, PyTypeOK
  <1>2. /\ runtime' = [runtime EXCEPT ![h] = NULL] /\ UNCHANGED loaded
        /\ handle' = [handle EXCEPT ![m] = None]
    BY <1>1 DEF Close, Unload, ClearPointers
  <1>3. ASSUME NEW n \in Objects, n # m
        PROVE  ModuleTable'[n] = ModuleTable[n]
    <2>1. handle'[n] = handle[n]
      BY <1>2, <1>3 DEF PyIInv, PyTypeOK
    <2>2. Open(n) => handle[n] \in Slots /\ handle[n] # h
      BY <1>1, <1>3 DEF Open, PyIInv, PyTypeOK, SlotsAccounted
    <2>3. Open(n) => runtime'[handle[n]] = runtime[handle[n]]
      BY <1>2, <2>2 DEF PyIInv, IInv, TypeOK
    <2> QED
      BY <2>1, <2>3 DEF ModuleTable, Open
  <1>4. ModuleTable'[m] = NULL
    BY <1>2 DEF ModuleTable, Open, PyIInv, PyTypeOK
  <1>5. ModuleTable[m] # NULL
    <2>1. in_use[h] /\ runtime[h] \in Loads
      BY <1>1 DEF PyIInv, OwnsSlot, IInv, TypeOK, Coherent, InUse
    <2> QED
      BY <1>1, <2>1 DEF ModuleTable
  <1>6. ModuleTable' = [ModuleTable EXCEPT ![m] = NULL]
    BY <1>3, <1>4 DEF ModuleTable
  <1> QED
    BY <1>2, <1>5, <1>6 DEF MT!Close, ModuleTable

\* Nothing else the program does moves a Module to another instance.
LEMMA OthersKeepModules ==
    ASSUME PyIInv, [PyNext]_allVars, ~InitDone, ~SoftResetPy, \A m \in Objects : ~Close(m)
    PROVE  UNCHANGED <<ModuleTable, loaded>>
  <1>1. \A m \in Objects : Open(m) => handle[m] \in Slots /\ in_use[handle[m]]
    BY DEF Open, PyIInv, PyTypeOK, OwnsSlot
  <1>2. CASE \E m \in Objects, name \in Names : FunctionHit(m, name) \/ FunctionMiss(m, name)
    <2>1. UNCHANGED <<runtime, handle, loaded>>
      BY <1>2 DEF FunctionHit, FunctionMiss, Find, vars, bss, heap
    <2> QED
      BY <2>1 DEF ModuleTable, Open
  <1>3. CASE \/ InitRefused \/ InitGoesOn \/ InitRaises
             \/ \E m \in Objects : \/ InitBegins(m) \/ DropModule(m)
                                   \/ \E i \in Imports, c \in Callables : LinkImport(m, i, c)
             \/ \E f \in functions : DropFunction(f)
             \/ (\E c \in Callables : Define(c)) /\ UNCHANGED pyVars
             \/ Collect /\ UNCHANGED pyVars
             \/ UNCHANGED allVars
    <2>1. UNCHANGED handle
      BY <1>3 DEF InitRefused, InitGoesOn, InitRaises, InitBegins, DropModule, LinkImport,
         DropFunction, pyVars, allVars
    <2>2. \/ LoadRefused \/ NewRuntime \/ ParseModule \/ LoadRaises
          \/ \E s \in Slots : CopyBlob(s)
          \/ \E s \in Slots, i \in Imports, c \in Callables : Link(s, i, c)
          \/ \E c \in Callables : Define(c)
          \/ Collect
          \/ UNCHANGED vars
      BY <1>3 DEF InitRefused, InitGoesOn, InitRaises, InitBegins, DropModule, LinkImport,
         DropFunction, allVars, Open, PyIInv, PyTypeOK
    <2>3. UNCHANGED loaded
      BY <2>2 DEF LoadRefused, NewRuntime, ParseModule, LoadRaises, NewRuntimeFails, ParseModuleFails,
         LoadModuleFails, LoadFailed, Abort, CopyBlob, Link, Define, Collect, CollectKeeping,
         vars, heap
    <2>4. \A s \in Slots : in_use[s] => runtime'[s] = runtime[s]
      BY <2>2, QuietSteps DEF Quiet, PyIInv
    <2> QED
      BY <1>1, <2>1, <2>3, <2>4 DEF ModuleTable, Open
  <1> QED
    BY <1>2, <1>3 DEF PyNext, ModuleOp

\* The Modules of a program implement the abstract table of handles on their
\* own: each names one instance from __init__ to close(), two Modules never the
\* same, and it is the one the native part finds behind the Module's handle.
THEOREM ModulesRefinement == PySpec => ModulesImplementHandleTable
  <1>1. PyInit => MT!Init
    <2> SUFFICES ASSUME PyInit PROVE MT!Init
      OBVIOUS
    <2>1. ModuleTable = [m \in Objects |-> NULL] /\ loaded = {}
      BY DEF PyInit, Init, ModuleTable, Open
    <2> QED
      BY <2>1 DEF MT!Init, ModuleTable
  <1>2. PyIInv /\ [PyNext]_allVars => [MT!Next]_MT!vars
    <2> SUFFICES ASSUME PyIInv, [PyNext]_allVars PROVE [MT!Next]_MT!vars
      OBVIOUS
    <2>1. CASE InitDone
      BY <2>1, InitDoneOpens DEF MT!Next
    <2>2. ASSUME NEW m \in Objects, Close(m) PROVE MT!Next
      BY <2>2, CloseCloses DEF MT!Next
    <2>3. CASE SoftResetPy
      <3>1. ModuleTable' = [m \in Objects |-> NULL] /\ UNCHANGED loaded
        BY <2>3 DEF ModuleTable, Open, SoftResetPy, SoftReset
      <3> QED
        BY <3>1 DEF MT!Next, MT!CloseAll, ModuleTable
    <2>4. CASE ~InitDone /\ ~SoftResetPy /\ \A m \in Objects : ~Close(m)
      BY <2>4, OthersKeepModules DEF MT!vars, ModuleTable
    <2> QED
      BY <2>1, <2>2, <2>3, <2>4
  <1> QED
    BY <1>1, <1>2, PyInvariance, PTL DEF PySpec, ModulesImplementHandleTable, MT!Spec

=============================================================================
