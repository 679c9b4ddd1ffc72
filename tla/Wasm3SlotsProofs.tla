-------------------------- MODULE Wasm3SlotsProofs --------------------------
(***************************************************************************)
(* The safety of the slot table for any number of slots, functions, loads, *)
(* imports and callables, in both builds, checked by TLAPS.                *)
(***************************************************************************)
EXTENDS Wasm3Slots, TLAPS

USE DEF NULL, Slots, FnSlots, Loads, NoSlot, Function, NoFunction, Remains

(* Type correctness.                                                        *)

\* What clearing the pointers of a slot leaves well typed.
LEMMA ClearPointersType ==
    ASSUME TypeOK, NEW s \in Slots, ClearPointers(s)
    PROVE  /\ runtime' \in [Slots -> Loads \cup {NULL}]
           /\ module' \in [Slots -> Loads \cup {NULL}]
           /\ blob' \in [Slots -> Loads \cup {NULL}]
  BY DEF TypeOK, ClearPointers

\* Freeing objects only shrinks the sets of live ones.
LEMMA FreeObjectsType ==
    ASSUME TypeOK, NEW s, NEW m, FreeObjects(s, m)
    PROVE  /\ runtimes' \in SUBSET Loads
           /\ modules' \in SUBSET Loads
           /\ blobs' \in SUBSET Loads
  BY DEF TypeOK, FreeObjects, FreedModules

\* Every step of the table keeps the type invariant.
LEMMA TypeOKStep == TypeOK /\ (pc # "idle" => idx \in Slots) /\ (pc = "parsed" => module[idx] \in Loads)
                        /\ (pc # "idle" => loads \in Loads) /\ [Next]_vars => TypeOK'
  <1> SUFFICES ASSUME TypeOK, pc # "idle" => idx \in Slots, pc = "parsed" => module[idx] \in Loads,
                      pc # "idle" => loads \in Loads, [Next]_vars
               PROVE  TypeOK'
    OBVIOUS
  <1> USE SizesAssumption, NamesAssumption
  <1>1. CASE LoadRefused
    BY <1>1 DEF LoadRefused, TypeOK, control, heap, python
  <1>2. ASSUME NEW s \in Slots, CopyBlob(s) PROVE TypeOK'
    <2>1. loads + 1 \in Loads
      BY <1>2 DEF CopyBlob, TypeOK
    <2>2. /\ blob' \in [Slots -> Loads \cup {NULL}]
          /\ blobs' \in SUBSET Loads
      BY <1>2, <2>1 DEF CopyBlob, TypeOK
    <2>3. loads' \in 0 .. MAX_LOADS /\ aborted' = aborted /\ idx' \in Slots
      BY <1>2, <2>1 DEF CopyBlob
    <2> QED
      BY <1>2, <2>2, <2>3 DEF CopyBlob, TypeOK, python
  <1>3. CASE NewRuntime
    BY <1>3 DEF NewRuntime, TypeOK, python
  <1>4. CASE NewRuntimeFails
    BY <1>4 DEF NewRuntimeFails, TypeOK, python
  <1>5. CASE ParseModule
    BY <1>5 DEF ParseModule, TypeOK, python
  <1>6. ASSUME NEW m, pc # "idle", LoadFailed(m) PROVE TypeOK'
    <2>1. FreeObjects(idx, m) /\ ClearPointers(idx) /\ idx \in Slots
      BY <1>6 DEF LoadFailed
    <2>2. /\ runtime' \in [Slots -> Loads \cup {NULL}]
          /\ module' \in [Slots -> Loads \cup {NULL}]
          /\ blob' \in [Slots -> Loads \cup {NULL}]
      BY <2>1, ClearPointersType
    <2>3. /\ runtimes' \in SUBSET Loads
          /\ modules' \in SUBSET Loads
          /\ blobs' \in SUBSET Loads
      BY <2>1, FreeObjectsType
    <2> QED
      BY <1>6, <2>2, <2>3 DEF LoadFailed, TypeOK, python
  <1>7. CASE ParseModuleFails \/ LoadModuleFails
    BY <1>6, <1>7 DEF ParseModuleFails, LoadModuleFails
  <1>8. CASE LoadModule
    <2>1. n_fns' \in [Slots -> 0 .. MAX_FNS] /\ in_use' \in [Slots -> BOOLEAN]
      BY <1>8 DEF LoadModule, TypeOK
    <2>2. loaded' \in SUBSET Loads
      BY <1>8 DEF LoadModule, TypeOK
    <2> QED
      BY <1>8, <2>1, <2>2 DEF LoadModule, TypeOK, python
  <1>9. CASE Abort
    BY <1>9 DEF Abort, TypeOK, bss, heap, python
  <1>10. ASSUME NEW s \in Slots, Unload(s) PROVE TypeOK'
    <2>1. FreeObjects(s, NULL) /\ ClearPointers(s)
      BY <1>10 DEF Unload
    <2>2. /\ runtime' \in [Slots -> Loads \cup {NULL}]
          /\ module' \in [Slots -> Loads \cup {NULL}]
          /\ blob' \in [Slots -> Loads \cup {NULL}]
      BY <2>1, ClearPointersType
    <2>3. /\ runtimes' \in SUBSET Loads
          /\ modules' \in SUBSET Loads
          /\ blobs' \in SUBSET Loads
      BY <2>1, FreeObjectsType
    <2>4. n_fns' \in [Slots -> 0 .. MAX_FNS] /\ in_use' \in [Slots -> BOOLEAN]
      BY <1>10 DEF Unload, TypeOK
    <2> QED
      BY <1>10, <2>2, <2>3, <2>4 DEF Unload, TypeOK, control, python
  <1>11. ASSUME NEW s \in Slots, NEW name \in Names, Find(s, name) PROVE TypeOK'
    <2>1. n_fns[s] \in FnSlots /\ n_fns[s] + 1 \in 0 .. MAX_FNS
      BY <1>11 DEF Find, FnsFull, TypeOK
    <2>2. PICK g \in loaded :
              fns' = [fns EXCEPT ![s] = [@ EXCEPT ![n_fns[s]] = [module |-> g, name |-> name]]]
      BY <1>11 DEF Find, NextFn
    <2>3. [module |-> g, name |-> name] \in Function
      BY <2>2 DEF TypeOK
    <2>4. fns' \in [Slots -> [FnSlots -> Function]]
      BY <2>1, <2>2, <2>3 DEF TypeOK
    <2> QED
      BY <1>11, <2>1, <2>4 DEF Find, TypeOK, control, heap, python
  <1>12. ASSUME NEW s \in Slots, NEW i \in Imports, NEW c \in Callables, Link(s, i, c) PROVE TypeOK'
    BY <1>12 DEF Link, HandleOK, TypeOK, bss, control, heap
  <1>13. ASSUME NEW c \in Callables, Drop(c) PROVE TypeOK'
    BY <1>13 DEF Drop, TypeOK, bss, control, heap
  <1>14. CASE Collect
    BY <1>14 DEF Collect, CollectKeeping, TypeOK, bss, control
  <1>15. CASE SoftReset
    <2>1. CASE NATMOD /\ TableAnew
      <3>1. n_fns' \in [Slots -> 0 .. MAX_FNS] /\ fns' \in [Slots -> [FnSlots -> Function]]
        BY <2>1 DEF TableAnew, EmptyTable, NoFunctions
      <3> QED
        BY <1>15, <2>1, <3>1 DEF SoftReset, TableAnew, EmptyTable, NoPointers, TypeOK, control
    <2>2. CASE ~NATMOD
      BY <1>15, <2>2 DEF SoftReset, TableKept, TypeOK, bss, control
    <2> QED
      BY <2>1, <2>2, <1>15 DEF SoftReset
  <1>16. ASSUME NEW c \in Callables, Define(c) PROVE TypeOK'
    BY <1>16 DEF Define, TypeOK, bss, control, heap
  <1>17. CASE UNCHANGED vars
    BY <1>17 DEF TypeOK, vars, bss, control, heap, python
  <1> QED
    BY <1>1, <1>2, <1>3, <1>4, <1>5, <1>7, <1>8, <1>9, <1>10, <1>11, <1>12, <1>13, <1>14, <1>15,
       <1>16, <1>17
    DEF Next, Load, LoadRaises, SlotOp

-----------------------------------------------------------------------------
(* The inductive invariant, one lemma per action.                           *)

\* The invariant holds when the program starts: every slot is empty.
LEMMA InitIInv == Init => IInv
  <1> SUFFICES ASSUME Init PROVE IInv
    OBVIOUS
  <1>1. TypeOK
    <2>1. fns \in [Slots -> [FnSlots -> Function]]
      BY DEF Init, NoFunctions
    <2>2. wired \in [Loads -> [Imports -> Callables \cup {NULL}]]
      BY DEF Init
    <2>3. /\ n_fns \in [Slots -> 0 .. MAX_FNS]
          /\ loads \in 0 .. MAX_LOADS
      BY SizesAssumption DEF Init
    <2> QED
      BY <2>1, <2>2, <2>3 DEF Init, NoPointers, TypeOK
  <1>2. NoDangling /\ Coherent
    BY DEF Init, NoPointers, NoDangling, Coherent, InUse
  <1>3. Fresh /\ Disjoint /\ Filling
    BY DEF Init, NoPointers, Fresh, Disjoint, Filling
  <1>4. Unlinked /\ NatmodAlive /\ Exact
    BY DEF Init, NoPointers, Unlinked, NatmodAlive, BlobAlive, CallableAlive, InUse, Exact
  <1> QED
    BY <1>1, <1>2, <1>3, <1>4 DEF IInv

\* Where a running load() is, and the fields of its slot.
LEMMA LoadFacts ==
    ASSUME IInv, pc # "idle"
    PROVE  /\ idx \in Slots /\ ~in_use[idx]
           /\ loads \in Loads /\ loads \notin loaded
           /\ blob[idx] = loads
           /\ pc \in {"runtime", "parsed"} => runtime[idx] = loads
           /\ pc = "parsed" => module[idx] = loads
  BY DEF IInv, TypeOK, Fresh, Filling

\* Where the invariant holds, every step keeps the types.
LEMMA IInvTypeOK == IInv /\ [Next]_vars => TypeOK'
  BY LoadFacts, TypeOKStep DEF IInv

\* A load() that is refused.
LEMMA LoadRefusedIInv == ASSUME IInv, TypeOK', LoadRefused PROVE IInv'
  <1> USE DEF LoadRefused, control, heap, python
  <1>1. NoDangling' /\ Coherent'
    BY DEF IInv, NoDangling, Coherent, InUse
  <1>2. Fresh' /\ Disjoint' /\ Filling'
    BY DEF IInv, Fresh, Disjoint, Filling
  <1>3. Unlinked' /\ NatmodAlive' /\ Exact'
    BY DEF IInv, Unlinked, NatmodAlive, BlobAlive, CallableAlive, InUse, Exact
  <1> QED
    BY <1>1, <1>2, <1>3 DEF IInv

\* The copy is allocated: its generation is newer than everything else.
LEMMA CopyBlobIInv ==
    ASSUME IInv, TypeOK', NEW s \in Slots, CopyBlob(s) PROVE IInv'
  <1> USE DEF CopyBlob, FirstFree, python
  <1>1. loads + 1 \in Loads /\ loads' = loads + 1
    BY DEF IInv, TypeOK
  <1>2. NoDangling' /\ Coherent'
    BY DEF IInv, TypeOK, NoDangling, Coherent, InUse
  <1>3. Fresh'
    <2>1. /\ \A g \in loaded' : g <= loads' /\ g \notin aborted'
          /\ \A g \in aborted' : g <= loads'
          /\ loads' \notin loaded' /\ loads' \notin aborted'
      BY <1>1 DEF IInv, TypeOK, Fresh
    <2>2. \A t \in Slots : runtime'[t] <= loads' /\ module'[t] <= loads' /\ blob'[t] <= loads'
      BY <1>1 DEF IInv, TypeOK, Fresh
    <2>3. \A t \in Slots \ {idx'} :
              runtime'[t] # loads' /\ module'[t] # loads' /\ blob'[t] # loads'
      BY <1>1 DEF IInv, TypeOK, Fresh
    <2> QED
      BY <2>1, <2>2, <2>3 DEF Fresh
  <1>4. Disjoint'
    BY <1>1 DEF IInv, TypeOK, Disjoint, Fresh
  <1>5. Filling'
    BY <1>1 DEF IInv, TypeOK, Filling
  <1>6. Unlinked' /\ NatmodAlive'
    BY DEF IInv, TypeOK, Unlinked, NatmodAlive, BlobAlive, CallableAlive, InUse
  <1>7. Exact'
    BY DEF IInv, TypeOK, Exact, Filling, BlobAlive
  <1> QED
    BY <1>2, <1>3, <1>4, <1>5, <1>6, <1>7 DEF IInv

\* The runtime is allocated, under the generation of the running load().
LEMMA NewRuntimeIInv == ASSUME IInv, TypeOK', NewRuntime PROVE IInv'
  <1> USE LoadFacts DEF NewRuntime, python
  <1>1. NoDangling' /\ Coherent'
    BY DEF IInv, TypeOK, NoDangling, Coherent, InUse
  <1>2. Fresh' /\ Disjoint' /\ Filling'
    BY DEF IInv, TypeOK, Fresh, Disjoint, Filling
  <1>3. Unlinked' /\ NatmodAlive'
    BY DEF IInv, TypeOK, Unlinked, NatmodAlive, BlobAlive, CallableAlive, InUse
  <1>4. Exact'
    BY DEF IInv, TypeOK, Exact
  <1> QED
    BY <1>1, <1>2, <1>3, <1>4 DEF IInv

\* No runtime: the copy goes, and the slot is as free as it was.
LEMMA NewRuntimeFailsIInv == ASSUME IInv, TypeOK', NewRuntimeFails PROVE IInv'
  <1> USE LoadFacts DEF NewRuntimeFails, python
  <1>1. NoDangling' /\ Coherent'
    BY DEF IInv, TypeOK, NoDangling, Coherent, InUse
  <1>2. Fresh' /\ Disjoint' /\ Filling'
    BY DEF IInv, TypeOK, Fresh, Disjoint, Filling
  <1>3. Unlinked' /\ NatmodAlive'
    BY DEF IInv, TypeOK, Fresh, Unlinked, NatmodAlive, BlobAlive, CallableAlive, InUse
  <1>4. Exact'
    BY DEF IInv, TypeOK, Exact
  <1> QED
    BY <1>1, <1>2, <1>3, <1>4 DEF IInv

\* The module is allocated, and not loaded into its runtime yet.
LEMMA ParseModuleIInv == ASSUME IInv, TypeOK', ParseModule PROVE IInv'
  <1> USE LoadFacts DEF ParseModule, python
  <1>1. NoDangling' /\ Coherent'
    BY DEF IInv, TypeOK, NoDangling, Coherent, InUse
  <1>2. Fresh' /\ Disjoint' /\ Filling'
    BY DEF IInv, TypeOK, Fresh, Disjoint, Filling
  <1>3. Unlinked' /\ NatmodAlive'
    BY DEF IInv, TypeOK, Unlinked, NatmodAlive, BlobAlive, CallableAlive, InUse
  <1>4. Exact'
    BY DEF IInv, TypeOK, Exact
  <1> QED
    BY <1>1, <1>2, <1>3, <1>4 DEF IInv

\* The failure exits of load(): what is freed is what this load() allocated,
\* and m, the module to free by itself, is the one in the slot or none.
LEMMA LoadFailedIInv ==
    ASSUME IInv, TypeOK', pc \in {"runtime", "parsed"}, NEW m, LoadFailed(m),
           IF pc = "parsed" THEN m = loads ELSE m = NULL
    PROVE  IInv'
  <1> USE LoadFacts DEF LoadFailed, FreeObjects, FreedModules, ClearPointers, python
  <1>1. NoDangling' /\ Coherent'
    BY DEF IInv, TypeOK, NoDangling, Coherent, InUse, Fresh
  <1>2. Fresh' /\ Disjoint' /\ Filling'
    BY DEF IInv, TypeOK, Fresh, Disjoint, Filling
  <1>3. Unlinked' /\ NatmodAlive'
    BY DEF IInv, TypeOK, Fresh, Unlinked, NatmodAlive, BlobAlive, CallableAlive, InUse
  <1>4. Exact'
    BY DEF IInv, TypeOK, Exact, Disjoint
  <1> QED
    BY <1>1, <1>2, <1>3, <1>4 DEF IInv

\* load() succeeds: the slot is in use, and coherent, with no function yet.
LEMMA LoadModuleIInv == ASSUME IInv, TypeOK', LoadModule PROVE IInv'
  <1> USE LoadFacts DEF LoadModule, python
  <1>1. NoDangling'
    BY DEF IInv, TypeOK, NoDangling
  <1>2. Coherent'
    BY DEF IInv, TypeOK, Coherent, InUse
  <1>3. Fresh' /\ Disjoint' /\ Filling'
    BY DEF IInv, TypeOK, Fresh, Disjoint, Filling
  <1>4. Unlinked' /\ NatmodAlive'
    BY DEF IInv, TypeOK, Unlinked, NatmodAlive, BlobAlive, CallableAlive, InUse
  <1>5. Exact'
    BY DEF IInv, TypeOK, Exact
  <1> QED
    BY <1>1, <1>2, <1>3, <1>4, <1>5 DEF IInv

\* abort() leaves a filled slot that is not in use: harmless, if not leak-free.
LEMMA AbortIInv == ASSUME IInv, TypeOK', Abort PROVE IInv'
  <1> USE LoadFacts DEF Abort, bss, heap, python
  <1>1. NoDangling' /\ Coherent'
    BY DEF IInv, NoDangling, Coherent, InUse
  <1>2. Fresh' /\ Disjoint' /\ Filling'
    BY DEF IInv, TypeOK, Fresh, Disjoint, Filling
  <1>3. Unlinked' /\ NatmodAlive'
    BY DEF IInv, Unlinked, NatmodAlive, BlobAlive, CallableAlive, InUse
  <1>4. Exact'
    <2>1. /\ runtime[idx] \in Remains' /\ module[idx] \in Remains' /\ blob[idx] \in Remains'
          /\ Remains \subseteq Remains'
      BY DEF IInv, TypeOK, Exact
    <2> QED
      BY <2>1 DEF IInv, Exact
  <1> QED
    BY <1>1, <1>2, <1>3, <1>4 DEF IInv

\* unload(): nothing another slot points to is freed with the slot.
LEMMA UnloadIInv == ASSUME IInv, TypeOK', NEW s \in Slots, Unload(s) PROVE IInv'
  <1> USE DEF Unload, HandleOK, FreeObjects, FreedModules, ClearPointers, control, python
  <1>1. runtime[s] \in Loads /\ module[s] = runtime[s] /\ blob[s] = runtime[s]
    BY DEF IInv, TypeOK, Coherent, InUse
  <1>2. \A t \in Slots : t # s =>
            runtime[t] # runtime[s] /\ module[t] # runtime[s] /\ blob[t] # runtime[s]
    BY <1>1 DEF IInv, Disjoint
  <1>3. NoDangling'
    <2>1. \A t \in Slots : t # s /\ in_use[t] => module[t] # runtime[s] /\ module[t] = runtime[t]
      BY <1>2 DEF IInv, Coherent, InUse
    <2> QED
      BY <1>1, <1>2, <2>1 DEF IInv, TypeOK, NoDangling, Coherent, InUse
  <1>4. Coherent'
    BY DEF IInv, TypeOK, Coherent, InUse
  <1>5. Fresh' /\ Disjoint' /\ Filling'
    BY DEF IInv, TypeOK, Fresh, Disjoint, Filling
  <1>6. Unlinked' /\ NatmodAlive'
    <2>1. \A t \in Slots : t # s => module'[t] = module[t] /\ blob'[t] = blob[t]
      BY DEF IInv, TypeOK
    <2>2. ~in_use'[s] /\ blob'[s] = NULL /\ \A t \in Slots : in_use'[t] => in_use[t]
      BY DEF IInv, TypeOK
    <2>3. CallableAlive => CallableAlive'
      BY <2>1, <2>2 DEF CallableAlive, InUse
    <2>4. BlobAlive => BlobAlive'
      BY <1>1, <1>2, <2>1, <2>2 DEF BlobAlive
    <2> QED
      BY <2>3, <2>4 DEF IInv, Unlinked, NatmodAlive
  <1>7. Exact'
    BY <1>1, <1>2 DEF IInv, TypeOK, Exact, Coherent, InUse
  <1> QED
    BY <1>3, <1>4, <1>5, <1>6, <1>7 DEF IInv

\* find(): the new entry of fns is code of the module of its own slot.
LEMMA FindIInv ==
    ASSUME IInv, TypeOK', NEW s \in Slots, NEW name \in Names, Find(s, name)
    PROVE  IInv'
  <1> USE DEF Find, HandleOK, FnsFull, NextFn, control, heap, python
  <1>1. n_fns[s] \in FnSlots
    BY DEF IInv, TypeOK
  <1>2. fns' = [fns EXCEPT ![s] = [@ EXCEPT ![n_fns[s]] =
                                     [module |-> runtime[s], name |-> name]]]
    OBVIOUS
  <1>3. \A t \in Slots, k \in FnSlots :
            fns'[t][k] = IF t = s /\ k = n_fns[s] THEN [module |-> runtime[s], name |-> name]
                         ELSE fns[t][k]
    BY <1>1, <1>2 DEF IInv, TypeOK
  <1>4. \A t \in Slots, k \in FnSlots :
            k < n_fns'[t] => k < n_fns[t] \/ (t = s /\ k = n_fns[s])
    BY DEF IInv, TypeOK
  <1>5. Coherent'
    BY <1>3, <1>4 DEF IInv, TypeOK, Coherent, InUse
  <1>6. NoDangling'
    BY <1>3, <1>4 DEF IInv, TypeOK, NoDangling, Coherent, InUse
  <1>7. Fresh' /\ Disjoint' /\ Filling'
    BY DEF IInv, Fresh, Disjoint, Filling
  <1>8. Unlinked' /\ NatmodAlive' /\ Exact'
    BY DEF IInv, Unlinked, NatmodAlive, BlobAlive, CallableAlive, InUse, Exact
  <1> QED
    BY <1>5, <1>6, <1>7, <1>8 DEF IInv

\* link(): the callable is one the program holds, so it is alive.
LEMMA LinkIInv ==
    ASSUME IInv, TypeOK', NEW s \in Slots, NEW i \in Imports, NEW c \in Callables,
           Link(s, i, c)
    PROVE  IInv'
  <1> USE DEF Link, HandleOK, bss, control, heap
  <1>1. module[s] \in loaded
    BY DEF IInv, Coherent, InUse
  <1>2. \A g \in Loads, j \in Imports :
            wired'[g][j] = IF g = module[s] /\ j = i THEN c ELSE wired[g][j]
    BY DEF IInv, TypeOK
  <1>3. NoDangling' /\ Coherent'
    BY DEF IInv, NoDangling, Coherent, InUse
  <1>4. Fresh' /\ Disjoint' /\ Filling'
    BY DEF IInv, Fresh, Disjoint, Filling
  <1>5. Unlinked'
    BY <1>1, <1>2 DEF IInv, TypeOK, Unlinked
  <1>6. CallableAlive' \/ ~NATMOD
    BY <1>2 DEF IInv, TypeOK, Coherent, NatmodAlive, CallableAlive, InUse
  <1>7. NatmodAlive' /\ Exact'
    BY <1>6 DEF IInv, NatmodAlive, BlobAlive, Exact
  <1> QED
    BY <1>3, <1>4, <1>5, <1>7 DEF IInv

\* Dropping a reference frees nothing by itself.
LEMMA DropIInv == ASSUME IInv, TypeOK', NEW c \in Callables, Drop(c) PROVE IInv'
  <1> USE DEF Drop, bss, control, heap
  <1>1. NoDangling' /\ Coherent'
    BY DEF IInv, NoDangling, Coherent, InUse
  <1>2. Fresh' /\ Disjoint' /\ Filling'
    BY DEF IInv, Fresh, Disjoint, Filling
  <1>3. Unlinked' /\ NatmodAlive' /\ Exact'
    BY DEF IInv, Unlinked, NatmodAlive, BlobAlive, CallableAlive, InUse, Exact
  <1> QED
    BY <1>1, <1>2, <1>3 DEF IInv

\* A collection: it keeps what the table points to, and the callables linked
\* into the modules of the table.
LEMMA CollectIInv == ASSUME IInv, TypeOK', NEW stack, CollectKeeping(stack) PROVE IInv'
  <1> USE DEF CollectKeeping, Scanned, ScannedModules, ScannedCallables, bss, control
  <1>1. NoDangling'
    BY DEF IInv, TypeOK, NoDangling, Coherent, InUse
  <1>2. Coherent' /\ Fresh' /\ Disjoint' /\ Filling' /\ Unlinked'
    BY DEF IInv, Coherent, InUse, Fresh, Disjoint, Filling, Unlinked
  <1>3. NatmodAlive'
    <2> SUFFICES ASSUME NATMOD PROVE BlobAlive' /\ CallableAlive' /\ (held \subseteq callables)'
      BY DEF NatmodAlive
    <2>1. BlobAlive' /\ (held \subseteq callables)'
      BY DEF IInv, NatmodAlive, BlobAlive
    <2>2. ASSUME NEW s \in InUse, NEW i \in Imports
          PROVE  wired[module[s]][i] \in ScannedCallables
      BY <2>2 DEF IInv, TypeOK, Coherent, InUse
    <2>3. CallableAlive'
      BY <2>2 DEF IInv, NatmodAlive, CallableAlive, InUse
    <2> QED
      BY <2>1, <2>3
  <1>4. Exact'
    BY DEF IInv, Exact
  <1> QED
    BY <1>1, <1>2, <1>3, <1>4 DEF IInv

\* A new callable is alive, and nothing refers to it yet.
LEMMA DefineIInv == ASSUME IInv, TypeOK', NEW c \in Callables, Define(c) PROVE IInv'
  <1> USE DEF Define, bss, control, heap
  <1>1. NoDangling' /\ Coherent'
    BY DEF IInv, NoDangling, Coherent, InUse
  <1>2. Fresh' /\ Disjoint' /\ Filling'
    BY DEF IInv, Fresh, Disjoint, Filling
  <1>3. Unlinked' /\ NatmodAlive' /\ Exact'
    BY DEF IInv, Unlinked, NatmodAlive, BlobAlive, CallableAlive, InUse, Exact
  <1> QED
    BY <1>1, <1>2, <1>3 DEF IInv

\* A soft reset: a natmod finds an empty table and an empty heap, a usermod the
\* table it had and, on the C heap, all it points to but the copies.
LEMMA SoftResetIInv == ASSUME IInv, TypeOK', SoftReset PROVE IInv'
  <1> USE DEF SoftReset, TableKept, control
  <1>1. CASE NATMOD /\ TableAnew
    <2> USE <1>1 DEF TableAnew, EmptyTable, NoPointers
    <2>1. NoDangling' /\ Coherent' /\ Disjoint'
      BY DEF NoDangling, Coherent, Disjoint, InUse
    <2>2. Fresh' /\ Filling'
      BY DEF IInv, TypeOK, Fresh, Filling
    <2>3. Unlinked' /\ NatmodAlive' /\ Exact'
      BY DEF IInv, Unlinked, NatmodAlive, BlobAlive, CallableAlive, InUse, Exact
    <2> QED
      BY <2>1, <2>2, <2>3 DEF IInv
  <1>2. CASE ~NATMOD
    <2> USE <1>2 DEF bss
    <2>1. NoDangling' /\ Coherent'
      BY DEF IInv, NoDangling, Coherent, InUse
    <2>2. Fresh' /\ Disjoint' /\ Filling'
      BY DEF IInv, Fresh, Disjoint, Filling
    <2>3. Unlinked' /\ NatmodAlive' /\ Exact'
      BY DEF IInv, Unlinked, NatmodAlive, Exact
    <2> QED
      BY <2>1, <2>2, <2>3 DEF IInv
  <1> QED
    BY <1>1, <1>2

-----------------------------------------------------------------------------
(* The theorems.                                                            *)

\* The invariant is inductive: every step, and stuttering, keeps it.
LEMMA NextIInv == IInv /\ [Next]_vars => IInv'
  <1> SUFFICES ASSUME IInv, [Next]_vars PROVE IInv'
    OBVIOUS
  <1>1. TypeOK'
    BY IInvTypeOK
  <1>2. CASE LoadRefused
    BY <1>1, <1>2, LoadRefusedIInv
  <1>3. ASSUME NEW s \in Slots, CopyBlob(s) PROVE IInv'
    BY <1>1, <1>3, CopyBlobIInv
  <1>4. CASE NewRuntime \/ NewRuntimeFails
    BY <1>1, <1>4, NewRuntimeIInv, NewRuntimeFailsIInv
  <1>5. CASE ParseModule
    BY <1>1, <1>5, ParseModuleIInv
  <1>6. CASE ParseModuleFails
    BY <1>1, <1>6, LoadFailedIInv DEF ParseModuleFails
  <1>7. CASE LoadModuleFails
    <2>1. module[idx] = loads
      BY <1>7, LoadFacts DEF LoadModuleFails
    <2> QED
      BY <1>1, <1>7, <2>1, LoadFailedIInv DEF LoadModuleFails
  <1>8. CASE LoadModule \/ Abort
    BY <1>1, <1>8, LoadModuleIInv, AbortIInv
  <1>9. ASSUME NEW s \in Slots, SlotOp(s) PROVE IInv'
    BY <1>1, <1>9, UnloadIInv, FindIInv, LinkIInv DEF SlotOp
  <1>10. CASE (\E c \in Callables : Define(c) \/ Drop(c)) \/ Collect \/ SoftReset
    BY <1>1, <1>10, DefineIInv, DropIInv, CollectIInv, SoftResetIInv DEF Collect
  <1>11. CASE UNCHANGED vars
    <2> USE <1>11 DEF vars, bss, control, heap, python
    <2>1. NoDangling' /\ Coherent'
      BY DEF IInv, NoDangling, Coherent, InUse
    <2>2. Fresh' /\ Disjoint' /\ Filling'
      BY DEF IInv, Fresh, Disjoint, Filling
    <2>3. Unlinked' /\ NatmodAlive' /\ Exact'
      BY DEF IInv, Unlinked, NatmodAlive, BlobAlive, CallableAlive, InUse, Exact
    <2> QED
      BY <1>1, <2>1, <2>2, <2>3 DEF IInv
  <1> QED
    BY <1>2, <1>3, <1>4, <1>5, <1>6, <1>7, <1>8, <1>9, <1>10, <1>11 DEF Next, Load, LoadRaises

\* The inductive invariant holds of every reachable state of the table.
THEOREM Invariance == Spec => []IInv
  BY InitIInv, NextIInv, PTL DEF Spec

\* Every variable keeps its type, whatever the sizes of the tables.
THEOREM TypeCorrect == Spec => []TypeOK
  BY Invariance, PTL DEF IInv

\* No pointer in the slot table ever dangles, in the middle of load() or after
\* a failed or aborted one, and no function index of a loaded handle does.
THEOREM NoDanglingAlways == Spec => []NoDangling
  BY Invariance, PTL DEF IInv

\* A handle in use always resolves to objects of one and the same load().
THEOREM CoherentAlways == Spec => []Coherent
  BY Invariance, PTL DEF IInv

\* Whatever is allocated while no load() runs belongs to a loaded handle, or is
\* what an abort() left behind: every failure exit gives back all that was taken.
THEOREM NothingLeaksAlways == Spec => []NothingLeaks
  <1>1. ASSUME IInv PROVE NothingLeaks
    <2> SUFFICES ASSUME pc = "idle" PROVE NothingLeaks
      BY DEF NothingLeaks
    <2> USE <1>1
    <2>1. \A s \in Slots : ~in_use[s] =>
              runtime[s] \in Remains /\ module[s] \in Remains /\ blob[s] \in Remains
      BY DEF IInv, Filling, Exact
    <2>2. \A s \in InUse : /\ runtime[s] \in Loads \ aborted
                          /\ module[s] = runtime[s] /\ blob[s] = runtime[s]
      BY DEF IInv, TypeOK, Coherent, InUse, Fresh
    <2>3. runtimes \ aborted = {runtime[s] : s \in InUse}
      <3>1. \A g \in runtimes \ aborted : \E s \in InUse : runtime[s] = g
        BY <2>1 DEF IInv, TypeOK, Exact, InUse
      <3>2. \A s \in InUse : runtime[s] \in runtimes \ aborted
        BY <2>2 DEF IInv, NoDangling, InUse
      <3> QED
        BY <3>1, <3>2
    <2>4. modules \ aborted = {module[s] : s \in InUse}
      <3>1. \A g \in modules \ aborted : \E s \in InUse : module[s] = g
        BY <2>1 DEF IInv, TypeOK, Exact, InUse
      <3>2. \A s \in InUse : module[s] \in modules \ aborted
        BY <2>2 DEF IInv, NoDangling, InUse
      <3> QED
        BY <3>1, <3>2
    <2>5. blobs \ aborted \subseteq {blob[s] : s \in InUse}
      BY <2>1, <2>2 DEF IInv, TypeOK, Exact, InUse
    <2> QED
      BY <2>1, <2>3, <2>4, <2>5 DEF NothingLeaks, InUse
  <1> QED
    BY <1>1, Invariance, PTL

\* In a natmod the copy of the bytes lives as long as a slot points to it.
THEOREM BlobAliveAlways == ASSUME NATMOD PROVE Spec => []BlobAlive
  <1>1. IInv => BlobAlive
    BY NATMOD DEF IInv, NatmodAlive
  <1> QED
    BY <1>1, Invariance, PTL

\* In a natmod a linked callable lives as long as the module it is linked to,
\* whatever references the program dropped.
THEOREM CallableAliveAlways == ASSUME NATMOD PROVE Spec => []CallableAlive
  <1>1. IInv => CallableAlive
    BY NATMOD DEF IInv, NatmodAlive
  <1> QED
    BY <1>1, Invariance, PTL

\* No step of the table moves or overwrites a function that find() handed out.
LEMMA IndexStableStep == IInv /\ [Next]_vars => IndexStable
  <1> SUFFICES ASSUME IInv, [Next]_vars,
                      NEW s \in Slots, NEW k \in FnSlots,
                      in_use[s], in_use'[s], runtime'[s] = runtime[s], k < n_fns[s]
               PROVE  k < n_fns'[s] /\ fns'[s][k] = fns[s][k]
    BY DEF IndexStable
  <1>1. CASE Load
    <2>1. CASE LoadModule
      <3>1. idx # s /\ idx \in Slots
        BY <2>1, LoadFacts DEF LoadModule
      <3> QED
        BY <2>1, <3>1 DEF LoadModule, IInv, TypeOK
    <2>2. CASE ~LoadModule
      <3>1. UNCHANGED <<fns, n_fns>>
        BY <1>1, <2>2 DEF Load, LoadRaises, LoadRefused, CopyBlob, NewRuntime, NewRuntimeFails, ParseModule,
           ParseModuleFails, LoadModuleFails, LoadFailed, Abort, bss
      <3> QED
        BY <3>1
    <2> QED
      BY <2>1, <2>2
  <1>2. ASSUME NEW t \in Slots, Unload(t) PROVE k < n_fns'[s] /\ fns'[s][k] = fns[s][k]
    <2>1. n_fns' = [n_fns EXCEPT ![t] = 0] /\ in_use' = [in_use EXCEPT ![t] = FALSE] /\ fns' = fns
      BY <1>2 DEF Unload
    <2>2. t # s
      BY <2>1 DEF IInv, TypeOK
    <2> QED
      BY <2>1, <2>2 DEF IInv, TypeOK
  <1>3. ASSUME NEW t \in Slots, NEW name \in Names, Find(t, name)
        PROVE  k < n_fns'[s] /\ fns'[s][k] = fns[s][k]
    <2>1. PICK f : fns' = [fns EXCEPT ![t] = [@ EXCEPT ![n_fns[t]] = f]]
      BY <1>3 DEF Find, NextFn
    <2>2. n_fns' = [n_fns EXCEPT ![t] = n_fns[t] + 1]
      BY <1>3 DEF Find
    <2>3. k < n_fns'[s]
      BY <2>2 DEF IInv, TypeOK
    <2>4. fns'[s][k] = fns[s][k]
      BY <2>1 DEF IInv, TypeOK
    <2> QED
      BY <2>3, <2>4
  <1>4. CASE \/ \E t \in Slots, i \in Imports, c \in Callables : Link(t, i, c)
             \/ \E c \in Callables : Define(c) \/ Drop(c)
             \/ Collect
             \/ UNCHANGED vars
    BY <1>4 DEF Link, Define, Drop, Collect, CollectKeeping, vars, bss
  <1>5. CASE SoftReset
    BY <1>5 DEF SoftReset, TableAnew, EmptyTable, TableKept, bss
  <1> QED
    BY <1>1, <1>2, <1>3, <1>4, <1>5 DEF Next, SlotOp

\* An index that find() returned names the same function until the handle is
\* unloaded: neither a later find() nor a load() into another slot moves it.
THEOREM IndicesStableAlways == Spec => IndicesStable
  <1>1. IInv /\ [Next]_vars => [IndexStable]_vars
    BY IndexStableStep
  <1> QED
    BY <1>1, Invariance, PTL DEF Spec, IndicesStable

-----------------------------------------------------------------------------
(* The refinement: only a successful load() and unload() are visible.       *)

Table == [s \in Slots |-> IF in_use[s] THEN runtime[s] ELSE NULL]

\* A load() that succeeds opens its handle with a generation never seen before.
LEMMA LoadModuleOpens ==
    ASSUME IInv, LoadModule, NEW s \in Slots, NEW g \in Loads, idx = s, loads = g
    PROVE  HT!Open(s, g)
  <1>1. ~in_use[s] /\ runtime[s] = g /\ module[s] = g /\ g \notin loaded
    BY LoadFacts DEF LoadModule
  <1>2. Table' = [Table EXCEPT ![s] = g]
    BY <1>1 DEF Table, LoadModule, IInv, TypeOK
  <1>3. Table[s] = NULL
    BY <1>1 DEF Table
  <1>4. loaded' = loaded \cup {g}
    BY <1>1 DEF LoadModule
  <1> QED
    BY <1>1, <1>2, <1>3, <1>4 DEF HT!Open, Table

\* unload() closes the handle in the abstract table.
LEMMA UnloadCloses == ASSUME IInv, NEW s \in Slots, Unload(s) PROVE HT!Close(s)
  <1>1. in_use[s] /\ runtime[s] # NULL
    BY DEF Unload, HandleOK, IInv, TypeOK, Coherent, InUse
  <1>2. Table' = [Table EXCEPT ![s] = NULL]
    BY DEF Table, Unload, ClearPointers, IInv, TypeOK
  <1>3. Table[s] # NULL /\ UNCHANGED loaded
    BY <1>1 DEF Table, Unload
  <1> QED
    BY <1>1, <1>2, <1>3 DEF HT!Close, Table

\* A soft reset closes every handle of a natmod and none of a usermod.
LEMMA SoftResetCloses ==
    ASSUME IInv, SoftReset
    PROVE  HT!CloseAll \/ UNCHANGED <<Table, loaded>>
  <1>1. CASE NATMOD /\ TableAnew
    <2>1. Table' = [s \in Slots |-> NULL] /\ UNCHANGED loaded
      BY <1>1 DEF Table, SoftReset, TableAnew, EmptyTable
    <2> QED
      BY <2>1 DEF HT!CloseAll, Table
  <1>2. CASE ~NATMOD
    BY <1>2 DEF Table, SoftReset, TableKept, bss
  <1> QED
    BY <1>1, <1>2 DEF SoftReset

\* Every other step leaves the handles alone: the slot a load() is filling is
\* not in use, and nothing else writes a runtime pointer or loads a module.
LEMMA OthersStutter ==
    ASSUME IInv, [Next]_vars, ~LoadModule, ~SoftReset, \A s \in Slots : ~Unload(s)
    PROVE  UNCHANGED <<Table, loaded>>
  <1> USE DEF Table
  <1>1. ASSUME NEW m, pc # "idle", LoadFailed(m) PROVE UNCHANGED <<Table, loaded>>
    BY <1>1, LoadFacts DEF LoadFailed, ClearPointers, IInv, TypeOK
  <1>2. CASE ParseModuleFails \/ LoadModuleFails
    BY <1>1, <1>2 DEF ParseModuleFails, LoadModuleFails
  <1>3. CASE NewRuntime \/ NewRuntimeFails
    BY <1>3, LoadFacts DEF NewRuntime, NewRuntimeFails, IInv, TypeOK
  <1>4. CASE \/ LoadRefused \/ ParseModule \/ Abort \/ Collect \/ UNCHANGED vars
             \/ \E s \in Slots : CopyBlob(s)
             \/ \E c \in Callables : Define(c) \/ Drop(c)
             \/ \E s \in Slots, name \in Names : Find(s, name)
             \/ \E s \in Slots, i \in Imports, c \in Callables : Link(s, i, c)
    <2>1. UNCHANGED <<runtime, in_use, loaded>>
      BY <1>4 DEF LoadRefused, ParseModule, Abort, Collect, CollectKeeping, CopyBlob, Define, Drop, Find, Link,
         vars, bss, heap
    <2> QED
      BY <2>1
  <1> QED
    BY <1>2, <1>3, <1>4 DEF Next, Load, LoadRaises, SlotOp

\* The table starts empty.
LEMMA InitRefines == Init => HT!Init
  <1> SUFFICES ASSUME Init PROVE HT!Init
    OBVIOUS
  <1>1. Table = [s \in Slots |-> NULL] /\ loaded = {}
    BY DEF Init, Table
  <1> QED
    BY <1>1 DEF HT!Init, Table

\* Every step is one of the abstract table, or not visible in it.
LEMMA StepRefines == IInv /\ [Next]_vars => [HT!Next]_HT!vars
  <1> SUFFICES ASSUME IInv, [Next]_vars PROVE [HT!Next]_HT!vars
    OBVIOUS
  <1>1. CASE LoadModule
    <2>1. PICK s \in Slots, g \in Loads : idx = s /\ loads = g
      BY <1>1, LoadFacts DEF LoadModule
    <2>2. HT!Open(s, g)
      BY <1>1, <2>1, LoadModuleOpens
    <2> QED
      BY <2>2 DEF HT!Next
  <1>2. ASSUME NEW s \in Slots, Unload(s) PROVE HT!Next
    BY <1>2, UnloadCloses DEF HT!Next
  <1>3. CASE SoftReset
    BY <1>3, SoftResetCloses DEF HT!Next, HT!vars, Table
  <1>4. CASE ~LoadModule /\ ~SoftReset /\ \A s \in Slots : ~Unload(s)
    BY <1>4, OthersStutter DEF HT!vars, Table
  <1> QED
    BY <1>1, <1>2, <1>3, <1>4

\* The slot table implements the abstract table of handles: a handle names one
\* instance, no two handles the same, and no instance is ever opened twice.
THEOREM Refinement == Spec => ImplementsHandleTable
  BY InitRefines, StepRefines, Invariance, PTL DEF Spec, ImplementsHandleTable, HT!Spec

\* No two handles of a table own the same instance, and what they own was loaded.
Owned(table, opened) ==
    /\ \A h \in Slots : table[h] # NULL => table[h] \in opened
    /\ \A h, k \in Slots : table[h] = table[k] /\ table[h] # NULL => h = k

\* A new owner of a new instance, and one owner less, leave it so.
LEMMA OwnedKept ==
    ASSUME NEW table, NEW opened, Owned(table, opened), table = [h \in Slots |-> table[h]]
    PROVE  /\ \A h \in Slots, i \in Loads \ opened :
                  Owned([table EXCEPT ![h] = i], opened \cup {i})
           /\ \A h \in Slots : Owned([table EXCEPT ![h] = NULL], opened)
           /\ Owned([h \in Slots |-> NULL], opened)
  BY DEF Owned

\* The abstract table keeps its promise, whoever implements it.
LEMMA HandlesOneOwner == HT!Spec => []HT!OneOwner
  <1>1. HT!OneOwner <=> Owned(Table, loaded)
    BY DEF HT!OneOwner, Owned, Table
  <1>2. HT!Init => Owned(Table, loaded)
    <2>1. HT!Init => Table = [h \in Slots |-> NULL] /\ loaded = {}
      BY DEF HT!Init, Table
    <2> QED
      BY <2>1 DEF Owned
  <1>3. Owned(Table, loaded) /\ [HT!Next]_HT!vars => Owned(Table, loaded)'
    <2> SUFFICES ASSUME Owned(Table, loaded), [HT!Next]_HT!vars PROVE Owned(Table', loaded')
      BY DEF Owned
    <2>1. Table = [h \in Slots |-> Table[h]]
      BY DEF Table
    <2>2. ASSUME NEW h \in Slots, NEW i \in Loads, HT!Open(h, i) PROVE Owned(Table', loaded')
      <3>1. /\ i \notin loaded /\ loaded' = loaded \cup {i}
            /\ Table' = [Table EXCEPT ![h] = i]
        BY <2>2 DEF HT!Open, Table
      <3> QED
        BY <2>1, <3>1, OwnedKept
    <2>3. ASSUME NEW h \in Slots, HT!Close(h) PROVE Owned(Table', loaded')
      <3>1. Table' = [Table EXCEPT ![h] = NULL] /\ loaded' = loaded
        BY <2>3 DEF HT!Close, Table
      <3> QED
        BY <2>1, <3>1, OwnedKept
    <2>4. CASE HT!CloseAll
      <3>1. Table' = [h \in Slots |-> NULL] /\ loaded' = loaded
        BY <2>4 DEF HT!CloseAll, Table
      <3> QED
        BY <2>1, <3>1, OwnedKept
    <2>5. CASE UNCHANGED HT!vars
      <3>1. Table' = Table /\ loaded' = loaded
        BY <2>5 DEF HT!vars, Table
      <3> QED
        BY <3>1
    <2> QED
      BY <2>2, <2>3, <2>4, <2>5 DEF HT!Next
  <1> QED
    BY <1>1, <1>2, <1>3, PTL DEF HT!Spec

\* Two handles never name the same instance, and a handle names only what was
\* loaded: unload() of one handle cannot pull another module down.
THEOREM OneOwnerAlways == Spec => []HT!OneOwner
  BY Refinement, HandlesOneOwner, PTL DEF ImplementsHandleTable

=============================================================================
