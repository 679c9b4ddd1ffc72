----------------------------- MODULE HandleTable -----------------------------
(***************************************************************************)
(* What the native part of micropython-wasm3 promises about its handles,   *)
(* with every pointer, allocation and error path left out: a fixed set of  *)
(* small integers, each naming at most one loaded wasm instance, an        *)
(* instance being named by at most one handle and by none again once it    *)
(* was closed or the table was reset.  Wasm3Slots implements it.           *)
(***************************************************************************)
EXTENDS Naturals

CONSTANTS Handles,    \* what load() can return
          Instances,  \* the wasm instances loaded over the life of the program
          Free        \* what a handle names that names nothing; no instance

VARIABLES table,   \* the instance each handle names
          opened   \* the instances that were ever loaded

vars == <<table, opened>>

Init == /\ table = [h \in Handles |-> Free]
        /\ opened = {}

\* load(): a free handle starts to name an instance never seen before.
Open(h, i) == /\ table[h] = Free
              /\ i \notin opened
              /\ table' = [table EXCEPT ![h] = i]
              /\ opened' = opened \cup {i}

\* unload(): the handle is free again, its instance is gone for good.
Close(h) == /\ table[h] # Free
            /\ table' = [table EXCEPT ![h] = Free]
            /\ UNCHANGED opened

\* A soft reset may free every handle at once.
CloseAll == /\ table' = [h \in Handles |-> Free]
            /\ UNCHANGED opened

Next == \/ CloseAll
        \/ \E h \in Handles : Close(h) \/ \E i \in Instances : Open(h, i)

Spec == Init /\ [][Next]_vars

-----------------------------------------------------------------------------

\* Two handles never name the same instance, and a handle names only an
\* instance that was loaded: closing one module cannot pull another one down.
OneOwner == /\ \A h \in Handles : table[h] # Free => table[h] \in opened
            /\ \A h, k \in Handles : table[h] = table[k] /\ table[h] # Free => h = k

=============================================================================
