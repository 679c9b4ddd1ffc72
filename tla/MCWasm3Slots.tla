---------------------------- MODULE MCWasm3Slots ----------------------------
(***************************************************************************)
(* Wasm3Slots on an instance small enough for TLC.                         *)
(***************************************************************************)
EXTENDS Wasm3Slots, TLC

\* Names and callables are interchangeable; slots and generations are ordered.
\* Symmetry is used by the runs that check invariants only.
Symmetry == Permutations(Names) \cup Permutations(Callables)

=============================================================================
