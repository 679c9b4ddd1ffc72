---------------------------- MODULE MCWasm3Calls ----------------------------
(***************************************************************************)
(* Wasm3Calls on an instance small enough for TLC.                         *)
(***************************************************************************)
EXTENDS Wasm3Calls, TLC

\* Callables are interchangeable.
Symmetry == Permutations(Callables)

=============================================================================
