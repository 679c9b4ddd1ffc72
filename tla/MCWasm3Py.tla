------------------------------ MODULE MCWasm3Py ------------------------------
(***************************************************************************)
(* Wasm3Py on an instance small enough for TLC.                            *)
(***************************************************************************)
EXTENDS Wasm3Py, TLC

\* Names and Module objects are interchangeable.
Symmetry == Permutations(Names) \cup Permutations(Objects)

=============================================================================
