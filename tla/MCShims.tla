------------------------------ MODULE MCShims ------------------------------
(***************************************************************************)
(* What wasm3 is linked with in a natmod, in one run: the rounding of      *)
(* math_shim.c, and the string loops and the allocator of libc_shim.c.     *)
(* They share no state.  A behaviour follows one of them, chosen at the    *)
(* start, and leaves the others where they are.                            *)
(***************************************************************************)
EXTENDS MathShim, LibcStrings, LibcAlloc

VARIABLE part

shimVars == <<part, x, stringsVars, allocVars>>

\* strlen(""), at its start.
NoCall == fn = "strlen" /\ l = <<0>> /\ r = <<>> /\ n = 0

ShimsInit ==
    /\ part \in {"math", "strings", "heap"}
    /\ (part # "math" => x = 0) /\ Init
    /\ (part # "strings" => NoCall) /\ StringsInit
    /\ AllocInit

ShimsNext ==
    /\ UNCHANGED part
    /\ \/ part = "math" /\ Next /\ UNCHANGED <<stringsVars, allocVars>>
       \/ part = "strings" /\ StringsNext /\ UNCHANGED <<x, allocVars>>
       \/ part = "heap" /\ AllocNext /\ UNCHANGED <<x, stringsVars>>

ShimsSpec == ShimsInit /\ [][ShimsNext]_shimVars

=============================================================================
