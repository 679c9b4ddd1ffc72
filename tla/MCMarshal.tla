----------------------------- MODULE MCMarshal -----------------------------
(***************************************************************************)
(* Marshal with small widths: i32 and f32 have 4 bits, i64, f64 and a slot *)
(* have 8; a float is the upper half of the double it is converted to.     *)
(***************************************************************************)
EXTENDS Marshal

\* The integers around each boundary of each width, signed and unsigned.
Boundaries == {k * b + d : k \in {-1, 0, 1}, b \in {8, 16, 128, 256}, d \in {-1, 0, 1}}

Doubles == {0, 1, 15, 16, 17, 127, 128, 240, 255}
UpperHalf == [v \in 0 .. 255 |-> v \div 16]
ZeroExtended == [w \in 0 .. 15 |-> w * 16]

=============================================================================
