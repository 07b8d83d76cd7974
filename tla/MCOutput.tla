------------------------------ MODULE MCOutput ------------------------------
(* Instances of OutputSession for TLC. *)
EXTENDS OutputSession

\* Less than a frame, one frame, one and a half, two, two and a half, three.
AllSizes == 1..6
=============================================================================
