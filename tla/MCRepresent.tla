----------------------------- MODULE MCRepresent -----------------------------
(* A root and two other objects, which are interchangeable: every way for two   *)
(* values to be shared, nested, wrapped and converted under a third.            *)
EXTENDS Represent, TLC

Interchangeable == Permutations(Objects \ {Root})
=============================================================================
