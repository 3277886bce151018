------------------------------ MODULE MCEngine ------------------------------
(* Engine with tokens that are interchangeable: no action tells them apart. *)
EXTENDS Engine, TLC

Symmetry == Permutations(Mints)
=============================================================================
