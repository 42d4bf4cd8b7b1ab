------------------------------- MODULE MCPool -------------------------------
(* Pool.tla on small instances. *)
EXTENDS Pool, TLC

Symmetry == Permutations(Thread)
=============================================================================
