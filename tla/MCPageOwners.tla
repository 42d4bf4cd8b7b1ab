---------------------------- MODULE MCPageOwners ----------------------------
(* PageOwners.tla on small instances. *)
EXTENDS PageOwners, TLC

Symmetry == Permutations(Session) \cup Permutations(Table)

\* What follows a rollback that reclaims a scratch page is for another run.
StopAtOutlived == ~outlived
=============================================================================
