-------------------------- MODULE MCMigrationServer --------------------------
(* MigrationServer for TLC: requests in flight are interchangeable.         *)
EXTENDS MigrationServer, TLC

Symmetry == Permutations(Reqs)
=============================================================================
