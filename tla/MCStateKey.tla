----------------------------- MODULE MCStateKey -----------------------------
(* StateKey for TLC: servers and salts are interchangeable.                 *)
EXTENDS StateKey, TLC

Symmetry == Permutations(Servers) \cup Permutations(Salts)
=============================================================================
