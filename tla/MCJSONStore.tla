----------------------------- MODULE MCJSONStore -----------------------------
(* JSONStore for TLC: callers and row contents are interchangeable.         *)
EXTENDS JSONStore, TLC

Symmetry == Permutations(Procs) \cup Permutations(Data) \cup Permutations(Inodes)
=============================================================================
