-------------------------- MODULE MCServerLifecycle --------------------------
(* ServerLifecycle for TLC: a request to any route beside one that can only *)
(* be answered at once.  Liveness is checked, so there is no symmetry.      *)
EXTENDS ServerLifecycle, TLC

CONSTANTS r1, r2

MCTargets == (r1 :> Routes) @@ (r2 :> {"page"})
=============================================================================
