---------------------------- MODULE MCPushService ----------------------------
(* PushService for TLC: one push sets any record or asks for an include,    *)
(* the other asks for another include.  Spellings are interchangeable.      *)
EXTENDS PushService, TLC

CONSTANTS r1, r2, i1, i2

MCAsks ==
    (r1 :> (SetOps \cup {o \in SPFOps : o.incs = {i1}})) @@
    (r2 :> {o \in SPFOps : o.incs = {i2}})

Symmetry == Permutations(Spellings)
=============================================================================
