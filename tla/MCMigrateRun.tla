---------------------------- MODULE MCMigrateRun ----------------------------
(* MigrateRun for TLC: zones with one value at a name, with several, with a *)
(* value repeated and with mail exchangers.  The records are numbered:      *)
(* there is no symmetry.                                                    *)
EXTENDS MigrateRun

CONSTANTS a, b, v1, v2, lc

At(k, v) == [name |-> k, val |-> Text(v)]
MailAt(v, p) == [name |-> b, val |-> Mail(v, p)]
MCSources ==
    {<<>>, <<At(a, v1)>>, <<At(a, v1), At(a, v2)>>, <<At(a, v1), At(a, v1)>>, <<At(a, v2), MailAt(v2, 10)>>,
     <<At(a, v1), At(a, v2), MailAt(v1, 10)>>}
MCStarts == {[k \in Names |-> IF k = a THEN <<Text(v1)>> ELSE <<Mail(v1, 10)>>]}
=============================================================================
