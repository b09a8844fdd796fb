--------------------------- MODULE MCApplyRequests ---------------------------
(* ApplyRequests for TLC: every type and mode, over two texts, one SPF     *)
(* include, two spellings and three priorities.  The zones have every start *)
(* of up to two records at the apex and nothing else, or three such starts  *)
(* and records at the other names.                                         *)
EXTENDS ApplyRequests

CONSTANTS t1, t2, i1, s1, s2

Rec(type, v, mode, fq) == [type |-> type, val |-> v, mode |-> mode, fq |-> fq]

MCRecords ==
    {Rec("TXT", v, "None", fq) : v \in {Text(t1), SPF({i1})}, fq \in BOOLEAN}
    \cup {Rec("TXT", Text(t1), m, TRUE) : m \in Modes \ {"None"}}
    \cup {Rec("TXT", SPF({i1}), "PrefixSPF", TRUE), Rec("TXT", Text(t1), "All", FALSE)}
    \cup {Rec("SPFM", SPF(incs), "None", TRUE) : incs \in {{}, {i1}}}
    \cup {Rec("CNAME", Alias(t1, s1), "None", TRUE)}
    \cup {Rec("MX", Mail(t1, p), "None", TRUE) : p \in {0, 20}}
    \cup {Rec(type, Text(t1), "None", TRUE) : type \in {"A", "unknown", "invalid"}}

\* apex, alias, mail and addr have these records.
Zone(apex, alias, mail, addr) ==
    [k \in Keys |-> CASE k = "apex" -> apex [] k = "alias" -> alias
                      [] k = "mail" -> mail [] k = "addr" -> addr]

MCZones ==
    {Zone(a, <<>>, <<>>, <<>>) : a \in StartSeqs(ValsOf("TXT"), 2)}
    \cup UNION {
        {Zone(a, <<Alias(t1, s1)>>, <<Mail(t1, 0)>>, <<Text(t1)>>),
         Zone(a, <<Alias(t1, s2)>>, <<Mail(t1, DefaultPref)>>, <<Text(t2)>>),
         Zone(a, <<Alias(t2, s1)>>, <<Mail(t2, 0)>>, <<Text(t2), Text(t1)>>)} :
            a \in {<<>>, <<SPF({})>>, <<Text(t2), Text(t1)>>}}
=============================================================================
