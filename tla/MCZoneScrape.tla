---------------------------- MODULE MCZoneScrape ----------------------------
(* ZoneScrape for TLC: four names, of which two are labels, and chains of   *)
(* CNAMEs between them that are longer than MaxDepth or end in a loop.      *)
EXTENDS ZoneScrape, TLC

CONSTANTS n1, n2, n3, n4

MCLabels == <<n1, n2, n1>>

Holds(type) == [type |-> type, data |-> "data", ports |-> {1}, ttl |-> 300]
Services == [Holds("SRV") EXCEPT !.ports = {1, 2}]
NotOffered == [Holds("SRV") EXCEPT !.data = ""]
Escaped == [Holds("TXT") EXCEPT !.data = "escaped"]
Uncached == [Holds("TXT") EXCEPT !.ttl = 0]

MCZones ==
    {n1 :> a @@ n2 :> b @@ n3 :> c @@ n4 :> d :
        a \in {Alias(n) : n \in {n1, n3, n4}} \cup {Holds(t) : t \in {"TXT", "NS", "DS"}},
        b \in {Alias(n1), Alias(n3), Services},
        c \in {Alias(n1), Alias(n4), Alias(Outside), Escaped, NotOffered},
        d \in {Services, Holds("NS"), Uncached}}
=============================================================================
