------------------------------ MODULE MCSPFWalk ------------------------------
(* Four domains, one of them SES: chains deeper than the cap, loops, domains *)
(* met first too deep and then again, domains with two records.              *)
EXTENDS SPFWalk

CONSTANTS d1, d2, d3, ses

MCDomains == {d1, d2, d3, ses}
MCPrefixes == {<<d1, d2>>}
MCInfra == [d \in MCDomains |-> CASE d = d2 -> "mixed" [] d = ses -> "ses" [] OTHER -> "unknown"]

Qualified(d) == [kind |-> "+include", dom |-> d]
Redirect(d) == [kind |-> "redirect", dom |-> d]
a == Term("a")
ptr == Term("ptr")
all == Term("all")
minus == Term("-all")
tilde == Term("~all")

\* The records of up to two of these terms.
UpTo2(terms) == {<<>>} \cup {<<t>> : t \in terms} \cup {<<t, u>> : t, u \in terms}

MCNets ==
    {[d \in MCDomains |-> CASE d = d1 -> <<r1>> [] d = d2 -> <<r2>> [] d = d3 -> r3 [] d = ses -> <<<<Term("ip")>>>>] :
        r1 \in UpTo2({Include(d2), Include(d3), a}),
        r2 \in {<<>>, <<Include(d3)>>, <<Include(d1), Include(d3)>>, <<a, Redirect(ses)>>, <<Qualified(d3), ptr>>, <<Include(d3), Include(None)>>},
        r3 \in {<<>>, <<<<a, Include(d2)>>>>, <<<<Redirect(ses)>>>>, <<<<a>>, <<Include(d1), Include(ses)>>>>}}

MCCurrents ==
    {None, Broken, <<>>, <<all>>, <<Include(d1), minus>>, <<Include(d2), Include(d3), tilde>>,
     <<Include(d2), tilde, minus>>, <<a, Redirect(d3)>>, <<Redirect(d1), tilde>>, <<Qualified(d2), tilde>>}

MCWishes == {<<>>, <<d1>>, <<d3, d1>>}
=============================================================================
