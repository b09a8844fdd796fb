------------------------- MODULE MCTemplateProcess -------------------------
(* TemplateProcess for TLC: templates of up to three records of a pool with *)
(* every record type and way to fail, over zones with something to delete.    *)
EXTENDS TemplateProcess

MCTexts == STRING

T(type, form, labels, content) ==
    [type |-> type, form |-> form, labels |-> labels, content |-> content,
     ttl |-> 1, mode |-> "", prefix |-> <<>>, group |-> "g1", essential |-> "",
     valid |-> TRUE]

Pool == {
    T("A", "at", <<>>, <<"ip1">>), [T("A", "at", <<>>, <<"ip2">>) EXCEPT !.essential = "OnApply"],
    T("AAAA", "relative", <<"s">>, <<"ip6">>), T("A", "fqdn", <<"s">>, <<"ip1">>),
    T("CNAME", "relative", <<"s">>, <<"@">>), T("CNAME", "at", <<>>, <<"c">>),
    T("TXT", "at", <<>>, <<"x">>), [T("TXT", "at", <<>>, <<"y">>) EXCEPT !.mode = "All"],
    [T("TXT", "at", <<>>, <<"x", "2">>) EXCEPT !.mode = "Prefix", !.prefix = <<"x">>],
    [T("TXT", "relative", <<"s">>, <<"x">>) EXCEPT !.mode = "None", !.group = "g2"],
    T("TXT", "relative", <<"s">>, <<"y">>),
    T("MX", "at", <<>>, <<"m">>), T("NS", "relative", <<"s">>, <<"n">>),
    T("NS", "relative", <<"s">>, <<"n2">>), T("NS", "at", <<>>, <<"@">>),
    T("SRV", "relative", <<"s">>, <<"v">>), T("SRV", "relative", <<"s">>, <<"w">>),
    T("SPFM", "at", <<>>, <<"foo">>), [T("SPFM", "at", <<>>, <<"bar">>) EXCEPT !.ttl = 0],
    T("REDIR301", "at", <<>>, <<"u">>), T("REDIR302", "relative", <<"s">>, <<"u">>),
    T("APEXCNAME", "at", <<>>, <<"c">>), 
    [T("CAA", "at", <<>>, <<"ca">>) EXCEPT !.group = ""],
    T("A", "outside", <<"o">>, <<"ip1">>), [T("A", "at", <<>>, <<"bad">>) EXCEPT !.valid = FALSE]}

Call(template, multi, service, id) ==
    [template |-> template, host |-> <<>>, groups |-> {}, signature |-> "none",
     ignoreSignature |-> FALSE, multi |-> multi, provider |-> "p",
     service |-> service, id |-> id]

UpToTwo == {<<t>> : t \in Pool} \cup {<<t, u>> : t, u \in Pool}

\* For triples: one record that cannot be used ends the call, and MX and CAA
\* records meet few others.
Meeting == {t \in Pool : t.valid /\ t.form # "outside" /\ t.type \notin {"MX", "CAA"}}
Three == {<<t, u, v>> : t, u, v \in Meeting}

\* The same call twice.
Repeats ==
    {<<c, c>> : c \in {Call(t, "none", "s1", "i1") : t \in UpToTwo \cup Three}
                       \cup {Call(t, "aware", "s1", "i1") : t \in UpToTwo}}

\* Calls with a host, groups or a signature.
Options ==
    {<<[Call(t, "none", "s1", "i1") EXCEPT !.host = <<"h">>, !.groups = g,
                                         !.signature = "invalid", !.ignoreSignature = b]>> :
        t \in {<<u>> : u \in Pool}, g \in {{}, {"g1"}, {"", "g1"}}, b \in BOOLEAN}

OwnedCalls ==
    {[Call(<<t>>, m[1], m[2], m[3]) EXCEPT !.provider = m[4]] :
        t \in Pool,
        m \in {<<"aware", "s1", "i1", "p">>, <<"aware", "s2", "i2", "p">>,
               <<"instance", "s1", "i1", "p">>, <<"instance", "s1", "i2", "p">>,
               <<"aware", "s1", "i1", "q">>}}

\* Calls for several services and instances after one another.
Sequences2 == {<<c, d>> : c, d \in OwnedCalls}

\* An SPF record that a template spells out, merged with the rules of an SPFM
\* record and then again, by which two SPF records may become equal.
SPFText == T("TXT", "at", <<>>, <<"v=spf1", "bar", "-all">>)

\* "ba" and "r" are parts of "bar".
Rules ==
    {t \in Pool : t.type = "SPFM"}
      \cup {T("SPFM", "at", <<>>, <<"ba">>), T("SPFM", "at", <<>>, <<"r", "-all">>)}

Spelled ==
    {<<Call(s, "none", "s1", "i1"), Call(<<r>>, m, "s2", "i1")>> :
        s \in UNION {{<<SPFText, t>>, <<t, SPFText>>} : t \in Rules \cup {SPFText}},
        r \in Rules, m \in {"none", "aware"}}

\* The same call twice, with an SPFM record and a TXT record beside it that meets
\* the merged record.
Beside ==
    LET TXTs == {SPFText} \cup {[T("TXT", "at", <<>>, <<"z">>) EXCEPT !.mode = "Prefix", !.prefix = p] :
                                   p \in {<<>>, <<"v">>, <<"v=spf1", "foo">>}}
    IN {<<c, c>> : c \in {Call(s, "none", "s1", "i1") :
                             s \in UNION {{<<u, t>>, <<t, u>>} : t \in Rules, u \in TXTs}}}

\* Calls that leave the id to the code.
Unnamed ==
    {<<c, c>> : c \in {Call(<<t>>, m, "s1", "") : t \in Pool, m \in {"aware", "instance"}}}

MCPlans == Repeats \cup Options \cup Sequences2 \cup Spelled \cup Beside \cup Unnamed

R(type, name, content) ==
    [type |-> type, name |-> name, content |-> content, ttl |-> 2, dc |-> Free]

MCInitZones == {
    {},
    {R("A", <<>>, <<"ip0">>), R("NS", <<>>, <<"n0">>), R("TXT", <<>>, <<"x">>),
     R("TXT", <<>>, <<"v=spf1", "bar", "-all">>), R("MX", <<>>, <<"m0">>)},
    {R("CNAME", <<"s">>, <<"c0">>), R("TXT", <<>>, <<"v=spf1", "-all">>)},
    {R("A", <<"s">>, <<"ip0">>), R("TXT", <<"s", "t">>, <<"x">>), R("NS", <<"s">>, <<"n">>),
     R("CNAME", <<"s", "u">>, <<"c">>)},
    {[R("SRV", <<"s">>, <<"v">>) EXCEPT !.ttl = 1], R("TXT", <<"s">>, <<"x">>),
     R("APEXCNAME", <<>>, <<"c0">>)}}

MCDrawn == {"d1", "d2"}
MCHeads == {<<"ba", "bar">>, <<"v", "v=spf1">>}
MCTails == {<<"r", "bar">>}
MCParts == MCHeads \cup MCTails \cup {<<"a", "bar">>}

MCBacking == <<[type |-> "A", content |-> <<"ipr">>, ttl |-> 3],
               [type |-> "AAAA", content |-> <<"ipr6">>, ttl |-> 3]>>
=============================================================================
