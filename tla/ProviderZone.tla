---------------------------- MODULE ProviderZone ----------------------------
(***************************************************************************)
(* What the five providers of providers/ do to the records of one name and *)
(* type, which is all that tells them apart: a SetRecord or a DeleteRecord *)
(* is one or two API calls, and its effect on the other records at the     *)
(* name differs.  Records at a name are a sequence, in API order.  A value *)
(* is a text; an SPF record, of which only the includes are kept; a mail   *)
(* exchanger with its priority; or an alias with the spelling of its target*)
(* (case and trailing dot).                                                *)
(***************************************************************************)
EXTENDS Naturals, Sequences, FiniteSets

CONSTANTS
    Texts,      \* record contents other than SPF
    Includes,   \* SPF include targets
    Prefs,      \* MX priorities, 0 if none is given
    Spellings,  \* ways to write a host name
    Providers,  \* the providers to choose from
    NoVal

Text(t) == [spf |-> FALSE, text |-> t]
SPF(incs) == [spf |-> TRUE, includes |-> incs]
TextVals == {Text(t) : t \in Texts}
SPFVals == {SPF(incs) : incs \in SUBSET Includes}
Mail(t, p) == [spf |-> FALSE, text |-> t, pref |-> p]
MailVals == {Mail(t, p) : t \in Texts, p \in Prefs}
Alias(t, s) == [spf |-> FALSE, text |-> t, spelling |-> s]
AliasVals == {Alias(t, s) : t \in Texts, s \in Spellings}
Vals == TextVals \cup SPFVals \cup MailVals \cup AliasVals

\* What a name and type holds.
ValsOf(type) ==
    CASE type = "TXT" -> TextVals \cup SPFVals
      [] type = "MX" -> MailVals
      [] type = "CNAME" -> AliasVals
      [] OTHER -> TextVals

\* The priority that Namecheap's client writes if none is given.
DefaultPref == 10

ASSUME ProviderAssumption ==
    /\ Providers \subseteq {"cloudflare", "route53", "gcdns", "godaddy", "namecheap"}
    /\ NoVal \notin Vals
    /\ {0, DefaultPref} \subseteq Prefs

Members(s) == {s[i] : i \in 1..Len(s)}
SPFRecords(s) == {i \in 1..Len(s) : s[i].spf}

\* A zone as a user may have left it: no duplicates and at most one SPF record.
StartSeqs(V, max) ==
    {s \in UNION {[1..n -> V] : n \in 0..max} :
        /\ Cardinality(Members(s)) = Len(s)
        /\ Cardinality(SPFRecords(s)) <= 1}

\* findRecord: the first record at the name, whatever the others are.
FindRecord(s) == IF s = <<>> THEN NoVal ELSE s[1]

\* The push methods take record e at the name for the wanted v: CNAME targets are
\* compared without case and trailing dot, of MX records the priority as well.
SameRecord(type, e, v) == IF type = "CNAME" THEN e.text = v.text ELSE e = v

\* The first SPF record at the name.
CurrentSPF(s) ==
    IF SPFRecords(s) = {} THEN NoVal
    ELSE s[CHOOSE i \in SPFRecords(s) : \A j \in SPFRecords(s) : i <= j]

\* Mutant of MergedSPF: the existing includes are not kept.
MergedSPFFresh(s, incs) == SPF(incs)

\* MergeSPF keeps the includes there are and adds the missing ones.
MergedSPF(s, incs) ==
    SPF(IF CurrentSPF(s) = NoVal THEN incs ELSE CurrentSPF(s).includes \cup incs)

-----------------------------------------------------------------------------
(* GetRecords: s is what the name has, onPage whether its records are on    *)
(* the first page of the zone.                                              *)

\* Route 53 lists one page of the zone and filters it by type; Cloud DNS asks
\* for the type, and for one page too.
Route53Get(s, onPage) == IF onPage THEN s ELSE <<>>
GCDNSGet(s, onPage) == IF onPage THEN s ELSE <<>>

\* Cloudflare's client follows the pages; GoDaddy answers with the whole type
\* and Namecheap with the whole zone.
GetRecordsOf(provider, s, onPage) ==
    CASE provider = "route53" -> Route53Get(s, onPage)
      [] provider = "gcdns" -> GCDNSGet(s, onPage)
      [] OTHER -> s

-----------------------------------------------------------------------------
(* SetRecord: s is what the name has, seen what SetRecord's own read of the *)
(* name returned.                                                           *)

\* A record as GetRecords will show it.  Only Namecheap's client sends a priority
\* and reads it; the others leave it out of their calls and answers.
Stored(provider, type, v) ==
    IF type # "MX" THEN v
    ELSE Mail(v.text, CASE provider # "namecheap" -> 0
                        [] provider = "namecheap" /\ v.pref = 0 -> DefaultPref
                        [] OTHER -> v.pref)

\* The first record is replaced, or the first one created.
ReplaceFirst(s, v) == IF s = <<>> THEN <<v>> ELSE [s EXCEPT ![1] = v]

\* Cloudflare updates the record it listed first, by its ID, or creates one.
CloudflareSet(s, seen, v) == IF seen = <<>> THEN Append(s, v) ELSE ReplaceFirst(s, v)

\* Route 53 UPSERT and the Cloud DNS Change: an rrset of this one record.
RRSetSet(v) == <<v>>

\* Mutant of MergeGoDaddyRecords: the new record replaces all others.
MergeGoDaddyRecordsNaive(s, v) == <<v>>

\* A record with the same data is replaced, any other kept; the name is PUT.
MergeGoDaddyRecords(s, v) == IF v \in Members(s) THEN s ELSE Append(s, v)

-----------------------------------------------------------------------------
(* DeleteRecord of a record v that GetRecords listed at the name: the       *)
(* possible outcomes, whether the call succeeds and what the name is left   *)
(* with.  `again` says that the caller has deleted from this list before.   *)

Outcome(ok, s) == [ok |-> ok, left |-> s]

\* Cloudflare removes the record that has this ID.
Without(s, v) ==
    LET i == CHOOSE i \in 1..Len(s) : s[i] = v /\ \A j \in 1..(i-1) : s[j] # v
    IN  SubSeq(s, 1, i - 1) \o SubSeq(s, i + 1, Len(s))

CloudflareDelete(s, v) == {IF v \in Members(s) THEN Outcome(TRUE, Without(s, v)) ELSE Outcome(FALSE, s)}

\* Route 53's ID is name and type: the first record at the name is looked up
\* again and a DELETE sent of an rrset of that one value, which the service
\* refuses if the rrset has more.
Route53Delete(s) == {IF Len(s) = 1 THEN Outcome(TRUE, <<>>) ELSE Outcome(FALSE, s)}

\* Cloud DNS's ID is name and type: the whole rrset goes, 404 if there is none.
GCDNSDelete(s) == {Outcome(s # <<>>, <<>>)}

\* GoDaddy's ID is name and type: all records of the name and type go.  What
\* the service answers if there are none is left open.
GoDaddyDelete(s) == {Outcome(TRUE, <<>>)} \cup (IF s = <<>> THEN {Outcome(FALSE, s)} ELSE {})

\* Namecheap writes the host list without the host that has this HostId.
\* setHosts sends no ids, so after one delete the others may have new ones.
NamecheapDelete(s, v, again) ==
    CloudflareDelete(s, v) \cup (IF again THEN {Outcome(FALSE, s)} ELSE {})

DeleteOutcomes(provider, s, v, again) ==
    CASE provider = "cloudflare" -> CloudflareDelete(s, v)
      [] provider = "route53" -> Route53Delete(s)
      [] provider = "gcdns" -> GCDNSDelete(s)
      [] provider = "godaddy" -> GoDaddyDelete(s)
      [] provider = "namecheap" -> NamecheapDelete(s, v, again)
=============================================================================
