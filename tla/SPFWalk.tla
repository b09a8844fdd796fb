------------------------------- MODULE SPFWalk -------------------------------
(***************************************************************************)
(* SPF records: MergeSPF (spf.go), which puts includes into a record and    *)
(* counts the DNS lookups it costs, and ClassifyFromSPFRecursive            *)
(* (esp/spf_classify.go), which looks for Amazon SES behind the includes of *)
(* a domain.  Both walk the records that include: and redirect= lead to,    *)
(* depth first, with a set of domains seen, a cap on the depth and lookups  *)
(* that may fail.  The recursion is a stack of the terms still to be read.  *)
(*                                                                         *)
(* A record is the sequence of its terms behind "v=spf1".  "a" stands for   *)
(* the forms that are counted as a lookup and lead nowhere (a, mx, a:, mx:, *)
(* ptr:, exists:), "ip" for those that cost none.  Both walks compare with  *)
(* the beginning of a term, and so pass over forms that cost a lookup too:  *)
(* "ptr" stands for those (ptr alone, a/24, mx/24, and any behind a         *)
(* qualifier), "+include" for an include: behind a qualifier.               *)
(***************************************************************************)
EXTENDS Naturals, Sequences, FiniteSets, FiniteSetsExt

CONSTANTS
    Domains,    \* the domains there are
    SES,        \* amazonses.com, one of them
    Prefixes,   \* <<d, e>>: the name d is a proper prefix of the name e
    Infra,      \* LookupByInclude: the infrastructure of a domain
    Nets,       \* what DNS has: functions from Domains to sequences of records
    Currents,   \* the records to start from
    Wishes,     \* sequences of includes to merge
    Limit,      \* lookups a record may cost: 10 in the code
    MaxDepth,   \* depth of the walk: 10 in the code
    MaxFaults,  \* bound on failing lookups
    None,       \* no domain (the target of "include:" alone), no record
    Broken      \* a current value that is no SPF record

All == {"-all", "~all", "?all", "+all", "all"}
Kinds == All \cup {"a", "ptr", "ip", "include", "redirect"}
Follow == {"include", "redirect"}
Term(kind) == [kind |-> kind, dom |-> None]
Include(d) == [kind |-> "include", dom |-> d]
Terms == [kind : Kinds, dom : Domains \cup {None}] \cup [kind : {"+include"}, dom : Domains]
Records == Seq(Terms)
IsRecord(rec) == rec \notin {None, Broken}
Infrastructures == {"unknown", "ses", "mixed", "other"}

ASSUME SPFAssumption ==
    /\ IsFiniteSet(Domains)
    /\ SES \in Domains /\ None \notin Domains
    /\ Prefixes \subseteq Domains \X Domains
    /\ Infra \in [Domains -> Infrastructures]
    /\ Nets \subseteq [Domains -> Seq(Records)]
    /\ \A c \in Currents : IsRecord(c) => c \in Records
    /\ None \notin Records /\ Broken \notin Records
    /\ Wishes \subseteq Seq(Domains)
    /\ Limit \in Nat /\ MaxDepth \in Nat /\ MaxFaults \in Nat
    \* The depth cap must not hide lookups from the limit.
    /\ MaxDepth >= Limit

VARIABLES
    net, current, includes,
    deep,      \* MergeSPF has a resolver: WithRecursiveLookupCount
    phase,
    value,     \* MergeResult.Value
    stack,     \* the records being read: their terms still to come
    seen,
    count,     \* terms that cost a lookup
    faults,
    warned,    \* a lookup failed: the count is that of the record alone
    todo,      \* top-level includes still to be classified
    capped,    \* the depth cap ended a walk for SES
    senders    \* the classifications so far

input == <<net, current, includes, deep>>
walk == <<stack, seen, count>>
spfVars == <<net, current, includes, deep, phase, value, stack, seen, count, faults, warned, todo, capped, senders>>

Senders == [dom : Domains, infra : Infrastructures, viaChain : BOOLEAN, sure : BOOLEAN]

SPFTypeOK ==
    /\ net \in Nets /\ current \in Currents /\ includes \in Wishes /\ deep \in BOOLEAN
    /\ phase \in {"start", "count", "merged", "classify", "search", "classified"}
    /\ value \in Records
    /\ stack \in Seq(Records) /\ Len(stack) <= MaxDepth + 1
    /\ phase \in {"count", "search"} => stack # <<>>
    /\ seen \subseteq Domains
    /\ count \in Nat
    /\ faults \in 0..MaxFaults
    /\ warned \in BOOLEAN /\ capped \in BOOLEAN
    /\ todo \in Seq(Domains)
    /\ senders \in Seq(Senders)

SPFInit ==
    /\ net \in Nets /\ current \in Currents /\ includes \in Wishes /\ deep \in BOOLEAN
    /\ phase = "start"
    /\ value = <<>>
    /\ stack = <<>> /\ seen = {} /\ count = 0
    /\ faults = 0
    /\ warned = FALSE /\ capped = FALSE
    /\ todo = <<>> /\ senders = <<>>

-----------------------------------------------------------------------------
(* MergeSPF.                                                                *)

IncludeTerms(incs) == [k \in 1..Len(incs) |-> Include(incs[k])]

\* The elements of s that are in S, in their order.
Kept(s, S) ==
    LET kept[k \in 0..Len(s)] ==
            IF k = 0 THEN <<>>
            ELSE IF s[k] \in S THEN Append(kept[k-1], s[k]) ELSE kept[k-1]
    IN  kept[Len(s)]

\* strings.Contains(trimmed, "include:"+inc).
Contains(rec, inc) ==
    \E t \in Range(rec) :
        t.kind \in {"include", "+include"} /\ (t.dom = inc \/ <<inc, t.dom>> \in Prefixes)

Additions(rec, incs) == IncludeTerms(Kept(incs, {inc \in Range(incs) : ~Contains(rec, inc)}))

At(rec, kind) == {k \in 1..Len(rec) : rec[k].kind = kind}

\* Before the first -all, or else ~all, ?all, +all, or redirect=, or at the end.
InsertAt(rec) ==
    LET order == <<"-all", "~all", "?all", "+all", "redirect">>
        there == {k \in 1..Len(order) : At(rec, order[k]) # {}}
    IN  IF there = {} THEN Len(rec) + 1 ELSE Min(At(rec, order[Min(there)]))

buildFresh(incs) == IncludeTerms(incs) \o <<Term("~all")>>

\* Mutant of Inserted: the includes go behind the term that was found.
InsertedBehind(rec, adds) ==
    IF InsertAt(rec) > Len(rec) THEN rec \o adds \o <<Term("-all")>>
    ELSE SubSeq(rec, 1, InsertAt(rec)) \o adds \o SubSeq(rec, InsertAt(rec) + 1, Len(rec))

\* A record without any of these gets -all.
Inserted(rec, adds) ==
    LET i == InsertAt(rec)
        end == IF i > Len(rec) THEN <<Term("-all")>> ELSE <<>>
    IN  SubSeq(rec, 1, i - 1) \o adds \o SubSeq(rec, i, Len(rec)) \o end

Merged(rec, incs) ==
    CASE ~IsRecord(rec) -> buildFresh(incs)
      [] IsRecord(rec) /\ Additions(rec, incs) = <<>> -> rec
      [] OTHER -> Inserted(rec, Additions(rec, incs))

\* CountSPFLookups.
Costs(t) == t.kind \in Follow \cup {"a"}
Costly(rec) == {k \in 1..Len(rec) : Costs(rec[k])}
CountSPFLookups(rec) == Cardinality(Costly(rec))

MergeSPF ==
    /\ phase = "start"
    /\ value' = Merged(current, includes)
    /\ IF deep
       THEN phase' = "count" /\ stack' = <<value'>> /\ UNCHANGED count
       ELSE phase' = "merged" /\ count' = CountSPFLookups(value') /\ UNCHANGED stack
    /\ UNCHANGED <<input, seen, faults, warned, todo, capped, senders>>

-----------------------------------------------------------------------------
(* The two walks.                                                           *)

Top == stack[Len(stack)]
Popped == SubSeq(stack, 1, Len(stack) - 1)
Rest == Append(Popped, Tail(Top))
Lookup(t) == t.kind \in Follow /\ t.dom # None

\* Mutant of Descend: the cap is one less than the limit.
DescendLess(s, recs) == IF recs = <<>> \/ Len(s) >= MaxDepth THEN s ELSE Append(s, recs[1])

\* Into the first SPF record of a domain, unless that is too deep.
Descend(s, recs) == IF recs = <<>> \/ Len(s) > MaxDepth THEN s ELSE Append(s, recs[1])

\* recursiveSPFLookupCount reads a term, and recurseInto follows it.
CountTerm ==
    /\ phase = "count" /\ Top # <<>>
    /\ count' = count + (IF Costs(Top[1]) THEN 1 ELSE 0)
    /\ IF Lookup(Top[1]) /\ Top[1].dom \notin seen
       THEN seen' = seen \cup {Top[1].dom} /\ stack' = Descend(Rest, net[Top[1].dom])
       ELSE stack' = Rest /\ UNCHANGED seen
    /\ UNCHANGED <<input, phase, value, faults, warned, todo, capped, senders>>

\* A lookup fails: the whole count is given up for that of the record.
CountFails ==
    /\ phase = "count" /\ Top # <<>> /\ faults < MaxFaults
    /\ Lookup(Top[1]) /\ Top[1].dom \notin seen
    /\ faults' = faults + 1
    /\ warned' = TRUE
    /\ count' = CountSPFLookups(value)
    /\ phase' = "merged"
    /\ stack' = <<>> /\ seen' = {}
    /\ UNCHANGED <<input, value, todo, capped, senders>>

\* A record has been read.
CountReturns ==
    /\ phase = "count" /\ Top = <<>>
    /\ stack' = Popped
    /\ phase' = IF Popped = <<>> THEN "merged" ELSE "count"
    /\ UNCHANGED <<input, value, seen, count, faults, warned, todo, capped, senders>>

\* extractIncludes, of the merged record, takes qualified includes as well.
Classify ==
    /\ phase = "merged"
    /\ phase' = "classify"
    /\ LET incs == Kept(value, {t \in Terms : t.kind \in {"include", "+include"} /\ t.dom # None})
       IN  todo' = [k \in 1..Len(incs) |-> incs[k].dom]
    /\ stack' = <<>> /\ seen' = {}
    /\ UNCHANGED <<input, value, count, faults, warned, capped, senders>>

\* The answer for the include at hand; `sure`: nothing was cut off or failed.
Judge(viaChain, sure) ==
    LET d == todo[1] IN
    /\ senders' = Append(senders,
          [dom |-> d, viaChain |-> viaChain, sure |-> sure,
           infra |-> IF viaChain /\ Infra[d] = "unknown" THEN "ses" ELSE Infra[d]])
    /\ todo' = Tail(todo)
    /\ phase' = "classify"
    /\ stack' = <<>> /\ seen' = {} /\ capped' = FALSE /\ warned' = FALSE

\* What a lookup of all the SPF records of a domain gives to read.
Joined(recs) ==
    LET after[k \in 0..Len(recs)] == IF k = 0 THEN <<>> ELSE after[k-1] \o recs[k]
    IN  after[Len(recs)]

\* isSESInChain, for the includes whose infrastructure leaves it open.
ClassifyNext ==
    /\ phase = "classify" /\ todo # <<>>
    /\ IF Infra[todo[1]] \in {"unknown", "mixed"} /\ todo[1] # SES
       THEN /\ stack' = <<Joined(net[todo[1]])>>
            /\ seen' = {todo[1]}
            /\ phase' = "search"
            /\ warned' = FALSE
            /\ UNCHANGED <<todo, capped, senders>>
       ELSE Judge(Infra[todo[1]] \in {"unknown", "mixed"}, TRUE)
    /\ UNCHANGED <<input, value, count, faults>>

\* Already the lookup of the include itself fails.
ClassifyFails ==
    /\ phase = "classify" /\ todo # <<>> /\ faults < MaxFaults
    /\ Infra[todo[1]] \in {"unknown", "mixed"} /\ todo[1] # SES
    /\ faults' = faults + 1
    /\ Judge(FALSE, FALSE)
    /\ UNCHANGED <<input, value, count>>

\* Mutant of SearchTerm: redirect= is not followed.
SearchTermNoRedirect ==
    /\ phase = "search" /\ Top # <<>>
    /\ CASE Top[1].kind = "include" /\ Top[1].dom = SES -> Judge(TRUE, TRUE)
         [] Top[1].kind = "include" /\ Top[1].dom # SES /\ Top[1].dom \notin seen /\ Len(Rest) <= MaxDepth ->
               /\ seen' = seen \cup {Top[1].dom}
               /\ stack' = Append(Rest, Joined(net[Top[1].dom]))
               /\ UNCHANGED <<phase, warned, todo, capped, senders>>
         [] OTHER -> stack' = Rest /\ UNCHANGED <<phase, seen, warned, todo, capped, senders>>
    /\ UNCHANGED <<input, value, count, faults>>

\* walkForSES reads a term and follows it: all SPF records of the domain.
SearchTerm ==
    /\ phase = "search" /\ Top # <<>>
    /\ LET d == Top[1].dom IN
       IF ~Lookup(Top[1]) \/ (d # SES /\ d \in seen)
       THEN stack' = Rest /\ UNCHANGED <<phase, seen, warned, todo, capped, senders>>
       ELSE \/ d = SES /\ Judge(TRUE, TRUE)
            \/ /\ d # SES /\ Len(Rest) > MaxDepth
               /\ stack' = Rest
               /\ capped' = TRUE
               /\ UNCHANGED <<phase, seen, warned, todo, senders>>
            \/ /\ d # SES /\ Len(Rest) <= MaxDepth
               /\ seen' = seen \cup {d}
               /\ stack' = Append(Rest, Joined(net[d]))
               /\ UNCHANGED <<phase, warned, todo, capped, senders>>
    /\ UNCHANGED <<input, value, count, faults>>

\* A lookup fails: as if the domain had no record.
SearchFails ==
    /\ phase = "search" /\ Top # <<>> /\ faults < MaxFaults
    /\ Lookup(Top[1]) /\ Top[1].dom \notin seen \cup {SES} /\ Len(Rest) <= MaxDepth
    /\ faults' = faults + 1
    /\ warned' = TRUE
    /\ seen' = seen \cup {Top[1].dom}
    /\ stack' = Rest
    /\ UNCHANGED <<input, phase, value, count, todo, capped, senders>>

SearchReturns ==
    /\ phase = "search" /\ Top = <<>>
    /\ IF Popped # <<>>
       THEN stack' = Popped /\ UNCHANGED <<phase, seen, warned, todo, capped, senders>>
       ELSE Judge(FALSE, ~capped /\ ~warned)
    /\ UNCHANGED <<input, value, count, faults>>

Classified ==
    /\ phase = "classify" /\ todo = <<>>
    /\ phase' = "classified"
    /\ UNCHANGED <<input, value, walk, faults, warned, todo, capped, senders>>

Finished == phase = "classified" /\ UNCHANGED spfVars

SPFStep ==
    \/ MergeSPF \/ CountTerm \/ CountFails \/ CountReturns
    \/ Classify \/ ClassifyNext \/ ClassifyFails \/ SearchTerm \/ SearchFails \/ SearchReturns \/ Classified

SPFNext == SPFStep \/ Finished

SPFSpec == SPFInit /\ [][SPFNext]_spfVars

-----------------------------------------------------------------------------
(* Properties.                                                              *)

MergeDone == phase = "merged"

\* A merge keeps every term there was, in its order, gives the record every
\* include asked for, and changes nothing when it is repeated (spf.go:
\* "preserving all existing mechanisms. Idempotent").  An include that is there
\* behind a qualifier, or whose name is the beginning of one that is there, is
\* taken for present and left out.
MergePreserves ==
    MergeDone =>
        /\ Merged(value, includes) = value
        /\ IsRecord(current) => Kept(value, Range(current)) = current
        /\ \A inc \in Range(includes) :
              \/ Include(inc) \in Range(value)
              \/ \E t \in Range(current) :
                    \/ t.kind = "+include" /\ t.dom = inc
                    \/ t.kind \in {"include", "+include"} /\ <<inc, t.dom>> \in Prefixes

\* Receivers stop at "all": an include that a merge adds stands before it, and a
\* record has its "all" at the end, if it had one with a qualifier.
MergeEffective ==
    MergeDone =>
        \/ IsRecord(current) /\
              (At(current, "all") # {} \/ Cardinality({k \in 1..Len(current) : current[k].kind \in All}) > 1)
        \/ \A j, k \in 1..Len(value) :
              /\ value[j].kind \in All
              /\ value[k].kind = "include" /\ value[k].dom \in Range(includes)
              /\ ~(IsRecord(current) /\ Contains(current, value[k].dom))
              => k < j

\* The domains whose records a walk of `rec` can reach, where record[d] is what
\* is read at d: the least set with the targets of `rec` and of its own records.
Targets(rec) == {t.dom : t \in {x \in Range(rec) : Lookup(x)}}
Closed(S, rec, record) == Targets(rec) \subseteq S /\ \A d \in S : Targets(record[d]) \subseteq S
Reach(rec, record) == {d \in Domains : \A S \in SUBSET Domains : Closed(S, rec, record) => d \in S}

\* What is read at a domain: to count, its first SPF record; for SES, all.
First(d) == IF net[d] = <<>> THEN <<>> ELSE net[d][1]
Firsts == [d \in Domains |-> First(d)]
Joins == [d \in Domains |-> Joined(net[d])]

\* What the record costs if every record it leads to is evaluated once, a
\* redirect= beside an "all" included.
Total(rec, record) ==
    CountSPFLookups(rec) + Cardinality(UNION {{d} \X Costly(record[d]) : d \in Reach(rec, record)})

\* A record as RFC 7208 has receivers read it: qualifiers and lengths do not matter.
Misread(t) == t.kind \in {"ptr", "+include"}
Received(t) ==
    CASE t.kind = "+include" -> Include(t.dom)
      [] t.kind = "ptr" -> Term("a")
      [] OTHER -> t
AsReceived(rec) == [k \in 1..Len(rec) |-> Received(rec[k])]
RFCTotal(rec) == Total(AsReceived(rec), [d \in Domains |-> AsReceived(First(d))])

\* The count comes by a term that it takes for none.
Overlooks(rec) == \E d \in Reach(rec, Firsts) \cup {None} :
    \E t \in Range(IF d = None THEN rec ELSE First(d)) : Misread(t)

\* The lookup limit is never reported exceeded when receivers would not exceed
\* it, and what is not reported does not exceed it: neither the depth cap nor a
\* domain first met too deep hides lookups, and loops add none.  Unless a lookup
\* failed, no resolver is given, or the count comes by a form it does not know,
\* where it stays below the "full RFC 7208 lookup counting" of spf.go:37.
LimitExact ==
    MergeDone =>
        /\ count > Limit => RFCTotal(value) > Limit
        /\ deep /\ ~warned /\ RFCTotal(value) > Limit => count > Limit \/ Overlooks(value)

\* A sender is called SES-backed if its records lead to SES by unqualified terms,
\* and only then, unless a lookup failed or the chain was deeper than the cap.
\* Who leads there by a qualified include alone is not found.
SESExact ==
    \A s \in Range(senders) :
        Infra[s.dom] \in {"unknown", "mixed"} =>
            LET leads == s.dom = SES \/ SES \in Reach(Joined(net[s.dom]), Joins)
            IN  (s.viaChain => leads) /\ (s.sure /\ leads => s.viaChain)

\* What a merge promises: a bounded walk, a record that keeps what it had, and
\* includes that receivers get to see.
MergeSafe == SPFTypeOK /\ MergePreserves /\ MergeEffective
=============================================================================
