-------------------------- MODULE TemplateProcess --------------------------
(***************************************************************************)
(* ProcessRecords (template/process.go): a Domain Connect template is      *)
(* resolved into records, which are taken one by one against a working     *)
(* copy of the zone; the result is a set of records to delete and a set to *)
(* add.  The caller applies them to the zone and processes templates again.*)
(*                                                                         *)
(* A name is its labels from the zone's apex down, so the apex is <<>>.    *)
(* Names are compared without case everywhere, so a model name stands for  *)
(* all its spellings.  A content is the sequence of its words, and takes   *)
(* in priority, weight, port, service and protocol; which words are parts  *)
(* of which is a relation between strings.  Slices of records are          *)
(* sets: every loop deletes all copies of what it matches, and the result  *)
(* is deduplicated.                                                        *)
(***************************************************************************)
EXTENDS Integers, Sequences, FiniteSets, SequencesExt

CONSTANTS
    Texts,       \* the strings of the program
    InitZones,   \* zones to start from
    Plans,       \* sequences of calls of ProcessRecords that a caller makes
    Backing,     \* opts.RedirectRecords: entries with type, content and ttl
    Free,        \* the owner of a record without _dc metadata
    Drawn,       \* the random ids that a call without one may draw
    Parts,       \* pairs of strings: the first is part of the second,
    Heads,       \* is the beginning of the second,
    Tails        \* is the end of the second

Owners == [provider : Texts, service : Texts, id : Texts, essential : Texts]

Records == [type : Texts, name : Seq(Texts), content : Seq(Texts),
            ttl : Int, dc : Owners \cup {Free}]

Key(r) == <<r.type, r.name, r.content, r.ttl>>

Keys(S) == {Key(r) : r \in S}

\* TemplateRecord, after substitution.
TemplateRecords ==
    [type : Texts, form : {"at", "relative", "fqdn", "outside"}, labels : Seq(Texts),
     content : Seq(Texts), ttl : Int, mode : Texts, prefix : Seq(Texts),
     group : Texts, essential : Texts, valid : BOOLEAN]

\* ProcessOpts.
Calls ==
    [template : Seq(TemplateRecords), host : Seq(Texts), groups : SUBSET Texts,
     signature : {"none", "valid", "invalid"}, ignoreSignature : BOOLEAN,
     multi : {"none", "aware", "instance"},
     provider : Texts, service : Texts, id : Texts]

DefaultTTL == 6000

Addresses == {"A", "AAAA"}
Redirects == {"REDIR301", "REDIR302"}
Core == Addresses \cup Redirects
          \cup {"CNAME", "TXT", "MX", "NS", "SRV", "SPFM", "APEXCNAME"}

VARIABLES
    zone,        \* the zone as the caller last left it
    plan,        \* calls still to make
    pc,          \* "idle", or "run" while a call is in its conflict loop
    req,         \* the call: the last one when idle
    resolved,    \* its resolved entries
    next,        \* index of the entry the loop is at
    work,        \* the working copy of the zone
    toAdd,
    toDelete,
    essentialAlways, \* records that may be restored at the end
    before       \* the zone before the last call, and whether that call succeeded

vars == <<zone, plan, pc, req, resolved, next, work, toAdd, toDelete,
          essentialAlways, before>>

NoCall == [template |-> <<>>]

SpellsSPF(content) == Len(content) > 1 /\ Head(content) = "v=spf1"

IsSPF(r) == r.type = "TXT" /\ SpellsSPF(r.content)

Aliasing(r, s) ==
    r # s /\ r.name = s.name /\ r.type = "CNAME" /\ s.type \in Addresses \cup {"CNAME"}

\* No two records of zone z have the same key.
NoTwins(z) == \A r, s \in z : Key(r) = Key(s) => r = s

ASSUME TemplateAssumption ==
    /\ Core \cup {"", "fqdn", "Always", "v=spf1", "-all", "~all", "?all"} \subseteq Texts
    /\ \A z \in InitZones :
          z \subseteq Records /\ NoTwins(z) /\ \A r, s \in z : ~Aliasing(r, s)
    /\ Plans \subseteq Seq(Calls)
    /\ Backing \in Seq([type : Addresses, content : Seq(Texts), ttl : Int])
    /\ Free \notin Owners
    /\ Drawn \subseteq Texts \ {""}
    /\ Heads \cup Tails \subseteq Parts
    /\ \A p \in Parts : p[1] # p[2]

isChildOf(child, parent) == IsStrictPrefix(parent, child)

-----------------------------------------------------------------------------
(* Resolving a template.                                                    *)

\* VerifySignature, unless there is no signature or it is to be ignored.
SignatureOK(q) == q.signature \in {"none", "valid"} \/ q.ignoreSignature

\* The group filter: with GroupIDs, only records of these groups.
Selected(q, t) == q.groups = {} \/ (t.group # "" /\ t.group \in q.groups)

\* "@" is the caller's host, other names are below it; a name with a trailing
\* dot is relative to the domain.
resolveHostName(t, host) ==
    CASE t.form = "at" -> host
      [] t.form = "relative" -> host \o t.labels
      [] t.form \in {"fqdn", "outside"} -> t.labels

\* "@" as a target is the caller's fully qualified host; TXT data is literal.
resolvePointsTo(t, host) ==
    IF t.content = <<"@">> /\ t.type \in Core \ ({"TXT", "SPFM"} \cup Redirects)
      THEN <<"fqdn">> \o host ELSE t.content

\* A missing or unclosed variable, or after substitution a type, host label,
\* length, address, number or URL that is not well formed.
Malformed(t) == ~t.valid

\* The early returns of the resolve loop.
Rejected(t, host) ==
    LET name == resolveHostName(t, host) IN
    \/ Malformed(t)
    \/ t.form = "outside"
    \/ t.type = "APEXCNAME" /\ name # <<>>
    \/ t.type = "CNAME" /\ name = <<>>
    \/ t.type = "SRV" /\ name = <<>> /\ host = <<>>
    \/ t.type = "NS" /\ t.content = <<"@">>
    \/ t.type \notin {"TXT", "SPFM"} /\ t.content = <<>>
    \/ t.type \in Redirects /\ Backing = <<>>
    \/ t.type \notin Core /\ t.content = <<"@">>

\* One template record: its entry, and for a redirect the records that serve it.
Entries(t, host) ==
    LET name == resolveHostName(t, host)
        entry == [type |-> t.type, name |-> name,
                  content |-> resolvePointsTo(t, host),
                  ttl |-> IF t.type \in Redirects THEN 0 ELSE t.ttl,
                  mode |-> t.mode, prefix |-> t.prefix,
                  essential |-> t.essential, backing |-> FALSE]
    IN <<entry>> \o
         IF t.type \in Redirects
           THEN [i \in DOMAIN Backing |->
                   [entry EXCEPT !.type = Backing[i].type, !.mode = "",
                                 !.content = Backing[i].content,
                                 !.ttl = Backing[i].ttl,
                                 !.essential = "", !.backing = TRUE]]
           ELSE <<>>

Resolve(q) ==
    FlattenSeq([i \in DOMAIN q.template |->
        IF Selected(q, q.template[i]) THEN Entries(q.template[i], q.host) ELSE <<>>])

\* hasOther in checkInternalConflicts.
Other(type) == type \notin {"CNAME", "NS", "SPFM", "TXT"} \cup Redirects

\* Two entries of one template that checkInternalConflicts does not allow.
Clash(e, f) ==
    \/ /\ e.name = f.name
       /\ \/ e.type = "CNAME" /\ (f.type \in {"CNAME", "NS"} \/ Other(f.type))
          \/ e.type = "NS" /\ Other(f.type)
    \/ e.type = "NS" /\ f.type # "NS" /\ isChildOf(f.name, e.name)

checkInternalConflicts(es) ==
    \A i, j \in DOMAIN es : i # j => ~Clash(es[i], es[j])

OneApexCname(es) ==
    Cardinality({i \in DOMAIN es : es[i].type = "APEXCNAME"}) <= 1

Accepted(q) ==
    /\ SignatureOK(q)
    /\ \A i \in DOMAIN q.template :
          Selected(q, q.template[i]) => ~Rejected(q.template[i], q.host)
    /\ checkInternalConflicts(Resolve(q))
    /\ OneApexCname(Resolve(q))

-----------------------------------------------------------------------------
Init ==
    /\ zone \in InitZones
    /\ plan \in Plans
    /\ pc = "idle"
    /\ req = NoCall
    /\ resolved = <<>>
    /\ next = 1
    /\ work = {}
    /\ toAdd = {}
    /\ toDelete = {}
    /\ essentialAlways = {}
    /\ before = [zone |-> zone, ok |-> FALSE, req |-> NoCall]

\* Mutant of Owned: records of the provider's other services are left alone.
OwnedService(q, r) ==
    /\ q.multi # "none"
    /\ r.dc # Free
    /\ r.dc.provider = q.provider /\ r.dc.service = q.service
    /\ q.multi = "instance" => r.dc.id = q.id

\* Records that a multi-aware call deletes first: those of its own instance, or
\* else all of the provider's.
Owned(q, r) ==
    /\ q.multi # "none"
    /\ r.dc # Free
    /\ r.dc.provider = q.provider
    /\ q.multi = "instance" => r.dc.service = q.service /\ r.dc.id = q.id

OwnedRecords(q) == {r \in zone : Owned(q, r)}

\* Records of the provider's other services, to be restored if nothing conflicts.
Candidates(q) ==
    {r \in OwnedRecords(q) : /\ q.multi = "aware"
                             /\ r.dc.service # q.service
                             /\ r.dc.essential = "Always"}

\* The call with the id it uses: a multi-aware one without an id draws one.
Identified(q) ==
    {[q EXCEPT !.id = id] : id \in IF q.multi # "none" /\ q.id = "" THEN Drawn ELSE {q.id}}

\* A call that passes all checks enters the conflict loop.
Start ==
    /\ pc = "idle" /\ plan # <<>>
    /\ \E q \in Identified(Head(plan)) :
          /\ Accepted(q)
          /\ req' = q
          /\ resolved' = Resolve(q)
          /\ toDelete' = OwnedRecords(q)
          /\ work' = zone \ OwnedRecords(q)
          /\ essentialAlways' = Candidates(q)
    /\ pc' = "run"
    /\ plan' = Tail(plan)
    /\ next' = 1
    /\ toAdd' = {}
    /\ UNCHANGED <<zone, before>>

\* A call that fails a check returns an error and no result.
Reject ==
    /\ pc = "idle" /\ plan # <<>>
    /\ ~Accepted(Head(plan))
    /\ req' = Head(plan)
    /\ plan' = Tail(plan)
    /\ before' = [zone |-> zone, ok |-> FALSE, req |-> Head(plan)]
    /\ UNCHANGED <<zone, pc, resolved, next, work, toAdd, toDelete, essentialAlways>>

-----------------------------------------------------------------------------
(* The conflict loop: one action for each case of its switch.               *)

Record(e) == [type |-> e.type, name |-> e.name, content |-> e.content,
              ttl |-> e.ttl, dc |-> Free]

Entry == resolved[next]

\* originalZone: what was there before the loop added anything.
Original(r) == Key(r) \in Keys({o \in zone : ~Owned(req, o)})

At(name, types) == {r \in work : r.name = name /\ r.type \in types}

\* removeRecords and the appends that end each case.
Change(dels, adds) ==
    /\ toDelete' = toDelete \cup dels
    /\ toAdd' = toAdd \cup adds
    /\ work' = {r \in work : Key(r) \notin Keys(dels)} \cup adds
    /\ next' = next + 1
    /\ UNCHANGED <<zone, plan, pc, req, resolved, essentialAlways, before>>

Case(types) ==
    /\ pc = "run" /\ next <= Len(resolved)
    /\ ~Entry.backing
    /\ Entry.type \in types

AddBacking ==
    /\ pc = "run" /\ next <= Len(resolved)
    /\ Entry.backing
    /\ Change({}, {Record(Entry)})

\* The SPF record that processSPFM finds first: those added come after.
ExistingSPF ==
    LET spf == {r \in work : r.name = Entry.name /\ IsSPF(r)}
    IN IF \E r \in spf : r \in zone THEN spf \cap zone ELSE spf

\* The rules go behind the version and before what was there.  A record that is
\* only a version and a terminator keeps its version as one of the rules.
MergedSPF(content, rules) ==
    LET closed == Last(content) \in {"-all", "~all", "?all"}
        body == IF closed THEN Front(content) ELSE content
    IN <<"v=spf1">> \o rules
         \o (IF Len(body) > 1 THEN Tail(body) ELSE body)
         \o <<IF closed THEN Last(content) ELSE "~all">>

\* The k-th of n words as it is found in a text: a single one may be part of a
\* word there, the first may be the end of one, the last the beginning of one.
Fits(w, v, k, n) ==
    w = v \/ <<w, v>> \in (CASE n = 1 -> Parts
                             [] n > 1 /\ k = 1 -> Tails
                             [] n > 1 /\ k = n -> Heads
                             [] OTHER -> {})

\* strings.Contains: rules are present also as part of another mechanism.
ContainsText(content, rules) ==
    \E i \in 0 .. Len(content) - Len(rules) :
        \A k \in DOMAIN rules : Fits(rules[k], content[i + k], k, Len(rules))

\* strings.HasPrefix: the last word may be the beginning of one.
HasPrefix(content, prefix) ==
    /\ Len(prefix) <= Len(content)
    /\ \A k \in DOMAIN prefix :
          \/ prefix[k] = content[k]
          \/ k = Len(prefix) /\ <<prefix[k], content[k]>> \in Heads

MergedRecord(r, rules) == [r EXCEPT !.content = MergedSPF(r.content, rules), !.dc = Free]

NewSPF(e) ==
    [Record(e) EXCEPT !.type = "TXT",
                      !.content = <<"v=spf1">> \o e.content \o <<"~all">>,
                      !.ttl = IF e.ttl = 0 THEN DefaultTTL ELSE e.ttl]

\* Mutant of MergeSPFM: rules that are present are merged again.
MergeSPFMAgain ==
    /\ Case({"SPFM"})
    /\ IF ExistingSPF = {}
         THEN Change({}, {NewSPF(Entry)})
         ELSE \E r \in ExistingSPF : Change({r}, {MergedRecord(r, Entry.content)})

\* processSPFM: a new SPF record, nothing if the rules are present, or a merge.
MergeSPFM ==
    /\ Case({"SPFM"})
    /\ IF ExistingSPF = {}
         THEN Change({}, {NewSPF(Entry)})
         ELSE \E r \in ExistingSPF :
                IF ContainsText(r.content, Entry.content)
                  THEN Change({}, {})
                  ELSE Change({r}, {MergedRecord(r, Entry.content)})

\* Mutant of PutCNAME: a delegation at the name is replaced too.
PutCNAMEAll ==
    /\ Case({"CNAME"})
    /\ Change({r \in work : r.name = Entry.name}, {Record(Entry)})

PutCNAME ==
    /\ Case({"CNAME"})
    /\ Change({r \in work : r.name = Entry.name /\ r.type # "NS"}, {Record(Entry)})

\* Mutant of PutAddress: an alias at the name is not replaced.
PutAddressBesideCNAME ==
    /\ Case(Addresses)
    /\ Change(At(Entry.name, Addresses \cup {"NS"}), {Record(Entry)})

PutAddress ==
    /\ Case(Addresses)
    /\ Change(At(Entry.name, Addresses \cup {"CNAME", "NS"}), {Record(Entry)})

\* What each txtConflictMatchingMode deletes; other modes delete nothing.
TXTConflicts(e) ==
    CASE e.mode = "" -> At(e.name, {"CNAME"})
      [] e.mode = "All" -> At(e.name, {"TXT"})
      [] e.mode = "Prefix" -> {r \in At(e.name, {"TXT"}) : HasPrefix(r.content, e.prefix)}
      [] OTHER -> {}

\* Unless a record with the same content is left in the zone.
Missing(e, dels) ==
    IF \E r \in work : /\ r.type = e.type /\ r.name = e.name
                       /\ r.content = e.content
                       /\ Key(r) \notin Keys(dels)
      THEN {} ELSE {Record(e)}

PutTXT ==
    /\ Case({"TXT"})
    /\ Change(TXTConflicts(Entry), Missing(Entry, TXTConflicts(Entry)))

PutMX ==
    /\ Case({"MX"})
    /\ Change(At(Entry.name, {"MX"}), {Record(Entry)})

\* A delegation replaces everything at and below the name, and the original NS
\* records of the name itself.
PutNS ==
    /\ Case({"NS"})
    /\ Change({r \in work :
                IF r.type = "NS" THEN r.name = Entry.name /\ Original(r)
                                 ELSE r.name = Entry.name \/ isChildOf(r.name, Entry.name)},
              {Record(Entry)})

PutSRV ==
    /\ Case({"SRV"})
    /\ Change({r \in At(Entry.name, {"SRV"}) : Original(r)}, {Record(Entry)})

PutRedirect ==
    /\ Case(Redirects)
    /\ Change(At(Entry.name, Addresses \cup Redirects \cup {"CNAME"}), {Record(Entry)})

PutApexCNAME ==
    /\ Case({"APEXCNAME"})
    /\ Change({r \in work : r.name = <<>> /\ r.type # "NS"}, {Record(Entry)})

PutCustom ==
    /\ pc = "run" /\ next <= Len(resolved)
    /\ ~Entry.backing /\ Entry.type \notin Core
    /\ Change({}, Missing(Entry, {}))

-----------------------------------------------------------------------------
\* No candidate has the type and name of an added record.
Restored ==
    IF \E c \in essentialAlways, a \in toAdd : c.type = a.type /\ c.name = a.name
      THEN {} ELSE essentialAlways

\* "essential" of the first entry with this key, "Always" by default.
EssentialOf(a) ==
    LET same == {i \in DOMAIN resolved : Key(resolved[i]) = Key(a)}
    IN IF same = {} THEN "Always"
       ELSE LET e == resolved[CHOOSE i \in same : \A j \in same : i <= j].essential
            IN IF e = "" THEN "Always" ELSE e

\* The _dc metadata of added records.
Stamp(a) ==
    IF req.multi = "none" THEN a
    ELSE [a EXCEPT !.dc = [provider |-> req.provider, service |-> req.service,
                           id |-> req.id, essential |-> EssentialOf(a)]]

\* Mutant of Applied: additions first, so that deletions hit them.
AppliedAddFirst(dels, adds) ==
    {r \in zone \cup adds : Key(r) \notin Keys(dels)}

\* What the caller does with a result (buildFinalZone): delete, then add.
Applied(dels, adds) == {r \in zone : Key(r) \notin Keys(dels)} \cup adds

Return ==
    /\ pc = "run" /\ next > Len(resolved)
    /\ pc' = "idle"
    /\ zone' = Applied(toDelete \ Restored, {Stamp(a) : a \in toAdd})
    /\ before' = [zone |-> zone, ok |-> TRUE, req |-> req]
    /\ work' = {} /\ toAdd' = {} /\ toDelete' = {} /\ essentialAlways' = {}
    /\ UNCHANGED <<plan, req, resolved, next>>

Next ==
    \/ Start \/ Reject \/ Return
    \/ AddBacking \/ MergeSPFM \/ PutCNAME \/ PutAddress \/ PutTXT \/ PutMX
    \/ PutNS \/ PutSRV \/ PutRedirect \/ PutApexCNAME \/ PutCustom

Spec == Init /\ [][Next]_vars

-----------------------------------------------------------------------------
\* Type invariant.
TypeOK ==
    /\ zone \subseteq Records
    /\ work \subseteq Records
    /\ toDelete \subseteq Records
    /\ essentialAlways \subseteq zone
    /\ toAdd \subseteq {r \in Records : r.dc = Free}
    /\ pc \in {"idle", "run"}
    /\ next \in 1 .. Len(resolved) + 1
    /\ before.zone \subseteq Records

\* The last call returned a result, which the caller has applied.
Done == pc = "idle" /\ before.ok

ResolvedEntries == Range(resolved)

\* Words that are found at the version of an SPF record and what follows it.
SpansVersion(words) ==
    Len(words) > 1 /\ (Head(words) = "v=spf1" \/ <<Head(words), "v=spf1">> \in Tails)

\* Entry f may have been found in the working copy and therefore not added, and
\* the later entry e deletes it there.
Overlaps(e, f) ==
    /\ f.type \in {"TXT", "SPFM"} \/ f.type \notin Core
    /\ \/ e.type = "APEXCNAME" /\ f.name = <<>>
       \/ /\ e.name = f.name
          /\ f.type \in {"TXT", "SPFM"}
          /\ \/ e.type \in {"CNAME", "NS"}
             \/ e.type = "TXT" /\ e.mode \in {"All", "Prefix"}
             \/ e.type = "SPFM" /\ SpansVersion(f.content)

Overlap == \E i, j \in DOMAIN resolved : i < j /\ Overlaps(resolved[j], resolved[i])

\* Record r is what entry e asks for.
Serves(r, e) ==
    /\ r.name = e.name
    /\ IF e.type = "SPFM" THEN IsSPF(r) /\ ContainsText(r.content, e.content)
                          ELSE r.type = e.type /\ r.content = e.content

\* After a successful call every record of the template is in the zone, and the
\* rules of an SPFM record are in the text of an SPF record, be it as part of
\* another mechanism (strings.Contains, process.go:1060), whatever the entries
\* deleted of each other in the working copy (process.go:555-749); unless a TXT or
\* custom record was found present and a later entry deletes it.
Installed ==
    Done /\ ~Overlap /\ NoTwins(before.zone) =>
        \A e \in ResolvedEntries : \E r \in zone : Serves(r, e)

\* What an entry may delete: records at its name, and below it for NS; TXT only
\* by an alias, a delegation or TXT, and NS only by an address or NS.
MayDelete(e, r) ==
    /\ r.name = e.name \/ (e.type = "NS" /\ isChildOf(r.name, e.name))
    /\ r.type = "NS" => e.type \in Addresses \cup {"NS"} /\ r.name = e.name
    /\ r.type = "TXT" => e.type \in {"CNAME", "APEXCNAME", "TXT", "SPFM", "NS"}
    /\ r.type = "MX" => e.type \in {"CNAME", "APEXCNAME", "MX", "NS"}

\* A record that is not the caller's own, or equal to one that is, and that no
\* entry may delete survives the call, over all orders of entries and sequences
\* of calls.
Spared ==
    Done => \A r \in before.zone :
        \/ r \in zone
        \/ \E o \in before.zone : Owned(req, o) /\ Key(o) = Key(r)
        \/ \E e \in ResolvedEntries : MayDelete(e, r)

\* After a multi-aware call nothing of an older application is left: of the
\* service itself (or, with multi-instance, of the same instance) only records
\* of this template, and of the provider's other services only records marked
\* Always, none of which has the type and name of a record of this template that
\* was added (process.go:510-543, 752-778).
ServiceReplaced ==
    Done /\ req.multi # "none" =>
        \A r \in zone : r.dc # Free /\ r.dc.provider = req.provider =>
            IF r.dc.service = req.service /\ (req.multi = "instance" => r.dc.id = req.id)
              THEN /\ r.dc.id = req.id
                   /\ \E e \in ResolvedEntries :
                        /\ e.name = r.name
                        /\ r.type = (IF e.type = "SPFM" THEN "TXT" ELSE e.type)
              ELSE req.multi = "aware" =>
                   /\ r.dc.essential = "Always"
                   /\ r \in before.zone
                   /\ \A a \in zone \ before.zone : a.type # r.type \/ a.name # r.name

\* No name has an alias beside addresses or another alias (process.go:576-609, 710),
\* except that a record of another service of the same provider is restored
\* beside an alias.  MX, SRV and custom records, merged SPF records and TXT with a
\* conflict mode are put beside an alias that is there, without a word
\* (process.go:567, 623-640, 656-667, 693-708, 736-748).
AliasAlone ==
    pc = "idle" => \A r, s \in zone :
        Aliasing(r, s) => /\ r.dc # Free /\ s.dc # Free
                          /\ r.dc.provider = s.dc.provider /\ r.dc.service # s.dc.service

\* Where a call puts an alias it leaves nothing of what was there, of any type,
\* but delegations, what the template asks for itself, and records of the
\* caller's that were restored.
AliasReplaces ==
    Done => \A e \in ResolvedEntries, r \in zone :
        e.type \in {"CNAME", "APEXCNAME"} /\ r.name = e.name =>
            \/ r.type = "NS"
            \/ \E f \in ResolvedEntries : Serves(r, f)
            \/ \E o \in before.zone : Owned(req, o) /\ Key(o) = Key(r)

\* The zone had two SPF records at name n, of which one may have become equal to
\* the other when it was merged.
TwoSPF(z, n) == \E r, s \in z : r # s /\ r.name = n /\ s.name = n /\ IsSPF(r) /\ IsSPF(s)

\* No call adds a record equal to one that it leaves (recordKey, process.go:1211),
\* nor is the zone left with two records that differ only in their metadata.
Distinct ==
    /\ pc = "run" => \A a \in toAdd, r \in zone :
          Key(a) = Key(r) /\ Key(r) \notin Keys(toDelete) => IsSPF(r) /\ TwoSPF(zone, r.name)
    /\ pc = "idle" => \A r, s \in zone :
          Key(r) = Key(s) => r = s \/ (IsSPF(r) /\ TwoSPF(before.zone, r.name))

Merges == {i \in DOMAIN resolved : resolved[i].type = "SPFM"}

\* SPFM entries and the others of their names keep apart: no TXT entry spells out
\* an SPF record or deletes by more than the version of one, and no two are SPFM.
\* A multi-aware call would delete the merged record as its own.
MergesApart ==
    /\ req.multi # "none" => Merges = {}
    /\ \A i \in Merges, j \in DOMAIN resolved :
          resolved[i].name = resolved[j].name =>
             /\ resolved[j].type = "SPFM" => i = j
             /\ resolved[j].type = "TXT" =>
                   /\ ~SpellsSPF(resolved[j].content)
                   /\ resolved[j].mode = "Prefix" => ~SpellsSPF(resolved[j].prefix)

\* What a repeated call needs of the template and of the zone z it was first
\* applied to: no entry deletes what another found present, SPFM entries keep
\* apart, and there is one SPF record to merge with and one copy of a record.
Repeatable(z) ==
    /\ ~Overlap
    /\ MergesApart
    /\ \A i \in Merges : ~TwoSPF(z, resolved[i].name)
    /\ req.multi # "none" => NoTwins(z)

\* Calling ProcessRecords again with the same options and the same id changes
\* nothing: the entries delete and add the same records.  A multi-aware call that
\* leaves the id to the code is another call each time (process.go:499-505).
Idempotent ==
    [][/\ pc = "run" /\ pc' = "idle"
       /\ before.ok /\ before.req = req
       /\ Repeatable(before.zone)
       => zone' = zone]_vars

\* The state invariants of a zone that templates are applied to: well formed, no
\* alias beside addresses or another alias, nothing left over where an alias is
\* put, and no record there twice.
ZoneSafe == TypeOK /\ AliasAlone /\ AliasReplaces /\ Distinct
=============================================================================
