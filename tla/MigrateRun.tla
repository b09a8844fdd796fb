----------------------------- MODULE MigrateRun -----------------------------
(***************************************************************************)
(* migrate.Migrate (migrate/migrate.go), the one-call migration behind     *)
(* `entree migrate`, `entree zone import` and POST /v1/migrate: phase A     *)
(* reads the source zone and ensures the target zone; phase B pushes the    *)
(* records one by one and then polls the target's nameservers until every   *)
(* record has answered, the deadline has passed or the context is done.     *)
(* The caller may run it again after an error or a dry run.                 *)
(*                                                                         *)
(* The target's nameservers serve its zone, or do not answer yet, or are    *)
(* behind and serve what it held before.  Names of records are with a type. *)
(***************************************************************************)
EXTENDS ProviderZone

CONSTANTS
    Names,       \* names that records are at
    Starts,      \* what the names may hold before the first run
    Sources,     \* the source zones: sequences of records [name, val]
    MaxRecords,  \* the most records of one of them
    MaxRuns,     \* bound on the runs
    Faults       \* what may go wrong: a subset of FaultKinds

\* source, ensure, set: the call is refused.  lost: the zone is created or the
\* record set and the caller sees an error.  cancel: the context is done.
FaultKinds == {"source", "ensure", "set", "lost", "cancel"}

ASSUME RunAssumption ==
    /\ MaxRecords \in Nat /\ MaxRuns \in Nat \ {0}
    /\ Sources \subseteq UNION {[1..k -> [name : Names, val : Vals]] : k \in 0..MaxRecords}
    /\ Starts \subseteq [Names -> Seq(Vals)]
    /\ Faults \subseteq FaultKinds

VARIABLES
    provider,  \* the target
    lower,     \* the domain is given as providers store it, in lower case
    lag,       \* the target's nameservers may be behind
    src,       \* the records of the source zone
    odd,       \* records of a type that verification cannot query
    ns,        \* does EnsureZone return nameservers?
    zones,     \* zones the target has for the domain
    target,    \* target[k]: the values at k, in API order
    past,      \* past[k]: the sets of values that k held before
    apply,     \* opts.Apply
    runs,      \* the number of this run
    pc,        \* the next call
    live,      \* the context is not done
    late,      \* the verify deadline has passed
    next,      \* the record the apply loop is at
    accepted,  \* applied: records SetRecord accepted
    todo,      \* pending records this round has not queried yet
    still,     \* records this round had no answer for
    found,     \* finalResults: the statuses it holds for each record
    results,   \* report.Results, likewise
    errors     \* report.Errors is not empty

vars == <<provider, lower, lag, src, odd, ns, zones, target, past, apply, runs, pc, live, late, next,
          accepted, todo, still, found, results, errors>>
settings == <<provider, lower, lag, src, odd, ns, apply, runs>>
records == <<target, past>>
verifyVars == <<todo, still, found>>

n == Len(src)
Statuses == {"matched", "mismatch", "not_yet_propagated", "apply_failed"}
Records == 1..MaxRecords
NoResults == [i \in Records |-> <<>>]
Returns == {"failed early", "dry run", "limiter", "cancelled", "finished"}

TypeOK ==
    /\ provider \in Providers /\ src \in Sources /\ odd \subseteq 1..n
    /\ apply \in BOOLEAN /\ ns \in BOOLEAN
    /\ lower \in BOOLEAN /\ lag \in BOOLEAN
    /\ zones \in Nat /\ runs \in 1..MaxRuns
    /\ \A k \in Names : Members(target[k]) \subseteq Vals
    /\ zones = 0 => \A k \in Names : target[k] = <<>>
    /\ past \in [Names -> SUBSET SUBSET Vals]
    /\ pc \in {"source", "ensure", "create", "wait", "set", "verify", "sleep"} \cup Returns
    /\ live \in BOOLEAN /\ late \in BOOLEAN /\ errors \in BOOLEAN
    /\ next \in 1..n + 1
    /\ pc = "set" => next <= n
    /\ accepted \subseteq 1..n /\ todo \subseteq 1..n /\ still \subseteq 1..n
    /\ found \in [Records -> Seq(Statuses)]
    /\ results \in [Records -> Seq(Statuses)]

Init ==
    /\ provider \in Providers /\ src \in Sources
    /\ odd \in {{}} \cup {{i} : i \in 1..n}
    /\ apply \in BOOLEAN /\ ns \in BOOLEAN /\ lower \in BOOLEAN /\ lag \in BOOLEAN
    /\ zones \in 0..1
    /\ target \in {[k \in Names |-> <<>>]} \cup (IF zones = 1 THEN Starts ELSE {})
    /\ past = [k \in Names |-> {}]
    /\ runs = 1
    /\ pc = "source"
    /\ live = TRUE /\ late = FALSE /\ errors = FALSE
    /\ next = 1
    /\ accepted = {} /\ todo = {} /\ still = {}
    /\ found = NoResults /\ results = NoResults

-----------------------------------------------------------------------------
(* Phase A.                                                                 *)

FailEarly == pc' = "failed early" /\ errors' = TRUE

\* PreloadedZone, ImportBINDFile or ScrapeZone.
AcquireZone ==
    /\ pc = "source"
    /\ \/ pc' = "ensure" /\ UNCHANGED errors
       \/ "source" \in Faults /\ FailEarly
    /\ UNCHANGED <<settings, zones, records, live, late, next, accepted, verifyVars, results>>

\* Mutant of Ensured: a dry run goes on.
EnsuredApplies == pc' = "wait" /\ UNCHANGED errors

\* The zone is there; a dry run returns.
Ensured == pc' = (IF apply THEN "wait" ELSE "dry run") /\ UNCHANGED errors

\* Adapters: Cloudflare, Route 53 and Cloud DNS have one that can create zones,
\* GoDaddy one that cannot, Namecheap none.
Creates == provider \in {"cloudflare", "route53", "gcdns"}
HasAdapter == provider # "namecheap"

\* The search found no zone: GoDaddy's adapter cannot create one.
Missing == IF Creates THEN pc' = "create" /\ UNCHANGED errors ELSE FailEarly

\* Route 53 and Cloud DNS: the adapter compares the names it lists with the
\* domain as given, and so does the provider before each write.
Misspelled == ~lower /\ provider \in {"route53", "gcdns"}

\* Does the search find the zone?  Cloudflare's adapter compares likewise;
\* GoDaddy's asks for the domain, whatever its case.
Finds == zones > 0 /\ (lower \/ provider = "godaddy")

\* Mutant of ListZones: names are compared with the final dot, none matches.
ListZonesWithDot ==
    /\ pc = "ensure"
    /\ (live /\ HasAdapter /\ Missing) \/ FailEarly
    /\ UNCHANGED <<settings, zones, records, live, late, next, accepted, verifyVars, results>>

\* GetAdapter, and EnsureZone's search for a zone of this name.
ListZones ==
    /\ pc = "ensure"
    /\ \/ ~HasAdapter /\ FailEarly
       \/ live /\ HasAdapter /\ Finds /\ Ensured
       \/ live /\ HasAdapter /\ ~Finds /\ Missing
       \/ HasAdapter /\ (~live \/ "ensure" \in Faults) /\ FailEarly
    /\ UNCHANGED <<settings, zones, records, live, late, next, accepted, verifyVars, results>>

\* Cloudflare has one zone of a name; Route 53 and Cloud DNS take another.
Creatable == zones = 0 \/ provider # "cloudflare"

\* EnsureZone creates the zone: in a dry run too.
CreateZone ==
    /\ pc = "create"
    /\ \/ Creatable /\ live /\ zones' = zones + 1 /\ Ensured
       \/ Creatable /\ "lost" \in Faults /\ zones' = zones + 1 /\ FailEarly
       \/ (~Creatable \/ ~live \/ "ensure" \in Faults) /\ FailEarly /\ UNCHANGED zones
    /\ UNCHANGED <<settings, records, live, late, next, accepted, verifyVars, results>>

-----------------------------------------------------------------------------
(* Phase B: apply.                                                          *)

\* limiter.Wait, at the head of the loop over zone.Records.  Its error ends the
\* migration: the records applied so far are not reported.
WaitTurn ==
    /\ pc = "wait"
    /\ next <= n
    /\ \/ /\ live
          /\ pc' = "set"
          /\ UNCHANGED errors
       \/ /\ ~live \/ "cancel" \in Faults
          /\ pc' = "limiter"
          /\ errors' = TRUE
    /\ UNCHANGED <<settings, zones, records, live, late, next, accepted, verifyVars, results>>

\* What the provider keeps of a value.
Kept(v) == Stored(provider, IF "pref" \in DOMAIN v THEN "MX" ELSE "TXT", v)

\* What the record at `next` makes of the values at its name.
SetValue(s, v) ==
    CASE provider = "cloudflare" -> CloudflareSet(s, s, v)
      [] provider \in {"route53", "gcdns"} -> RRSetSet(v)
      [] OTHER -> MergeGoDaddyRecords(s, v)

\* The value is written to the name.
Performed ==
    LET k == src[next].name IN
    /\ target' = [target EXCEPT ![k] = SetValue(@, Kept(src[next].val))]
    /\ past' = [past EXCEPT ![k] = @ \cup {Members(target[k])}]

\* Mutant of SetRecord: a failed record is verified too.
SetRecordForgets ==
    /\ pc = "set"
    /\ accepted' = accepted \cup {next}
    /\ \/ ~Misspelled /\ Performed /\ UNCHANGED <<errors, results>>
       \/ /\ Misspelled \/ "set" \in Faults
          /\ results' = [results EXCEPT ![next] = Append(@, "apply_failed")]
          /\ errors' = TRUE
          /\ UNCHANGED records
    /\ next' = next + 1
    /\ pc' = "wait"
    /\ UNCHANGED <<settings, zones, live, late, verifyVars>>

\* The provider's SetRecord: a refused record is reported and the loop goes on.
\* Without a zone of the name as given there is nothing it could write to.
SetRecord ==
    /\ pc = "set"
    /\ \/ /\ live /\ ~Misspelled
          /\ Performed
          /\ accepted' = accepted \cup {next}
          /\ UNCHANGED <<errors, results>>
       \/ /\ ~live \/ Misspelled \/ {"set", "lost"} \cap Faults # {}
          /\ results' = [results EXCEPT ![next] = Append(@, "apply_failed")]
          /\ errors' = TRUE
          /\ ("lost" \in Faults /\ ~Misspelled /\ Performed) \/ UNCHANGED records
          /\ UNCHANGED accepted
    /\ next' = next + 1
    /\ pc' = "wait"
    /\ UNCHANGED <<settings, zones, live, late, verifyVars>>

\* The apply loop has ended: the deadline is set and the first round begins.
BeginVerify ==
    /\ pc = "wait"
    /\ next > n
    /\ pc' = "verify"
    /\ todo' = accepted
    /\ late' = FALSE
    /\ UNCHANGED <<settings, zones, records, live, next, accepted, still, found, results, errors>>

-----------------------------------------------------------------------------
(* Phase B: verify.                                                         *)

\* Mutant of Findings: any answer is taken for a match.
FindingsLenient(i) == IF ns /\ live THEN {"none", "matched"} ELSE {"none"}

\* verifyRecordAgainstNS: a type that cannot be queried is a mismatch; otherwise
\* no nameserver answers, or one of those that do has the value among those of the
\* name as it sees it, or none has.
Findings(i) ==
    LET k == src[i].name
        views == ({Members(target[k])} \cup (IF lag THEN past[k] ELSE {})) \ {{}}
    IN  CASE i \in odd -> {"mismatch"}
          [] i \notin odd /\ ns /\ live ->
                {"none"} \cup {IF src[i].val \in view THEN "matched" ELSE "mismatch" : view \in views}
          [] OTHER -> {"none"}

Query ==
    /\ pc = "verify"
    /\ \E i \in todo :
        /\ \A j \in todo : i <= j
        /\ todo' = todo \ {i}
        /\ \E finding \in Findings(i) :
              IF finding = "none"
              THEN still' = still \cup {i} /\ UNCHANGED found
              ELSE found' = [found EXCEPT ![i] = Append(@, finding)] /\ UNCHANGED still
    /\ UNCHANGED <<settings, zones, records, pc, live, late, next, accepted, results, errors>>

\* report.Results with finalResults, and not_yet_propagated for the records of S.
Report(S) ==
    [i \in Records |-> results[i] \o found[i] \o
                          (IF i \in S THEN <<"not_yet_propagated">> ELSE <<>>)]

Some(res, statuses) ==
    \E i \in Records : \E k \in 1..Len(res[i]) : res[i][k] \in statuses

\* Mutant of EndRound: the deadline is not looked at.
EndRoundNoDeadline ==
    /\ pc = "verify"
    /\ todo = {}
    /\ pc' = IF still = {} THEN "finished" ELSE "sleep"
    /\ results' = IF still = {} THEN Report({}) ELSE results
    /\ errors' = (errors \/ (still = {} /\ Some(found, {"mismatch"})))
    /\ UNCHANGED <<settings, zones, records, live, late, next, accepted, todo, still, found>>

\* The end of a round: all records answered, or the deadline passed, or sleep.
EndRound ==
    /\ pc = "verify"
    /\ todo = {}
    /\ \/ /\ still = {} \/ late
          /\ results' = Report(still)
          /\ errors' = (errors \/ Some(found, {"mismatch"}))
          /\ pc' = "finished"
       \/ /\ still # {} /\ ~late
          /\ pc' = "sleep"
          /\ UNCHANGED <<results, errors>>
    /\ UNCHANGED <<settings, zones, records, live, late, next, accepted, verifyVars>>

\* The select: the two-second timer, or a done context.  A cancelled run
\* reports what it has, without turning mismatches into errors.
Wake ==
    /\ pc = "sleep"
    /\ \/ /\ pc' = "verify"
          /\ todo' = still
          /\ still' = {}
          /\ UNCHANGED <<results, errors>>
       \/ /\ ~live
          /\ results' = Report(still)
          /\ errors' = TRUE
          /\ pc' = "cancelled"
          /\ UNCHANGED <<todo, still>>
    /\ UNCHANGED <<settings, zones, records, live, late, next, accepted, found>>

-----------------------------------------------------------------------------
Returned == pc \in Returns

\* The context is cancelled or its deadline passes.
Cancel ==
    /\ "cancel" \in Faults
    /\ live /\ ~Returned
    /\ live' = FALSE
    /\ UNCHANGED <<settings, zones, records, pc, late, next, accepted, verifyVars, results, errors>>

\* VerifyTimeout passes.
Deadline ==
    /\ pc \in {"verify", "sleep"}
    /\ ~late
    /\ late' = TRUE
    /\ UNCHANGED <<settings, zones, records, pc, live, next, accepted, verifyVars, results, errors>>

\* The caller runs it again: after an error, or for real after a dry run.
RunAgain ==
    /\ Returned /\ (errors \/ ~apply)
    /\ runs < MaxRuns
    /\ runs' = runs + 1
    /\ apply' \in {apply, TRUE}
    /\ pc' = "source"
    /\ live' = TRUE /\ late' = FALSE /\ errors' = FALSE
    /\ next' = 1
    /\ accepted' = {} /\ todo' = {} /\ still' = {}
    /\ found' = NoResults /\ results' = NoResults
    /\ UNCHANGED <<provider, lower, lag, src, odd, ns, zones, records>>

Step ==
    \/ AcquireZone \/ ListZones \/ CreateZone \/ WaitTurn \/ SetRecord \/ BeginVerify
    \/ Query \/ EndRound \/ Wake

Next == Step \/ Cancel \/ Deadline \/ RunAgain

Spec == Init /\ [][Next]_vars

\* The run keeps going and time passes.
FairSpec == Spec /\ WF_vars(Step) /\ WF_vars(Deadline)

-----------------------------------------------------------------------------
(* Properties.                                                              *)

\* A run that reached verification reports every record of the source zone
\* exactly once, however many rounds it took and wherever it was cancelled.
OneResultEach ==
    pc \in {"finished", "cancelled"} => \A i \in 1..n : Len(results[i]) = 1

\* The error is nil only if every record was reported and none of them failed
\* or mismatched, whichever way the run returned, and a run that finished has an
\* error only if one did (migrate.go: "error is non-nil when apply errors or
\* mismatches occurred").
ErrorMeansBadRecord ==
    LET bad == Some(results, {"apply_failed", "mismatch"}) IN
    /\ Returned /\ bad => errors
    /\ Returned /\ apply /\ ~errors => \A i \in 1..n : Len(results[i]) = 1
    /\ pc = "finished" /\ errors => bad

\* What is reported of a record is true of the target zone at the end: of several
\* values at one name, those that a later SetRecord replaced are mismatches.  Where
\* nameservers are behind, a record is still called matched wrongly only if the run
\* itself has replaced it, or has written it without its priority.
MatchedIsServed ==
    pc \in {"finished", "cancelled"} =>
        \A i \in 1..n :
            LET served == src[i].val \in Members(target[src[i].name]) IN
            /\ results[i] = <<"matched">> =>
                  \/ served
                  \/ lag /\ \E j \in i..n : src[j].name = src[i].name /\ Kept(src[j].val) # src[i].val
            /\ results[i] = <<"mismatch">> => lag \/ i \in odd \/ ~served

\* Runs that follow one another, after errors and lost answers too, create one
\* zone at most.  Only a domain spelled with capitals gets more, at Route 53 and
\* Cloud DNS; no run with that spelling writes a record to any of them.
OneZone == (zones > 1 => Misspelled) /\ (Misspelled => accepted = {})

\* A dry run changes no record at the target (it may create the zone).
DryRunSpares == [][~apply => target' = target]_vars

\* Every run returns.
Terminates == pc = "source" ~> Returned

\* The report of a run: well formed, complete, and with an error exactly if a
\* record failed or mismatched.
ReportExact == TypeOK /\ OneResultEach /\ ErrorMeansBadRecord
=============================================================================
