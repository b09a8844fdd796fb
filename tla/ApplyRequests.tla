---------------------------- MODULE ApplyRequests ----------------------------
(***************************************************************************)
(* A request to apply records or a template to a zone: POST /v1/apply and  *)
(* POST /v1/apply/template (api/handlers_core.go), `entree apply` with     *)
(* --record or --template (cmd/entree), and template.ApplyTemplate         *)
(* (template/apply.go), which deletes conflicting TXT records before it    *)
(* pushes.  The provider's API may fail at every call, which also stands   *)
(* for a context that is done.  The caller may follow a dry run by the     *)
(* real one; a repeated request is a request to another zone.              *)
(*                                                                         *)
(* One request runs at a time: PushService interleaves them.  A record is  *)
(* [type, val, mode, fq].  Its type gives its key, the name and type where *)
(* it belongs: TXT and SPFM records are at the apex, the others elsewhere. *)
(* "invalid" is a record that does not resolve or parse, "unknown" one of  *)
(* a type nobody supports.  mode is the conflict mode; a Prefix mode is    *)
(* given by the kind of value that has the prefix.  fq says whether the    *)
(* host is written as the fully qualified name that GetRecords reports.    *)
(* A records stand for those that are their content: AAAA and NS too, and  *)
(* SRV, whose other fields no provider sends and no push compares.         *)
(***************************************************************************)
EXTENDS ProviderZone

CONSTANTS
    Records,    \* the records that requests are made of
    MaxRecords, \* the most records in a request
    Zones,      \* the zones to start from
    Faults      \* the calls that may fail: a subset of FaultKinds

\* get, delete, write: the call is refused.  read: GoDaddy's read before a
\* write is refused.  lost: a delete or write is performed, the caller sees an
\* error.
FaultKinds == {"get", "delete", "read", "write", "lost"}

Types == {"TXT", "SPFM", "CNAME", "MX", "A", "unknown", "invalid"}
Modes == {"None", "Exact", "All", "PrefixSPF", "PrefixText"}

Keys == {"apex", "alias", "mail", "addr"}
TypeAt(k) == CASE k = "apex" -> "TXT" [] k = "alias" -> "CNAME" [] k = "mail" -> "MX" [] OTHER -> "A"

ASSUME ApplyAssumption ==
    /\ Records \subseteq [type : Types, val : Vals, mode : Modes, fq : BOOLEAN]
    /\ MaxRecords \in Nat
    /\ Faults \subseteq FaultKinds
    /\ \A rec \in Records : rec.val \in IF rec.type = "SPFM" THEN SPFVals ELSE ValsOf(rec.type)
    /\ Zones \subseteq [Keys -> Seq(Vals)]
    /\ \A z \in Zones : \A k \in Keys : z[k] \in StartSeqs(ValsOf(TypeAt(k)), 2)

VARIABLES
    provider,
    page,     \* the keys on the first page of the zone, all that GetRecords reads
    zone,     \* zone[k]: the records at key k, in API order
    req,      \* the request: its kind, and whether this is a dry run
    asked,    \* its records, as they were submitted
    plan,     \* those the run works on: the same until they have resolved
    pc,       \* where the run is
    i,        \* the record it is at
    todo,     \* the records still to look at, from the next conflict on
    again,    \* this list has had a delete already
    prev,     \* the record there was, PushResult.PreviousValue
    results,  \* PushResult.Status of the records so far
    diffs,    \* the actions the dry run announced
    outcome   \* how the run ended

request == <<provider, page, req, asked, plan>>
vars == <<provider, page, zone, req, asked, plan, pc, i, todo, again, prev, results, diffs, outcome>>

Key(rec) ==
    CASE rec.type = "CNAME" -> "alias" [] rec.type = "MX" -> "mail" [] rec.type = "A" -> "addr"
      [] OTHER -> "apex"
Requests == [kind : {"api_records", "cli_records", "template"}, dry : BOOLEAN]
Statuses == {"created", "updated", "already_configured", "failed"}
Actions == {"CREATE", "UPDATE", "SKIP"}

TypeOK ==
    /\ provider \in Providers
    /\ page \subseteq Keys
    /\ \A k \in Keys : Members(zone[k]) \subseteq Vals
    /\ req \in Requests
    /\ Members(asked) \subseteq Records /\ Members(plan) \subseteq Records
    /\ pc \in {"idle", "done", "checks", "diff", "conflicts", "delete", "get", "set"}
    /\ pc \in {"diff", "conflicts", "delete", "get", "set"} => i \in 1..Len(plan)
    /\ pc = "delete" => todo # <<>>
    /\ Members(todo) \subseteq Vals
    /\ again \in BOOLEAN
    /\ prev \in Vals \cup {NoVal}
    /\ Members(results) \subseteq Statuses
    /\ Members(diffs) \subseteq Actions
    /\ outcome \in {"none", "refused", "ok", "error"}

-----------------------------------------------------------------------------
(* Names and values.                                                        *)

Listed(k) == GetRecordsOf(provider, zone[k], k \in page)

\* A relative host is not the name of any record GetRecords returns.
Visible(rec) == IF rec.fq THEN Listed(Key(rec)) ELSE <<>>

\* SPFM data without an include target.
NoInclude(rec) == rec.val.includes = {}

Existing(rec) == IF rec.type = "SPFM" THEN CurrentSPF(Listed("apex")) ELSE FindRecord(Visible(rec))
Wanted(rec) == IF rec.type = "SPFM" THEN MergedSPF(Listed("apex"), rec.val.includes) ELSE rec.val

\* The push methods return early.
AlreadyThere(rec) ==
    Existing(rec) # NoVal /\ SameRecord(rec.type, Existing(rec), Wanted(rec))

\* applyConflicts: the existing record v matches the record's conflict mode.
Matches(rec, v) ==
    CASE rec.mode = "PrefixSPF" -> v.spf
      [] rec.mode = "PrefixText" -> ~v.spf
      [] rec.mode = "Exact" -> v = rec.val
      [] rec.mode = "All" -> TRUE

\* Mutant of FromConflict: every record at the name is taken for a conflict.
FromAnyRecord(rec, s) == s

\* The loop over the listing s goes on to the next record that matches.
FromConflict(rec, s) ==
    LET hits == {n \in 1..Len(s) : Matches(rec, s[n])}
    IN  IF hits = {} THEN <<>> ELSE SubSeq(s, CHOOSE n \in hits : \A m \in hits : n <= m, Len(s))

\* The name that SetRecord puts in its API calls.  PushSPFRecord takes the
\* domain for it; GoDaddy and Namecheap use relative names and turn the others
\* into them (normalizeGoDaddyName, hostNameFor).
Addresses(rec) == rec.fq \/ rec.type = "SPFM" \/ provider \in {"godaddy", "namecheap"}

\* SetRecord.  With a host that is not fully qualified, Cloudflare's listing
\* finds nothing and the service creates one more record, if that is not there;
\* Route 53 and Cloud DNS refuse a name outside the zone.
SetOutcomes(rec, v) ==
    LET s == zone[Key(rec)] IN
    CASE provider = "cloudflare" ->
            IF Addresses(rec) THEN {Outcome(TRUE, CloudflareSet(s, s, v))}
            ELSE {IF v \in Members(s) THEN Outcome(FALSE, s) ELSE Outcome(TRUE, CloudflareSet(s, <<>>, v))}
      [] provider \in {"route53", "gcdns"} ->
            {IF Addresses(rec) THEN Outcome(TRUE, RRSetSet(v)) ELSE Outcome(FALSE, s)}
      [] provider = "godaddy" ->
            {Outcome(TRUE, MergeGoDaddyRecords(seen, v)) :
                seen \in {s} \cup (IF "read" \in Faults THEN {<<>>} ELSE {})}
      [] provider = "namecheap" ->
            {Outcome(TRUE, ReplaceFirst(s, v))}

\* What the fault model makes of a call that would end in one of `outs`.
Faulty(outs, refusal, s) ==
    outs \cup (IF refusal \in Faults THEN {Outcome(FALSE, s)} ELSE {})
         \cup (IF "lost" \in Faults THEN {Outcome(FALSE, o.left) : o \in outs} ELSE {})

-----------------------------------------------------------------------------
(* The request.                                                             *)

Init ==
    /\ provider \in Providers
    /\ page \in IF provider \in {"route53", "gcdns"} THEN {Keys, Keys \ {"apex"}} ELSE {Keys}
    /\ zone \in Zones
    /\ provider # "namecheap" =>
          \A v \in Members(zone["mail"]) : v = Stored(provider, "MX", v)
    /\ req = [kind |-> "template", dry |-> FALSE]
    /\ asked = <<>>
    /\ plan = <<>>
    /\ pc = "idle"
    /\ i = 1
    /\ todo = <<>>
    /\ again = FALSE
    /\ prev = NoVal
    /\ results = <<>>
    /\ diffs = <<>>
    /\ outcome = "none"

\* What only templates have: SPFM records, conflict modes and MX priorities.
TemplateOnly(rec) ==
    rec.type = "SPFM" \/ rec.mode # "None" \/ (rec.type = "MX" /\ rec.val.pref # 0)

Plans(kind) ==
    LET recs == {rec \in Records : kind = "template" \/ ~TemplateOnly(rec)}
    IN  UNION {[1..n -> recs] : n \in 1..MaxRecords}

Start(q) ==
    /\ req' = q
    /\ pc' = "checks"
    /\ i' = 1
    /\ results' = <<>>
    /\ outcome' = "none"
    /\ UNCHANGED <<provider, page, zone, todo, again, prev, diffs>>

Submit(q, p) ==
    /\ pc = "idle"
    /\ Start(q)
    /\ asked' = p
    /\ plan' = p

\* The caller follows the dry run by the real one.
Confirm ==
    /\ pc = "done" /\ req.dry
    /\ Start([req EXCEPT !.dry = FALSE])
    /\ UNCHANGED <<asked, plan>>

Return(how) ==
    /\ pc' = "done"
    /\ outcome' = how

\* The first call made for a record.  `entree apply --record` calls SetRecord
\* for the types that have no push method of their own.
Phase(rec) ==
    CASE req.dry -> "diff"
      [] ~req.dry /\ rec.type = "TXT" /\ rec.mode # "None" -> "conflicts"
      [] ~req.dry /\ rec.type \in {"A", "MX"} /\ req.kind = "cli_records" -> "set"
      [] OTHER -> "get"

\* parseRecordSpec knows the types, the API's validators do not.
Rejects(rec) ==
    \/ rec.type = "invalid"
    \/ rec.type = "unknown" /\ req.kind = "cli_records"

\* ResolveDetailed skips unknown types.
Known(p) ==
    LET upto[n \in 0..Len(p)] ==
            IF n = 0 THEN <<>>
            ELSE IF p[n].type = "unknown" THEN upto[n-1] ELSE Append(upto[n-1], p[n])
    IN  upto[Len(p)]

Resolved(p) == IF req.kind = "template" THEN Known(p) ELSE p

\* Mutant of Checks: an invalid record only shows when it is reached.
ChecksLazily ==
    /\ pc = "checks"
    /\ plan' = Resolved(asked)
    /\ IF plan' = <<>> \/ (req.dry /\ req.kind = "template") \/ \E rec \in Members(<<plan'[1]>>) : Rejects(rec)
       THEN Return("refused")
       ELSE pc' = Phase(plan'[1]) /\ UNCHANGED outcome
    /\ UNCHANGED <<provider, page, zone, req, asked, i, todo, again, prev, results, diffs>>

\* Everything before the first call to the provider may end the request: body,
\* fields, validation, credentials, provider, template, and any record.
Refuse == Return("refused") /\ UNCHANGED plan

\* A template's dry run is done when its records have resolved.
NothingToDo(p) == p = <<>> \/ (req.dry /\ req.kind = "template")

\* All records are resolved before the first of them is looked at.
Proceed ==
    /\ \A rec \in Members(asked) : ~Rejects(rec)
    /\ plan' = Resolved(asked)
    /\ IF NothingToDo(plan') THEN Return("ok") ELSE pc' = Phase(plan'[1]) /\ UNCHANGED outcome

Checks ==
    /\ pc = "checks"
    /\ Refuse \/ Proceed
    /\ UNCHANGED <<provider, page, zone, req, asked, i, todo, again, prev, results, diffs>>

\* A dry run compares contents, letter by letter; priorities are not content.
SameContent(rec, e) == IF rec.type = "MX" THEN e.text = rec.val.text ELSE e = rec.val

\* Mutant of Announced: any record at the name that has the content will do.
AnnouncedAny(rec) ==
    CASE Visible(rec) = <<>> -> "CREATE"
      [] \E e \in Members(Visible(rec)) : SameContent(rec, e) -> "SKIP"
      [] OTHER -> "UPDATE"

\* The action a dry run announces, from the first record at the name.
Announced(rec) ==
    IF Visible(rec) = <<>> THEN "CREATE"
    ELSE IF SameContent(rec, FindRecord(Visible(rec))) THEN "SKIP" ELSE "UPDATE"

Diff ==
    /\ pc = "diff"
    /\ \/ /\ diffs' = Append(diffs, Announced(plan[i]))
          /\ i' = i + 1
          /\ IF i = Len(plan) THEN Return("ok") ELSE UNCHANGED <<pc, outcome>>
       \/ /\ "get" \in Faults
          /\ diffs' = <<>>
          /\ Return("error")
          /\ UNCHANGED i
    /\ UNCHANGED <<request, zone, todo, again, prev, results>>

-----------------------------------------------------------------------------
(* The write path, record by record.                                        *)

\* The record has its result; errors do not stop the loop.
NextRecord(status) ==
    /\ results' = Append(results, status)
    /\ i' = i + 1
    /\ todo' = <<>>
    /\ again' = FALSE
    /\ prev' = NoVal
    /\ IF i = Len(plan)
       THEN Return(IF "failed" \in Members(results') THEN "error" ELSE "ok")
       ELSE pc' = Phase(plan[i + 1]) /\ UNCHANGED outcome

\* applyConflicts lists the TXT records.
Conflicts ==
    /\ pc = "conflicts"
    /\ \/ /\ todo' = FromConflict(plan[i], Visible(plan[i]))
          /\ pc' = IF todo' = <<>> THEN "get" ELSE "delete"
          /\ UNCHANGED <<i, again, prev, results, outcome>>
       \/ /\ "get" \in Faults
          /\ NextRecord("failed")
    /\ UNCHANGED <<request, zone, diffs>>

\* Mutant of Delete: a conflict that cannot be deleted ends the record without
\* a result.
DeleteForgets ==
    /\ pc = "delete"
    /\ \E o \in Faulty(DeleteOutcomes(provider, zone["apex"], todo[1], again), "delete", zone["apex"]) :
          /\ zone' = [zone EXCEPT !["apex"] = o.left]
          /\ todo' = IF o.ok THEN FromConflict(plan[i], Tail(todo)) ELSE <<>>
          /\ again' = (todo' # <<>>)
          /\ IF o.ok
             THEN pc' = (IF todo' = <<>> THEN "get" ELSE "delete") /\ UNCHANGED <<i, outcome>>
             ELSE /\ i' = i + 1
                  /\ IF i = Len(plan) THEN Return("error")
                     ELSE pc' = Phase(plan[i + 1]) /\ UNCHANGED outcome
    /\ UNCHANGED <<request, prev, results, diffs>>

\* applyConflicts deletes the next match; the first failure ends the record,
\* which is then not pushed.
Delete ==
    /\ pc = "delete"
    /\ \E o \in Faulty(DeleteOutcomes(provider, zone["apex"], todo[1], again), "delete", zone["apex"]) :
          /\ zone' = [zone EXCEPT !["apex"] = o.left]
          /\ IF o.ok
             THEN /\ todo' = FromConflict(plan[i], Tail(todo))
                  /\ again' = (todo' # <<>>)
                  /\ pc' = IF todo' = <<>> THEN "get" ELSE "delete"
                  /\ UNCHANGED <<i, prev, results, outcome>>
             ELSE NextRecord("failed")
    /\ UNCHANGED <<request, diffs>>

\* dispatchRecord and the first half of the push: unknown types fail, an SPFM
\* record without include needs nothing, a record that is there neither.
Get ==
    /\ pc = "get"
    /\ LET rec == plan[i] IN
       \/ /\ rec.type = "unknown"
          /\ NextRecord("failed")
       \/ /\ rec.type = "SPFM" /\ NoInclude(rec)
          /\ NextRecord("already_configured")
       \/ /\ rec.type # "unknown" /\ ~(rec.type = "SPFM" /\ NoInclude(rec))
          /\ \/ /\ AlreadyThere(rec)
                /\ NextRecord("already_configured")
             \/ /\ ~AlreadyThere(rec)
                /\ prev' = Existing(rec)
                /\ pc' = "set"
                /\ UNCHANGED <<i, todo, again, results, outcome>>
             \/ /\ "get" \in Faults
                /\ NextRecord("failed")
    /\ UNCHANGED <<request, zone, diffs>>

\* The possible ends of SetRecord for the record the run is at.
WriteOutcomes ==
    LET rec == plan[i] IN
    Faulty(SetOutcomes(rec, Stored(provider, rec.type, Wanted(rec))), "write", zone[Key(rec)])

\* Mutant of Set: a failed write is reported by the status the push would have
\* had.
SetHopeful ==
    /\ pc = "set"
    /\ \E o \in WriteOutcomes :
          /\ zone' = [zone EXCEPT ![Key(plan[i])] = o.left]
          /\ NextRecord(IF prev = NoVal THEN "created" ELSE "updated")
    /\ UNCHANGED <<request, diffs>>

\* The second half of the push: SetRecord.
Set ==
    /\ pc = "set"
    /\ \E o \in WriteOutcomes :
          /\ zone' = [zone EXCEPT ![Key(plan[i])] = o.left]
          /\ NextRecord(IF ~o.ok THEN "failed" ELSE IF prev = NoVal THEN "created" ELSE "updated")
    /\ UNCHANGED <<request, diffs>>

\* The caller is done.
Finished == pc = "done" /\ UNCHANGED vars

Next ==
    \/ \E q \in Requests : \E p \in Plans(q.kind) : Submit(q, p)
    \/ Confirm \/ Checks \/ Diff \/ Conflicts \/ Delete \/ Get \/ Set \/ Finished

Spec == Init /\ [][Next]_vars

-----------------------------------------------------------------------------
(* Properties.                                                              *)

Applied == pc = "done" /\ outcome = "ok" /\ ~req.dry

\* No later record of the request has the same name and type.
LastAt(j) == \A n \in (j+1)..Len(plan) : Key(plan[n]) # Key(plan[j])

\* At provider p the record e is what rec asked for: the same content, of a CNAME
\* the same target however it is spelled.  A priority is what was asked for if one
\* was given and the provider's calls carry it, which are Namecheap's.
Serves(p, rec, e) ==
    CASE rec.type = "CNAME" -> e.text = rec.val.text
      [] rec.type = "MX" -> /\ e.text = rec.val.text
                            /\ p = "namecheap" /\ rec.val.pref # 0 => e.pref = rec.val.pref
      [] OTHER -> e = rec.val

\* A request that ends without error leaves the last record it has for each
\* name in the zone, or its include for SPFM, whichever conflicts were deleted,
\* whatever GetRecords did not show because it reads one page of the zone.
Installed ==
    Applied =>
        \A j \in 1..Len(plan) : LastAt(j) =>
            LET rec == plan[j] IN
            IF rec.type = "SPFM"
            THEN rec.val.includes \subseteq
                    UNION {zone["apex"][n].includes : n \in SPFRecords(zone["apex"])}
            ELSE \E e \in Members(zone[Key(rec)]) : Serves(provider, rec, e)

\* The submitted records that get a result: a template's records of unknown types
\* are skipped, those of an API request fail.
Counted == {n \in 1..Len(asked) : req.kind = "template" => asked[n].type # "unknown"}

\* After a write run each of these records has a result, and the caller is told of
\* an error exactly if one of them failed (apply.go: "callers always receive a
\* PushResult per record").
ResultPerRecord ==
    pc = "done" /\ outcome \in {"ok", "error"} /\ ~req.dry =>
        /\ Len(results) = Cardinality(Counted)
        /\ outcome = "error" <=> "failed" \in Members(results)

\* A request with a record that does not resolve or parse writes nothing, not
\* even the records before it, and neither does a dry run.
AllOrNothing ==
    [][req.dry \/ (\E rec \in Members(asked) : Rejects(rec)) => UNCHANGED zone]_vars

\* Conflict resolution removes no record that the conflict mode does not match
\* (apply.go: "deletes existing TXT records at rr.Record.Name that match the
\* configured conflict mode"), with the providers whose record IDs name one
\* record.  Cloud DNS and GoDaddy delete by name and type.
ConflictScopeByID ==
    [][pc = "delete" /\ provider \notin {"gcdns", "godaddy"} =>
          \A v \in Members(zone["apex"]) \ Members(zone'["apex"]) : Matches(plan[i], v)]_vars

\* A TXT record applied with a conflict mode does not leave another record that
\* the mode matches, unless its host is relative: nothing matches then.
ConflictsCleared ==
    Applied =>
        \A j \in 1..Len(plan) :
            LET rec == plan[j] IN
            rec.type = "TXT" /\ rec.mode # "None" /\ rec.fq /\ LastAt(j) =>
                \A v \in Members(zone["apex"]) : Matches(rec, v) => v = rec.val

\* The statuses an announcement stands for.  An UPDATE of a CNAME may turn out to
\* be needless, where only the spelling differs, and a SKIP of an MX record may
\* become an update at Namecheap, where the push asks for priority 0.
Foretold(p, rec, action) ==
    CASE action = "CREATE" -> {"created"}
      [] action = "UPDATE" -> {"updated"} \cup (IF rec.type = "CNAME" THEN {"already_configured"} ELSE {})
      [] action = "SKIP" -> {"already_configured"}
                            \cup (IF rec.type = "MX" /\ p = "namecheap" THEN {"updated"} ELSE {})

\* `entree apply` has no push method for the type: it reports "created".
SetOnly(rec) == rec.type \in {"A", "MX"} /\ req.kind = "cli_records"

\* What a dry run announces is what the run after it does, for the first record
\* of each name, but for the two cases of Foretold.
DryRunPredicts ==
    Applied /\ diffs # <<>> =>
        \A j \in 1..Len(plan) :
            /\ \A n \in 1..(j-1) : Key(plan[n]) # Key(plan[j])
            /\ ~SetOnly(plan[j])
            => results[j] \in Foretold(provider, plan[j], diffs[j])

\* What a request that ends without error has done: its records are in the zone
\* and the conflicts they name are not.
AppliedExact == Installed /\ ConflictsCleared

\* The state invariants of the run: well formed, and a result per record.
ResultsSafe == TypeOK /\ ResultPerRecord
=============================================================================
