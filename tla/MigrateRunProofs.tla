-------------------------- MODULE MigrateRunProofs --------------------------
(***************************************************************************)
(* Proofs about MigrateRun for every source zone, provider, number of runs *)
(* and combination of faults: the report is exact, what it says of records *)
(* is true, one zone is created and a dry run spares the records.          *)
(***************************************************************************)
EXTENDS MigrateRun, SequenceTheorems, TLAPS

-----------------------------------------------------------------------------
(* The inductive invariant.                                                 *)

Preparing == {"source", "ensure", "create"}
Applying == {"wait", "set"}
Verifying == {"verify", "sleep"}
Reported == {"finished", "cancelled"}

\* The records of the target's names are sequences of values.
TargetOK == target \in [Names -> Seq(Vals)]

\* Phase B is reached with the zone in place, and in a real run only; a zone is
\* created only by a run that has found none.
ZoneOK ==
    /\ zones > 1 => Misspelled
    /\ pc = "create" => (zones = 0 \/ ~lower) /\ Creates
    /\ Misspelled => accepted = {}
    /\ pc \in Applying \cup Verifying \cup Reported \cup {"limiter"} => zones > 0 /\ apply
    /\ pc = "dry run" => ~apply

Failed(i) == i < next /\ i \notin accepted
Answered(i) == i \in accepted \ (todo \cup still)
Served(i) == src[i].val \in Members(target[src[i].name])
Overwritten(i) == \E j \in i..n : src[j].name = src[i].name /\ Kept(src[j].val) # src[i].val

\* What a status says of record i is true of the target.
Truly(status, i) ==
    /\ status = <<"matched">> => Served(i) \/ (lag /\ Overwritten(i))
    /\ status = <<"mismatch">> => lag \/ i \in odd \/ ~Served(i)

\* Of a record the run has, until it returns, exactly one of these: it has not
\* been pushed, it has failed, it waits for an answer or it has been answered.
RecordOK(i) ==
    /\ results[i] = IF Failed(i) THEN <<"apply_failed">> ELSE <<>>
    /\ found[i] # <<>> => Answered(i) /\ found[i] \in {<<"matched">>, <<"mismatch">>}
    /\ Truly(found[i], i)
    /\ i \in accepted => Served(i) \/ Overwritten(i)
    /\ Answered(i) /\ pc \in Verifying => found[i] # <<>>

RunningOK ==
    pc \notin Returns =>
        /\ pc \in Preparing => next = 1
        /\ pc \in Preparing \cup Applying => found = NoResults /\ todo = {} /\ still = {}
        /\ pc \in Verifying => next = n + 1
        /\ pc = "sleep" => todo = {}
        /\ accepted \subseteq 1..next - 1
        /\ todo \cup still \subseteq accepted
        /\ todo \cap still = {}
        /\ errors <=> (\E i \in 1..n : Failed(i))
        /\ \A i \in Records : RecordOK(i)

\* What the run returns.
Bad(i) == results[i] \in {<<"apply_failed">>, <<"mismatch">>}
ReturnedOK ==
    /\ pc \in {"failed early", "limiter", "cancelled"} => errors
    /\ pc = "dry run" => ~errors /\ results = NoResults
    /\ pc \in Reported =>
        \A i \in 1..n : /\ results[i] \in {<<s>> : s \in Statuses}
                        /\ Truly(results[i], i)
    /\ pc \in Reported => \A i \in Records \ (1..n) : results[i] = <<>>
    /\ pc = "finished" => (errors <=> (\E i \in 1..n : Bad(i)))

IInv == TypeOK /\ TargetOK /\ ZoneOK /\ RunningOK /\ ReturnedOK

\* Records of the source zone have a name of the target and a value.
LEMMA SourceRecords ==
    ASSUME src \in Sources
    PROVE  /\ n \in 0..MaxRecords
           /\ \A i \in 1..n : i \in Records /\ src[i].name \in Names /\ src[i].val \in Vals
<1>1. PICK k \in 0..MaxRecords : src \in [1..k -> [name : Names, val : Vals]]
  BY RunAssumption
<1>2. k \in Nat
  BY <1>1, RunAssumption
<1>3. Len(src) = k
  BY <1>1, <1>2
<1> QED
  BY <1>1, <1>2, <1>3, RunAssumption DEF n, Records

\* A provider keeps a value.
LEMMA KeptType ==
    ASSUME NEW v \in Vals
    PROVE  Kept(v) \in Vals
<1>1. ASSUME NEW t \in Texts, NEW p \in Prefs
      PROVE  /\ Stored(provider, "MX", Mail(t, p)) \in MailVals
  <2>1. Mail(t, p).text = t /\ Mail(t, p).pref = p
    BY DEF Mail
  <2>2. 0 \in Prefs /\ DefaultPref \in Prefs
    BY ProviderAssumption
  <2>3. \A q \in Prefs : Mail(t, q) \in MailVals
    BY DEF MailVals
  <2> QED
    BY <2>1, <2>2, <2>3 DEF Stored
<1>2. "pref" \in DOMAIN v => v \in MailVals
  <2>1. v \in TextVals => "pref" \notin DOMAIN v
    BY DEF TextVals, Text
  <2>2. v \in SPFVals => "pref" \notin DOMAIN v
    BY DEF SPFVals, SPF
  <2>3. v \in AliasVals => "pref" \notin DOMAIN v
    BY DEF AliasVals, Alias
  <2> QED
    BY <2>1, <2>2, <2>3 DEF Vals
<1>3. "pref" \in DOMAIN v => Stored(provider, "MX", v) \in MailVals
  BY <1>1, <1>2 DEF MailVals
<1>4. Stored(provider, "TXT", v) = v
  BY DEF Stored
<1> QED
  BY <1>3, <1>4 DEF Kept, Vals

\* What SetRecord leaves at a name are values, among them the one it wrote,
\* whichever the provider.
LEMMA SetValueType ==
    ASSUME NEW s \in Seq(Vals), NEW v \in Vals
    PROVE  SetValue(s, v) \in Seq(Vals) /\ v \in Members(SetValue(s, v))
<1>1. <<v>> \in Seq(Vals) /\ Append(s, v) \in Seq(Vals)
  OBVIOUS
<1>2. v \in Members(<<v>>) /\ v \in Members(Append(s, v))
  <2>1. Len(<<v>>) = 1 /\ <<v>>[1] = v /\ 1 \in 1..1
    OBVIOUS
  <2>2. Len(Append(s, v)) \in 1..Len(Append(s, v)) /\ Append(s, v)[Len(Append(s, v))] = v
    OBVIOUS
  <2> QED
    BY <2>1, <2>2 DEF Members
<1>3. s # <<>> => [s EXCEPT ![1] = v] \in Seq(Vals) /\ v \in Members([s EXCEPT ![1] = v])
  <2>1. s # <<>> => 1 \in 1..Len(s)
    OBVIOUS
  <2>2. s # <<>> => /\ [s EXCEPT ![1] = v] \in Seq(Vals) /\ Len([s EXCEPT ![1] = v]) = Len(s)
                    /\ [s EXCEPT ![1] = v][1] = v
    BY <2>1, ExceptSeq
  <2> QED
    BY <2>1, <2>2 DEF Members
<1> QED
  BY <1>1, <1>2, <1>3 DEF SetValue, CloudflareSet, ReplaceFirst, RRSetSet, MergeGoDaddyRecords

\* A report that has one of three sequences of length one has that one.
LEMMA ReportOne ==
    ASSUME NEW s \in Seq(Statuses)
    PROVE  <<>> \o s \o <<>> = s /\ s \o <<>> \o <<>> = s /\ <<>> \o <<>> \o s = s
BY ConcatEmptySeq

\* What a run leaves alone.
Settled == UNCHANGED settings
SameTarget == Settled /\ UNCHANGED <<zones, records>>
SameReport == UNCHANGED <<next, accepted, todo, still, found, results>>

\* What is true of a record stays true where the target does.
LEMMA TruthStays ==
    ASSUME Settled, UNCHANGED target
    PROVE  /\ \A i : (Served(i)' <=> Served(i)) /\ (Overwritten(i)' <=> Overwritten(i))
           /\ \A status, i : Truly(status, i)' <=> Truly(status, i)
           /\ Misspelled' <=> Misspelled
           /\ Creates' <=> Creates
<1>1. /\ UNCHANGED <<provider, lower, lag, src, odd, ns, apply, runs>>
      /\ n' = n
  BY DEF Settled, settings, n
<1>2. \A v : Kept(v)' = Kept(v)
  BY <1>1 DEF Kept
<1>3. \A i : (Served(i)' <=> Served(i)) /\ (Overwritten(i)' <=> Overwritten(i))
  BY <1>1, <1>2 DEF Served, Overwritten
<1> QED
  BY <1>1, <1>3 DEF Truly, Misspelled, Creates

-----------------------------------------------------------------------------
(* Initially, and for each step.                                            *)

\* Nothing has been pushed.
LEMMA InitIInv == Init => IInv
<1> SUFFICES ASSUME Init PROVE IInv
  OBVIOUS
<1>1. n \in Nat /\ n <= MaxRecords /\ MaxRecords \in Nat /\ 1 \in 1..MaxRuns
  BY SourceRecords, RunAssumption DEF Init
<1>2. TargetOK /\ (zones = 0 => \A k \in Names : target[k] = <<>>)
  <2>1. target = [k \in Names |-> <<>>] \/ (zones = 1 /\ target \in [Names -> Seq(Vals)])
    BY RunAssumption DEF Init
  <2>2. <<>> \in Seq(Vals)
    OBVIOUS
  <2>3. TargetOK
    BY <2>1, <2>2 DEF TargetOK
  <2>4. zones = 0 => \A k \in Names : target[k] = <<>>
    BY <2>1
  <2> QED
    BY <2>3, <2>4
<1>9. past \in [Names -> SUBSET SUBSET Vals]
  BY DEF Init
<1>3. \A k \in Names : Members(target[k]) \subseteq Vals
  BY <1>2 DEF TargetOK, Members
<1>4. NoResults \in [Records -> Seq(Statuses)]
  BY DEF NoResults
<1>5. odd \subseteq 1..n /\ zones \in Nat
  BY DEF Init
<1>6. TypeOK
  <2>1. {apply, ns, lower, lag, live, late, errors} \subseteq BOOLEAN
    BY Zenon DEF Init
  <2>2. /\ provider \in Providers /\ src \in Sources /\ runs \in 1..MaxRuns
        /\ pc \in {"source", "ensure", "create", "wait", "set", "verify", "sleep"} \cup Returns
        /\ next \in 1..n + 1 /\ pc # "set"
        /\ accepted \subseteq 1..n /\ todo \subseteq 1..n /\ still \subseteq 1..n
        /\ found = NoResults /\ results = NoResults
    BY <1>1 DEF Init
  <2> QED
    BY <1>2, <1>3, <1>4, <1>5, <1>9, <2>1, <2>2 DEF TypeOK
<1>7. ZoneOK /\ ReturnedOK
  BY DEF Init, ZoneOK, ReturnedOK, Applying, Verifying, Reported
<1>8. RunningOK
  BY <1>1 DEF Init, RunningOK, RecordOK, Failed, Answered, Truly, NoResults, Preparing, Applying, Verifying, Returns, Records
<1> QED
  BY <1>2, <1>6, <1>7, <1>8 DEF IInv

\* Phase A moves between its stages and returns without a record's result.
LEMMA PrepareIInv ==
    ASSUME IInv, AcquireZone \/ ListZones \/ CreateZone
    PROVE  IInv'
<1> USE DEF IInv
<1>1. /\ Settled /\ SameReport /\ UNCHANGED <<target, past, live, late, found>>
      /\ pc \in Preparing
  BY DEF AcquireZone, ListZones, CreateZone, Settled, SameReport, records, verifyVars, Preparing
<1>2. \/ pc' = "failed early" /\ errors' = TRUE
      \/ pc' \in {"ensure", "create", "wait", "dry run"} /\ UNCHANGED errors
  BY DEF AcquireZone, ListZones, CreateZone, FailEarly, Ensured, Missing
<1>3. /\ zones' \in Nat /\ (zones' > 1 => Misspelled) /\ (zones' = 0 => zones = 0)
      /\ pc' = "create" => (zones' = 0 \/ ~lower) /\ Creates
      /\ pc' = "wait" => zones' > 0
  <2>1. zones \in Nat /\ (zones > 1 => Misspelled) /\ provider \in Providers /\ lower \in BOOLEAN
    BY DEF TypeOK, ZoneOK
  <2>2. FailEarly => pc' = "failed early"
    BY DEF FailEarly
  <2>3. Ensured => pc' \in {"wait", "dry run"}
    BY DEF Ensured
  <2>4. Missing => pc' = "failed early" \/ (pc' = "create" /\ Creates)
    BY <2>2 DEF Missing
  <2>5. CASE AcquireZone
    BY <2>1, <2>2, <2>5 DEF AcquireZone
  <2>6. CASE ListZones
    <3>1. /\ zones' = zones
          /\ \/ pc' = "failed early"
             \/ Finds /\ Ensured
             \/ ~Finds /\ Missing
      BY <2>2, <2>6, Zenon DEF ListZones
    <3>2. Finds => zones > 0
      BY DEF Finds
    <3>3. ~Finds /\ Creates => zones = 0 \/ ~lower
      BY <2>1 DEF Finds
    <3> QED
      BY <2>1, <2>3, <2>4, <3>1, <3>2, <3>3
  <2>7. CASE CreateZone
    <3>1. (zones = 0 \/ ~lower) /\ Creates
      BY <2>7 DEF CreateZone, ZoneOK
    <3>2. (zones' = zones + 1 /\ Creatable) \/ zones' = zones
      BY <2>7, Zenon DEF CreateZone
    <3>3. pc' # "create" /\ (pc' = "wait" => zones' = zones + 1)
      BY <2>2, <2>3, <2>7, Zenon DEF CreateZone
    <3>4. Creatable /\ zones # 0 => Misspelled
      BY <3>1 DEF Creatable, Creates, Misspelled
    <3> QED
      BY <2>1, <3>2, <3>3, <3>4
  <2> QED
    BY <2>5, <2>6, <2>7
<1>10. (pc' = "wait" => apply) /\ (pc' = "dry run" => ~apply)
  <2>1. apply \in BOOLEAN
    BY DEF TypeOK
  <2> QED
    BY <2>1, Zenon DEF AcquireZone, ListZones, CreateZone, FailEarly, Ensured, Missing
<1>11. /\ \A i : (Served(i)' <=> Served(i)) /\ (Overwritten(i)' <=> Overwritten(i))
       /\ \A status, i : Truly(status, i)' <=> Truly(status, i)
       /\ (Misspelled' <=> Misspelled) /\ (Creates' <=> Creates)
  BY <1>1, TruthStays
<1>4. UNCHANGED <<n, target>> /\ src \in Sources
  BY <1>1 DEF Settled, settings, n, TypeOK
<1>5. TypeOK'
  <2>2. pc' # "set" /\ errors' \in BOOLEAN
    BY <1>2 DEF TypeOK
  <2>3. pc' \in {"ensure", "create", "wait"} \cup Returns
    BY <1>2 DEF Returns
  <2>4. /\ UNCHANGED <<provider, lower, lag, src, odd, ns, apply, runs>>
        /\ UNCHANGED <<target, past, live, late, next, accepted, todo, still, found, results>>
    BY <1>1 DEF Settled, settings, SameReport
  <2> QED
    BY <1>3, <1>4, <2>2, <2>3, <2>4 DEF TypeOK
<1>6. TargetOK' /\ ZoneOK'
  BY <1>1, <1>2, <1>3, <1>10, <1>11 DEF TargetOK, ZoneOK, Settled, settings, SameReport, Applying, Verifying, Reported
<1>7. RunningOK'
  BY <1>1, <1>2, <1>4, <1>11 DEF RunningOK, RecordOK, Failed, Answered, SameReport,
     Preparing, Applying, Verifying, Returns
<1>8. results = NoResults /\ errors = FALSE
  <2>1. next = 1 /\ pc \notin Returns
    BY <1>1 DEF RunningOK, Preparing, Returns
  <2>2. \A i \in Records : i \in Nat /\ ~Failed(i)
    BY <2>1 DEF Failed, Records
  <2>3. \A i \in Records : results[i] = <<>>
    BY <2>1, <2>2 DEF RunningOK, RecordOK
  <2>4. ~\E i \in 1..n : Failed(i)
    BY <2>1 DEF Failed
  <2> QED
    BY <2>1, <2>3, <2>4 DEF RunningOK, NoResults, TypeOK
<1>9. ReturnedOK'
  BY <1>1, <1>2, <1>8 DEF ReturnedOK, SameReport, Reported, NoResults, Records
<1> QED
  BY <1>5, <1>6, <1>7, <1>9

\* The head of the apply loop, and its end.
LEMMA TurnIInv ==
    ASSUME IInv, WaitTurn \/ BeginVerify
    PROVE  IInv'
<1> USE DEF IInv
<1>1. /\ SameTarget /\ UNCHANGED <<next, accepted, still, found, results>>
      /\ pc = "wait" /\ late' \in BOOLEAN /\ live' = live /\ errors' \in BOOLEAN
      /\ todo' \in {todo, accepted}
  BY DEF WaitTurn, BeginVerify, SameTarget, Settled, verifyVars, TypeOK
<1>8. /\ \A i : (Served(i)' <=> Served(i)) /\ (Overwritten(i)' <=> Overwritten(i))
      /\ \A status, i : Truly(status, i)' <=> Truly(status, i)
      /\ (Misspelled' <=> Misspelled) /\ (Creates' <=> Creates)
  BY <1>1, TruthStays DEF SameTarget, records
<1>2. n' = n /\ n \in Nat /\ n <= MaxRecords
  <2>1. n' = n /\ src \in Sources
    BY <1>1 DEF SameTarget, Settled, settings, n, TypeOK
  <2> QED
    BY <2>1, SourceRecords, RunAssumption
<1>3. \/ pc' = "set" /\ UNCHANGED <<errors, todo>> /\ next <= n
      \/ pc' = "limiter" /\ errors' = TRUE /\ UNCHANGED todo
      \/ pc' = "verify" /\ UNCHANGED errors /\ todo' = accepted /\ next > n
  BY DEF WaitTurn, BeginVerify, verifyVars
<1>4. TypeOK'
  BY <1>1, <1>2, <1>3 DEF TypeOK, SameTarget, Settled, settings, records, Returns
<1>5. TargetOK' /\ ZoneOK'
  BY <1>1, <1>3, <1>8 DEF records, TargetOK, ZoneOK, SameTarget, Settled, settings, Applying, Verifying, Reported
<1>6. RunningOK'
  <2>1. pc' = "verify" => next' = n + 1
    BY <1>1, <1>2, <1>3 DEF TypeOK
  <2>2. \A i \in Records : RecordOK(i)'
    BY <1>1, <1>2, <1>3, <1>8 DEF RunningOK, RecordOK, Failed, Answered, NoResults, Applying, Verifying, Returns
  <2> QED
    BY <1>1, <1>2, <1>3, <2>1, <2>2 DEF RunningOK, Failed, Applying, Preparing, Verifying, Returns
<1>7. ReturnedOK'
  BY <1>1, <1>3 DEF ReturnedOK, Reported
<1> QED
  BY <1>4, <1>5, <1>6, <1>7

\* A push: it is accepted, or reported as failed.
LEMMA SetIInv ==
    ASSUME IInv, SetRecord
    PROVE  IInv'
<1> USE DEF IInv
<1>1. /\ Settled /\ UNCHANGED <<zones, live, late, todo, still, found>>
      /\ pc = "set" /\ pc' = "wait" /\ next' = next + 1
      /\ Performed \/ UNCHANGED <<target, past>>
  BY DEF SetRecord, Settled, verifyVars, records
<1>2. n' = n /\ n \in Nat /\ n <= MaxRecords /\ src' = src /\ MaxRecords \in Nat
  <2>1. n' = n /\ src' = src /\ src \in Sources
    BY <1>1 DEF Settled, settings, n, TypeOK
  <2> QED
    BY <2>1, SourceRecords, RunAssumption
<1>3. /\ next \in 1..n /\ next \in Records
      /\ accepted \subseteq 1..next - 1 /\ accepted \in SUBSET (1..n)
      /\ results \in [Records -> Seq(Statuses)] /\ results[next] = <<>>
      /\ found = NoResults /\ todo = {} /\ still = {}
  <2>1. next \in 1..n /\ next \in Records
    BY <1>1, <1>2 DEF TypeOK, Records
  <2>2. pc \notin Returns /\ ~Failed(next)
    BY <1>1, <2>1 DEF Returns, Failed
  <2> QED
    BY <1>1, <2>1, <2>2 DEF RunningOK, RecordOK, Applying, TypeOK
<1>4. \/ /\ accepted' = accepted \cup {next} /\ results' = results /\ UNCHANGED errors
         /\ ~Misspelled /\ Performed
      \/ /\ results' = [results EXCEPT ![next] = Append(@, "apply_failed")]
         /\ accepted' = accepted /\ errors' = TRUE
  BY DEF SetRecord
<1>5. \/ accepted' = accepted \cup {next} /\ results' = results
      \/ results' = [results EXCEPT ![next] = <<"apply_failed">>] /\ accepted' = accepted
  BY <1>3, <1>4
<1>6. target' \in [Names -> Seq(Vals)]
  <2>1. CASE Performed
    <3>1. src[next].name \in Names /\ src[next].val \in Vals
      BY <1>3, SourceRecords DEF TypeOK
    <3>2. target[src[next].name] \in Seq(Vals)
      BY <3>1 DEF TargetOK
    <3>3. SetValue(target[src[next].name], Kept(src[next].val)) \in Seq(Vals)
      BY <3>1, <3>2, KeptType, SetValueType
    <3> QED
      BY <2>1, <3>1, <3>3 DEF Performed, TargetOK
  <2>2. CASE UNCHANGED target
    BY <2>2 DEF TargetOK
  <2> QED
    BY <1>1, <2>1, <2>2
<1>16. past' \in [Names -> SUBSET SUBSET Vals]
  <2>1. past \in [Names -> SUBSET SUBSET Vals] /\ \A k \in Names : Members(target[k]) \subseteq Vals
    BY DEF TypeOK
  <2>2. CASE Performed
    <3>1. src[next].name \in Names
      BY <1>3, SourceRecords DEF TypeOK
    <3> QED
      BY <2>1, <2>2, <3>1 DEF Performed
  <2> QED
    BY <1>1, <2>1, <2>2
\* What becomes of the records at the name.
<1>17. ASSUME Performed
       PROVE  /\ \A k \in Names \ {src[next].name} : target'[k] = target[k]
              /\ Kept(src[next].val) \in Members(target'[src[next].name])
  <2>1. src[next].name \in Names /\ Kept(src[next].val) \in Vals
    BY <1>3, SourceRecords, KeptType DEF TypeOK
  <2>2. target[src[next].name] \in Seq(Vals)
    BY <2>1 DEF TargetOK
  <2>3. Kept(src[next].val) \in Members(SetValue(target[src[next].name], Kept(src[next].val)))
    BY <2>1, <2>2, SetValueType
  <2> QED
    BY <1>17, <2>1, <2>3 DEF Performed, TargetOK
<1>18. \A i : Overwritten(i)' <=> Overwritten(i)
  <2>1. UNCHANGED provider
    BY <1>1 DEF Settled, settings
  <2>2. \A v : Kept(v)' = Kept(v)
    BY <2>1 DEF Kept
  <2> QED
    BY <1>2, <2>2 DEF Overwritten
<1>19. ASSUME NEW i \in 1..n, i <= next, i = next => Performed, i # next => Served(i)
       PROVE  Served(i)' \/ Overwritten(i)
  <2>1. CASE Performed
    <3>1. src[i].name \in Names /\ i \in Nat /\ next \in i..n
      BY <1>2, <1>3, <1>19, SourceRecords DEF TypeOK
    <3>2. CASE src[i].name = src[next].name /\ Kept(src[next].val) # src[i].val
      BY <3>1, <3>2 DEF Overwritten
    <3>3. CASE src[i].name = src[next].name /\ Kept(src[next].val) = src[i].val
      BY <1>2, <1>17, <2>1, <3>3 DEF Served
    <3>4. CASE src[i].name # src[next].name
      BY <1>2, <1>17, <1>19, <2>1, <3>1, <3>4 DEF Served
    <3> QED
      BY <3>2, <3>3, <3>4
  <2>2. CASE ~Performed
    BY <1>1, <1>2, <1>19, <2>2 DEF Served
  <2> QED
    BY <2>1, <2>2
<1>7. \A k \in Names : Members(target'[k]) \subseteq Vals
  BY <1>6 DEF Members
<1>8. zones # 0
  BY <1>1 DEF ZoneOK, Applying, TypeOK
<1>9. TypeOK'
  <2>1. errors' \in BOOLEAN
    BY <1>4, Zenon DEF TypeOK
  <2>2. next' \in 1..n + 1
    BY <1>1, <1>2, <1>3
  <2>3. accepted' \subseteq 1..n
    BY <1>3, <1>5
  <2>4. results' \in [Records -> Seq(Statuses)]
    <3>1. <<"apply_failed">> \in Seq(Statuses)
      BY DEF Statuses
    <3> QED
      BY <1>3, <1>5, <3>1
  <2> QED
    BY <1>1, <1>2, <1>3, <1>7, <1>8, <1>16, <2>1, <2>2, <2>3, <2>4 DEF TypeOK, Settled, settings
<1>10. TargetOK' /\ ZoneOK' /\ ReturnedOK'
  <2>1. (Misspelled' <=> Misspelled) /\ (Misspelled => accepted' = {})
    BY <1>1, <1>4 DEF Misspelled, ZoneOK, Settled, settings
  <2> QED
    BY <1>1, <1>6, <2>1 DEF TargetOK, ZoneOK, ReturnedOK, Settled, settings, Applying, Verifying, Reported
<1>11. ASSUME NEW i \in Records PROVE RecordOK(i)'
  <2>1. i \in Nat /\ next \in Nat
    BY <1>3 DEF Records
  <2>2. found'[i] = <<>>
    BY <1>1, <1>3 DEF NoResults
  <2>3. results'[i] = IF Failed(i)' THEN <<"apply_failed">> ELSE <<>>
    <3>1. results[i] = IF Failed(i) THEN <<"apply_failed">> ELSE <<>>
      BY <1>1 DEF RunningOK, RecordOK, Returns
    <3>2. CASE i = next
      BY <3>2, <2>1, <1>1, <1>3, <1>5 DEF Failed
    <3>3. CASE i # next
      BY <3>1, <3>3, <2>1, <1>1, <1>3, <1>5 DEF Failed
    <3> QED
      BY <3>2, <3>3
  <2>4. i \in accepted' => Served(i)' \/ Overwritten(i)'
    <3> SUFFICES ASSUME i \in accepted', ~Overwritten(i) PROVE Served(i)'
      BY <1>18
    <3>1. CASE i = next
      <4>1. Performed
        BY <1>1, <1>3, <1>4, <3>1, <2>1
      <4> QED
        BY <1>3, <1>19, <2>1, <3>1, <4>1
    <3>2. CASE i # next
      <4>1. i \in accepted /\ i \in 1..next - 1
        BY <1>3, <1>5, <3>2
      <4>2. Served(i)
        BY <1>1, <4>1 DEF RunningOK, RecordOK, Returns
      <4> QED
        BY <1>2, <1>3, <1>19, <2>1, <3>2, <4>1, <4>2
    <3> QED
      BY <3>1, <3>2
  <2>5. Truly(found[i], i)'
    BY <2>2 DEF Truly
  <2> QED
    BY <1>1, <2>2, <2>3, <2>4, <2>5 DEF RecordOK, Verifying
<1>12. errors' <=> (\E i \in 1..n : Failed(i)')
  <2>1. errors <=> (\E i \in 1..n : Failed(i))
    BY <1>1 DEF RunningOK, Returns
  <2>2. next \in Nat /\ 1..n \subseteq Nat
    BY <1>3
  <2>3. CASE accepted' = accepted \cup {next} /\ UNCHANGED errors
    <3>1. \A i \in 1..n : Failed(i)' <=> Failed(i)
      BY <2>2, <2>3, <1>1, <1>3 DEF Failed
    <3> QED
      BY <3>1, <2>1, <2>3
  <2>4. CASE accepted' = accepted /\ errors' = TRUE
    <3>1. next < next' /\ next \notin accepted'
      BY <2>2, <2>4, <1>1, <1>3
    <3> QED
      BY <3>1, <2>4, <1>3 DEF Failed
  <2> QED
    BY <1>4, <2>3, <2>4
<1>13. accepted' \subseteq 1..next' - 1
  <2>1. next \in Nat /\ next' = next + 1 /\ next # 0
    BY <1>1, <1>3
  <2>2. accepted' \subseteq (1..next - 1) \cup {next}
    BY <1>3, <1>5
  <2> QED
    BY <2>1, <2>2
<1>14. found' = NoResults /\ todo' = {} /\ still' = {}
  BY <1>1, <1>3
<1>15. RunningOK'
  BY <1>1, <1>2, <1>11, <1>12, <1>13, <1>14 DEF RunningOK, Preparing, Verifying, NoResults, Records
<1> QED
  BY <1>9, <1>10, <1>15

\* An answer, or none, for the first record this round has not queried.
LEMMA QueryIInv ==
    ASSUME IInv, Query
    PROVE  IInv'
<1> USE DEF IInv
<1>1. /\ SameTarget /\ UNCHANGED <<pc, live, late, next, accepted, results, errors>>
      /\ pc = "verify"
  BY DEF Query, SameTarget, Settled
<1>2. PICK i \in todo :
        /\ todo' = todo \ {i}
        /\ \E finding \in Findings(i) :
              IF finding = "none" THEN still' = still \cup {i} /\ UNCHANGED found
              ELSE found' = [found EXCEPT ![i] = Append(@, finding)] /\ UNCHANGED still
  BY DEF Query
<1>3. n' = n /\ n \in Nat /\ n <= MaxRecords /\ MaxRecords \in Nat
      /\ \A j \in 1..n : j \in Records
  <2>1. n' = n /\ src \in Sources
    BY <1>1 DEF SameTarget, Settled, settings, n, TypeOK
  <2> QED
    BY <2>1, SourceRecords, RunAssumption
<1>4. pc \notin Returns /\ pc \in Verifying
  BY <1>1 DEF Returns, Verifying
<1>14. /\ \A j : (Served(j)' <=> Served(j)) /\ (Overwritten(j)' <=> Overwritten(j))
       /\ \A status, j : Truly(status, j)' <=> Truly(status, j)
       /\ (Misspelled' <=> Misspelled) /\ (Creates' <=> Creates)
  BY <1>1, TruthStays DEF SameTarget, records
<1>5. /\ i \in 1..n /\ i \in Records /\ i \in accepted /\ i \notin still
      /\ found[i] = <<>> /\ found \in [Records -> Seq(Statuses)]
  BY <1>2, <1>3, <1>4 DEF RunningOK, RecordOK, Answered, TypeOK
<1>6. \/ still' = still \cup {i} /\ found' = found
      \/ /\ still' = still
         /\ \/ found' = [found EXCEPT ![i] = <<"mismatch">>] /\ Truly(<<"mismatch">>, i)
            \/ found' = [found EXCEPT ![i] = <<"matched">>] /\ Truly(<<"matched">>, i)
  <2>1. PICK finding \in Findings(i) :
              IF finding = "none" THEN still' = still \cup {i} /\ UNCHANGED found
              ELSE found' = [found EXCEPT ![i] = Append(@, finding)] /\ UNCHANGED still
    BY <1>2
  <2>2. finding = "none" \/ (finding \in {"matched", "mismatch"} /\ Truly(<<finding>>, i))
    <3>1. <<"matched">> # <<"mismatch">>
      OBVIOUS
    <3>2. Served(i) \/ Overwritten(i)
      BY <1>4, <1>5 DEF RunningOK, RecordOK
    <3>3. CASE i \in odd
      BY <2>1, <3>1, <3>3 DEF Findings, Truly
    <3>4. CASE i \notin odd /\ ~lag
      <4>1. Findings(i) \subseteq {"none", IF Served(i) THEN "matched" ELSE "mismatch"}
        BY <3>4 DEF Findings, Served
      <4> QED
        BY <2>1, <3>1, <4>1 DEF Truly
    <3>5. CASE i \notin odd /\ lag
      <4>1. Findings(i) \subseteq {"none", "matched", "mismatch"}
        BY <3>5 DEF Findings
      <4> QED
        BY <2>1, <3>1, <3>2, <3>5, <4>1 DEF Truly
    <3> QED
      BY <3>3, <3>4, <3>5
  <2>3. \A x : Append(found[i], x) = <<x>>
    BY <1>5
  <2>4. finding # "none" => found' = [found EXCEPT ![i] = <<finding>>]
    BY <2>1, <2>3
  <2> QED
    BY <2>1, <2>2, <2>4
<1>7. <<"mismatch">> \in Seq(Statuses) /\ <<"matched">> \in Seq(Statuses)
      /\ <<"mismatch">> # <<>> /\ <<"matched">> # <<>> /\ <<"mismatch">> # <<"matched">>
  BY DEF Statuses
<1>8. found' \in [Records -> Seq(Statuses)]
  BY <1>5, <1>6, <1>7
<1>9. TypeOK'
  <2>1. todo' \subseteq 1..n /\ still' \subseteq 1..n
    BY <1>2, <1>5, <1>6 DEF TypeOK
  <2> QED
    BY <1>1, <1>3, <1>8, <2>1 DEF TypeOK, SameTarget, Settled, settings, records
<1>10. TargetOK' /\ ZoneOK'
  BY <1>1, <1>14 DEF TargetOK, ZoneOK, SameTarget, Settled, settings, records
<1>11. ReturnedOK'
  BY <1>1 DEF ReturnedOK, Reported
<1>12. ASSUME NEW j \in Records PROVE RecordOK(j)'
  <2>1. RecordOK(j) /\ (Failed(j)' <=> Failed(j)) /\ (Served(j)' <=> Served(j))
        /\ (Overwritten(j)' <=> Overwritten(j))
    BY <1>1, <1>4, <1>14 DEF RunningOK, Failed
  <2>4. Truly(found'[j], j) => Truly(found[j], j)'
    BY <1>14
  <2>2. CASE j = i
    <3>1. \/ found'[i] = <<>> /\ i \in still'
          \/ /\ i \notin still' \cup todo'
             /\ found'[i] \in {<<"mismatch">>, <<"matched">>} /\ Truly(found'[i], i)
      BY <1>2, <1>5, <1>6
    <3>2. Truly(found'[i], i)
      BY <3>1, <1>7 DEF Truly
    <3> QED
      BY <2>1, <2>2, <2>4, <3>1, <3>2, <1>1, <1>5, <1>7 DEF RecordOK, Answered
  <2>3. CASE j # i
    <3>1. found'[j] = found[j] /\ (Answered(j)' <=> Answered(j))
      BY <2>3, <1>1, <1>2, <1>5, <1>6 DEF Answered
    <3>2. Truly(found'[j], j)
      BY <2>1, <3>1 DEF RecordOK
    <3> QED
      BY <2>1, <2>4, <3>1, <3>2, <1>1 DEF RecordOK
  <2> QED
    BY <2>2, <2>3
<1>13. RunningOK'
  <2>1. todo' \cup still' \subseteq accepted /\ todo' \cap still' = {}
    BY <1>2, <1>4, <1>5, <1>6 DEF RunningOK
  <2>2. \A j : Failed(j)' <=> Failed(j)
    BY <1>1 DEF Failed
  <2> QED
    BY <1>1, <1>3, <1>4, <1>12, <2>1, <2>2 DEF RunningOK, Preparing, Applying
<1> QED
  BY <1>9, <1>10, <1>11, <1>13

\* What the report of a run says of each record once the round is complete.
LEMMA ReportOK ==
    ASSUME IInv, pc \in Verifying, todo = {}
    PROVE  /\ Report(still) \in [Records -> Seq(Statuses)]
           /\ \A i \in Records \ (1..n) : Report(still)[i] = <<>>
           /\ \A i \in 1..n :
                /\ Failed(i) => Report(still)[i] = <<"apply_failed">>
                /\ ~Failed(i) /\ i \in still => Report(still)[i] = <<"not_yet_propagated">> /\ found[i] = <<>>
                /\ ~Failed(i) /\ i \notin still =>
                      Report(still)[i] = found[i] /\ found[i] \in {<<"matched">>, <<"mismatch">>}
                /\ Truly(found[i], i)
                /\ Failed(i) => found[i] = <<>>
<1> USE DEF IInv
<1>1. pc \notin Returns /\ next = n + 1 /\ n \in Nat /\ n <= MaxRecords /\ MaxRecords \in Nat
      /\ still \subseteq accepted /\ accepted \subseteq 1..n
  <2>1. pc \notin Returns
    BY DEF Verifying, Returns
  <2>2. n \in Nat /\ n <= MaxRecords /\ MaxRecords \in Nat
    BY SourceRecords, RunAssumption DEF TypeOK
  <2>3. next = n + 1 /\ still \subseteq accepted
    BY <2>1 DEF RunningOK
  <2>4. accepted \subseteq 1..n
    BY DEF TypeOK
  <2> QED
    BY <2>1, <2>2, <2>3, <2>4
<1>2. ASSUME NEW i \in Records
      PROVE  Report(still)[i] = results[i] \o found[i] \o
                                  (IF i \in still THEN <<"not_yet_propagated">> ELSE <<>>)
  BY DEF Report
<1>3. \A i \in Records : RecordOK(i) /\ found[i] \in Seq(Statuses) /\ results[i] \in Seq(Statuses)
  BY <1>1 DEF RunningOK, TypeOK
<1>4. ASSUME NEW i \in Records \ (1..n) PROVE Report(still)[i] = <<>>
  <2>1. i \in Nat /\ ~Failed(i) /\ i \notin still /\ ~Answered(i)
    BY <1>1 DEF Failed, Answered, Records
  <2>2. results[i] = <<>> /\ found[i] = <<>>
    BY <1>3, <2>1 DEF RecordOK
  <2>3. <<>> \o <<>> \o <<>> = <<>>
    BY ConcatEmptySeq
  <2> QED
    BY <1>2, <2>1, <2>2, <2>3
<1>5. ASSUME NEW i \in 1..n
      PROVE  /\ Failed(i) => Report(still)[i] = <<"apply_failed">>
             /\ ~Failed(i) /\ i \in still => Report(still)[i] = <<"not_yet_propagated">> /\ found[i] = <<>>
             /\ ~Failed(i) /\ i \notin still =>
                   Report(still)[i] = found[i] /\ found[i] \in {<<"matched">>, <<"mismatch">>}
             /\ Truly(found[i], i)
             /\ Failed(i) => found[i] = <<>>
  <2>1. i \in Records /\ RecordOK(i) /\ (Failed(i) <=> i \notin accepted)
    BY <1>1, <1>3 DEF Failed, Records
  <2>2. <<"apply_failed">> \in Seq(Statuses) /\ <<"not_yet_propagated">> \in Seq(Statuses)
    BY DEF Statuses
  <2>3. CASE Failed(i)
    <3>1. results[i] = <<"apply_failed">> /\ found[i] = <<>> /\ i \notin still
      BY <2>1, <2>3, <1>1 DEF RecordOK, Answered
    <3> QED
      BY <2>1, <2>2, <2>3, <3>1, <1>2, ReportOne DEF RecordOK
  <2>4. CASE ~Failed(i) /\ i \in still
    <3>1. results[i] = <<>> /\ found[i] = <<>>
      BY <2>1, <2>4 DEF RecordOK, Answered
    <3> QED
      BY <2>1, <2>2, <2>4, <3>1, <1>2, ReportOne DEF RecordOK
  <2>5. CASE ~Failed(i) /\ i \notin still
    <3>1. results[i] = <<>> /\ found[i] \in {<<"matched">>, <<"mismatch">>}
      BY <2>1, <2>5, <1>1 DEF RecordOK, Answered
    <3>2. found[i] \in Seq(Statuses)
      BY <1>3, <2>1
    <3> QED
      BY <2>1, <2>5, <3>1, <3>2, <1>2, ReportOne DEF RecordOK
  <2> QED
    BY <2>3, <2>4, <2>5
<1>6. Report(still) \in [Records -> Seq(Statuses)]
  <2>1. ASSUME NEW i \in Records PROVE Report(still)[i] \in Seq(Statuses)
    <3>1. <<>> \in Seq(Statuses) /\ <<"apply_failed">> \in Seq(Statuses) /\ <<"not_yet_propagated">> \in Seq(Statuses)
      BY DEF Statuses
    <3> QED
      BY <3>1, <1>3, <1>4, <1>5
  <2> QED
    BY <2>1 DEF Report
<1> QED
  BY <1>4, <1>5, <1>6

\* The run returns its report, or sleeps, or starts another round.
LEMMA RoundIInv ==
    ASSUME IInv, EndRound \/ Wake
    PROVE  IInv'
<1> USE DEF IInv
<1>1. /\ SameTarget /\ UNCHANGED <<live, late, next, accepted, found>>
      /\ pc \in Verifying /\ todo = {}
  BY DEF EndRound, Wake, SameTarget, Settled, verifyVars, Verifying, RunningOK, Returns
<1>2. n' = n /\ src' = src /\ target' = target
  BY <1>1 DEF SameTarget, Settled, settings, records, n
<1>9. /\ \A i : (Served(i)' <=> Served(i)) /\ (Overwritten(i)' <=> Overwritten(i))
      /\ \A status, i : Truly(status, i)' <=> Truly(status, i)
      /\ (Misspelled' <=> Misspelled) /\ (Creates' <=> Creates)
  BY <1>1, <1>2, TruthStays DEF SameTarget
<1>3. \/ pc' = "sleep" /\ UNCHANGED <<results, errors, todo, still>>
      \/ pc' = "verify" /\ todo' = still /\ still' = {} /\ UNCHANGED <<results, errors>>
      \/ pc' = "finished" /\ results' = Report(still) /\ errors' = (errors \/ Some(found, {"mismatch"}))
         /\ UNCHANGED <<todo, still>>
      \/ pc' = "cancelled" /\ results' = Report(still) /\ errors' = TRUE /\ UNCHANGED <<todo, still>>
  BY Zenon DEF EndRound, Wake, verifyVars
<1>4. pc \notin Returns
  BY <1>1 DEF Verifying, Returns
<1>5. TypeOK'
  <2>1. results' \in [Records -> Seq(Statuses)]
    BY <1>1, <1>3, ReportOK DEF TypeOK
  <2>2. errors' \in BOOLEAN
    BY <1>3, Zenon DEF TypeOK
  <2>3. todo' \subseteq 1..n /\ still' \subseteq 1..n /\ pc' \in {"sleep", "verify", "finished", "cancelled"}
    BY <1>3 DEF TypeOK
  <2>4. pc' \in {"source", "ensure", "create", "wait", "set", "verify", "sleep"} \cup Returns /\ pc' # "set"
    BY <2>3 DEF Returns
  <2> QED
    BY <1>1, <1>2, <2>1, <2>2, <2>3, <2>4 DEF TypeOK, SameTarget, Settled, settings, records
<1>6. TargetOK' /\ ZoneOK'
  BY <1>1, <1>3, <1>9 DEF records, TargetOK, ZoneOK, SameTarget, Settled, settings, Applying, Verifying, Reported
<1>7. RunningOK'
  <2>1. CASE pc' \in Returns
    BY <2>1 DEF RunningOK
  <2>2. CASE pc' \notin Returns
    <3>1. /\ UNCHANGED <<results, errors>> /\ pc' \in Verifying
          /\ todo' \cup still' = todo \cup still /\ todo' \cap still' = {}
          /\ pc' = "sleep" => todo' = {}
      BY <1>1, <1>3, <2>2 DEF Returns, Verifying
    <3>2. \A i : (Failed(i)' <=> Failed(i)) /\ (Answered(i)' <=> Answered(i))
      BY <1>1, <3>1 DEF Failed, Answered
    <3>3. \A i \in Records : RecordOK(i)'
      BY <1>1, <1>4, <1>9, <3>1, <3>2 DEF RunningOK, RecordOK
    <3> QED
      BY <1>1, <1>2, <1>4, <3>1, <3>2, <3>3 DEF RunningOK, Preparing, Applying, Verifying
  <2> QED
    BY <2>1, <2>2
<1>8. ReturnedOK'
  <2>1. CASE pc' \notin Returns
    BY <2>1, <1>3 DEF ReturnedOK, Returns, Reported
  <2>2. CASE pc' \in Returns
    <3>1. /\ pc' \in Reported /\ results' = Report(still)
          /\ pc' = "cancelled" => errors'
          /\ pc' = "finished" => (errors' <=> errors \/ Some(found, {"mismatch"}))
      BY <2>2, <1>3, Zenon DEF Returns, Reported
    <3>2. \A i \in 1..n : results'[i] \in {<<t>> : t \in Statuses} /\ Truly(results'[i], i)
      <4>1. \A i : Truly(<<"apply_failed">>, i) /\ Truly(<<"not_yet_propagated">>, i)
        BY DEF Truly
      <4> QED
        BY <4>1, <3>1, <1>1, ReportOK DEF Statuses
    <3>3. \A i \in Records \ (1..n) : results'[i] = <<>>
      BY <3>1, <1>1, ReportOK
    <3>4. Some(found, {"mismatch"}) <=> \E i \in 1..n : found[i] = <<"mismatch">>
      <4>1. \A i \in Records \ (1..n) : found[i] = <<>>
        BY <1>4 DEF RunningOK, RecordOK, Answered, TypeOK
      <4>2. \A i \in 1..n : i \in Records
        BY SourceRecords DEF TypeOK
      <4>3. \A i \in 1..n : found[i] \in {<<>>, <<"matched">>, <<"mismatch">>}
        BY <1>1, ReportOK
      <4> QED
        BY <4>1, <4>2, <4>3 DEF Some
    <3>5. (errors \/ Some(found, {"mismatch"})) <=> \E i \in 1..n : Bad(i)'
      <4>1. errors <=> \E i \in 1..n : Failed(i)
        BY <1>4 DEF RunningOK
      <4>2. ASSUME NEW i \in 1..n PROVE Bad(i)' <=> (Failed(i) \/ found[i] = <<"mismatch">>)
        <5>1. /\ <<"not_yet_propagated">> \notin {<<"apply_failed">>, <<"mismatch">>}
              /\ <<"matched">> \notin {<<"apply_failed">>, <<"mismatch">>}
              /\ <<>> # <<"mismatch">>
          OBVIOUS
        <5> QED
          BY <5>1, <3>1, <1>1, ReportOK DEF Bad
      <4> QED
        BY <4>1, <4>2, <3>4
    <3>6. UNCHANGED n /\ \A i : Truly(results[i], i)' <=> Truly(results'[i], i)
      BY <1>2, <1>9
    <3> QED
      BY <3>1, <3>2, <3>3, <3>5, <3>6 DEF ReturnedOK, Reported
  <2> QED
    BY <2>1, <2>2
<1> QED
  BY <1>5, <1>6, <1>7, <1>8

\* The context and the clock touch nothing else.
LEMMA TimeIInv ==
    ASSUME IInv, Cancel \/ Deadline
    PROVE  IInv'
<1> USE DEF IInv
<1>1. /\ SameTarget /\ SameReport /\ UNCHANGED <<pc, errors>>
      /\ live' \in BOOLEAN /\ late' \in BOOLEAN
  BY Zenon DEF Cancel, Deadline, SameTarget, Settled, SameReport, verifyVars, TypeOK
<1>2. n' = n
  BY <1>1 DEF SameTarget, Settled, settings, n
<1>9. /\ \A i : (Served(i)' <=> Served(i)) /\ (Overwritten(i)' <=> Overwritten(i))
      /\ \A status, i : Truly(status, i)' <=> Truly(status, i)
      /\ (Misspelled' <=> Misspelled) /\ (Creates' <=> Creates)
  BY <1>1, TruthStays DEF SameTarget, records
<1>3. TypeOK'
  BY <1>1, <1>2 DEF TypeOK, SameTarget, Settled, settings, records, SameReport
<1>4. TargetOK' /\ ZoneOK'
  BY <1>1, <1>9 DEF TargetOK, ZoneOK, SameTarget, Settled, settings, records, SameReport
<1>5. \A i : /\ (Failed(i)' <=> Failed(i)) /\ (Answered(i)' <=> Answered(i))
             /\ (Served(i)' <=> Served(i)) /\ (Overwritten(i)' <=> Overwritten(i))
             /\ (Bad(i)' <=> Bad(i))
             /\ (Truly(found[i], i)' <=> Truly(found[i], i)) /\ (Truly(results[i], i)' <=> Truly(results[i], i))
  BY <1>1, <1>9 DEF Failed, Answered, Bad, SameReport
<1>6. RunningOK'
  BY <1>1, <1>2, <1>5 DEF RunningOK, RecordOK, SameReport
<1>7. ReturnedOK'
  BY <1>1, <1>2, <1>5 DEF ReturnedOK, SameReport
<1> QED
  BY <1>3, <1>4, <1>6, <1>7

\* Another run begins with nothing but the zone.
LEMMA AgainIInv ==
    ASSUME IInv, RunAgain
    PROVE  IInv'
<1> USE DEF IInv
<1>1. /\ UNCHANGED <<provider, lower, lag, src, odd, ns, zones, target, past>>
      /\ pc' = "source" /\ next' = 1 /\ runs' = runs + 1 /\ runs < MaxRuns
      /\ accepted' = {} /\ todo' = {} /\ still' = {} /\ found' = NoResults /\ results' = NoResults
  BY DEF RunAgain, records
<1>2. apply' \in BOOLEAN /\ live' \in BOOLEAN /\ late' \in BOOLEAN /\ errors' = FALSE
  BY Zenon DEF RunAgain, TypeOK
<1>3. n' = n /\ n \in Nat /\ MaxRuns \in Nat
  <2>1. n' = n /\ src \in Sources
    BY <1>1 DEF n, TypeOK
  <2> QED
    BY <2>1, SourceRecords, RunAssumption
<1>4. TypeOK'
  <2>1. NoResults \in [Records -> Seq(Statuses)]
    BY DEF NoResults
  <2>2. runs' \in 1..MaxRuns /\ next' \in 1..n + 1
    BY <1>1, <1>3 DEF TypeOK
  <2>3. errors' \in BOOLEAN
    BY <1>2
  <2> QED
    BY <1>1, <1>2, <1>3, <2>1, <2>2, <2>3 DEF TypeOK
<1>5. TargetOK' /\ ZoneOK' /\ ReturnedOK'
  BY <1>1 DEF TargetOK, ZoneOK, Misspelled, ReturnedOK, Applying, Verifying, Reported
<1>6. RunningOK'
  <2>1. \A i \in Records : i \in Nat /\ ~Failed(i)' /\ NoResults[i] = <<>>
    BY <1>1 DEF Failed, Records, NoResults
  <2>2. ~\E i \in 1..n : Failed(i)'
    BY <1>1 DEF Failed
  <2>3. \A i \in Records : RecordOK(i)'
    BY <1>1, <2>1 DEF RecordOK, Truly, Verifying
  <2>4. accepted' \subseteq 1..next' - 1
    BY <1>1
  <2> QED
    BY <1>1, <1>2, <1>3, <2>2, <2>3, <2>4 DEF RunningOK, Verifying
<1> QED
  BY <1>4, <1>5, <1>6

\* A step that changes nothing.
LEMMA StutterIInv ==
    ASSUME IInv, UNCHANGED vars
    PROVE  IInv'
<1>1. /\ UNCHANGED <<provider, lower, lag, src, odd, ns, zones, target, past, apply, runs, pc, live, late, next>>
      /\ UNCHANGED <<accepted, todo, still, found, results, errors, n>>
  BY DEF vars, n
<1>9. /\ \A i : (Served(i)' <=> Served(i)) /\ (Overwritten(i)' <=> Overwritten(i))
      /\ \A status, i : Truly(status, i)' <=> Truly(status, i)
      /\ (Misspelled' <=> Misspelled) /\ (Creates' <=> Creates)
  BY <1>1, TruthStays DEF Settled, settings
<1>2. \A i : /\ (Failed(i)' <=> Failed(i)) /\ (Answered(i)' <=> Answered(i))
             /\ (Served(i)' <=> Served(i)) /\ (Overwritten(i)' <=> Overwritten(i))
             /\ (Bad(i)' <=> Bad(i))
             /\ (Truly(found[i], i)' <=> Truly(found[i], i)) /\ (Truly(results[i], i)' <=> Truly(results[i], i))
  BY <1>1, <1>9 DEF Failed, Answered, Bad
<1>3. TypeOK' /\ TargetOK' /\ ZoneOK'
  <2>1. TypeOK'
    BY <1>1 DEF IInv, TypeOK
  <2>2. TargetOK' /\ ZoneOK'
    BY <1>1, <1>9 DEF IInv, TargetOK, ZoneOK
  <2> QED
    BY <2>1, <2>2
<1>4. RunningOK' /\ ReturnedOK'
  BY <1>1, <1>2 DEF IInv, RunningOK, RecordOK, ReturnedOK
<1> QED
  BY <1>3, <1>4 DEF IInv

\* Every step preserves the invariant.
LEMMA NextIInv == IInv /\ [Next]_vars => IInv'
BY PrepareIInv, TurnIInv, SetIInv, QueryIInv, RoundIInv, TimeIInv, AgainIInv, StutterIInv DEF Next, Step

LEMMA Invariance == Spec => []IInv
BY InitIInv, NextIInv, PTL DEF Spec

-----------------------------------------------------------------------------
(* The theorems.                                                            *)

\* A status of the report is bad exactly if a record of the zone has one.
LEMMA SomeBad ==
    ASSUME IInv, pc \in Reported
    PROVE  Some(results, {"apply_failed", "mismatch"}) <=> \E i \in 1..n : Bad(i)
<1>1. \A i \in 1..n : i \in Records /\ results[i] \in {<<s>> : s \in Statuses}
  BY SourceRecords DEF IInv, TypeOK, ReturnedOK
<1>2. \A i \in Records \ (1..n) : 1..Len(results[i]) = {}
  <2>1. \A i \in Records \ (1..n) : results[i] = <<>>
    BY DEF IInv, ReturnedOK
  <2>2. 1..Len(<<>>) = {}
    OBVIOUS
  <2> QED
    BY <2>1, <2>2
<1>3. ASSUME NEW i \in 1..n
      PROVE  Bad(i) <=> \E k \in 1..Len(results[i]) : results[i][k] \in {"apply_failed", "mismatch"}
  <2>1. PICK s \in Statuses : results[i] = <<s>>
    BY <1>1
  <2> QED
    BY <2>1 DEF Bad
<1> QED
  BY <1>1, <1>2, <1>3 DEF Some

\* The report of Migrate is exact: for every source zone, target and failure, a
\* run that verified reports each record once, and its error is non-nil exactly
\* if a record failed or mismatched or the run was cut short.
THEOREM ReportIsExact == Spec => []ReportExact
<1>1. ASSUME IInv PROVE OneResultEach
  <2>1. \A s : Len(<<s>>) = 1
    OBVIOUS
  <2> QED
    BY <1>1, <2>1 DEF IInv, ReturnedOK, Reported, OneResultEach
<1>2. ASSUME IInv PROVE ErrorMeansBadRecord
  <2> DEFINE bad == Some(results, {"apply_failed", "mismatch"})
  <2>1. CASE pc \in {"failed early", "limiter"}
    BY <1>2, <2>1 DEF IInv, ReturnedOK, ErrorMeansBadRecord
  <2>2. CASE pc = "dry run"
    <3>1. ~bad
      <4>1. results = NoResults /\ \A i \in Records : NoResults[i] = <<>>
        BY <1>2, <2>2 DEF IInv, ReturnedOK, NoResults
      <4>2. 1..Len(<<>>) = {}
        OBVIOUS
      <4> QED
        BY <4>1, <4>2 DEF Some
    <3>2. ~apply
      BY <1>2, <2>2 DEF IInv, ZoneOK
    <3> QED
      BY <2>2, <3>1, <3>2 DEF ErrorMeansBadRecord
  <2>3. CASE pc \in Reported
    <3>1. bad <=> \E i \in 1..n : Bad(i)
      BY <1>2, <2>3, SomeBad
    <3>2. pc = "cancelled" => errors
      BY <1>2 DEF IInv, ReturnedOK
    <3>3. pc = "finished" => (errors <=> bad)
      BY <1>2, <3>1 DEF IInv, ReturnedOK
    <3>4. \A i \in 1..n : Len(results[i]) = 1
      BY <1>1, <1>2, <2>3 DEF OneResultEach, Reported
    <3> QED
      BY <2>3, <3>2, <3>3, <3>4 DEF ErrorMeansBadRecord, Reported
  <2> QED
    BY <2>1, <2>2, <2>3 DEF ErrorMeansBadRecord, Returned, Returns, Reported
<1>3. IInv => ReportExact
  BY <1>1, <1>2 DEF IInv, ReportExact
<1> QED
  BY <1>3, Invariance, PTL

\* What Migrate reports of a record is true of the target: it calls no record
\* matched whose value a later SetRecord has replaced, unless nameservers are behind
\* and the run itself has replaced the value.
THEOREM MatchedServed == Spec => []MatchedIsServed
<1>1. IInv => MatchedIsServed
  BY DEF IInv, ReturnedOK, Reported, Truly, Served, Overwritten, MatchedIsServed
<1> QED
  BY <1>1, Invariance, PTL

\* However often Migrate fails and is run again, EnsureZone creates one zone,
\* but for a domain spelled with capitals at Route 53 and Cloud DNS, where a run
\* writes to none.
THEOREM OneZoneOnly == Spec => []OneZone
<1>1. IInv => OneZone
  BY DEF IInv, ZoneOK, OneZone
<1> QED
  BY <1>1, Invariance, PTL

\* No step of a dry run, whatever happened before it, writes a record.
THEOREM DryRun == Spec => DryRunSpares
<1>1. IInv /\ [Next]_vars => [~apply => target' = target]_vars
  <2> SUFFICES ASSUME IInv, Next, ~apply PROVE target' = target
    BY DEF vars
  <2>1. CASE SetRecord
    BY <2>1 DEF SetRecord, IInv, ZoneOK, Applying
  <2>2. CASE ~SetRecord
    BY <2>2 DEF records, Next, Step, AcquireZone, ListZones, CreateZone, WaitTurn, BeginVerify, Query, EndRound, Wake,
       Cancel, Deadline, RunAgain
  <2> QED
    BY <2>1, <2>2
<1> QED
  BY <1>1, Invariance, PTL DEF Spec, DryRunSpares
=============================================================================
