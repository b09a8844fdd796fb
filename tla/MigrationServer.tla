--------------------------- MODULE MigrationServer ---------------------------
(***************************************************************************)
(* The stateful migration workflow of the HTTP API                         *)
(* (api/handlers_migrate_stateful.go) over a MigrationStore: preview,      *)
(* apply, verify and delete handlers that run concurrently, each a         *)
(* sequence of store and provider calls, and the background sweeper of     *)
(* api/server.go.  A handler works on its own copy of the row between a    *)
(* Get and an Update; only the version check orders two handlers.          *)
(*                                                                         *)
(* A request that loadAndAuth or a status check turns away (401, 404, 409, *)
(* 410, 500) changes nothing and is not a step.  Get and List only read.   *)
(***************************************************************************)
EXTENDS Naturals

CONSTANTS
    Ids,         \* migration ids; UUIDv7s sort by creation, so naturals
    Reqs,        \* requests in flight
    MaxRecords,  \* bound on the records of a previewed zone
    MaxVersion,  \* bound on the versions verify requests reach
    Backend,     \* "json" (the default store) or "sqlite"
    Faults,      \* what may go wrong: see FaultKinds
    NoRow

FaultKinds == {"crash", "cancel", "provider", "store"}

ASSUME ServerAssumption ==
    /\ Ids \subseteq Nat \ {0}
    /\ MaxRecords \in Nat
    /\ MaxVersion \in Nat
    /\ Backend \in {"json", "sqlite"}
    /\ Faults \subseteq FaultKinds

Statuses == {"preview", "applying", "awaiting_ns_change", "verifying", "complete", "failed"}

\* n: the number of PreviewRecords.  ns: TargetNameservers is not empty.
\* results: ApplyResults is unset, set, or set with a failed record in it.
Row == [status : Statuses, version : Nat, n : 0..MaxRecords, ns : BOOLEAN,
        results : {"none", "ok", "failed"}]

ASSUME NoRowAssumption == NoRow \notin Row

VARIABLES
    rows,     \* the store
    expired,  \* ids whose ExpiresAt has passed
    issued,   \* ids NewMigrationID has returned
    pc,       \* pc[r]: the next call of request r's handler
    rid,      \* rid[r]: the id in its path, 0 when idle
    copy,     \* copy[r]: its copy of the row
    live,     \* live[r]: its context is neither cancelled nor timed out
    next,     \* next[r]: the preview record apply pushes next
    err,      \* err[r]: apply's firstErr is set
    pushed,   \* pushed[id]: the records SetRecord accepted for id
    runs,     \* runs[id]: how many apply handlers reached the provider (history)
    sweep     \* the sweep under way: ids left to read, and its cut-off

reqVars == <<pc, rid, copy, live, next, err>>
vars == <<rows, expired, issued, pc, rid, copy, live, next, err, pushed, runs, sweep>>

Store == INSTANCE MigrationStore WITH RowSet <- Row

PCs == {"idle", "mark", "ensure", "fail", "wait", "set", "finish",
        "query", "verified", "delete"}

NoSweep == [todo |-> {}, before |-> {}]

TypeOK ==
    /\ rows \in [Ids -> Row \cup {NoRow}]
    /\ expired \in SUBSET Ids
    /\ issued \in SUBSET Ids
    /\ pc \in [Reqs -> PCs]
    /\ rid \in [Reqs -> Ids \cup {0}]
    /\ copy \in [Reqs -> Row \cup {NoRow}]
    /\ \A r \in Reqs : pc[r] # "idle" => rid[r] \in Ids /\ copy[r] \in Row
    /\ live \in [Reqs -> BOOLEAN]
    /\ next \in [Reqs -> Nat \ {0}]
    /\ \A r \in Reqs : pc[r] = "set" => next[r] <= copy[r].n
    /\ err \in [Reqs -> BOOLEAN]
    /\ pushed \in [Ids -> SUBSET (1..MaxRecords)]
    /\ runs \in [Ids -> Nat]
    /\ sweep \in [todo : SUBSET Ids, before : SUBSET Ids]

Init ==
    /\ rows = [id \in Ids |-> NoRow]
    /\ expired = {}
    /\ issued = {}
    /\ pc = [r \in Reqs |-> "idle"]
    /\ rid = [r \in Reqs |-> 0]
    /\ copy = [r \in Reqs |-> NoRow]
    /\ live = [r \in Reqs |-> TRUE]
    /\ next = [r \in Reqs |-> 1]
    /\ err = [r \in Reqs |-> FALSE]
    /\ pushed = [id \in Ids |-> {}]
    /\ runs = [id \in Ids |-> 0]
    /\ sweep = NoSweep

-----------------------------------------------------------------------------
(* Store calls as the handlers see them.                                    *)

\* ApplyResults holds *PushResult values whose VerifyError is an error.  It is
\* encoded as an object, which json.Unmarshal cannot store in an error: a row
\* with a failed record cannot be decoded again.
Decodes(m) == m.results # "failed"

\* loadAndAuth succeeds: the row is there, decodes and has not expired.
Loads(id) ==
    /\ rows[id] # NoRow
    /\ Decodes(rows[id])
    /\ id \notin expired

\* Update finds the row at the version before m's.  The JSON store decodes the
\* stored row first; SQLite compares versions in the UPDATE statement.
Accepts(id, m) ==
    /\ rows[id] # NoRow
    /\ Backend = "json" => Decodes(rows[id])
    /\ m.version = rows[id].version + 1

\* Mutant of UpdateOK: the version is not compared.
UpdateBlind(r, m) ==
    live[r] /\ rows[rid[r]] # NoRow /\ rows' = [rows EXCEPT ![rid[r]] = m]

\* Mutant of UpdateOK: a missing row is inserted.
UpdateUpserts(r, m) ==
    /\ live[r]
    /\ rows[rid[r]] = NoRow \/ Accepts(rid[r], m)
    /\ rows' = [rows EXCEPT ![rid[r]] = m]

\* Update also fails on a dead context or an I/O error, and then changes nothing.
UpdateOK(r, m) == live[r] /\ Accepts(rid[r], m) /\ Store!StoreUpdate(rid[r], m)
UpdateFails(r, m) ==
    /\ ~live[r] \/ "store" \in Faults \/ ~Accepts(rid[r], m)
    /\ UNCHANGED rows

Goto(r, l) == pc' = [pc EXCEPT ![r] = l]

\* The handler of r is done.
Return(r) ==
    /\ Goto(r, "idle")
    /\ rid' = [rid EXCEPT ![r] = 0]
    /\ copy' = [copy EXCEPT ![r] = NoRow]
    /\ live' = [live EXCEPT ![r] = TRUE]
    /\ next' = [next EXCEPT ![r] = 1]
    /\ err' = [err EXCEPT ![r] = FALSE]

\* A request for id passes loadAndAuth and continues at l.
Load(r, id, l) ==
    /\ pc[r] = "idle"
    /\ Loads(id)
    /\ Goto(r, l)
    /\ rid' = [rid EXCEPT ![r] = id]
    /\ copy' = [copy EXCEPT ![r] = rows[id]]
    /\ UNCHANGED <<rows, expired, issued, live, next, err, pushed, runs, sweep>>

-----------------------------------------------------------------------------
(* POST /v1/migrate/preview.                                                *)

\* Create stores the scraped zone under a fresh id.  A preview that fails
\* before that has used up an id and nothing else.
Preview(id, n) ==
    /\ id \notin issued
    /\ issued' = issued \cup {id}
    /\ Store!StoreCreate(id, [status |-> "preview", version |-> 1, n |-> n,
                              ns |-> FALSE, results |-> "none"])
    /\ UNCHANGED <<expired, reqVars, pushed, runs, sweep>>

-----------------------------------------------------------------------------
(* POST /v1/migrate/{id}/apply.                                             *)

\* Mutant of BeginApply: no status check.
BeginApplyAgain(r, id) == Load(r, id, "mark")

BeginApply(r, id) ==
    /\ Loads(id) /\ rows[id].status = "preview"
    /\ Load(r, id, "mark")

\* row.Version++ and Update, going on at l if the store accepts the row.
Persist(r, m, l) ==
    \/ /\ UpdateOK(r, m)
       /\ Goto(r, l)
       /\ copy' = [copy EXCEPT ![r] = m]
       /\ UNCHANGED <<rid, live, next, err>>
    \/ /\ UpdateFails(r, m)
       /\ Return(r)

Successor(m, status) == [m EXCEPT !.status = status, !.version = @ + 1]

\* preview -> applying, before any provider work.
MarkApplying(r) ==
    /\ pc[r] = "mark"
    /\ Persist(r, Successor(copy[r], "applying"), "ensure")
    /\ runs' = [runs EXCEPT ![rid[r]] = IF pc'[r] = "ensure" THEN @ + 1 ELSE @]
    /\ UNCHANGED <<expired, issued, pushed, sweep>>

\* adapter.EnsureZone and NewProvider.  Some adapters return no nameservers
\* for a zone they find or create.
EnsureZone(r) ==
    /\ pc[r] = "ensure"
    /\ \/ /\ live[r]
          /\ \E ns \in BOOLEAN : copy' = [copy EXCEPT ![r].ns = ns]
          /\ \/ Goto(r, "wait")
             \/ "provider" \in Faults /\ Goto(r, "fail")
       \/ /\ ~live[r] \/ "provider" \in Faults
          /\ Goto(r, "fail")
          /\ UNCHANGED copy
    /\ UNCHANGED <<rows, expired, issued, rid, live, next, err, pushed, runs, sweep>>

\* The row of a failed EnsureZone or NewProvider: the Update's error is ignored.
RecordFailure(r) ==
    /\ pc[r] = "fail"
    /\ \/ UpdateOK(r, Successor(copy[r], "failed"))
       \/ UpdateFails(r, Successor(copy[r], "failed"))
    /\ Return(r)
    /\ UNCHANGED <<expired, issued, pushed, runs, sweep>>

\* limiter.Wait: it fails on a dead context, or when its deadline would pass
\* before the next token; apply then stops pushing.
WaitTurn(r) ==
    /\ pc[r] = "wait"
    /\ next[r] <= copy[r].n
    /\ \/ /\ live[r]
          /\ Goto(r, "set")
          /\ UNCHANGED err
       \/ /\ ~live[r] \/ "cancel" \in Faults
          /\ Goto(r, "finish")
          /\ err' = [err EXCEPT ![r] = TRUE]
    /\ UNCHANGED <<rows, expired, issued, rid, copy, live, next, pushed, runs, sweep>>

\* provider.SetRecord; a failure is kept in the results and the loop goes on.
SetRecord(r) ==
    /\ pc[r] = "set"
    /\ \/ /\ live[r]
          /\ pushed' = [pushed EXCEPT ![rid[r]] = @ \cup {next[r]}]
          /\ UNCHANGED <<copy, err>>
       \/ /\ ~live[r] \/ "provider" \in Faults
          /\ copy' = [copy EXCEPT ![r].results = "failed"]
          /\ err' = [err EXCEPT ![r] = TRUE]
          /\ UNCHANGED pushed
    /\ next' = [next EXCEPT ![r] = @ + 1]
    /\ Goto(r, "wait")
    /\ UNCHANGED <<rows, expired, issued, rid, live, runs, sweep>>

\* The loop over PreviewRecords has ended.
PushedAll(r) ==
    /\ pc[r] = "wait"
    /\ next[r] > copy[r].n
    /\ Goto(r, "finish")
    /\ UNCHANGED <<rows, expired, issued, rid, copy, live, next, err, pushed, runs, sweep>>

\* Mutant of Outcome: failed records do not fail the migration.
OutcomeIgnoresErrors(r) ==
    [Successor(copy[r], "awaiting_ns_change") EXCEPT !.results = IF @ = "failed" THEN @ ELSE "ok"]

Outcome(r) ==
    LET m == copy[r] IN
    [Successor(m, IF err[r] THEN "failed" ELSE "awaiting_ns_change")
        EXCEPT !.results = IF m.results = "failed" THEN @ ELSE "ok"]

\* The final Update of apply, with the results and the nameservers.
FinishApply(r) ==
    /\ pc[r] = "finish"
    /\ \/ UpdateOK(r, Outcome(r))
       \/ UpdateFails(r, Outcome(r))
    /\ Return(r)
    /\ UNCHANGED <<expired, issued, pushed, runs, sweep>>

-----------------------------------------------------------------------------
(* POST /v1/migrate/{id}/verify and DELETE /v1/migrate/{id}.                *)

Verifiable == {"applying", "awaiting_ns_change", "verifying", "complete"}

BeginVerify(r, id) ==
    /\ Loads(id) /\ rows[id].status \in Verifiable
    /\ rows[id].version < MaxVersion
    /\ Load(r, id, "query")

\* Mutant of QueryTargets: no nameserver to ask counts as a match.
QueryTargetsVacuous(r) ==
    /\ pc[r] = "query"
    /\ copy' = [copy EXCEPT ![r].status = "complete"]
    /\ Goto(r, "verified")
    /\ UNCHANGED <<rows, expired, issued, rid, live, next, err, pushed, runs, sweep>>

\* VerifyAgainstNS: without nameservers or records nothing matches; with them
\* any answer is possible.
QueryTargets(r) ==
    /\ pc[r] = "query"
    /\ \/ /\ copy[r].ns /\ copy[r].n > 0 /\ live[r]
          /\ copy' = [copy EXCEPT ![r].status = "complete"]
       \/ copy' = [copy EXCEPT ![r].status = "verifying"]
    /\ Goto(r, "verified")
    /\ UNCHANGED <<rows, expired, issued, rid, live, next, err, pushed, runs, sweep>>

SaveVerify(r) ==
    LET m == Successor(copy[r], copy[r].status) IN
    /\ pc[r] = "verified"
    /\ \/ UpdateOK(r, m)
       \/ UpdateFails(r, m)
    /\ Return(r)
    /\ UNCHANGED <<expired, issued, pushed, runs, sweep>>

BeginDelete(r, id) == Load(r, id, "delete")

DeleteRow(r) ==
    /\ pc[r] = "delete"
    /\ \/ live[r] /\ Store!StoreDelete(rid[r])
       \/ (~live[r] \/ "store" \in Faults) /\ UNCHANGED rows
    /\ Return(r)
    /\ UNCHANGED <<expired, issued, pushed, runs, sweep>>

-----------------------------------------------------------------------------
(* The sweeper, time and faults.                                            *)

\* Mutant of SweepSQL: rows that are being applied are spared.
SweepSQLSparesApplying ==
    /\ Backend = "sqlite"
    /\ rows' = [id \in Ids |-> IF /\ id \in expired
                                  /\ rows[id] # NoRow
                                  /\ rows[id].status # "applying"
                               THEN NoRow ELSE rows[id]]
    /\ UNCHANGED <<expired, issued, reqVars, pushed, runs, sweep>>

\* One tick with the SQLite store: a single DELETE ... WHERE expires_at < ?.
SweepSQL ==
    /\ Backend = "sqlite"
    /\ rows' = [id \in Ids |-> IF id \in expired THEN NoRow ELSE rows[id]]
    /\ UNCHANGED <<expired, issued, reqVars, pushed, runs, sweep>>

\* One tick with the JSON store: ReadDir, and the cut-off time.
SweepStart ==
    /\ Backend = "json"
    /\ sweep.todo = {}
    /\ sweep' = [todo |-> {id \in Ids : rows[id] # NoRow}, before |-> expired]
    /\ UNCHANGED <<rows, expired, issued, reqVars, pushed, runs>>

\* Mutant of SweepRow: the first row that has not expired ends the sweep.
SweepRowBreaks ==
    \E id \in sweep.todo :
        /\ \A other \in sweep.todo : id <= other
        /\ IF id \in sweep.before
              THEN Store!StoreDelete(id) /\ sweep' = [sweep EXCEPT !.todo = @ \ {id}]
              ELSE sweep' = NoSweep /\ UNCHANGED rows
        /\ UNCHANGED <<expired, issued, reqVars, pushed, runs>>

\* The next directory entry: read it, delete it if it expired before the
\* cut-off.  An entry that does not decode, or is not deleted, ends the sweep.
SweepRow ==
    \E id \in sweep.todo :
        /\ \A other \in sweep.todo : id <= other
        /\ IF rows[id] = NoRow \/ (Decodes(rows[id]) /\ id \notin sweep.before)
              THEN sweep' = [sweep EXCEPT !.todo = @ \ {id}] /\ UNCHANGED rows
              ELSE \/ /\ Decodes(rows[id])
                      /\ Store!StoreDelete(id)
                      /\ sweep' = [sweep EXCEPT !.todo = @ \ {id}]
                   \/ /\ ~Decodes(rows[id]) \/ Faults \cap {"cancel", "store"} # {}
                      /\ sweep' = NoSweep
                      /\ UNCHANGED rows
        /\ UNCHANGED <<expired, issued, reqVars, pushed, runs>>

Expire(id) ==
    /\ rows[id] # NoRow
    /\ id \notin expired
    /\ expired' = expired \cup {id}
    /\ UNCHANGED <<rows, issued, reqVars, pushed, runs, sweep>>

\* The client goes away or RequestTimeout passes.
Cancel(r) ==
    /\ "cancel" \in Faults
    /\ pc[r] # "idle" /\ live[r]
    /\ live' = [live EXCEPT ![r] = FALSE]
    /\ UNCHANGED <<rows, expired, issued, pc, rid, copy, next, err, pushed, runs, sweep>>

\* The handler's process dies (or the handler panics): only the store remains.
Crash(r) ==
    /\ "crash" \in Faults
    /\ pc[r] # "idle"
    /\ Return(r)
    /\ UNCHANGED <<rows, expired, issued, pushed, runs, sweep>>

-----------------------------------------------------------------------------
Handler(r) ==
    \/ MarkApplying(r) \/ EnsureZone(r) \/ RecordFailure(r) \/ WaitTurn(r)
    \/ SetRecord(r) \/ PushedAll(r) \/ FinishApply(r)
    \/ QueryTargets(r) \/ SaveVerify(r) \/ DeleteRow(r)

Sweeper == SweepSQL \/ SweepStart \/ SweepRow

Next ==
    \/ \E id \in Ids, n \in 0..MaxRecords : Preview(id, n)
    \/ \E r \in Reqs, id \in Ids : BeginApply(r, id) \/ BeginVerify(r, id) \/ BeginDelete(r, id)
    \/ \E r \in Reqs : Handler(r) \/ Cancel(r) \/ Crash(r)
    \/ Sweeper
    \/ \E id \in Ids : Expire(id)

Spec == Init /\ [][Next]_vars

\* Handlers run to their end, and the ticker keeps starting sweeps.
FairSpec == Spec /\ WF_vars(Sweeper) /\ \A r \in Reqs : WF_vars(Handler(r))

-----------------------------------------------------------------------------
(* Properties.                                                              *)

\* However many apply requests race, crash or are retried, at most one of them
\* reaches the provider for a given migration (SECURITY.md T-09).
ApplyAtMostOnce == \A id \in Ids : runs[id] <= 1

\* A row whose status says the records are in place was saved by an apply that
\* got every previewed record accepted; complete also means nameservers were
\* known and asked.  An apply that failed, was cut short or lost its final
\* Update to a concurrent verify never leads to either status.
AppliedMeansPushed ==
    \A id \in Ids : rows[id] # NoRow =>
        /\ rows[id].status \in {"awaiting_ns_change", "complete"} =>
              1..rows[id].n \subseteq pushed[id] /\ rows[id].results = "ok"
        /\ rows[id].status = "complete" => rows[id].ns /\ rows[id].n > 0

Follows ==
    {<<"preview", "applying">>, <<"applying", "awaiting_ns_change">>,
     <<"applying", "failed">>, <<"applying", "verifying">>,
     <<"awaiting_ns_change", "verifying">>, <<"awaiting_ns_change", "complete">>,
     <<"verifying", "verifying">>, <<"verifying", "complete">>,
     <<"complete", "verifying">>, <<"complete", "complete">>}

\* Whoever saves a row moves it along one edge of the status graph from the
\* status stored at that moment, not from the one the handler once read:
\* failed is final, nothing returns to preview, applying never turns complete.
StatusOrder ==
    [][\A id \in Ids : rows[id] # NoRow /\ rows'[id] \notin {NoRow, rows[id]} =>
          <<rows[id].status, rows'[id].status>> \in Follows]_vars

\* A migration that was deleted or swept stays gone, whatever handlers still
\* hold a copy of its row.
NoResurrection ==
    [][\A id \in issued : rows[id] = NoRow => rows'[id] = NoRow]_vars

\* The sweeper eventually removes every expired row (SECURITY.md T-25: "Background
\* sweeper runs every 5 minutes (configurable) to delete expired rows").
ExpiredRowsSwept ==
    \A id \in Ids : rows[id] # NoRow /\ id \in expired ~> rows[id] = NoRow

\* With the JSON store it does so unless a row with a failed record, at or before
\* it in the directory, ends every sweep.
SweptUnlessBlocked ==
    \A id \in Ids : rows[id] # NoRow /\ id \in expired ~>
        \/ rows[id] = NoRow
        \/ \E b \in Ids : b <= id /\ rows[b] # NoRow /\ ~Decodes(rows[b])
=============================================================================
