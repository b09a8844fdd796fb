--------------------------- MODULE RequestPipeline ---------------------------
(***************************************************************************)
(* A request in api.Server: the middleware chain of Server.Handler, the     *)
(* checks every handler begins with, the work, and the way back through the *)
(* chain.  /v1/migrate and /v1/zone/import run migrate.Migrate in a         *)
(* goroutine that the handler does not wait for once the request's context  *)
(* is done.  What lies between two calls of other parts touches the request *)
(* alone and is one step.                                                   *)
(***************************************************************************)
EXTENDS Naturals, Sequences, FiniteSets

CONSTANTS
    Reqs,       \* requests
    Targets,    \* the routes each of them may go to
    Cors,       \* CORSOrigins is not empty
    MaxCalls    \* bound on the provider calls of a request

VARIABLES
    rq,         \* the requests, see PipelineTypeOK
    counts      \* metrics.httpRequests, by status

pipeline == <<rq, counts>>

\* Health, metrics and the like; detection, verification and SPF merges; Domain
\* Connect, templates and zone exports; records and templates to apply; whole
\* zones.
Routes == {"page", "query", "form", "apply", "migrate"}

ASSUME PipelineAssumption ==
    Targets \in [Reqs -> SUBSET Routes] /\ Cors \in BOOLEAN /\ MaxCalls \in Nat

\* Domain Connect and template handlers look at no media type.
FormChecks == <<"method", "body", "field">>

\* What a handler checks before it works, in its order: the method (the mux and
\* requireMethod), the media type, the body, the fields, the credentials in the
\* headers, the template (a dry run ends with resolving it), the provider.
Checks(route) ==
    CASE route = "page" -> <<"method">>
      [] route = "query" -> <<"method", "media", "body", "field">>
      [] route = "form" -> FormChecks
      [] route = "apply" -> <<"method", "media", "body", "field", "credentials", "template", "resolve", "provider">>
      [] route = "migrate" -> <<"method", "body", "field", "provider">>

\* The class of the status that a failed check is answered with: 405, 415, 400,
\* 413, 404; handleApply says 500 if the provider cannot be made.
Refusal(route, check) == IF route = "apply" /\ check = "provider" THEN "5xx" ELSE "4xx"

\* 404 for an unknown template, 400 for one that does not resolve, 500 for a
\* failed sync.
FormAnswers == {"2xx", "4xx", "5xx"}

\* What a handler that passed its checks can say of its work: 503 from /readyz,
\* 400 from those that only read.
Answers(route) ==
    CASE route = "page" -> {"2xx", "5xx"}
      [] route = "query" -> {"2xx", "4xx", "5xx"}
      [] route = "form" -> FormAnswers
      [] route \in {"apply", "migrate"} -> {"2xx", "5xx"}

Statuses == {"2xx", "preflight", "4xx", "5xx"}

Request ==
    [route : Routes,
     valid : BOOLEAN,             \* nothing is wrong with it
     pc : {"idle", "work", "await", "unwind", "panic", "done", "recovered"},
     creds : {"none", "header", "context"},  \* where its credentials are
     exposed : BOOLEAN,           \* slogMW had credentials in its headers
     sent : Statuses \cup {"none"},    \* the header that was written
     got : Statuses \cup {"none"},     \* what arrived at the client
     cut : BOOLEAN,               \* RequestTimeout ran out, or the client left
     calls : 0..MaxCalls,         \* calls that change the provider's zone
     worker : {"none", "running", "ok", "error"}]

PipelineTypeOK ==
    /\ rq \in [Reqs -> Request]
    /\ counts \in [Statuses -> Nat]
    /\ \A r \in Reqs :
          /\ rq[r].pc = "unwind" => rq[r].sent # "none"
          /\ rq[r].pc = "await" => rq[r].worker # "none"

Fresh(route, flaw) ==
    [route |-> route, valid |-> flaw = "none", pc |-> "idle", exposed |-> FALSE,
     creds |-> IF route = "apply" /\ flaw # "credentials" THEN "header" ELSE "none",
     sent |-> "none", got |-> "none", cut |-> FALSE, calls |-> 0, worker |-> "none"]

PipelineInit ==
    /\ rq = [r \in Reqs |-> Fresh("page", "none")]
    /\ counts = [s \in Statuses |-> 0]

\* The context of the request: net/http cancels it when the handler is done.
Over(q) == q.pc \in {"done", "recovered"}
Cancelled(q) == q.cut \/ Over(q)

-----------------------------------------------------------------------------
(* The chain.                                                               *)

\* credentialRedactMW moves the credentials from the headers to the context.
Redact(q) == IF q.creds = "header" THEN [q EXCEPT !.creds = "context"] ELSE q

\* slogMW is handed the headers.
Observe(q) == [q EXCEPT !.exposed = q.creds = "header"]

\* corsMW answers every OPTIONS request itself.
Preflight(q, flaw) ==
    IF Cors /\ flaw = "options" THEN [q EXCEPT !.sent = "preflight", !.pc = "unwind"] ELSE q

\* Server.Handler: recoverMW and requestIDMW let it pass, then come redaction,
\* the log, CORS and the mux.
Entered(q, flaw) == Preflight(Observe(Redact([q EXCEPT !.pc = "work"])), flaw)

\* parseCredentialHeaders looks into the context and then into the headers.
Fails(q, flaw, check) ==
    \/ flaw = check
    \/ flaw = "options" /\ check = "method"
    \/ check = "credentials" /\ q.creds = "none"

\* Mutant of Checked: the return after an error is missing.
CheckedGoesOn(q, flaw) ==
    IF \E k \in 1..Len(Checks(q.route)) : Fails(q, flaw, Checks(q.route)[k])
    THEN [q EXCEPT !.sent = "4xx"] ELSE q

\* The request after the checks: the first one that fails is answered.
Checked(q, flaw) ==
    LET checks == Checks(q.route)
        failed == {k \in 1..Len(checks) : Fails(q, flaw, checks[k])}
        first == CHOOSE k \in failed : \A j \in failed : k <= j
    IN  IF q.pc = "unwind" \/ failed = {} THEN q
        ELSE [q EXCEPT !.sent = Refusal(q.route, checks[first]), !.pc = "unwind"]

\* A goroutine is started for a migration.
Spawned(q) ==
    IF q.route = "migrate" /\ q.pc = "work" THEN [q EXCEPT !.pc = "await", !.worker = "running"] ELSE q

\* A request arrives, with at most one thing wrong, and gets as far as its work.
Accept(r) ==
    /\ rq[r].pc = "idle"
    /\ \E route \in Targets[r] :
       \E flaw \in {Checks(route)[k] : k \in 1..Len(Checks(route))} \cup {"none", "options"} :
          rq' = [rq EXCEPT ![r] = Spawned(Checked(Entered(Fresh(route, flaw), flaw), flaw))]
    /\ UNCHANGED counts

-----------------------------------------------------------------------------
(* The work.                                                                *)

\* Applying records: one provider call at a time.
Call(r) ==
    /\ rq[r].pc = "work" /\ rq[r].route = "apply"
    /\ rq[r].calls < MaxCalls
    /\ rq' = [rq EXCEPT ![r].calls = @ + 1]
    /\ UNCHANGED counts

\* writeJSON or writeError; a header that is written stays.
Answer(r) ==
    /\ rq[r].pc = "work"
    /\ \E s \in Answers(rq[r].route) :
          rq' = [rq EXCEPT ![r].sent = IF @ = "none" THEN s ELSE @, ![r].pc = "unwind"]
    /\ UNCHANGED counts

\* Migrate calls the provider.  A call that was under way when the context was
\* done may still be carried out.
WorkerCall(r) ==
    /\ rq[r].worker = "running"
    /\ rq[r].calls < MaxCalls
    /\ rq' = [rq EXCEPT ![r].calls = @ + 1]
    /\ UNCHANGED counts

\* Migrate returns and the goroutine closes the channel.
WorkerReturns(r) ==
    /\ rq[r].worker = "running"
    /\ \E result \in {"ok", "error"} : rq' = [rq EXCEPT ![r].worker = result]
    /\ UNCHANGED counts

\* Mutant of WorkerAborts: the goroutine hears of it from the handler only.
WorkerAbortsInRequest(r) ==
    /\ rq[r].worker = "running"
    /\ Cancelled(rq[r]) /\ rq[r].pc = "await"
    /\ rq' = [rq EXCEPT ![r].worker = "error"]
    /\ UNCHANGED counts

\* Every wait of Migrate ends with the context.
WorkerAborts(r) ==
    /\ rq[r].worker = "running"
    /\ Cancelled(rq[r])
    /\ rq' = [rq EXCEPT ![r].worker = "error"]
    /\ UNCHANGED counts

\* The select finds the channel closed.
Done(r) ==
    /\ rq[r].pc = "await"
    /\ rq[r].worker # "running"
    /\ rq' = [rq EXCEPT ![r].sent = IF rq[r].worker = "ok" THEN "2xx" ELSE "5xx", ![r].pc = "unwind"]
    /\ UNCHANGED counts

\* The select finds the context done: "request timeout" or "request cancelled".
Abandon(r) ==
    /\ rq[r].pc = "await"
    /\ Cancelled(rq[r])
    /\ rq' = [rq EXCEPT ![r].sent = "5xx", ![r].pc = "unwind"]
    /\ UNCHANGED counts

-----------------------------------------------------------------------------
(* The way back.                                                            *)

\* The response arrives if somebody waits for it and the connection's write
\* deadline, which is as long as RequestTimeout and begins before it, has not
\* passed.  net/http sends 200 for a handler that wrote nothing.
Delivered(q, status) ==
    IF q.cut THEN "none" ELSE IF status = "none" THEN "2xx" ELSE status

\* slogMW logs the request and counts it.
Unwind(r) ==
    /\ rq[r].pc = "unwind"
    /\ counts' = [counts EXCEPT ![rq[r].sent] = @ + 1]
    /\ rq' = [rq EXCEPT ![r].got = Delivered(rq[r], rq[r].sent), ![r].pc = "done"]

\* A handler panics, before its answer or while it encodes it.
Panic(r) ==
    /\ rq[r].pc \in {"work", "unwind"}
    /\ rq' = [rq EXCEPT ![r].pc = "panic"]
    /\ UNCHANGED counts

\* Mutant of Recover: the panic is logged and not answered.
RecoverSilently(r) ==
    /\ rq[r].pc = "panic"
    /\ rq' = [rq EXCEPT ![r].got = Delivered(rq[r], rq[r].sent), ![r].pc = "recovered"]
    /\ UNCHANGED counts

\* recoverMW answers 500, unless a header was sent; slogMW has been skipped.
Recover(r) ==
    /\ rq[r].pc = "panic"
    /\ LET status == IF rq[r].sent = "none" THEN "5xx" ELSE rq[r].sent
       IN  rq' = [rq EXCEPT ![r].got = Delivered(rq[r], status), ![r].pc = "recovered"]
    /\ UNCHANGED counts

-----------------------------------------------------------------------------
InFlight == {r \in Reqs : rq[r].pc # "idle" /\ ~Over(rq[r])}

\* RequestTimeout runs out, or the client hangs up: handlers tell these apart
\* in the text of the error only.
Cut(r) ==
    /\ r \in InFlight /\ ~rq[r].cut
    /\ rq' = [rq EXCEPT ![r].cut = TRUE]
    /\ UNCHANGED counts

Handler(r) == Call(r) \/ Answer(r) \/ Done(r) \/ Abandon(r) \/ Unwind(r) \/ Recover(r)
Environment(r) == Cut(r) \/ Panic(r) \/ WorkerCall(r) \/ WorkerReturns(r)

\* Handlers go on, calls end with their context, and time passes.
PipelineFairness ==
    \A r \in Reqs :
        /\ WF_pipeline(Answer(r) \/ Done(r) \/ Abandon(r)) /\ WF_pipeline(Unwind(r)) /\ WF_pipeline(Recover(r))
        /\ WF_pipeline(WorkerAborts(r)) /\ WF_pipeline(Cut(r))

-----------------------------------------------------------------------------
(* Properties.                                                              *)

\* A client that is told 200 was told so by the handler, not by net/http after
\* a panic, and the migration it asked for has ended without an error.
Honest ==
    \A r \in Reqs : rq[r].got = "2xx" =>
        rq[r].sent = "2xx" /\ (rq[r].route = "migrate" => rq[r].worker = "ok")

\* A request refused by one of the checks has not touched the provider's zone.
RefusedHarmless ==
    \A r \in Reqs : rq[r].sent \in {"preflight", "4xx"} => rq[r].calls = 0 /\ rq[r].worker = "none"

\* The metrics count every answered request once, under the status that was
\* sent, however requests overlap (a panicking request is not counted).
Accounted ==
    \A s \in Statuses : counts[s] = Cardinality({r \in Reqs : rq[r].pc = "done" /\ rq[r].sent = s})

\* Credential headers are out of the log middleware's sight (server.go:
\* "credentialRedact runs BEFORE slog") and still reach the handler.
CredentialsRouted ==
    \A r \in Reqs :
        /\ ~rq[r].exposed
        /\ rq[r].route = "apply" /\ rq[r].valid => rq[r].sent # "4xx"

\* A migration whose request is over, with or without it, ends.
WorkersEnd == \A r \in Reqs : Over(rq[r]) ~> rq[r].worker # "running"
=============================================================================
