------------------------ MODULE ServerLifecycleProofs ------------------------
(***************************************************************************)
(* Proofs about ServerLifecycle: for every set of requests, finite or not,  *)
(* every choice of the routes they may go to and every bound on provider    *)
(* calls, the state invariants of the request pipeline, the honesty of a    *)
(* 200 and what a clean shutdown leaves behind.                             *)
(*                                                                         *)
(* A step of a request changes that request alone, so most of the argument  *)
(* is about one record: RequestOK says what holds of a request at each      *)
(* place, and every operation of the pipeline turns one such record into    *)
(* another.  ServerOK relates the sweeper, the listener and the place where *)
(* ListenAndServe is.                                                       *)
(***************************************************************************)
EXTENDS ServerLifecycle, FiniteSetTheorems, TLAPS

\* What holds of a request, wherever it is.
RequestOK(q) ==
    /\ q \in Request
    /\ ~q.exposed
    /\ q.pc \in {"idle", "work", "await"} => q.sent = "none" /\ q.got = "none"
    /\ q.pc \in {"idle", "work"} => q.worker = "none"
    /\ q.pc = "idle" => q.calls = 0
    /\ q.pc = "work" => q.route # "migrate"
    /\ q.pc = "unwind" => q.sent # "none" /\ q.got = "none"
    /\ q.pc = "panic" => q.got = "none"
    /\ q.pc = "done" => q.sent # "none"
    /\ q.pc = "await" => q.worker # "none" /\ q.route = "migrate"
    /\ q.worker # "none" => q.route = "migrate"
    /\ q.calls > 0 => q.route \in {"apply", "migrate"}
    /\ q.sent \in {"preflight", "4xx"} => q.calls = 0 /\ q.worker = "none"
    /\ q.sent = "2xx" /\ q.route = "migrate" => q.worker = "ok"
    /\ q.got = "2xx" => q.sent = "2xx"
    /\ q.route = "apply" /\ q.valid => q.sent # "4xx"

\* The requests that the metrics have counted under status s.
CountedAs(s) == {r \in Reqs : rq[r].pc = "done" /\ rq[r].sent = s}

CountsOK ==
    \A s \in Statuses : IsFiniteSet(CountedAs(s)) /\ counts[s] = Cardinality(CountedAs(s))

\* What holds of the server: the sweeper has been dealt with when the listener
\* is closed by a shutdown, and the listener is closed before the drain.
ServerOK ==
    /\ slow \in BOOLEAN
    /\ phase \in {"serving", "signal", "wait", "clear", "drain", "returned"}
    /\ field \in {"chan", "nil"} /\ watch \in {"chan", "nil"}
    /\ closed \in BOOLEAN /\ open \in BOOLEAN
    /\ sweeper \in {"select", "sweep", "exited"}
    /\ ret \in {"none", "nil", "deadline", "listener"}
    /\ sweeper = "exited" => closed
    /\ ret # "none" <=> phase = "returned"
    /\ phase \in {"drain", "returned"} => ~open
    /\ phase \in {"clear", "drain"} \/ ret \in {"nil", "deadline"} => slow \/ sweeper = "exited"

IInv ==
    /\ rq \in [Reqs -> Request]
    /\ \A r \in Reqs : RequestOK(rq[r])
    /\ counts \in [Statuses -> Nat]
    /\ CountsOK
    /\ ServerOK
    /\ ret = "nil" => InFlight = {}

-----------------------------------------------------------------------------
(* Arrival: the chain and the checks.                                       *)

\* The parts of a request that the chain leaves alone on the way in.
Like(p, q) ==
    /\ p \in Request
    /\ p.route = q.route /\ p.valid = q.valid
    /\ p.got = q.got /\ p.calls = q.calls /\ p.worker = q.worker

FreshAs(q, route, v) ==
    /\ q \in Request
    /\ q.route = route /\ q.valid = v /\ ~q.exposed
    /\ q.sent = "none" /\ q.got = "none" /\ q.calls = 0 /\ q.worker = "none"
    /\ route = "apply" /\ v => q.creds = "header"

LEMMA FreshOK ==
    ASSUME NEW route \in Routes, NEW flaw, NEW v \in BOOLEAN, v = (flaw = "none")
    PROVE  FreshAs(Fresh(route, flaw), route, v)
<1> DEFINE c == IF route = "apply" /\ flaw # "credentials" THEN "header" ELSE "none"
<1>1. Fresh(route, flaw) =
         [route |-> route, valid |-> v, pc |-> "idle", exposed |-> FALSE, creds |-> c,
          sent |-> "none", got |-> "none", cut |-> FALSE, calls |-> 0, worker |-> "none"]
  BY Zenon DEF Fresh
<1>2. c \in {"none", "header"} /\ (route = "apply" /\ v => c = "header")
  OBVIOUS
<1>3. 0 \in 0..MaxCalls
  BY PipelineAssumption
<1> HIDE DEF c
<1> QED BY <1>1, <1>2, <1>3 DEF FreshAs, Request, Statuses

LEMMA AtWork ==
    ASSUME NEW q \in Request
    PROVE  LET w == [q EXCEPT !.pc = "work"] IN
           Like(w, q) /\ w.pc = "work" /\ w.sent = q.sent /\ w.creds = q.creds
BY DEF Like, Request

LEMMA RedactOK ==
    ASSUME NEW q \in Request
    PROVE  /\ Like(Redact(q), q) /\ Redact(q).pc = q.pc /\ Redact(q).sent = q.sent
           /\ Redact(q).creds # "header"
           /\ q.creds = "header" => Redact(q).creds = "context"
<1>1. CASE q.creds = "header"
  BY <1>1 DEF Redact, Like, Request
<1>2. CASE q.creds # "header"
  BY <1>2 DEF Redact, Like, Request
<1> QED BY <1>1, <1>2

\* Redaction comes before the log, so the log sees no credentials.
LEMMA ObserveOK ==
    ASSUME NEW q \in Request, q.creds # "header"
    PROVE  /\ Like(Observe(q), q) /\ Observe(q).pc = q.pc /\ Observe(q).sent = q.sent
           /\ Observe(q).creds = q.creds
           /\ ~Observe(q).exposed
<1>1. (q.creds = "header") = FALSE
  BY Zenon
<1>2. Observe(q) = [q EXCEPT !.exposed = FALSE]
  BY <1>1, Zenon DEF Observe
<1> QED BY <1>2 DEF Like, Request

LEMMA PreflightOK ==
    ASSUME NEW q \in Request, NEW flaw, q.pc = "work", q.sent = "none"
    PROVE  LET p == Preflight(q, flaw) IN
           /\ Like(p, q) /\ p.creds = q.creds /\ p.exposed = q.exposed
           /\ \/ p.pc = "work" /\ p.sent = "none"
              \/ p.pc = "unwind" /\ p.sent = "preflight"
<1>1. CASE Cors /\ flaw = "options"
  BY <1>1 DEF Preflight, Like, Request, Statuses
<1>2. CASE ~(Cors /\ flaw = "options")
  BY <1>2 DEF Preflight, Like, Request
<1> QED BY <1>1, <1>2

\* A request as it comes out of the chain: at work, or an answered preflight;
\* its credentials are where only the handler finds them.
EnteredAs(q, route, v) ==
    /\ q \in Request
    /\ q.route = route /\ q.valid = v
    /\ ~q.exposed /\ q.got = "none" /\ q.calls = 0 /\ q.worker = "none"
    /\ \/ q.pc = "work" /\ q.sent = "none"
       \/ q.pc = "unwind" /\ q.sent = "preflight"
    /\ route = "apply" /\ v => q.creds = "context"

LEMMA EnteredOK ==
    ASSUME NEW route \in Routes, NEW flaw, NEW v \in BOOLEAN, v = (flaw = "none")
    PROVE  EnteredAs(Entered(Fresh(route, flaw), flaw), route, v)
<1>1. PICK f : f = Fresh(route, flaw)
  OBVIOUS
<1>2. PICK w : w = [f EXCEPT !.pc = "work"]
  OBVIOUS
<1>3. PICK d : d = Redact(w)
  OBVIOUS
<1>4. PICK o : o = Observe(d)
  OBVIOUS
<1>5. PICK p : p = Preflight(o, flaw)
  OBVIOUS
<1>6. FreshAs(f, route, v)
  BY <1>1, FreshOK, Zenon
<1>7. Like(w, f) /\ w.pc = "work" /\ w.sent = f.sent /\ w.creds = f.creds
  BY <1>2, <1>6, AtWork DEF FreshAs
<1>8. /\ Like(d, w) /\ d.pc = w.pc /\ d.sent = w.sent /\ d.creds # "header"
      /\ w.creds = "header" => d.creds = "context"
  BY <1>3, <1>7, RedactOK DEF Like
<1>9. Like(o, d) /\ o.pc = d.pc /\ o.sent = d.sent /\ o.creds = d.creds /\ ~o.exposed
  BY <1>4, <1>8, ObserveOK DEF Like
<1>10. /\ Like(p, o) /\ p.creds = o.creds /\ p.exposed = o.exposed
       /\ \/ p.pc = "work" /\ p.sent = "none"
          \/ p.pc = "unwind" /\ p.sent = "preflight"
  BY <1>5, <1>6, <1>7, <1>8, <1>9, PreflightOK DEF FreshAs, Like
<1>11. EnteredAs(p, route, v)
  BY <1>6, <1>7, <1>8, <1>9, <1>10 DEF FreshAs, Like, EnteredAs
<1> QED BY <1>1, <1>2, <1>3, <1>4, <1>5, <1>11 DEF Entered

\* No check is named "none", which stands for a request without a flaw.
LEMMA ChecksAreNamed ==
    ASSUME NEW k \in 1..Len(Checks("apply"))
    PROVE  Checks("apply")[k] # "none" /\ Checks("apply")[k] # "options"
BY DEF Checks

\* A flawless request to apply fails no check: its credentials are in the
\* context.
LEMMA NothingFails ==
    ASSUME NEW q, EnteredAs(q, "apply", TRUE), NEW k \in 1..Len(Checks("apply"))
    PROVE  ~Fails(q, "none", Checks("apply")[k])
BY ChecksAreNamed DEF Fails, EnteredAs

\* A request that has passed the checks, or been answered by one of them.
ArrivedAs(q, route, v) ==
    /\ q \in Request
    /\ q.route = route /\ q.valid = v
    /\ ~q.exposed /\ q.got = "none" /\ q.calls = 0 /\ q.worker = "none"
    /\ \/ q.pc = "work" /\ q.sent = "none"
       \/ q.pc = "unwind" /\ q.sent \in {"preflight", "4xx", "5xx"}
    /\ route = "apply" /\ v => q.sent # "4xx"

LEMMA CheckedOK ==
    ASSUME NEW route \in Routes, NEW flaw, NEW v \in BOOLEAN, v = (flaw = "none"),
           NEW q, EnteredAs(q, route, v)
    PROVE  ArrivedAs(Checked(q, flaw), route, v)
<1> DEFINE checks == Checks(q.route)
           failed == {k \in 1..Len(checks) : Fails(q, flaw, checks[k])}
           first == CHOOSE k \in failed : \A j \in failed : k <= j
           answered == [q EXCEPT !.sent = Refusal(q.route, checks[first]), !.pc = "unwind"]
<1>1. Refusal(q.route, checks[first]) \in {"4xx", "5xx"}
  BY DEF Refusal
<1>2. CASE q.pc = "unwind" \/ failed = {}
  <2>1. Checked(q, flaw) = q
    BY <1>2, Zenon DEF Checked
  <2> QED BY <2>1 DEF ArrivedAs, EnteredAs
<1>3. CASE ~(q.pc = "unwind" \/ failed = {})
  <2>1. Checked(q, flaw) = answered
    BY <1>3, Zenon DEF Checked
  <2>2. ~(route = "apply" /\ v)
    <3> SUFFICES ASSUME route = "apply", v PROVE FALSE
      OBVIOUS
    <3>1. v = TRUE /\ flaw = "none" /\ q.route = "apply"
      BY DEF EnteredAs
    <3>2. EnteredAs(q, "apply", TRUE)
      BY <3>1, Zenon
    <3>3. failed = {}
      BY <3>1, <3>2, NothingFails, Zenon
    <3> QED BY <1>3, <3>3
  <2>3. PICK s : s = Refusal(q.route, checks[first])
    OBVIOUS
  <2>4. answered = [q EXCEPT !.sent = s, !.pc = "unwind"]
    BY <2>3
  <2>5. s \in {"4xx", "5xx"}
    BY <1>1, <2>3, Zenon
  <2>6. q.pc = "work" /\ q.sent = "none"
    BY <1>3 DEF EnteredAs
  <2> HIDE DEF answered
  <2>7. answered \in Request
    BY <2>4, <2>5 DEF EnteredAs, Request, Statuses
  <2>8. /\ answered.route = q.route /\ answered.valid = q.valid /\ answered.exposed = q.exposed
        /\ answered.got = q.got /\ answered.calls = q.calls /\ answered.worker = q.worker
        /\ answered.pc = "unwind" /\ answered.sent = s
    BY <2>4 DEF EnteredAs, Request
  <2> QED BY <2>1, <2>2, <2>5, <2>7, <2>8 DEF EnteredAs, ArrivedAs
<1> QED BY <1>2, <1>3

\* A migration that passed the checks waits for its goroutine.
LEMMA SpawnedOK ==
    ASSUME NEW route \in Routes, NEW v \in BOOLEAN, NEW q, ArrivedAs(q, route, v)
    PROVE  RequestOK(Spawned(q)) /\ Spawned(q).pc \in {"work", "await", "unwind"}
<1>1. CASE q.route = "migrate" /\ q.pc = "work"
  <2>1. Spawned(q) = [q EXCEPT !.pc = "await", !.worker = "running"]
    BY <1>1 DEF Spawned
  <2> QED BY <1>1, <2>1 DEF ArrivedAs, RequestOK, Request
<1>2. CASE ~(q.route = "migrate" /\ q.pc = "work")
  <2>1. Spawned(q) = q
    BY <1>2 DEF Spawned
  <2> QED BY <1>2, <2>1 DEF ArrivedAs, RequestOK, Request
<1> QED BY <1>1, <1>2

-----------------------------------------------------------------------------
(* The steps of a request.                                                  *)

\* Request r, which has arrived, becomes q; one that is over remains over.
Becomes(r, q) ==
    /\ RequestOK(q)
    /\ rq' = [rq EXCEPT ![r] = q]
    /\ q.pc # "idle"
    /\ Over(rq[r]) => Over(q)

\* The step does not count it; one that has been counted keeps its status.
Uncounted(r, q) ==
    /\ counts' = counts
    /\ q.pc = "done" \/ rq[r].pc = "done" => q.pc = rq[r].pc /\ q.sent = rq[r].sent

CountedNow(r, q) ==
    /\ rq[r].pc # "done" /\ q.pc = "done"
    /\ counts' = [counts EXCEPT ![q.sent] = @ + 1]

StepOf(r) == \E q : Becomes(r, q) /\ (Uncounted(r, q) \/ CountedNow(r, q))

LEMMA AcceptStep ==
    ASSUME IInv, NEW r \in Reqs, Accept(r)
    PROVE  StepOf(r) /\ rq[r].pc = "idle"
<1>10. PICK route \in Targets[r] :
         \E flaw \in {Checks(route)[k] : k \in 1..Len(Checks(route))} \cup {"none", "options"} :
            rq' = [rq EXCEPT ![r] = Spawned(Checked(Entered(Fresh(route, flaw), flaw), flaw))]
  BY Zenon DEF Accept
<1>1. PICK flaw \in {Checks(route)[k] : k \in 1..Len(Checks(route))} \cup {"none", "options"} :
         rq' = [rq EXCEPT ![r] = Spawned(Checked(Entered(Fresh(route, flaw), flaw), flaw))]
  BY <1>10, Zenon
<1>2. route \in Routes
  BY PipelineAssumption
<1>3. PICK v \in BOOLEAN : v = (flaw = "none")
  BY Zenon
<1>4. PICK q : q = Spawned(Checked(Entered(Fresh(route, flaw), flaw), flaw))
  OBVIOUS
<1>5. RequestOK(q) /\ q.pc \in {"work", "await", "unwind"}
  BY <1>2, <1>3, <1>4, EnteredOK, CheckedOK, SpawnedOK, Zenon
<1>6. rq[r].pc = "idle" /\ counts' = counts
  BY Zenon DEF Accept
<1>7. Becomes(r, q) /\ Uncounted(r, q)
  BY <1>1, <1>4, <1>5, <1>6 DEF Becomes, Uncounted, Over
<1> QED BY <1>6, <1>7 DEF StepOf

LEMMA CallStep ==
    ASSUME IInv, NEW r \in Reqs, Call(r) \/ WorkerCall(r)
    PROVE  StepOf(r) /\ rq[r].pc # "idle"
<1>1. PICK p : p = rq[r]
  OBVIOUS
<1>2. PICK q : q = [p EXCEPT !.calls = p.calls + 1]
  OBVIOUS
<1>3. RequestOK(p)
  BY <1>1 DEF IInv
<1>4. /\ p.calls < MaxCalls
      /\ (p.pc = "work" /\ p.route = "apply") \/ p.worker = "running"
      /\ counts' = counts
  BY <1>1, Zenon DEF Call, WorkerCall
<1>5. rq' = [rq EXCEPT ![r] = q]
  BY <1>1, <1>2 DEF Call, WorkerCall
<1>6. q \in Request
  BY <1>2, <1>3, <1>4, PipelineAssumption DEF RequestOK, Request
<1>7. /\ q.route = p.route /\ q.valid = p.valid /\ q.exposed = p.exposed /\ q.pc = p.pc
      /\ q.sent = p.sent /\ q.got = p.got /\ q.worker = p.worker /\ q.calls = p.calls + 1
      /\ p.calls \in 0..MaxCalls
  BY <1>2, <1>3 DEF RequestOK, Request
<1>8. RequestOK(q) /\ p.pc # "idle"
  BY <1>3, <1>4, <1>6, <1>7 DEF RequestOK
<1>9. Becomes(r, q) /\ Uncounted(r, q)
  BY <1>1, <1>4, <1>5, <1>7, <1>8 DEF Becomes, Uncounted, Over
<1> QED BY <1>1, <1>8, <1>9 DEF StepOf

\* An answer is one that the route allows.
LEMMA AnswerStep ==
    ASSUME IInv, NEW r \in Reqs, Answer(r)
    PROVE  StepOf(r) /\ rq[r].pc # "idle"
<1>1. PICK p : p = rq[r]
  OBVIOUS
<1>10. PICK s \in Answers(rq[r].route) :
          rq' = [rq EXCEPT ![r].sent = IF @ = "none" THEN s ELSE @, ![r].pc = "unwind"]
  BY Zenon DEF Answer
<1>2. PICK q : q = [p EXCEPT !.sent = s, !.pc = "unwind"]
  OBVIOUS
<1>3. RequestOK(p)
  BY <1>1 DEF IInv
<1>4. /\ p.pc = "work" /\ p.sent = "none" /\ counts' = counts
      /\ s \in {"2xx", "4xx", "5xx"}
      /\ s = "4xx" => p.route \in {"query", "form"}
  <2>1. p.pc = "work" /\ counts' = counts
    BY <1>1, Zenon DEF Answer
  <2>2. p.route \in Routes
    BY <1>3 DEF RequestOK, Request
  <2>3. s \in Answers(p.route)
    BY <1>1, <1>10
  <2>4. s \in {"2xx", "4xx", "5xx"} /\ (s = "4xx" => p.route \in {"query", "form"})
    BY <2>2, <2>3 DEF Answers, FormAnswers, Routes
  <2> QED BY <1>3, <2>1, <2>4 DEF RequestOK
<1>5. rq' = [rq EXCEPT ![r] = q]
  BY <1>1, <1>2, <1>4, <1>10
<1>6. q \in Request
  BY <1>2, <1>3, <1>4 DEF RequestOK, Request, Statuses
<1>7. /\ q.route = p.route /\ q.valid = p.valid /\ q.exposed = p.exposed /\ q.got = p.got
      /\ q.worker = p.worker /\ q.calls = p.calls /\ q.sent = s /\ q.pc = "unwind"
      /\ p.calls \in 0..MaxCalls
  BY <1>2, <1>3 DEF RequestOK, Request
<1>8. RequestOK(q) /\ p.pc # "idle"
  BY <1>3, <1>4, <1>6, <1>7 DEF RequestOK
<1>9. Becomes(r, q) /\ Uncounted(r, q)
  BY <1>1, <1>4, <1>5, <1>7, <1>8 DEF Becomes, Uncounted, Over
<1> QED BY <1>1, <1>8, <1>9 DEF StepOf

LEMMA ReturnStep ==
    ASSUME IInv, NEW r \in Reqs, WorkerReturns(r) \/ WorkerAborts(r)
    PROVE  StepOf(r) /\ rq[r].pc # "idle"
<1>1. PICK p : p = rq[r]
  OBVIOUS
<1>10. PICK result \in {"ok", "error"} : rq' = [rq EXCEPT ![r].worker = result]
  BY Zenon DEF WorkerReturns, WorkerAborts
<1>2. PICK q : q = [p EXCEPT !.worker = result]
  OBVIOUS
<1>3. RequestOK(p)
  BY <1>1 DEF IInv
<1>4. p.worker = "running" /\ counts' = counts
  BY <1>1, Zenon DEF WorkerReturns, WorkerAborts
<1>5. rq' = [rq EXCEPT ![r] = q]
  BY <1>1, <1>2, <1>10
<1>6. q \in Request
  BY <1>2, <1>3, <1>4 DEF RequestOK, Request, Statuses
<1>7. /\ q.route = p.route /\ q.valid = p.valid /\ q.exposed = p.exposed /\ q.pc = p.pc
      /\ q.sent = p.sent /\ q.got = p.got /\ q.calls = p.calls /\ q.worker = result
  BY <1>2, <1>3 DEF RequestOK, Request
<1>8. RequestOK(q) /\ p.pc # "idle"
  BY <1>3, <1>4, <1>6, <1>7 DEF RequestOK
<1>9. Becomes(r, q) /\ Uncounted(r, q)
  BY <1>1, <1>4, <1>5, <1>7, <1>8 DEF Becomes, Uncounted, Over
<1> QED BY <1>1, <1>8, <1>9 DEF StepOf

\* A 200 is what the goroutine made of the migration.
LEMMA DoneStep ==
    ASSUME IInv, NEW r \in Reqs, Done(r)
    PROVE  StepOf(r) /\ rq[r].pc # "idle"
<1>1. PICK p : p = rq[r]
  OBVIOUS
<1>10. PICK s : s = IF rq[r].worker = "ok" THEN "2xx" ELSE "5xx"
  OBVIOUS
<1>2. PICK q : q = [p EXCEPT !.sent = s, !.pc = "unwind"]
  OBVIOUS
<1>3. RequestOK(p)
  BY <1>1 DEF IInv
<1>4. /\ p.pc = "await" /\ counts' = counts
      /\ s \in {"2xx", "5xx"} /\ (s = "2xx" => p.worker = "ok")
  BY <1>1, <1>10 DEF Done
<1>5. rq' = [rq EXCEPT ![r] = q]
  BY <1>1, <1>2, <1>10 DEF Done
<1>6. q \in Request
  BY <1>2, <1>3, <1>4 DEF RequestOK, Request, Statuses
<1>7. /\ q.route = p.route /\ q.valid = p.valid /\ q.exposed = p.exposed /\ q.got = p.got
      /\ q.worker = p.worker /\ q.calls = p.calls /\ q.sent = s /\ q.pc = "unwind"
  BY <1>2, <1>3 DEF RequestOK, Request
<1>8. RequestOK(q) /\ p.pc # "idle"
  BY <1>3, <1>4, <1>6, <1>7 DEF RequestOK
<1>9. Becomes(r, q) /\ Uncounted(r, q)
  BY <1>1, <1>4, <1>5, <1>7, <1>8 DEF Becomes, Uncounted, Over
<1> QED BY <1>1, <1>8, <1>9 DEF StepOf

LEMMA AbandonStep ==
    ASSUME IInv, NEW r \in Reqs, Abandon(r)
    PROVE  StepOf(r) /\ rq[r].pc # "idle"
<1>1. PICK p : p = rq[r]
  OBVIOUS
<1>2. PICK q : q = [p EXCEPT !.sent = "5xx", !.pc = "unwind"]
  OBVIOUS
<1>3. RequestOK(p)
  BY <1>1 DEF IInv
<1>4. p.pc = "await" /\ counts' = counts
  BY <1>1 DEF Abandon
<1>5. rq' = [rq EXCEPT ![r] = q]
  BY <1>1, <1>2 DEF Abandon
<1>6. q \in Request
  BY <1>2, <1>3, <1>4 DEF RequestOK, Request, Statuses
<1>7. /\ q.route = p.route /\ q.valid = p.valid /\ q.exposed = p.exposed /\ q.got = p.got
      /\ q.worker = p.worker /\ q.calls = p.calls /\ q.sent = "5xx" /\ q.pc = "unwind"
  BY <1>2, <1>3 DEF RequestOK, Request
<1>8. RequestOK(q) /\ p.pc # "idle"
  BY <1>3, <1>4, <1>6, <1>7 DEF RequestOK
<1>9. Becomes(r, q) /\ Uncounted(r, q)
  BY <1>1, <1>4, <1>5, <1>7, <1>8 DEF Becomes, Uncounted, Over
<1> QED BY <1>1, <1>8, <1>9 DEF StepOf

LEMMA PanicStep ==
    ASSUME IInv, NEW r \in Reqs, Panic(r)
    PROVE  StepOf(r) /\ rq[r].pc # "idle"
<1>1. PICK p : p = rq[r]
  OBVIOUS
<1>2. PICK q : q = [p EXCEPT !.pc = "panic"]
  OBVIOUS
<1>3. RequestOK(p)
  BY <1>1 DEF IInv
<1>4. p.pc \in {"work", "unwind"} /\ counts' = counts
  BY <1>1 DEF Panic
<1>5. rq' = [rq EXCEPT ![r] = q]
  BY <1>1, <1>2 DEF Panic
<1>6. q \in Request
  BY <1>2, <1>3, <1>4 DEF RequestOK, Request, Statuses
<1>7. /\ q.route = p.route /\ q.valid = p.valid /\ q.exposed = p.exposed /\ q.sent = p.sent
      /\ q.got = p.got /\ q.worker = p.worker /\ q.calls = p.calls /\ q.pc = "panic"
  BY <1>2, <1>3 DEF RequestOK, Request
<1>8. RequestOK(q) /\ p.pc # "idle"
  BY <1>3, <1>4, <1>6, <1>7 DEF RequestOK
<1>9. Becomes(r, q) /\ Uncounted(r, q)
  BY <1>1, <1>4, <1>5, <1>7, <1>8 DEF Becomes, Uncounted, Over
<1> QED BY <1>1, <1>8, <1>9 DEF StepOf

LEMMA CutStep ==
    ASSUME IInv, NEW r \in Reqs, Cut(r)
    PROVE  StepOf(r) /\ rq[r].pc # "idle"
<1>1. PICK p : p = rq[r]
  OBVIOUS
<1>2. PICK q : q = [p EXCEPT !.cut = TRUE]
  OBVIOUS
<1>3. RequestOK(p)
  BY <1>1 DEF IInv
<1>4. p.pc # "idle" /\ counts' = counts
  BY <1>1 DEF Cut, InFlight
<1>5. rq' = [rq EXCEPT ![r] = q]
  BY <1>1, <1>2 DEF Cut
<1>6. q \in Request
  BY <1>2, <1>3, <1>4 DEF RequestOK, Request, Statuses
<1>7. /\ q.route = p.route /\ q.valid = p.valid /\ q.exposed = p.exposed /\ q.pc = p.pc
      /\ q.sent = p.sent /\ q.got = p.got /\ q.worker = p.worker /\ q.calls = p.calls
  BY <1>2, <1>3 DEF RequestOK, Request
<1>8. RequestOK(q) /\ p.pc # "idle"
  BY <1>3, <1>4, <1>6, <1>7 DEF RequestOK
<1>9. Becomes(r, q) /\ Uncounted(r, q)
  BY <1>1, <1>4, <1>5, <1>7, <1>8 DEF Becomes, Uncounted, Over
<1> QED BY <1>1, <1>8, <1>9 DEF StepOf

\* What a panic leaves to net/http is an error, unless the handler said 200.
LEMMA RecoverStep ==
    ASSUME IInv, NEW r \in Reqs, Recover(r)
    PROVE  StepOf(r) /\ rq[r].pc # "idle"
<1>1. PICK p : p = rq[r]
  OBVIOUS
<1>10. PICK g : g = Delivered(rq[r], IF rq[r].sent = "none" THEN "5xx" ELSE rq[r].sent)
  OBVIOUS
<1>2. PICK q : q = [p EXCEPT !.got = g, !.pc = "recovered"]
  OBVIOUS
<1>3. RequestOK(p)
  BY <1>1 DEF IInv
<1>4. /\ p.pc = "panic" /\ counts' = counts
      /\ g \in Statuses \cup {"none"} /\ (g = "2xx" => p.sent = "2xx")
  <2>1. p.pc = "panic" /\ counts' = counts
    BY <1>1, Zenon DEF Recover
  <2>2. p.sent \in Statuses \cup {"none"}
    BY <1>3 DEF RequestOK, Request
  <2>3. g \in {"none", p.sent, "5xx"} /\ (g = "2xx" => p.sent = "2xx")
    BY <1>1, <1>10 DEF Delivered
  <2> QED BY <2>1, <2>2, <2>3 DEF Statuses
<1>5. rq' = [rq EXCEPT ![r] = q]
  BY <1>1, <1>2, <1>10, Zenon DEF Recover
<1>6. q \in Request
  BY <1>2, <1>3, <1>4 DEF RequestOK, Request, Statuses
<1>7. /\ q.route = p.route /\ q.valid = p.valid /\ q.exposed = p.exposed /\ q.sent = p.sent
      /\ q.worker = p.worker /\ q.calls = p.calls /\ q.got = g /\ q.pc = "recovered"
  BY <1>2, <1>3 DEF RequestOK, Request
<1>8. RequestOK(q) /\ p.pc # "idle"
  BY <1>3, <1>4, <1>6, <1>7 DEF RequestOK
<1>9. Becomes(r, q) /\ Uncounted(r, q)
  BY <1>1, <1>4, <1>5, <1>7, <1>8 DEF Becomes, Uncounted, Over
<1> QED BY <1>1, <1>8, <1>9 DEF StepOf

\* The status that is counted is the one that was sent.
LEMMA UnwindStep ==
    ASSUME IInv, NEW r \in Reqs, Unwind(r)
    PROVE  StepOf(r) /\ rq[r].pc # "idle"
<1>1. PICK p : p = rq[r]
  OBVIOUS
<1>10. PICK g : g = Delivered(rq[r], rq[r].sent)
  OBVIOUS
<1>2. PICK q : q = [p EXCEPT !.got = g, !.pc = "done"]
  OBVIOUS
<1>3. RequestOK(p)
  BY <1>1 DEF IInv
<1>4. /\ p.pc = "unwind" /\ counts' = [counts EXCEPT ![p.sent] = @ + 1]
      /\ g \in Statuses \cup {"none"} /\ (g = "2xx" => p.sent = "2xx")
  <2>1. p.pc = "unwind" /\ counts' = [counts EXCEPT ![p.sent] = @ + 1]
    BY <1>1, Zenon DEF Unwind
  <2>2. p.sent \in Statuses
    BY <1>3, <2>1 DEF RequestOK, Request
  <2>3. g \in {"none", p.sent}
    BY <1>1, <1>10, <2>2 DEF Delivered, Statuses
  <2> QED BY <2>1, <2>2, <2>3 DEF Statuses
<1>5. rq' = [rq EXCEPT ![r] = q]
  BY <1>1, <1>2, <1>10, Zenon DEF Unwind
<1>6. q \in Request
  BY <1>2, <1>3, <1>4 DEF RequestOK, Request, Statuses
<1>7. /\ q.route = p.route /\ q.valid = p.valid /\ q.exposed = p.exposed /\ q.sent = p.sent
      /\ q.worker = p.worker /\ q.calls = p.calls /\ q.got = g /\ q.pc = "done"
  BY <1>2, <1>3 DEF RequestOK, Request
<1>8. RequestOK(q) /\ p.pc # "idle"
  BY <1>3, <1>4, <1>6, <1>7 DEF RequestOK
<1>9. Becomes(r, q) /\ CountedNow(r, q)
  BY <1>1, <1>4, <1>5, <1>7, <1>8 DEF Becomes, CountedNow, Over
<1> QED BY <1>1, <1>8, <1>9 DEF StepOf

LEMMA RequestStep ==
    ASSUME IInv, NEW r \in Reqs, Handler(r) \/ Environment(r) \/ WorkerAborts(r)
    PROVE  StepOf(r) /\ rq[r].pc # "idle"
BY CallStep, AnswerStep, ReturnStep, DoneStep, AbandonStep, PanicStep, CutStep, RecoverStep,
   UnwindStep, Zenon DEF Handler, Environment

-----------------------------------------------------------------------------
(* What a step of one request does to the requests together.                *)

\* The metrics stay exact: one request more in the set that one counter counts,
\* or the same requests in each.
LEMMA StepKeepsCounts ==
    ASSUME IInv, NEW r \in Reqs, StepOf(r)
    PROVE  counts' \in [Statuses -> Nat] /\ CountsOK'
<1>1. PICK q : Becomes(r, q) /\ (Uncounted(r, q) \/ CountedNow(r, q))
  BY DEF StepOf
<1>2. /\ rq \in [Reqs -> Request] /\ counts \in [Statuses -> Nat]
      /\ \A s \in Statuses : IsFiniteSet(CountedAs(s)) /\ counts[s] = Cardinality(CountedAs(s))
  BY DEF IInv, CountsOK
<1>3. /\ rq' = [rq EXCEPT ![r] = q]
      /\ q \in Request
      /\ q.pc = "done" => q.sent \in Statuses
  BY <1>1 DEF Becomes, RequestOK, Request
<1>4. /\ rq'[r] = q
      /\ \A x \in Reqs \ {r} : rq'[x] = rq[x]
  BY <1>2, <1>3
<1>5. CASE Uncounted(r, q)
  <2>1. ASSUME NEW s \in Statuses PROVE CountedAs(s)' = CountedAs(s)
    BY <1>4, <1>5 DEF Uncounted, CountedAs
  <2>2. counts' = counts
    BY <1>5 DEF Uncounted
  <2> QED BY <1>2, <2>1, <2>2 DEF CountsOK
<1>6. CASE CountedNow(r, q)
  <2>1. q.sent \in Statuses
    BY <1>3, <1>6 DEF CountedNow
  <2>2. CountedAs(q.sent)' = CountedAs(q.sent) \cup {r} /\ r \notin CountedAs(q.sent)
    BY <1>4, <1>6 DEF CountedNow, CountedAs
  <2>3. ASSUME NEW s \in Statuses, s # q.sent PROVE CountedAs(s)' = CountedAs(s)
    BY <1>4, <1>6, <2>3 DEF CountedNow, CountedAs
  <2>4. /\ IsFiniteSet(CountedAs(q.sent)')
        /\ Cardinality(CountedAs(q.sent)') = Cardinality(CountedAs(q.sent)) + 1
    BY <1>2, <2>1, <2>2, FS_AddElement
  <2>5. /\ counts' \in [Statuses -> Nat]
        /\ counts'[q.sent] = counts[q.sent] + 1
        /\ \A s \in Statuses \ {q.sent} : counts'[s] = counts[s]
    BY <1>2, <1>6, <2>1 DEF CountedNow
  <2>6. ASSUME NEW s \in Statuses
        PROVE  IsFiniteSet(CountedAs(s)') /\ counts'[s] = Cardinality(CountedAs(s)')
    <3>1. CASE s = q.sent
      BY <1>2, <2>1, <2>4, <2>5, <3>1
    <3>2. CASE s # q.sent
      BY <1>2, <2>3, <2>5, <3>2
    <3> QED BY <3>1, <3>2
  <2> QED BY <2>5, <2>6 DEF CountsOK
<1> QED BY <1>1, <1>5, <1>6

\* No step brings a request into flight but an arrival, which needs the
\* listener.
LEMMA StepIInv ==
    ASSUME IInv, NEW r \in Reqs, StepOf(r), rq[r].pc # "idle" \/ open, UNCHANGED server
    PROVE  IInv'
<1>1. PICK q : Becomes(r, q)
  BY DEF StepOf
<1>2. rq \in [Reqs -> Request] /\ \A x \in Reqs : RequestOK(rq[x])
  BY DEF IInv
<1>3. /\ rq' = [rq EXCEPT ![r] = q] /\ q \in Request /\ RequestOK(q)
      /\ Over(rq[r]) => Over(q)
  BY <1>1 DEF Becomes, RequestOK
<1>4. rq'[r] = q /\ \A x \in Reqs \ {r} : rq'[x] = rq[x]
  BY <1>2, <1>3
<1>5. rq' \in [Reqs -> Request] /\ \A x \in Reqs : RequestOK(rq'[x])
  BY <1>2, <1>3, <1>4
<1>6. counts' \in [Statuses -> Nat] /\ CountsOK'
  BY StepKeepsCounts
<1>7. ServerOK'
  BY DEF IInv, ServerOK, server
<1>8. ASSUME ret' = "nil" PROVE InFlight' = {}
  <2>1. ret = "nil" /\ ~open /\ InFlight = {}
    BY <1>8 DEF IInv, ServerOK, server
  <2>2. Over(q)
    BY <1>3, <2>1 DEF InFlight
  <2> QED BY <1>4, <2>1, <2>2 DEF InFlight
<1> QED BY <1>5, <1>6, <1>7, <1>8 DEF IInv

-----------------------------------------------------------------------------
(* The invariant.                                                           *)

LEMMA InitIInv == Init => IInv
<1> SUFFICES ASSUME Init PROVE IInv
  OBVIOUS
<1>1. PICK v \in BOOLEAN : v = ("none" = "none")
  OBVIOUS
<1>2. PICK f : f = Fresh("page", "none")
  OBVIOUS
<1>3. FreshAs(f, "page", v) /\ f.pc = "idle"
  BY <1>1, <1>2, FreshOK, Zenon DEF Fresh, Routes
<1>4. RequestOK(f) /\ f \in Request
  BY <1>3 DEF FreshAs, RequestOK
<1>5. rq = [r \in Reqs |-> f] /\ counts = [s \in Statuses |-> 0]
  BY <1>2 DEF Init, PipelineInit
<1>6. ASSUME NEW s \in Statuses PROVE CountedAs(s) = {}
  BY <1>3, <1>5 DEF CountedAs
<1>7. CountsOK
  BY <1>5, <1>6, FS_EmptySet DEF CountsOK
<1>8. ServerOK /\ ret # "nil"
  BY DEF Init, ServerOK
<1> QED BY <1>4, <1>5, <1>7, <1>8 DEF IInv

LEMMA ServerIInv ==
    ASSUME IInv, Sweeper \/ Shutdown \/ CtxDone \/ ListenerFails
    PROVE  IInv'
<1>1. UNCHANGED pipeline
  BY DEF Sweeper, Shutdown, CtxDone, ListenerFails, Tick, SweepDone, SeeStop, CloseStop,
         AwaitSweeper, ClearFields, Drain
<1>2. /\ rq' = rq /\ counts' = counts
      /\ CountsOK' /\ InFlight' = InFlight
  BY <1>1 DEF IInv, pipeline, CountsOK, CountedAs, InFlight
<1>3. ServerOK'
  <2>1. CASE Sweeper
    BY <2>1 DEF IInv, ServerOK, Sweeper, Tick, SweepDone, SeeStop
  <2>2. CASE CtxDone \/ ListenerFails
    BY <2>2 DEF IInv, ServerOK, CtxDone, ListenerFails
  <2>3. CASE CloseStop
    BY <2>3 DEF IInv, ServerOK, CloseStop
  <2>4. CASE AwaitSweeper
    BY <2>4 DEF IInv, ServerOK, AwaitSweeper
  <2>5. CASE ClearFields
    BY <2>5 DEF IInv, ServerOK, ClearFields
  <2>6. CASE Drain
    BY <2>6 DEF IInv, ServerOK, Drain
  <2> QED BY <2>1, <2>2, <2>3, <2>4, <2>5, <2>6 DEF Shutdown
<1>4. ret' = "nil" => InFlight = {}
  BY DEF IInv, Sweeper, Shutdown, CtxDone, ListenerFails, Tick, SweepDone, SeeStop, CloseStop,
         AwaitSweeper, ClearFields, Drain
<1> QED BY <1>2, <1>3, <1>4 DEF IInv

LEMMA NextIInv == IInv /\ [Next]_vars => IInv'
<1> SUFFICES ASSUME IInv, [Next]_vars PROVE IInv'
  OBVIOUS
<1>1. CASE Sweeper \/ Shutdown \/ CtxDone \/ ListenerFails
  BY <1>1, ServerIInv
<1>2. ASSUME NEW r \in Reqs, Serve(r) PROVE IInv'
  <2>1. open /\ Accept(r) /\ UNCHANGED server
    BY <1>2 DEF Serve
  <2> QED BY <2>1, AcceptStep, StepIInv
<1>3. ASSUME NEW r \in Reqs, Handle(r) \/ Happen(r) PROVE IInv'
  <2>1. (Handler(r) \/ Environment(r) \/ WorkerAborts(r)) /\ UNCHANGED server
    BY <1>3, Zenon DEF Handle, Happen
  <2> QED BY <2>1, RequestStep, StepIInv
<1>4. CASE UNCHANGED vars
  BY <1>4 DEF vars, IInv, CountsOK, CountedAs, ServerOK, InFlight
<1> QED BY <1>1, <1>2, <1>3, <1>4, Zenon DEF Next

LEMMA Invariance == Spec => []IInv
BY InitIInv, NextIInv, PTL DEF Spec

-----------------------------------------------------------------------------
(* The results.                                                             *)

\* The requests and the server are well formed, a request that a check refused
\* has not touched the provider's zone, the metrics count every answered
\* request exactly once under the status that was sent, and credentials reach
\* the handler and not the log.
THEOREM RequestsAreSafe == Spec => []RequestsSafe
<1>1. IInv => TypeOK
  <2> SUFFICES ASSUME IInv PROVE TypeOK
    OBVIOUS
  <2>1. PipelineTypeOK
    BY DEF IInv, RequestOK, PipelineTypeOK
  <2> QED BY <2>1 DEF IInv, ServerOK, TypeOK
<1>2. IInv => RefusedHarmless
  BY DEF IInv, RequestOK, RefusedHarmless
<1>3. IInv => Accounted
  BY DEF IInv, CountsOK, CountedAs, Accounted
<1>4. IInv => CredentialsRouted
  BY DEF IInv, RequestOK, CredentialsRouted
<1> QED BY <1>1, <1>2, <1>3, <1>4, Invariance, PTL DEF RequestsSafe

\* A client that is told 200 was told so by the handler, and a migration it
\* asked for has ended without an error, whatever was cut off, cancelled or
\* panicked.
THEOREM TwoHundredIsHonest == Spec => []Honest
<1>1. IInv => Honest
  BY DEF IInv, RequestOK, Honest
<1> QED BY <1>1, Invariance, PTL

\* ListenAndServe returns nil after a shutdown only when no request is in
\* flight, the sweeper is gone or in a sweep of more than two seconds, and
\* every migration still running has been told to stop.
THEOREM ShutdownIsClean == Spec => []CleanShutdown
<1>1. ASSUME IInv, ret = "nil" PROVE \A r \in Reqs : rq[r].worker = "running" => Cancelled(rq[r])
  BY <1>1 DEF IInv, RequestOK, InFlight, Cancelled
<1>2. IInv => CleanShutdown
  BY <1>1 DEF IInv, ServerOK, CleanShutdown
<1> QED BY <1>2, Invariance, PTL
=============================================================================
