--------------------------- MODULE ServerLifecycle ---------------------------
(***************************************************************************)
(* The life of api.Server (api/server.go): ListenAndServe starts the        *)
(* sweeper goroutine and serves; when its context is done, Shutdown stops   *)
(* the sweeper, waiting at most two seconds for it, and drains requests for *)
(* at most thirty.  The goroutine reads the field s.sweeperStop again at    *)
(* every turn of its loop, and stopSweeper sets that field to nil.          *)
(***************************************************************************)
EXTENDS RequestPipeline

VARIABLES
    slow,      \* a sweep takes longer than stopSweeper waits
    phase,     \* where ListenAndServe is
    field,     \* s.sweeperStop: "chan" or "nil"
    closed,    \* the stop channel is closed
    sweeper,   \* the goroutine: at its select, in a sweep, or gone
    watch,     \* what its select waits on: "chan" or "nil"
    open,      \* the listener accepts
    ret        \* what ListenAndServe returned

vars == <<slow, phase, field, closed, sweeper, watch, open, ret, rq, counts>>

TypeOK ==
    /\ slow \in BOOLEAN
    /\ phase \in {"serving", "signal", "wait", "clear", "drain", "returned"}
    /\ field \in {"chan", "nil"} /\ watch \in {"chan", "nil"}
    /\ closed \in BOOLEAN /\ open \in BOOLEAN
    /\ sweeper \in {"select", "sweep", "exited"}
    /\ PipelineTypeOK
    /\ ret \in {"none", "nil", "deadline", "listener"}
    /\ sweeper = "exited" => closed

\* ListenAndServe has called startSweeper and listens.
Init ==
    /\ slow \in BOOLEAN
    /\ phase = "serving"
    /\ field = "chan" /\ watch = "chan"
    /\ closed = FALSE /\ open = TRUE
    /\ sweeper = "select"
    /\ PipelineInit
    /\ ret = "none"

-----------------------------------------------------------------------------
(* The sweeper goroutine.                                                   *)

\* The ticker wins the select.
Tick ==
    /\ sweeper = "select"
    /\ sweeper' = "sweep"
    /\ UNCHANGED <<slow, phase, field, closed, watch, open, pipeline, ret>>

\* SweepExpired returns and the loop evaluates s.sweeperStop again.
SweepDone ==
    /\ sweeper = "sweep"
    /\ sweeper' = "select"
    /\ watch' = field
    /\ UNCHANGED <<slow, phase, field, closed, open, pipeline, ret>>

\* The closed stop channel wins; a nil channel never does.
SeeStop ==
    /\ sweeper = "select"
    /\ watch = "chan" /\ closed
    /\ sweeper' = "exited"
    /\ UNCHANGED <<slow, phase, field, closed, watch, open, pipeline, ret>>

-----------------------------------------------------------------------------
(* ListenAndServe and Shutdown.                                             *)

CtxDone ==
    /\ phase = "serving"
    /\ phase' = "signal"
    /\ UNCHANGED <<slow, field, closed, sweeper, watch, open, pipeline, ret>>

\* The listener fails: ListenAndServe returns and leaves the sweeper running.
\* http.ErrServerClosed, which gives nil instead (server.go:211-213), needs a
\* Shutdown from outside: in this code only ListenAndServe calls it, after the
\* select is over.
ListenerFails ==
    /\ phase = "serving"
    /\ phase' = "returned"
    /\ open' = FALSE
    /\ ret' = "listener"
    /\ UNCHANGED <<slow, field, closed, sweeper, watch, pipeline>>

\* Mutant of CloseStop: the channel is not closed.
CloseStopForgets ==
    /\ phase = "signal"
    /\ phase' = "wait"
    /\ UNCHANGED <<slow, field, closed, sweeper, watch, open, pipeline, ret>>

\* stopSweeper: close(s.sweeperStop).
CloseStop ==
    /\ phase = "signal"
    /\ closed' = TRUE
    /\ phase' = "wait"
    /\ UNCHANGED <<slow, field, sweeper, watch, open, pipeline, ret>>

\* stopSweeper: <-s.sweeperDone, or two seconds.  Only a sweep takes that long.
AwaitSweeper ==
    /\ phase = "wait"
    /\ sweeper = "exited" \/ (slow /\ sweeper = "sweep")
    /\ phase' = "clear"
    /\ UNCHANGED <<slow, field, closed, sweeper, watch, open, pipeline, ret>>

\* stopSweeper: both fields become nil; then http.Server.Shutdown closes the
\* listener.
ClearFields ==
    /\ phase = "clear"
    /\ field' = "nil"
    /\ open' = FALSE
    /\ phase' = "drain"
    /\ UNCHANGED <<slow, closed, sweeper, watch, pipeline, ret>>

\* Mutant of Drain: Close in place of Shutdown.
DrainCloses ==
    /\ phase = "drain"
    /\ phase' = "returned"
    /\ ret' = "nil"
    /\ UNCHANGED <<slow, field, closed, sweeper, watch, open, pipeline>>

\* http.Server.Shutdown returns when no request is left, or with the context's
\* error after thirty seconds.
Drain ==
    /\ phase = "drain"
    /\ \/ InFlight = {} /\ ret' = "nil"
       \/ InFlight # {} /\ ret' = "deadline"
    /\ phase' = "returned"
    /\ UNCHANGED <<slow, field, closed, sweeper, watch, open, pipeline>>

-----------------------------------------------------------------------------
(* Requests.                                                                *)

server == <<slow, phase, field, closed, sweeper, watch, open, ret>>

\* The listener hands a request to the chain.
Serve(r) == open /\ Accept(r) /\ UNCHANGED server

Handle(r) == Handler(r) /\ UNCHANGED server

Happen(r) == (Environment(r) \/ WorkerAborts(r)) /\ UNCHANGED server

Sweeper == Tick \/ SweepDone \/ SeeStop

Shutdown == CloseStop \/ AwaitSweeper \/ ClearFields \/ Drain

Next ==
    \/ Sweeper \/ Shutdown \/ CtxDone \/ ListenerFails
    \/ \E r \in Reqs : Serve(r) \/ Handle(r) \/ Happen(r)

Spec == Init /\ [][Next]_vars

\* Goroutines run, handlers return, and a select whose stop channel is ready
\* again and again does not pick the ticker for ever.
FairSpec ==
    /\ Spec
    /\ WF_vars(SweepDone) /\ SF_vars(SeeStop) /\ WF_vars(Tick)
    /\ WF_vars(Shutdown)
    /\ PipelineFairness

-----------------------------------------------------------------------------
(* Properties.                                                              *)

\* Once Shutdown has begun the sweeper goroutine exits (server.go: "stopSweeper
\* signals the sweeper to exit and waits for it").  A sweep of more than two
\* seconds breaks this: the goroutine then finds s.sweeperStop nil.
SweeperStops == phase = "signal" /\ ~slow ~> sweeper = "exited"

\* A shutdown that reports success left no request in flight, though requests
\* are accepted until the sweeper has been dealt with, and no sweeper that
\* finishes its sweeps in time.  A migration may outlive its request and with it
\* the shutdown, but then it has been told to stop.
CleanShutdown ==
    ret = "nil" =>
        /\ InFlight = {}
        /\ slow \/ sweeper = "exited"
        /\ \A r \in Reqs : rq[r].worker = "running" => Cancelled(rq[r])

\* Shutdown is not blocked for ever by a sweep or by requests.
ShutdownReturns == phase = "signal" ~> phase = "returned"

\* A shutdown that has begun ends: ListenAndServe returns and, if sweeps take
\* less than two seconds, the sweeper goroutine exits.
ShutdownEnds == ShutdownReturns /\ SweeperStops

\* The state invariants of requests: refused ones are harmless, answered ones
\* are counted once, and credentials reach the handler and not the log.
RequestsSafe == TypeOK /\ RefusedHarmless /\ Accounted /\ CredentialsRouted
=============================================================================
