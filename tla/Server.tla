--------------------------------- MODULE Server ---------------------------------
(***************************************************************************)
(* The life of cmd/server's processes, with cmd/consolidate's beside them, *)
(* over one database: the boot through InitSchema, the probes, the two     *)
(* listeners, the drain at SIGTERM, crashes and restarts; and the session  *)
(* RPCs in flight meanwhile, with the gauge each process keeps of them.    *)
(*                                                                         *)
(* A REST call is a connection to the HTTP server whose handler dials the  *)
(* process's own gRPC server.                                              *)
(***************************************************************************)
EXTENDS Integers, FiniteSets, FiniteSetsExt

CONSTANTS
    Servers,
    Jobs,          \* runs of the consolidation job
    Dims,
    EmbedderDim,   \* [Servers -> Dims]: KORA_EMBEDDING_DIM, or the provider's
    DefaultDim,    \* what a repository of dimension 0 takes without a table
    Calls,
    Sessions,
    Earlier,       \* the sessions opened before, by a process that is gone
    MayFail,       \* statements may fail, applied or not
    None

ASSUME ServerAssumption ==
    /\ EmbedderDim \in [Servers -> Dims] /\ DefaultDim \in Dims
    /\ None \notin Dims
    /\ None \notin Servers \cup Sessions \cup {"start", "end"}
    /\ Servers \cap Jobs = {}
    /\ IsFiniteSet(Servers) /\ IsFiniteSet(Calls) /\ IsFiniteSet(Sessions)
    /\ Earlier \subseteq Sessions /\ MayFail \in BOOLEAN

Processes == Servers \cup Jobs

VARIABLES
    \* the database
    width,       \* of memory_embeddings.embedding, None without the table
    schema,      \* InitSchema went through once: indexes, graph, labels
    session,     \* [Sessions -> "none", "open" or "ended"]
    \* the processes
    pc,
    dim,         \* AGERepository.embeddingDim
    http, grpc,  \* the listeners: "down", "up" or "stopping"
    started, draining,  \* the flags of Probes
    pool,        \* the connection pool is open
    overrun,     \* shutdownTimeout has passed with requests still running
    gauge,       \* kora_active_sessions
    forgotten,   \* history: what gauges read when their process ended
    \* the calls
    step, kind, at, about,
    changed,     \* history: the call changed its session
    counted      \* history: the call moved the gauge

processVars == <<width, schema, pc, dim, http, grpc, started, draining, pool, overrun>>
callVars == <<session, gauge, step, kind, at, about, changed, counted>>
vars == <<processVars, callVars, forgotten>>

Booting == {"connected", "dimension", "table", "verified", "schema", "grpc"}
Stopping == {"httpDrain", "grpcDrain", "closed"}
InHandler == {"call", "edge", "count"}
Ended == {"answered", "conflict", "failed", "unavailable"}

TypeOK ==
    /\ width \in Dims \cup {None} /\ schema \in BOOLEAN
    /\ session \in [Sessions -> {"none", "open", "ended"}]
    /\ pc \in [Processes -> {"down", "running", "working"} \cup Booting \cup Stopping]
    /\ dim \in [Processes -> Dims \cup {None}]
    /\ http \in [Servers -> {"down", "up", "stopping"}]
    /\ grpc \in [Servers -> {"down", "up", "stopping"}]
    /\ started \in [Servers -> BOOLEAN] /\ draining \in [Servers -> BOOLEAN]
    /\ \A p \in Processes : pc[p] \notin {"down", "connected"} => dim[p] \in Dims
    /\ pool \in [Processes -> BOOLEAN] /\ overrun \in [Servers -> BOOLEAN]
    /\ gauge \in [Servers -> -Cardinality(Calls)..Cardinality(Calls)]
    /\ forgotten \in Int
    /\ step \in [Calls -> {"idle", "rest"} \cup InHandler \cup Ended]
    /\ kind \in [Calls -> {"start", "end", None}]
    /\ at \in [Calls -> Servers \cup {None}]
    /\ about \in [Calls -> Sessions \cup {None}]
    /\ changed \in [Calls -> BOOLEAN] /\ counted \in [Calls -> BOOLEAN]

Init ==
    /\ width = None /\ schema = FALSE
    /\ session = [s \in Sessions |-> IF s \in Earlier THEN "open" ELSE "none"]
    /\ pc = [p \in Processes |-> "down"]
    /\ dim = [p \in Processes |-> None]
    /\ http = [p \in Servers |-> "down"]
    /\ grpc = [p \in Servers |-> "down"]
    /\ started = [p \in Servers |-> FALSE]
    /\ draining = [p \in Servers |-> FALSE]
    /\ pool = [p \in Processes |-> FALSE]
    /\ overrun = [p \in Servers |-> FALSE]
    /\ gauge = [p \in Servers |-> 0]
    /\ forgotten = Cardinality(Earlier)
    /\ step = [c \in Calls |-> "idle"]
    /\ kind = [c \in Calls |-> None]
    /\ at = [c \in Calls |-> None]
    /\ about = [c \in Calls |-> None]
    /\ changed = [c \in Calls |-> FALSE]
    /\ counted = [c \in Calls |-> FALSE]

-----------------------------------------------------------------------------
(* Boot *)

Goto(p, next) == pc' = [pc EXCEPT ![p] = next]

\* The process is gone, and everything it kept in memory: its calls end in an
\* error at the client, whatever they did.
Gone(p) ==
    /\ Goto(p, "down")
    /\ pool' = [pool EXCEPT ![p] = FALSE]
    /\ dim' = [dim EXCEPT ![p] = None]
    /\ IF p \in Jobs
       THEN UNCHANGED <<http, grpc, started, draining, overrun, gauge, forgotten, step>>
       ELSE /\ http' = [http EXCEPT ![p] = "down"]
            /\ grpc' = [grpc EXCEPT ![p] = "down"]
            /\ started' = [started EXCEPT ![p] = FALSE]
            /\ draining' = [draining EXCEPT ![p] = FALSE]
            /\ overrun' = [overrun EXCEPT ![p] = FALSE]
            /\ gauge' = [gauge EXCEPT ![p] = 0]
            /\ forgotten' = forgotten + gauge[p]
            /\ step' = [c \in Calls |->
                 IF at[c] = p /\ step[c] \notin Ended THEN "failed" ELSE step[c]]
    /\ UNCHANGED <<width, schema, session, kind, at, about, changed, counted>>

\* NewPool and NewAGERepository; the job passes dimension 0.
Connect(p) ==
    /\ pc[p] = "down"
    /\ Goto(p, IF p \in Jobs THEN "connected" ELSE "dimension")
    /\ pool' = [pool EXCEPT ![p] = TRUE]
    /\ dim' = [dim EXCEPT ![p] = IF p \in Jobs THEN None ELSE EmbedderDim[p]]
    /\ UNCHANGED <<width, schema, http, grpc, started, draining, overrun, callVars, forgotten>>

\* Dimension 0: the table's, or the default when there is no table yet.
WidthFound == width  \* a bug: no default
WidthOrDefault == IF width = None THEN DefaultDim ELSE width

existingEmbeddingDim(p) ==
    /\ pc[p] = "connected"
    /\ dim' = [dim EXCEPT ![p] = WidthOrDefault]
    /\ Goto(p, "dimension")
    /\ UNCHANGED <<width, schema, http, grpc, started, draining, pool, overrun, callVars, forgotten>>

\* CREATE TABLE IF NOT EXISTS ... vector(dim)
CreateTable(p) ==
    /\ pc[p] = "dimension"
    /\ width' = IF width = None THEN dim[p] ELSE width
    /\ Goto(p, "table")
    /\ UNCHANGED <<schema, dim, http, grpc, started, draining, pool, overrun, callVars, forgotten>>

\* A mismatch is an error of InitSchema, and fatal.
MismatchOfJobs(p) == p \in Jobs /\ width # dim[p]  \* a bug
Mismatch(p) == width # dim[p]

verifyEmbeddingDim(p) ==
    /\ pc[p] = "table"
    /\ \/ Mismatch(p) /\ Gone(p)
       \/ /\ ~Mismatch(p) /\ Goto(p, "verified")
          /\ UNCHANGED <<width, schema, dim, http, grpc, started, draining, pool, overrun,
                         callVars, forgotten>>

\* The rest of InitSchema: every statement is IF NOT EXISTS, or its "already
\* exists" is passed over, so a second process repeats it without effect.
InitSchemaRest(p) ==
    /\ pc[p] = "verified"
    /\ schema' = TRUE
    /\ Goto(p, IF p \in Jobs THEN "working" ELSE "schema")
    /\ UNCHANGED <<width, dim, http, grpc, started, draining, pool, overrun, callVars, forgotten>>

\* The gRPC server listens before the gateway that dials it exists.
ListenGRPC(p) ==
    /\ pc[p] = "schema"
    /\ grpc' = [grpc EXCEPT ![p] = "up"]
    /\ Goto(p, "grpc")
    /\ UNCHANGED <<width, schema, dim, http, started, draining, pool, overrun, callVars, forgotten>>

\* A goroutine for the HTTP server, and Probes.MarkStarted without waiting for
\* it: either may be first.
MarkStarted(p) ==
    /\ pc[p] = "grpc"
    /\ started' = [started EXCEPT ![p] = TRUE]
    /\ Goto(p, "running")
    /\ UNCHANGED <<width, schema, dim, http, grpc, draining, pool, overrun, callVars, forgotten>>

ListenHTTP(p) ==
    /\ p \in Servers /\ pc[p] \in {"grpc", "running"} /\ http[p] = "down"
    /\ http' = [http EXCEPT ![p] = "up"]
    /\ UNCHANGED <<width, schema, pc, dim, grpc, started, draining, pool, overrun, callVars, forgotten>>

\* A statement of the boot fails, the job is done, or the process dies.
Crash(p) == pc[p] # "down" /\ Gone(p)

-----------------------------------------------------------------------------
(* Shutdown *)

OnREST(p) == {c \in Calls : at[c] = p /\ step[c] = "rest"}
OnGRPC(p) == {c \in Calls : at[c] = p /\ step[c] \in InHandler}

\* A bug: gRPC first.
DrainBoth(p) ==
    /\ p \in Servers /\ pc[p] = "running"
    /\ draining' = [draining EXCEPT ![p] = TRUE]
    /\ http' = [http EXCEPT ![p] = "stopping"]
    /\ grpc' = [grpc EXCEPT ![p] = "stopping"]
    /\ Goto(p, "httpDrain")
    /\ UNCHANGED <<width, schema, dim, started, pool, overrun, callVars, forgotten>>

\* SIGTERM: readiness fails, and the HTTP server takes no new requests.
Drain(p) ==
    /\ p \in Servers /\ pc[p] = "running"
    /\ draining' = [draining EXCEPT ![p] = TRUE]
    /\ http' = [http EXCEPT ![p] = "stopping"]
    /\ Goto(p, "httpDrain")
    /\ UNCHANGED <<width, schema, dim, grpc, started, pool, overrun, callVars, forgotten>>

Deadline(p) ==
    /\ pc[p] = "httpDrain" /\ OnREST(p) # {} /\ ~overrun[p]
    /\ overrun' = [overrun EXCEPT ![p] = TRUE]
    /\ UNCHANGED <<width, schema, pc, dim, http, grpc, started, draining, pool, callVars, forgotten>>

\* Shutdown waits for the requests it has, until the deadline.  One that its
\* handler has passed on to gRPC, GracefulStop waits for in any case.
AllAnswered(p) == OnREST(p) = {}  \* a bug: a Shutdown without a deadline
AnsweredOrLate(p) == OnREST(p) = {} \/ overrun[p]

\* ... and then GracefulStop begins.
ShutdownReturns(p) ==
    /\ pc[p] = "httpDrain" /\ AnsweredOrLate(p)
    /\ grpc' = [grpc EXCEPT ![p] = "stopping"]
    /\ Goto(p, "grpcDrain")
    /\ UNCHANGED <<width, schema, dim, http, started, draining, pool, overrun, callVars, forgotten>>

\* GracefulStop has no deadline: it returns when no RPC is left.
NoRPCsAwaited(p) == {}  \* a bug: Stop in place of GracefulStop
RPCsLeft(p) == OnGRPC(p)

\* repo.Close.
GracefulStopReturns(p) ==
    /\ pc[p] = "grpcDrain"
    /\ RPCsLeft(p) = {}
    /\ pool' = [pool EXCEPT ![p] = FALSE]
    /\ Goto(p, "closed")
    /\ UNCHANGED <<width, schema, dim, http, grpc, started, draining, overrun, callVars, forgotten>>

Exit(p) == pc[p] = "closed" /\ Gone(p)

-----------------------------------------------------------------------------
(* Session calls.  A client knows a session by the answer to its start.     *)

Known(s) == s \in Earlier \/ \E c \in Calls : about[c] = s /\ kind[c] = "start" /\ step[c] = "answered"
Fresh(s) == s \notin Earlier /\ \A c \in Calls : about[c] # s

\* One call that was not made yet is as good as another.
Arrive(c, p, first) ==
    /\ step[c] = "idle" /\ c = CHOOSE d \in Calls : step[d] = "idle"
    /\ \E s \in Sessions, k \in {"start", "end"} :
          /\ IF k = "start" THEN Fresh(s) ELSE Known(s)
          /\ about' = [about EXCEPT ![c] = s]
          /\ kind' = [kind EXCEPT ![c] = k]
    /\ at' = [at EXCEPT ![c] = p]
    /\ step' = [step EXCEPT ![c] = first]
    /\ UNCHANGED <<processVars, forgotten, session, gauge, changed, counted>>

CallREST(c, p) == http[p] = "up" /\ Arrive(c, p, "rest")
CallGRPC(c, p) == grpc[p] = "up" /\ Arrive(c, p, "call")

\* The gateway's handler calls the process's own gRPC server.
Dial(c) ==
    /\ step[c] = "rest"
    /\ step' = [step EXCEPT ![c] = IF grpc[at[c]] = "up" THEN "call" ELSE "unavailable"]
    /\ UNCHANGED <<processVars, forgotten, session, gauge, kind, at, about, changed, counted>>

Continue(c, next) ==
    /\ step' = [step EXCEPT ![c] = next]
    /\ UNCHANGED <<processVars, forgotten, gauge, kind, at, about, counted>>

Change(c, state) ==
    /\ session' = [session EXCEPT ![about[c]] = state]
    /\ changed' = [changed EXCEPT ![c] = TRUE]

\* CreateSession's two statements; without a :Project vertex the second has no
\* effect.  An error of either is an error of StartSession.
CreateVertex(c) ==
    /\ step[c] = "call" /\ kind[c] = "start"
    /\ \/ Change(c, "open") /\ Continue(c, "edge")
       \/ MayFail /\ Change(c, "open") /\ Continue(c, "failed")
       \/ MayFail /\ UNCHANGED <<session, changed>> /\ Continue(c, "failed")
CreateEdge(c) ==
    /\ step[c] = "edge"
    /\ Continue(c, "count") \/ (MayFail /\ Continue(c, "failed"))
    /\ UNCHANGED <<session, changed>>

\* The match of EndSession: open sessions only, in the statement that ends them.
EndsAny(s) == session[s] # "none"  \* a bug: check and set are apart
Ends(s) == session[s] = "open"

EndSession(c) ==
    /\ step[c] = "call" /\ kind[c] = "end"
    /\ \/ Ends(about[c]) /\ Change(c, "ended") /\ Continue(c, "count")
       \/ ~Ends(about[c]) /\ UNCHANGED <<session, changed>> /\ Continue(c, "conflict")
       \/ MayFail /\ Ends(about[c]) /\ Change(c, "ended") /\ Continue(c, "failed")
       \/ MayFail /\ UNCHANGED <<session, changed>> /\ Continue(c, "failed")

\* metrics.ActiveSessions.Inc and Dec, and the answer.
Count(c) ==
    /\ step[c] = "count"
    /\ gauge' = [gauge EXCEPT ![at[c]] = IF kind[c] = "start" THEN @ + 1 ELSE @ - 1]
    /\ counted' = [counted EXCEPT ![c] = TRUE]
    /\ step' = [step EXCEPT ![c] = "answered"]
    /\ UNCHANGED <<processVars, forgotten, session, kind, at, about, changed>>

-----------------------------------------------------------------------------

BootStep(p) == \/ existingEmbeddingDim(p) \/ CreateTable(p) \/ verifyEmbeddingDim(p)
               \/ InitSchemaRest(p) \/ ListenGRPC(p) \/ MarkStarted(p) \/ ListenHTTP(p)
StopStep(p) == Deadline(p) \/ ShutdownReturns(p) \/ GracefulStopReturns(p) \/ Exit(p)
Handle(c) == CreateVertex(c) \/ CreateEdge(c) \/ EndSession(c) \/ Count(c)

Next ==
    \/ \E p \in Processes : Connect(p) \/ BootStep(p) \/ Drain(p) \/ StopStep(p) \/ Crash(p)
    \/ \E c \in Calls : \/ \E p \in Servers : CallREST(c, p) \/ CallGRPC(c, p)
                        \/ Dial(c) \/ Handle(c)

(* What is started goes on: the boot and a handler, whose statements the    *)
(* database answers, and the drain, whose deadline passes.  A REST client   *)
(* may take its time, a process need not be started, signalled or crash.    *)
Fairness ==
    /\ \A p \in Processes : WF_vars(BootStep(p)) /\ WF_vars(StopStep(p))
    /\ \A c \in Calls : WF_vars(Handle(c))

Spec == Init /\ [][Next]_vars /\ Fairness

-----------------------------------------------------------------------------

\* GET /readyz is answered "ready" (the database answering).
Ready(p) == http[p] = "up" /\ started[p] /\ ~draining[p]

(* Who serves is whole.  A pod that says it is ready has its gRPC server    *)
(* up, its pool open, the schema complete and the table as wide as its      *)
(* vectors, whatever other replicas and the job were creating when it       *)
(* started; and every handler that runs still has them, repo.Close coming   *)
(* after the last RPC.                                                      *)
Whole(p) == pool[p] /\ schema /\ dim[p] = width
ReadyServes ==
    \A p \in Servers : /\ Ready(p) => grpc[p] = "up" /\ Whole(p)
                       /\ OnGRPC(p) # {} => Whole(p)

(* A session counts once, over all replicas: the gauges, with what restarts *)
(* forgot, add up to the open sessions, but for the calls that changed a    *)
(* session and have not (or never) moved a gauge.                           *)
Uncounted(k) == {c \in Calls : kind[c] = k /\ changed[c] /\ ~counted[c]}
GaugesAddUp ==
    forgotten + MapThenSumSet(LAMBDA p : gauge[p], Servers)
      = Cardinality({s \in Sessions : session[s] = "open"})
          - Cardinality(Uncounted("start")) + Cardinality(Uncounted("end"))

(* Ordering of the drain: a REST request is not refused by its own gRPC     *)
(* server unless it outlasted shutdownTimeout.                              *)
RESTDrained ==
    [][\A c \in Calls : step[c] = "rest" /\ step'[c] = "unavailable" => overrun[at[c]]]_vars

(* A server that boots is ready in the end, or down again, whatever the     *)
(* other processes are creating or how they die; and one that was told to   *)
(* stop is down in the end, however long a REST client takes: Shutdown has  *)
(* a deadline, and GracefulStop has only handlers to wait for.              *)
BootAndDrainEnd ==
    \A p \in Servers : pc[p] \in Booting \cup Stopping ~> Ready(p) \/ pc[p] = "down"
=============================================================================
