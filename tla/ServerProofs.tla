------------------------------ MODULE ServerProofs ------------------------------
(***************************************************************************)
(* What holds of the servers and the job however many there are, whatever  *)
(* their vectors' widths and whatever calls are made, with crashes,        *)
(* restarts and failing statements anywhere.                               *)
(***************************************************************************)
EXTENDS Server, FiniteSetTheorems, WellFoundedInduction, TLAPS

USE ServerAssumption

-----------------------------------------------------------------------------
(* The inductive invariant, in three parts. *)

\* TypeOK, but for the bounds of the gauges.
Types ==
    /\ width \in Dims \cup {None} /\ schema \in BOOLEAN
    /\ session \in [Sessions -> {"none", "open", "ended"}]
    /\ pc \in [Processes -> {"down", "running", "working"} \cup Booting \cup Stopping]
    /\ dim \in [Processes -> Dims \cup {None}]
    /\ http \in [Servers -> {"down", "up", "stopping"}]
    /\ grpc \in [Servers -> {"down", "up", "stopping"}]
    /\ started \in [Servers -> BOOLEAN] /\ draining \in [Servers -> BOOLEAN]
    /\ pool \in [Processes -> BOOLEAN] /\ overrun \in [Servers -> BOOLEAN]
    /\ gauge \in [Servers -> Int] /\ forgotten \in Int
    /\ step \in [Calls -> {"idle", "rest"} \cup InHandler \cup Ended]
    /\ kind \in [Calls -> {"start", "end", None}]
    /\ at \in [Calls -> Servers \cup {None}]
    /\ about \in [Calls -> Sessions \cup {None}]
    /\ changed \in [Calls -> BOOLEAN] /\ counted \in [Calls -> BOOLEAN]

\* Where a process is says what it has: the table's width is never changed and
\* was checked, the schema is complete, the pool is open, gRPC listens.
Checked == {"verified", "schema", "grpc", "running", "working"} \cup Stopping
Boot ==
    /\ \A p \in Servers : pc[p] \notin {"connected", "working"}
    /\ \A p \in Jobs : pc[p] \in {"down", "connected", "dimension", "table", "verified", "working"}
    /\ \A p \in Processes :
          /\ pc[p] \notin {"down", "connected"} => dim[p] \in Dims
          /\ pc[p] \in Checked \cup {"table"} => width # None
          /\ pc[p] \in Checked => dim[p] = width
          /\ pc[p] \in Checked \ {"verified"} => schema
          /\ pool[p] <=> pc[p] \notin {"down", "closed"}
    /\ \A p \in Servers :
          /\ http[p] = "up" => pc[p] \in {"grpc", "running"}
          /\ grpc[p] = "up" <=> pc[p] \in {"grpc", "running", "httpDrain"}

\* A handler runs in a process that has not closed its pool; a REST request
\* is older than the drain, and one left when GracefulStop began was overrun.
Hosted ==
    \A c \in Calls :
        /\ step[c] \in InHandler =>
              at[c] \in Servers /\ pc[at[c]] \in {"grpc", "running", "httpDrain", "grpcDrain"}
        /\ step[c] = "rest" =>
              /\ at[c] \in Servers
              /\ \/ pc[at[c]] \in {"grpc", "running", "httpDrain"}
                 \/ pc[at[c]] \in {"grpcDrain", "closed"} /\ overrun[at[c]]

\* How far a call is says what it did.
Staged ==
    \A c \in Calls :
        /\ step[c] = "idle" => at[c] = None /\ about[c] = None /\ kind[c] = None
        /\ step[c] # "idle" => about[c] \in Sessions /\ kind[c] # None
        /\ step[c] \in {"idle", "rest", "call"} => ~changed[c] /\ ~counted[c]
        /\ step[c] = "edge" => kind[c] = "start"
        /\ step[c] \in {"edge", "count"} => changed[c] /\ ~counted[c]

\* A session has one start, and is not open before it.
StartsOnce ==
    /\ \A c, d \in Calls :
          kind[c] = "start" /\ kind[d] = "start" /\ about[c] = about[d] => c = d
    /\ \A c \in Calls : kind[c] = "start" /\ ~changed[c] => session[about[c]] = "none"
    /\ \A s \in Sessions : session[s] # "none" => s \in Earlier \/ \E c \in Calls : about[c] = s

CountedAt(p) == {c \in Calls : counted[c] /\ at[c] = p}
GaugeBounds ==
    \A p \in Servers : gauge[p] \in -Cardinality(CountedAt(p))..Cardinality(CountedAt(p))

-----------------------------------------------------------------------------
(* The steps, grouped by what they leave alone. *)

\* A process boots, drains or stops, and goes on living.
Lives(p) ==
    \/ Connect(p) \/ existingEmbeddingDim(p) \/ CreateTable(p)
    \/ (verifyEmbeddingDim(p) /\ ~Gone(p))
    \/ InitSchemaRest(p) \/ ListenGRPC(p) \/ MarkStarted(p) \/ ListenHTTP(p)
    \/ Drain(p) \/ Deadline(p) \/ ShutdownReturns(p) \/ GracefulStopReturns(p)
CallStep(c) ==
    \/ \E p \in Servers : CallREST(c, p) \/ CallGRPC(c, p)
    \/ Dial(c) \/ Handle(c)

LEMMA Steps ==
    ASSUME Next
    PROVE  \/ \E p \in Processes : Lives(p) \/ (Gone(p) /\ pc[p] # "down")
           \/ \E c \in Calls : CallStep(c)
<1>1. ASSUME NEW p \in Processes, Connect(p) \/ BootStep(p) \/ Drain(p) \/ StopStep(p) \/ Crash(p)
      PROVE  Lives(p) \/ (Gone(p) /\ pc[p] # "down")
  BY <1>1 DEF BootStep, StopStep, Lives, Crash, Exit, verifyEmbeddingDim
<1> QED BY <1>1 DEF Next, CallStep

LEMMA LivesLeaves == ASSUME NEW p \in Processes, Lives(p) PROVE UNCHANGED <<callVars, forgotten>>
BY DEF Lives, Connect, existingEmbeddingDim, CreateTable, verifyEmbeddingDim, InitSchemaRest,
       ListenGRPC, MarkStarted, ListenHTTP, Drain, Deadline, ShutdownReturns, GracefulStopReturns

LEMMA CallLeaves == ASSUME NEW c \in Calls, CallStep(c) PROVE UNCHANGED <<processVars, forgotten>>
BY DEF CallStep, CallREST, CallGRPC, Arrive, Dial, Handle, CreateVertex, CreateEdge, EndSession,
       Count, Continue

LEMMA TypesNext == ASSUME Types, Next PROVE Types'
<1> USE DEF Types, Processes
<1>1. ASSUME NEW p \in Processes, Lives(p) PROVE Types'
  <2>1. UNCHANGED <<callVars, forgotten>>
    BY <1>1, LivesLeaves
  <2>2. pc' \in [Processes -> {"down", "running", "working"} \cup Booting \cup Stopping]
    BY <1>1 DEF Lives, Connect, existingEmbeddingDim, CreateTable, verifyEmbeddingDim, InitSchemaRest,
       ListenGRPC, MarkStarted, ListenHTTP, Drain, Deadline, ShutdownReturns, GracefulStopReturns, Goto, Booting, Stopping
  <2>3. /\ width' \in Dims \cup {None} /\ schema' \in BOOLEAN
        /\ dim' \in [Processes -> Dims \cup {None}]
    <3>1. CASE Connect(p)
      BY <3>1 DEF Connect
    <3>2. CASE existingEmbeddingDim(p) \/ CreateTable(p)
      BY <3>2 DEF existingEmbeddingDim, CreateTable, WidthOrDefault
    <3>3. CASE UNCHANGED <<width, dim>> /\ schema' \in BOOLEAN
      BY <3>3
    <3> QED
      BY <1>1, <3>1, <3>2, <3>3 DEF Lives, verifyEmbeddingDim, InitSchemaRest, ListenGRPC, MarkStarted,
         ListenHTTP, Drain, Deadline, ShutdownReturns, GracefulStopReturns
  <2>4. /\ http' \in [Servers -> {"down", "up", "stopping"}]
        /\ grpc' \in [Servers -> {"down", "up", "stopping"}]
    BY <1>1 DEF Lives, Connect, existingEmbeddingDim, CreateTable, verifyEmbeddingDim, InitSchemaRest,
       ListenGRPC, MarkStarted, ListenHTTP, Drain, Deadline, ShutdownReturns, GracefulStopReturns
  <2>5. /\ started' \in [Servers -> BOOLEAN] /\ draining' \in [Servers -> BOOLEAN]
        /\ pool' \in [Processes -> BOOLEAN] /\ overrun' \in [Servers -> BOOLEAN]
    BY <1>1 DEF Lives, Connect, existingEmbeddingDim, CreateTable, verifyEmbeddingDim, InitSchemaRest,
       ListenGRPC, MarkStarted, ListenHTTP, Drain, Deadline, ShutdownReturns, GracefulStopReturns
  <2> QED BY <2>1, <2>2, <2>3, <2>4, <2>5 DEF callVars
<1>2. ASSUME NEW p \in Processes, Gone(p) PROVE Types'
  <2>1. /\ pc' \in [Processes -> {"down", "running", "working"} \cup Booting \cup Stopping]
        /\ dim' \in [Processes -> Dims \cup {None}] /\ pool' \in [Processes -> BOOLEAN]
    BY <1>2 DEF Gone, Goto
  <2>2. CASE p \in Jobs
    BY <1>2, <2>1, <2>2 DEF Gone
  <2>3. CASE p \notin Jobs
    <3>1. step' \in [Calls -> {"idle", "rest"} \cup InHandler \cup Ended]
      BY <1>2, <2>3 DEF Gone, Ended
    <3>2. /\ http' \in [Servers -> {"down", "up", "stopping"}]
          /\ grpc' \in [Servers -> {"down", "up", "stopping"}]
          /\ started' \in [Servers -> BOOLEAN] /\ draining' \in [Servers -> BOOLEAN]
          /\ overrun' \in [Servers -> BOOLEAN]
      BY <1>2, <2>3 DEF Gone
    <3>3. gauge' \in [Servers -> Int] /\ forgotten' \in Int
      <4>1. gauge[p] \in Int
        BY <2>3
      <4> QED BY <1>2, <2>3, <4>1 DEF Gone
    <3> QED BY <1>2, <2>1, <3>1, <3>2, <3>3 DEF Gone
  <2> QED BY <2>2, <2>3
<1>3. ASSUME NEW c \in Calls, CallStep(c) PROVE Types'
  <2>1. UNCHANGED <<processVars, forgotten>>
    BY <1>3, CallLeaves
  <2>2. step' \in [Calls -> {"idle", "rest"} \cup InHandler \cup Ended]
    BY <1>3 DEF CallStep, CallREST, CallGRPC, Arrive, Dial, Handle, CreateVertex, CreateEdge, EndSession,
       Count, Continue, InHandler, Ended
  <2>3. /\ kind' \in [Calls -> {"start", "end", None}] /\ at' \in [Calls -> Servers \cup {None}]
        /\ about' \in [Calls -> Sessions \cup {None}]
    BY <1>3 DEF CallStep, CallREST, CallGRPC, Arrive, Dial, Handle, CreateVertex, CreateEdge, EndSession,
       Count, Continue
  <2>4. /\ changed' \in [Calls -> BOOLEAN] /\ counted' \in [Calls -> BOOLEAN]
        /\ \/ UNCHANGED session
           \/ \E state \in {"open", "ended"} : session' = [session EXCEPT ![about[c]] = state]
    BY <1>3 DEF CallStep, CallREST, CallGRPC, Arrive, Dial, Handle, CreateVertex, CreateEdge, EndSession,
       Count, Continue, Change
  <2>5. gauge' \in [Servers -> Int]
    BY <1>3 DEF CallStep, CallREST, CallGRPC, Arrive, Dial, Handle, CreateVertex, CreateEdge, EndSession,
       Count, Continue
  <2> QED BY <2>1, <2>2, <2>3, <2>4, <2>5 DEF processVars
<1> QED BY <1>1, <1>2, <1>3, Steps

LEMMA BootNext == ASSUME Types, Boot, Next PROVE Boot'
<1> USE DEF Types, Processes, Boot, Goto, Checked, Stopping, Booting
<1>1. ASSUME NEW p \in Processes, Lives(p) PROVE Boot'
  <2>1. CASE Connect(p)
    BY <2>1 DEF Connect
  <2>2. CASE existingEmbeddingDim(p)
    BY <2>2 DEF existingEmbeddingDim, WidthOrDefault
  <2>3. CASE CreateTable(p)
    BY <2>3 DEF CreateTable
  <2>4. CASE verifyEmbeddingDim(p) /\ ~Gone(p)
    BY <2>4 DEF verifyEmbeddingDim, Mismatch
  <2>5. CASE InitSchemaRest(p)
    BY <2>5 DEF InitSchemaRest
  <2>6. CASE ListenGRPC(p) \/ MarkStarted(p) \/ ListenHTTP(p)
    BY <2>6 DEF ListenGRPC, MarkStarted, ListenHTTP
  <2>7. CASE Drain(p) \/ Deadline(p) \/ ShutdownReturns(p) \/ GracefulStopReturns(p)
    BY <2>7 DEF Drain, Deadline, ShutdownReturns, GracefulStopReturns
  <2> QED BY <1>1, <2>1, <2>2, <2>3, <2>4, <2>5, <2>6, <2>7 DEF Lives
<1>2. ASSUME NEW p \in Processes, Gone(p) PROVE Boot'
  BY <1>2 DEF Gone
<1>3. ASSUME NEW c \in Calls, CallStep(c) PROVE Boot'
  BY <1>3, CallLeaves DEF processVars
<1> QED BY <1>1, <1>2, <1>3, Steps
-----------------------------------------------------------------------------
(* The calls *)

LEMMA HostedNext == ASSUME Types, Boot, Hosted, Next PROVE Hosted'
<1> USE DEF Hosted, InHandler
<1>1. ASSUME NEW p \in Processes, Lives(p) PROVE Hosted'
  <2>1. UNCHANGED <<step, at>>
    BY <1>1, LivesLeaves DEF callVars
  <2>2. SUFFICES ASSUME NEW c \in Calls, step[c] \in InHandler \cup {"rest"}, at[c] \in Servers
                 PROVE  /\ step[c] \in InHandler =>
                              pc'[at[c]] \in {"grpc", "running", "httpDrain", "grpcDrain"}
                        /\ step[c] = "rest" =>
                              \/ pc'[at[c]] \in {"grpc", "running", "httpDrain"}
                              \/ pc'[at[c]] \in {"grpcDrain", "closed"} /\ overrun'[at[c]]
    BY <2>1
  <2> USE DEF Goto, Types, Processes
  <2>3. CASE \/ Connect(p) \/ existingEmbeddingDim(p) \/ CreateTable(p) \/ InitSchemaRest(p)
             \/ ListenGRPC(p) \/ MarkStarted(p) \/ ListenHTTP(p) \/ Drain(p) \/ Deadline(p)
    BY <2>2, <2>3 DEF Connect, existingEmbeddingDim, CreateTable, InitSchemaRest,
       ListenGRPC, MarkStarted, ListenHTTP, Drain, Deadline
  <2>4. CASE verifyEmbeddingDim(p) /\ ~Gone(p)
    BY <2>2, <2>4 DEF verifyEmbeddingDim
  <2>5. CASE ShutdownReturns(p)
    <3>1. step[c] = "rest" /\ at[c] = p => OnREST(p) # {}
      BY DEF OnREST
    <3> QED BY <2>2, <2>5, <3>1 DEF ShutdownReturns, AnsweredOrLate
  <2>6. CASE GracefulStopReturns(p)
    <3>1. step[c] \in InHandler => at[c] # p
      BY <2>6 DEF GracefulStopReturns, RPCsLeft, OnGRPC
    <3> QED BY <2>2, <2>6, <3>1 DEF GracefulStopReturns
  <2> QED BY <1>1, <2>3, <2>4, <2>5, <2>6 DEF Lives
<1>2. ASSUME NEW p \in Processes, Gone(p) PROVE Hosted'
  <2>1. CASE p \in Jobs
    BY <1>2, <2>1 DEF Gone, Goto, Types, Processes
  <2>2. CASE p \notin Jobs
    <3>1. \A c \in Calls : step'[c] \in InHandler \cup {"rest"} => step'[c] = step[c] /\ at[c] # p
      BY <1>2, <2>2 DEF Gone, Ended
    <3> QED BY <1>2, <2>2, <3>1 DEF Gone, Goto, Types, Processes
  <2> QED BY <2>1, <2>2
<1>3. ASSUME NEW c \in Calls, CallStep(c) PROVE Hosted'
  <2>1. UNCHANGED <<pc, overrun, http, grpc>>
    BY <1>3, CallLeaves DEF processVars
  <2>2. ASSUME NEW p \in Servers, CallREST(c, p) \/ CallGRPC(c, p) PROVE Hosted'
    <3>1. CASE CallREST(c, p)
      <4>1. pc[p] \in {"grpc", "running"}
        BY <3>1 DEF CallREST, Boot
      <4> QED BY <2>1, <3>1, <4>1 DEF CallREST, Arrive, Types
    <3>2. CASE CallGRPC(c, p)
      <4>1. pc[p] \in {"grpc", "running", "httpDrain"}
        BY <3>2 DEF CallGRPC, Boot
      <4> QED BY <2>1, <3>2, <4>1 DEF CallGRPC, Arrive, Types
    <3> QED BY <2>2, <3>1, <3>2
  <2>3. CASE Dial(c)
    <3>1. grpc[at[c]] = "up" => pc[at[c]] \in {"grpc", "running", "httpDrain"}
      BY <2>3 DEF Dial, Boot
    <3> QED BY <2>1, <2>3, <3>1 DEF Dial, Types
  <2>4. CASE Handle(c)
    <3>1. step[c] \in InHandler /\ UNCHANGED at
      BY <2>4 DEF Handle, CreateVertex, CreateEdge, EndSession, Count, Continue
    <3>2. \E next \in InHandler \cup Ended : step' = [step EXCEPT ![c] = next]
      BY <2>4 DEF Handle, CreateVertex, CreateEdge, EndSession, Count, Continue, Ended
    <3> QED BY <2>1, <3>1, <3>2 DEF Ended, Types
  <2> QED BY <1>3, <2>2, <2>3, <2>4 DEF CallStep
<1> QED BY <1>1, <1>2, <1>3, Steps

LEMMA StagedNext == ASSUME Types, Staged, Next PROVE Staged'
<1> USE DEF Staged, Types
<1>1. ASSUME NEW p \in Processes, Lives(p) PROVE Staged'
  BY <1>1, LivesLeaves DEF callVars
<1>2. ASSUME NEW p \in Processes, Gone(p) PROVE Staged'
  <2>1. \A c \in Calls : step'[c] = step[c] \/ (at[c] = p /\ p \notin Jobs /\ step'[c] = "failed")
    BY <1>2 DEF Gone
  <2>2. \A c \in Calls : at[c] = p /\ p \notin Jobs => step[c] # "idle"
    BY DEF Processes
  <2> QED BY <1>2, <2>1, <2>2 DEF Gone
<1>3. ASSUME NEW c \in Calls, CallStep(c) PROVE Staged'
  <2>1. ASSUME NEW p \in Servers, CallREST(c, p) \/ CallGRPC(c, p) PROVE Staged'
    <3>1. PICK s \in Sessions, k \in {"start", "end"} :
             about' = [about EXCEPT ![c] = s] /\ kind' = [kind EXCEPT ![c] = k]
      BY <2>1 DEF CallREST, CallGRPC, Arrive
    <3>2. PICK first \in {"rest", "call"} : step' = [step EXCEPT ![c] = first]
      BY <2>1 DEF CallREST, CallGRPC, Arrive
    <3>3. step[c] = "idle" /\ at' = [at EXCEPT ![c] = p] /\ UNCHANGED <<changed, counted>>
      BY <2>1 DEF CallREST, CallGRPC, Arrive
    <3> QED BY <3>1, <3>2, <3>3
  <2>2. CASE Dial(c)
    BY <2>2 DEF Dial
  <2>3. CASE CreateVertex(c)
    BY <2>3 DEF CreateVertex, Continue, Change
  <2>4. CASE CreateEdge(c)
    BY <2>4 DEF CreateEdge, Continue
  <2>5. CASE EndSession(c)
    BY <2>5 DEF EndSession, Continue, Change
  <2>6. CASE Count(c)
    BY <2>6 DEF Count
  <2> QED BY <1>3, <2>1, <2>2, <2>3, <2>4, <2>5, <2>6 DEF CallStep, Handle
<1> QED BY <1>1, <1>2, <1>3, Steps
LEMMA StartsOnceNext == ASSUME Types, Staged, StartsOnce, Next PROVE StartsOnce'
<1> USE DEF StartsOnce, Types
<1>1. ASSUME NEW p \in Processes, Lives(p) PROVE StartsOnce'
  BY <1>1, LivesLeaves DEF callVars
<1>2. ASSUME NEW p \in Processes, Gone(p) PROVE StartsOnce'
  BY <1>2 DEF Gone
<1>3. ASSUME NEW c \in Calls, CallStep(c) PROVE StartsOnce'
  <2>1. ASSUME NEW p \in Servers, CallREST(c, p) \/ CallGRPC(c, p) PROVE StartsOnce'
    <3>1. PICK s \in Sessions, k \in {"start", "end"} :
             /\ k = "start" => Fresh(s)
             /\ about' = [about EXCEPT ![c] = s] /\ kind' = [kind EXCEPT ![c] = k]
      BY <2>1 DEF CallREST, CallGRPC, Arrive
    <3>2. step[c] = "idle" /\ UNCHANGED <<session, changed>>
      BY <2>1 DEF CallREST, CallGRPC, Arrive
    <3>3. about[c] = None /\ \A t \in Sessions : about[c] # t
      BY <3>2 DEF Staged
    <3>4. \A d \in Calls \ {c} : about'[d] = about[d] /\ kind'[d] = kind[d]
      BY <3>1
    <3>5. about'[c] = s /\ kind'[c] = k
      BY <3>1
    <3>6. k = "start" => session[s] = "none" /\ \A d \in Calls : about[d] # s
      BY <3>1 DEF Fresh
    <3>7. \A d \in Calls, e \in Calls :
            kind'[d] = "start" /\ kind'[e] = "start" /\ about'[d] = about'[e] => d = e
      BY <3>4, <3>5, <3>6
    <3>8. \A d \in Calls : kind'[d] = "start" /\ ~changed'[d] => session'[about'[d]] = "none"
      BY <3>2, <3>4, <3>5, <3>6
    <3>9. \A t \in Sessions : session'[t] # "none" => t \in Earlier \/ \E d \in Calls : about'[d] = t
      BY <3>2, <3>3, <3>4
    <3> QED BY <3>7, <3>8, <3>9
  <2>2. CASE Dial(c)
    BY <2>2 DEF Dial
  <2>3. CASE CreateVertex(c)
    <3>1. UNCHANGED <<about, kind>> /\ kind[c] = "start" /\ about[c] \in Sessions
      BY <2>3 DEF CreateVertex, Continue, Staged
    <3>2. UNCHANGED <<session, changed>> \/ Change(c, "open")
      BY <2>3 DEF CreateVertex
    <3>3. ASSUME NEW d \in Calls, kind[d] = "start", ~changed'[d] PROVE session'[about[d]] = "none"
      <4>1. ~changed[d] /\ (Change(c, "open") => d # c)
        BY <3>2, <3>3 DEF Change
      <4>2. d # c => about[d] # about[c]
        BY <3>1, <3>3
      <4>3. about[d] \in Sessions /\ session[about[d]] = "none"
        BY <3>3, <4>1 DEF Staged
      <4> QED BY <3>2, <4>1, <4>2, <4>3 DEF Change
    <3>4. \A t \in Sessions : session'[t] # "none" => t = about[c] \/ session[t] # "none"
      BY <3>2 DEF Change
    <3> QED BY <3>1, <3>3, <3>4
  <2>4. CASE CreateEdge(c)
    BY <2>4 DEF CreateEdge, Continue
  <2>5. CASE EndSession(c)
    <3>1. UNCHANGED <<about, kind>> /\ kind[c] = "end"
      BY <2>5 DEF EndSession, Continue
    <3>2. UNCHANGED <<session, changed>> \/ (session[about[c]] = "open" /\ Change(c, "ended"))
      BY <2>5 DEF EndSession, Ends
    <3>3. ASSUME NEW d \in Calls, kind[d] = "start", ~changed'[d] PROVE session'[about[d]] = "none"
      <4>1. ~changed[d] /\ session[about[d]] = "none"
        BY <3>2, <3>3 DEF Change
      <4>2. about[d] \in Sessions
        BY <3>3 DEF Staged
      <4>3. session[about[c]] = "open" => about[d] # about[c]
        BY <4>1
      <4>4. UNCHANGED session \/ (about[d] # about[c] /\ session' = [session EXCEPT ![about[c]] = "ended"])
        BY <3>2, <4>3 DEF Change
      <4> QED BY <4>1, <4>2, <4>4
    <3>4. \A t \in Sessions : session'[t] # "none" => session[t] # "none"
      BY <3>2 DEF Change
    <3> QED BY <3>1, <3>3, <3>4
  <2>6. CASE Count(c)
    BY <2>6 DEF Count
  <2> QED BY <1>3, <2>1, <2>2, <2>3, <2>4, <2>5, <2>6 DEF CallStep, Handle
<1> QED BY <1>1, <1>2, <1>3, Steps

LEMMA CallsFinite ==
    /\ \A p : CountedAt(p) \subseteq Calls /\ IsFiniteSet(CountedAt(p)) /\ Cardinality(CountedAt(p)) \in Nat
    /\ Cardinality(Calls) \in Nat
    /\ \A p : Cardinality(CountedAt(p)) <= Cardinality(Calls)
<1>1. \A p : CountedAt(p) \subseteq Calls
  BY DEF CountedAt
<1> QED BY <1>1, FS_Subset, FS_CardinalityType

LEMMA OneMore ==
    ASSUME NEW S, IsFiniteSet(S), NEW x, x \notin S, NEW T, T = S \cup {x}
    PROVE  Cardinality(T) = Cardinality(S) + 1
BY FS_AddElement

LEMMA GaugeBoundsNext == ASSUME Types, Hosted, Staged, GaugeBounds, Next PROVE GaugeBounds'
<1> USE DEF GaugeBounds, Types
<1>1. ASSUME NEW p \in Processes, Lives(p) PROVE GaugeBounds'
  BY <1>1, LivesLeaves DEF callVars, CountedAt
<1>2. ASSUME NEW p \in Processes, Gone(p) PROVE GaugeBounds'
  <2>1. \A q \in Servers : CountedAt(q)' = CountedAt(q) /\ gauge'[q] \in {gauge[q], 0}
    BY <1>2 DEF Gone, CountedAt
  <2> QED BY <2>1, CallsFinite
<1>3. ASSUME NEW c \in Calls, CallStep(c) PROVE GaugeBounds'
  <2>1. CASE Count(c)
    <3>1. at[c] \in Servers /\ ~counted[c]
      BY <2>1 DEF Count, Hosted, Staged, InHandler
    <3>2. \A q \in Servers \ {at[c]} : CountedAt(q)' = CountedAt(q) /\ gauge'[q] = gauge[q]
      BY <2>1 DEF Count, CountedAt
    <3>3. CountedAt(at[c])' = CountedAt(at[c]) \cup {c} /\ c \notin CountedAt(at[c])
      BY <2>1, <3>1 DEF Count, CountedAt
    <3>4. Cardinality(CountedAt(at[c])') = Cardinality(CountedAt(at[c])) + 1
      BY <3>3, CallsFinite, OneMore
    <3>5. gauge'[at[c]] \in {gauge[at[c]] + 1, gauge[at[c]] - 1}
      BY <2>1, <3>1 DEF Count
    <3> QED BY <2>1, <3>1, <3>2, <3>4, <3>5, CallsFinite DEF Count
  <2>2. CASE ~Count(c)
    <3>1. UNCHANGED <<gauge, counted>>
      BY <1>3, <2>2 DEF CallStep, CallREST, CallGRPC, Arrive, Dial, Handle, CreateVertex, CreateEdge,
         EndSession, Continue
    <3>2. \A d \in Calls : counted[d] => at'[d] = at[d]
      BY <1>3, <2>2 DEF CallStep, CallREST, CallGRPC, Arrive, Dial, Handle, CreateVertex, CreateEdge,
         EndSession, Continue, Staged
    <3>3. \A q \in Servers : CountedAt(q)' = CountedAt(q)
      BY <1>3, <2>2, <3>1, <3>2 DEF CountedAt, CallStep, CallREST, CallGRPC, Arrive, Dial, Handle, CreateVertex, CreateEdge,
         EndSession, Continue, Staged
    <3> QED BY <3>1, <3>3
  <2> QED BY <2>1, <2>2
<1> QED BY <1>1, <1>2, <1>3, Steps
-----------------------------------------------------------------------------
(* Sums over the servers.  MapThenSumSet is unfolded into the recursive     *)
(* function its definition chooses, which is shown to exist.                *)

\* Induction on the natural numbers, from the least number outside a set.
LEMMA NatAll ==
    ASSUME NEW T, 0 \in T, \A n \in Nat : n \in T => n + 1 \in T
    PROVE  \A n \in Nat : n \in T
<1> SUFFICES ASSUME Nat \ T # {} PROVE FALSE
  OBVIOUS
<1> DEFINE Out == Nat \ T
<1>1. \E x \in Out : \A y \in Out : <<y, x>> \notin OpToRel(<, Nat)
  <2> HIDE DEF Out
  <2>1. Out \subseteq Nat /\ Out # {}
    BY DEF Out
  <2> QED BY <2>1, WFMin, NatLessThanWellFounded
<1>2. PICK x \in Out : \A y \in Out : ~(y < x)
  BY <1>1 DEF OpToRel
<1>3. x # 0 /\ x - 1 \in Nat /\ x - 1 < x
  BY <1>2
<1>4. x - 1 \in T
  BY <1>2, <1>3
<1> QED BY <1>2, <1>3, <1>4

Pick(s) == CHOOSE x \in s : TRUE
IsSum(g, it) ==
    it = [s \in SUBSET Servers |-> IF s = {} THEN 0 ELSE g[Pick(s)] + it[s \ {Pick(s)}]]
SumOver(g) == CHOOSE it : IsSum(g, it)

\* A subset of the servers is smaller without the element it is summed from.
LEMMA PickSmaller ==
    ASSUME NEW s \in SUBSET Servers
    PROVE  /\ IsFiniteSet(s) /\ Cardinality(s) \in Nat
           /\ s # {} => /\ Pick(s) \in s
                        /\ s \ {Pick(s)} \in SUBSET Servers
                        /\ Cardinality(s \ {Pick(s)}) = Cardinality(s) - 1
           /\ Cardinality(s) = 0 <=> s = {}
<1>1. IsFiniteSet(s) /\ Cardinality(s) \in Nat
  BY FS_Subset, FS_CardinalityType
<1>2. s # {} => Pick(s) \in s
  BY DEF Pick
<1> QED BY <1>1, <1>2, FS_RemoveElement, FS_EmptySet

LEMMA SumExists == ASSUME NEW g PROVE IsSum(g, SumOver(g))
<1> DEFINE Small(n) == {s \in SUBSET Servers : Cardinality(s) <= n}
           Step(f, s) == IF s = {} THEN 0 ELSE g[Pick(s)] + f[s \ {Pick(s)}]
           T == {n \in Nat : \E f : f = [s \in Small(n) |-> Step(f, s)]}
<1>1. 0 \in T
  <2> DEFINE f == [s \in Small(0) |-> 0]
  <2>1. ASSUME NEW s \in Small(0) PROVE s = {}
    <3>1. Cardinality(s) \in Nat /\ Cardinality(s) <= 0
      BY PickSmaller
    <3>2. Cardinality(s) = 0
      BY <3>1
    <3> QED BY <3>2, PickSmaller
  <2>2. f = [s \in Small(0) |-> Step(f, s)]
    BY <2>1
  <2> QED BY <2>2
<1>2. ASSUME NEW n \in Nat, n \in T PROVE n + 1 \in T
  <2>1. PICK f : f = [s \in Small(n) |-> Step(f, s)]
    BY <1>2
  <2> DEFINE h == [s \in Small(n + 1) |-> Step(f, s)]
  <2>2. \A s \in Small(n + 1) : s # {} => s \ {Pick(s)} \in Small(n)
    BY PickSmaller
  <2>3. ASSUME NEW s \in Small(n) PROVE s \in Small(n + 1)
    <3>1. Cardinality(s) \in Nat /\ Cardinality(s) <= n
      BY PickSmaller
    <3>2. Cardinality(s) <= n + 1
      BY <3>1
    <3> QED BY <3>2
  <2>4. \A s \in Small(n) : h[s] = f[s]
    <3> HIDE DEF Small
    <3> QED BY <2>1, <2>3
  <2>5. \A s \in Small(n + 1) : Step(f, s) = Step(h, s)
    <3> HIDE DEF Small, h
    <3> QED BY <2>2, <2>4
  <2>6. h = [s \in Small(n + 1) |-> Step(h, s)]
    <3> HIDE DEF Small, Step
    <3> QED BY <2>5
  <2> HIDE DEF Small, Step, h
  <2> QED BY <2>6
<1>3. Cardinality(Servers) \in T
  <2> HIDE DEF T
  <2> QED BY <1>1, <1>2, NatAll, FS_CardinalityType
<1>4. Small(Cardinality(Servers)) = SUBSET Servers
  BY FS_Subset
<1>5. \E it : IsSum(g, it)
  BY <1>3, <1>4 DEF IsSum
<1> QED BY <1>5 DEF SumOver

LEMMA SumSteps ==
    ASSUME NEW g
    PROVE  /\ SumOver(g)[{}] = 0
           /\ \A s \in SUBSET Servers :
                 s # {} => SumOver(g)[s] = g[Pick(s)] + SumOver(g)[s \ {Pick(s)}]
<1> DEFINE it == SumOver(g)
<1>1. it = [s \in SUBSET Servers |-> IF s = {} THEN 0 ELSE g[Pick(s)] + it[s \ {Pick(s)}]]
  BY SumExists DEF IsSum
<1> HIDE DEF it
<1>2. it[{}] = 0 /\ \A s \in SUBSET Servers : s # {} => it[s] = g[Pick(s)] + it[s \ {Pick(s)}]
  BY <1>1
<1> QED BY <1>2 DEF it

\* Induction on the sets of servers.
LEMMA SetsAll ==
    ASSUME NEW P, {} \in P,
           \A s \in SUBSET Servers : s # {} /\ s \ {Pick(s)} \in P => s \in P
    PROVE  SUBSET Servers \subseteq P
<1> DEFINE T == {n \in Nat : \A s \in SUBSET Servers : Cardinality(s) = n => s \in P}
<1>1. 0 \in T
  BY PickSmaller
<1>2. ASSUME NEW n \in Nat, n \in T PROVE n + 1 \in T
  <2>1. ASSUME NEW s \in SUBSET Servers, Cardinality(s) = n + 1 PROVE s \in P
    <3>1. Cardinality(s) # 0
      BY <2>1
    <3>2. s # {} /\ s \ {Pick(s)} \in SUBSET Servers /\ Cardinality(s \ {Pick(s)}) = n
      <4>1. s # {}
        BY <3>1, PickSmaller
      <4>2. s \ {Pick(s)} \in SUBSET Servers /\ Cardinality(s \ {Pick(s)}) = Cardinality(s) - 1
        BY <4>1, PickSmaller
      <4> QED BY <2>1, <4>1, <4>2
    <3>3. s \ {Pick(s)} \in P
      BY <1>2, <3>2
    <3> QED BY <3>2, <3>3
  <2> QED BY <2>1
<1>3. \A n \in Nat : n \in T
  <2> HIDE DEF T
  <2> QED BY <1>1, <1>2, NatAll
<1> QED BY <1>3, PickSmaller

LEMMA SumIsInt ==
    ASSUME NEW g \in [Servers -> Int] PROVE \A s \in SUBSET Servers : SumOver(g)[s] \in Int
<1> DEFINE P == {s \in SUBSET Servers : SumOver(g)[s] \in Int}
<1>1. {} \in P
  BY SumSteps
<1>2. ASSUME NEW s \in SUBSET Servers, s # {}, s \ {Pick(s)} \in P PROVE s \in P
  BY <1>2, SumSteps, PickSmaller
<1>3. SUBSET Servers \subseteq P
  <2> HIDE DEF P
  <2> QED BY <1>1, <1>2, SetsAll
<1> QED BY <1>3

\* Adding to one server's number adds to the sum.
LEMMA SumAdds ==
    ASSUME NEW g \in [Servers -> Int], NEW p \in Servers, NEW d \in Int,
           NEW h \in [Servers -> Int], h = [g EXCEPT ![p] = g[p] + d]
    PROVE  SumOver(h)[Servers] = SumOver(g)[Servers] + d
<1> DEFINE P == {s \in SUBSET Servers : SumOver(h)[s] = SumOver(g)[s] + (IF p \in s THEN d ELSE 0)}
<1>1. {} \in P
  BY SumSteps
<1>2. ASSUME NEW s \in SUBSET Servers, s # {}, s \ {Pick(s)} \in P PROVE s \in P
  <2> DEFINE x == Pick(s)
             r == s \ {x}
  <2>1. x \in s /\ r \in SUBSET Servers
    BY <1>2, PickSmaller
  <2>2. SumOver(h)[r] = SumOver(g)[r] + (IF p \in r THEN d ELSE 0)
    BY <1>2
  <2>3. SumOver(h)[s] = h[x] + SumOver(h)[r] /\ SumOver(g)[s] = g[x] + SumOver(g)[r]
    BY <1>2, SumSteps
  <2>4. /\ SumOver(h)[r] \in Int /\ SumOver(g)[r] \in Int /\ g[x] \in Int
    BY <2>1, SumIsInt
  <2>5. h[x] = g[x] + (IF x = p THEN d ELSE 0)
    BY <2>1
  <2> HIDE DEF x
  <2> QED BY <2>1, <2>2, <2>3, <2>4, <2>5
<1>3. SUBSET Servers \subseteq P
  <2> HIDE DEF P
  <2> QED BY <1>1, <1>2, SetsAll
<1> QED BY <1>3

LEMMA SumOfZeros == SumOver([p \in Servers |-> 0])[Servers] = 0
<1> DEFINE g == [p \in Servers |-> 0]
           P == {s \in SUBSET Servers : SumOver(g)[s] = 0}
<1>1. {} \in P
  BY SumSteps
<1>2. ASSUME NEW s \in SUBSET Servers, s # {}, s \ {Pick(s)} \in P PROVE s \in P
  <2>1. g[Pick(s)] = 0
    BY <1>2, PickSmaller
  <2> HIDE DEF g
  <2> QED BY <1>2, <2>1, SumSteps
<1>3. SUBSET Servers \subseteq P
  <2> HIDE DEF P
  <2> QED BY <1>1, <1>2, SetsAll
<1> QED BY <1>3
-----------------------------------------------------------------------------
(* The gauges *)

Gauges(g) == SumOver(g)[Servers]
Open == {s \in Sessions : session[s] = "open"}
AddUp ==
    forgotten + Gauges(gauge)
      = Cardinality(Open) - Cardinality(Uncounted("start")) + Cardinality(Uncounted("end"))

LEMMA GaugesAddUpAsSum == GaugesAddUp <=> AddUp
BY DEF GaugesAddUp, AddUp, Gauges, Open, MapThenSumSet, MapThenFoldSet, SumOver, IsSum, Pick

LEMMA Counts ==
    /\ IsFiniteSet(Open) /\ Cardinality(Open) \in Nat
    /\ \A k : IsFiniteSet(Uncounted(k)) /\ Cardinality(Uncounted(k)) \in Nat
<1>1. Open \subseteq Sessions /\ \A k : Uncounted(k) \subseteq Calls
  BY DEF Open, Uncounted
<1> QED BY <1>1, FS_Subset, FS_CardinalityType

LEMMA GaugesInt == ASSUME Types PROVE Gauges(gauge) \in Int
BY SumIsInt DEF Types, Gauges

LEMMA GaugeMoves ==
    ASSUME Types, Types'
    PROVE  \A p \in Servers, d \in Int :
             gauge' = [gauge EXCEPT ![p] = gauge[p] + d] => Gauges(gauge') = Gauges(gauge) + d
<1>1. gauge \in [Servers -> Int] /\ gauge' \in [Servers -> Int]
  BY DEF Types
<1> QED BY <1>1, SumAdds DEF Gauges

LEMMA AddUpNext ==
    ASSUME Types, Types', Hosted, Staged, StartsOnce, AddUp, Next PROVE AddUp'
<1> USE DEF AddUp
<1>1. ASSUME NEW p \in Processes, Lives(p) PROVE AddUp'
  BY <1>1, LivesLeaves DEF callVars, Open, Uncounted
<1>2. ASSUME NEW p \in Processes, Gone(p) PROVE AddUp'
  <2>1. Open' = Open /\ \A k : Uncounted(k)' = Uncounted(k)
    BY <1>2 DEF Gone, Open, Uncounted
  <2>2. CASE p \in Jobs
    BY <1>2, <2>1, <2>2 DEF Gone
  <2>3. CASE p \notin Jobs
    <3>1. p \in Servers /\ gauge \in [Servers -> Int] /\ gauge' \in [Servers -> Int]
      BY <2>3 DEF Types, Processes
    <3>2. gauge' = [gauge EXCEPT ![p] = gauge[p] + (-gauge[p])] /\ forgotten' = forgotten + gauge[p]
      BY <1>2, <2>3, <3>1 DEF Gone
    <3>3. Gauges(gauge') = Gauges(gauge) + (-gauge[p])
      <4>1. -gauge[p] \in Int
        BY <3>1
      <4> QED BY <3>1, <3>2, <4>1, GaugeMoves
    <3> QED BY <2>1, <3>1, <3>2, <3>3, GaugesInt DEF Types
  <2> QED BY <2>2, <2>3
<1>3. ASSUME NEW c \in Calls, CallStep(c) PROVE AddUp'
  <2>1. UNCHANGED forgotten
    BY <1>3, CallLeaves
  <2>2. CASE UNCHANGED <<session, gauge, changed, counted>> /\ (kind' = kind \/ ~changed[c])
    <3>1. \A k : Uncounted(k)' = Uncounted(k)
      BY <1>3, <2>2 DEF Uncounted, CallStep, CallREST, CallGRPC, Arrive, Dial, Handle, CreateVertex,
         CreateEdge, EndSession, Count, Continue, Types
    <3> QED BY <2>1, <2>2, <3>1 DEF Open
  <2>3. ASSUME kind[c] = "start", step[c] = "call", UNCHANGED <<gauge, kind, counted>>, Change(c, "open")
        PROVE  AddUp'
    <3>1. about[c] \in Sessions /\ session[about[c]] = "none" /\ ~changed[c] /\ ~counted[c]
      BY <2>3 DEF Staged, StartsOnce
    <3>2. Open' = Open \cup {about[c]} /\ about[c] \notin Open
      BY <2>3, <3>1 DEF Change, Open, Types
    <3>3. Uncounted("start")' = Uncounted("start") \cup {c} /\ c \notin Uncounted("start")
      BY <2>3, <3>1 DEF Change, Uncounted, Types
    <3>4. Uncounted("end")' = Uncounted("end")
      BY <2>3, <3>1 DEF Change, Uncounted, Types
    <3>5. Cardinality(Open') = Cardinality(Open) + 1
      BY <3>2, Counts, OneMore
    <3>6. Cardinality(Uncounted("start")') = Cardinality(Uncounted("start")) + 1
      BY <3>3, Counts, OneMore
    <3> QED BY <2>1, <2>3, <3>4, <3>5, <3>6, Counts, GaugesInt DEF Types
  <2>4. ASSUME kind[c] = "end", step[c] = "call", Ends(about[c]), UNCHANGED <<gauge, kind, counted>>,
               Change(c, "ended")
        PROVE  AddUp'
    <3>1. about[c] \in Sessions /\ session[about[c]] = "open" /\ ~changed[c] /\ ~counted[c]
      BY <2>4 DEF Staged, Ends
    <3>2. Open = Open' \cup {about[c]} /\ about[c] \notin Open'
      BY <2>4, <3>1 DEF Change, Open, Types
    <3>3. Uncounted("end")' = Uncounted("end") \cup {c} /\ c \notin Uncounted("end")
      BY <2>4, <3>1 DEF Change, Uncounted, Types
    <3>4. Uncounted("start")' = Uncounted("start")
      BY <2>4, <3>1 DEF Change, Uncounted, Types
    <3>5. Cardinality(Open) = Cardinality(Open') + 1 /\ Cardinality(Open') \in Nat
      BY <3>2, Counts, OneMore, FS_Subset, FS_CardinalityType
    <3>6. Cardinality(Uncounted("end")') = Cardinality(Uncounted("end")) + 1
      BY <3>3, Counts, OneMore
    <3> QED BY <2>1, <2>4, <3>4, <3>5, <3>6, Counts, GaugesInt DEF Types
  <2>5. CASE Count(c)
    <3>1. at[c] \in Servers /\ changed[c] /\ ~counted[c] /\ kind[c] \in {"start", "end"}
      BY <2>5 DEF Count, Staged, Hosted, InHandler, Types
    <3> DEFINE d == IF kind[c] = "start" THEN 1 ELSE -1
    <3>2. gauge' = [gauge EXCEPT ![at[c]] = gauge[at[c]] + d]
      BY <2>5, <3>1 DEF Count, Types
    <3>3. Gauges(gauge') = Gauges(gauge) + d
      <4>1. d \in Int
        OBVIOUS
      <4> HIDE DEF d
      <4> QED BY <3>1, <3>2, <4>1, GaugeMoves
    <3>4. Open' = Open
      BY <2>5 DEF Count, Open
    <3>5. \A k : k = kind[c] => Uncounted(k) = Uncounted(k)' \cup {c} /\ c \notin Uncounted(k)'
      BY <2>5, <3>1 DEF Count, Uncounted, Types
    <3>6. \A k : k # kind[c] => Uncounted(k)' = Uncounted(k)
      BY <2>5 DEF Count, Uncounted, Types
    <3>7. \A k : k = kind[c] =>
             /\ Cardinality(Uncounted(k)) = Cardinality(Uncounted(k)') + 1
             /\ Cardinality(Uncounted(k)') \in Nat
      BY <3>5, Counts, OneMore, FS_Subset, FS_CardinalityType
    <3> QED BY <2>1, <3>1, <3>3, <3>4, <3>6, <3>7, Counts, GaugesInt DEF Types
  <2> QED
    BY <1>3, <2>2, <2>3, <2>4, <2>5 DEF CallStep, CallREST, CallGRPC, Arrive, Dial, Handle, CreateVertex,
       CreateEdge, EndSession, Continue, Staged
<1> QED BY <1>1, <1>2, <1>3, Steps
-----------------------------------------------------------------------------
(* The theorems *)

IInv == Types /\ Boot /\ Hosted /\ Staged /\ StartsOnce /\ GaugeBounds /\ AddUp

LEMMA InitIInv == ASSUME Init PROVE IInv
<1>1. IsFiniteSet(Earlier) /\ Cardinality(Earlier) \in Int
  BY FS_Subset, FS_CardinalityType
<1>2. Types
  <2> USE DEF Init
  <2>1. gauge \in [Servers -> Int] /\ forgotten \in Int
    BY <1>1
  <2>2. session \in [Sessions -> {"none", "open", "ended"}]
    OBVIOUS
  <2>3. /\ width \in Dims \cup {None} /\ schema \in BOOLEAN
        /\ pc \in [Processes -> {"down", "running", "working"} \cup Booting \cup Stopping]
        /\ dim \in [Processes -> Dims \cup {None}] /\ pool \in [Processes -> BOOLEAN]
    OBVIOUS
  <2>4. /\ http \in [Servers -> {"down", "up", "stopping"}]
        /\ grpc \in [Servers -> {"down", "up", "stopping"}]
        /\ started \in [Servers -> BOOLEAN] /\ draining \in [Servers -> BOOLEAN]
        /\ overrun \in [Servers -> BOOLEAN]
    OBVIOUS
  <2>5. /\ step \in [Calls -> {"idle", "rest"} \cup InHandler \cup Ended]
        /\ kind \in [Calls -> {"start", "end", None}]
        /\ at \in [Calls -> Servers \cup {None}] /\ about \in [Calls -> Sessions \cup {None}]
        /\ changed \in [Calls -> BOOLEAN] /\ counted \in [Calls -> BOOLEAN]
    OBVIOUS
  <2> QED BY <2>1, <2>2, <2>3, <2>4, <2>5 DEF Types
<1>3. Boot /\ Hosted /\ Staged /\ StartsOnce
  BY DEF Init, Boot, Hosted, Staged, StartsOnce, Processes, Booting, Stopping, Checked, InHandler
<1>4. GaugeBounds
  <2>1. ASSUME NEW p \in Servers PROVE CountedAt(p) = {} /\ gauge[p] = 0
    BY DEF Init, CountedAt
  <2> QED BY <2>1, FS_EmptySet DEF GaugeBounds
<1>5. AddUp
  <2>1. Gauges(gauge) = 0
    BY SumOfZeros DEF Init, Gauges
  <2>2. Open = Earlier
    BY DEF Init, Open
  <2>3. Uncounted("start") = {} /\ Uncounted("end") = {}
    BY DEF Init, Uncounted
  <2>4. forgotten = Cardinality(Earlier)
    BY DEF Init
  <2>5. Cardinality(Uncounted("start")) = 0 /\ Cardinality(Uncounted("end")) = 0
    BY <2>3, FS_EmptySet
  <2> QED BY <1>1, <2>1, <2>2, <2>4, <2>5 DEF AddUp
<1> QED BY <1>2, <1>3, <1>4, <1>5 DEF IInv

LEMMA IInvNext == ASSUME IInv, [Next]_vars PROVE IInv'
<1>1. CASE Next
  BY <1>1, TypesNext, BootNext, HostedNext, StagedNext, StartsOnceNext, GaugeBoundsNext, AddUpNext DEF IInv
<1>2. CASE UNCHANGED vars
  <2> USE <1>2 DEF vars, processVars, callVars
  <2>1. Types' /\ Boot' /\ Hosted' /\ Staged' /\ StartsOnce'
    BY DEF IInv, Types, Boot, Hosted, Staged, StartsOnce
  <2>2. GaugeBounds' /\ AddUp'
    BY DEF IInv, GaugeBounds, CountedAt, AddUp, Open, Uncounted
  <2> QED BY <2>1, <2>2 DEF IInv
<1> QED BY <1>1, <1>2

LEMMA Inductive == Spec => []IInv
<1>1. Init => IInv
  BY InitIInv
<1>2. IInv /\ [Next]_vars => IInv'
  BY IInvNext
<1> QED BY <1>1, <1>2, PTL DEF Spec

\* The variables keep their types, and no gauge passes what was ever called:
\* a process that boots has the width it was given or found, and a gauge is
\* moved once for a call, by the handler that serves it.
THEOREM TypeCorrect == Spec => []TypeOK
<1>1. IInv => TypeOK
  <2>1. ASSUME IInv, NEW p \in Servers
        PROVE  gauge[p] \in -Cardinality(Calls)..Cardinality(Calls)
    BY <2>1, CallsFinite DEF IInv, Types, GaugeBounds
  <2> QED BY <2>1 DEF IInv, Types, Boot, TypeOK
<1> QED BY <1>1, Inductive, PTL

\* Who serves is whole (Probes.Ready, InitSchema, verifyEmbeddingDim and the
\* order of the drain in cmd/server), with any number of replicas and jobs of
\* any widths booting, draining and dying around it.
THEOREM ReadyIsWhole == Spec => []ReadyServes
<1>1. ASSUME IInv PROVE ReadyServes
  <2>1. ASSUME NEW p \in Servers, Ready(p) PROVE grpc[p] = "up" /\ Whole(p)
    BY <1>1, <2>1 DEF IInv, Boot, Ready, Whole, Checked, Processes
  <2>2. ASSUME NEW p \in Servers, NEW c \in OnGRPC(p) PROVE Whole(p)
    <3>1. pc[p] \in {"grpc", "running", "httpDrain", "grpcDrain"}
      BY <1>1, <2>2 DEF IInv, Hosted, OnGRPC
    <3> QED BY <1>1, <3>1 DEF IInv, Boot, Whole, Checked, Processes, Stopping
  <2> QED BY <2>1, <2>2 DEF ReadyServes
<1> QED BY <1>1, Inductive, PTL

\* The gauges of all replicas (StartSession's Inc, EndSession's Dec), with what
\* ended processes forgot, add up to the open sessions, but for the calls
\* between their statement and their count, and those that failed there.
THEOREM GaugesCountSessions == Spec => []GaugesAddUp
<1>1. IInv => GaugesAddUp
  BY GaugesAddUpAsSum DEF IInv
<1> QED BY <1>1, Inductive, PTL

\* The drain is in order (httpServer.Shutdown before GracefulStop): the gRPC
\* server refuses no REST request but one that outlasted shutdownTimeout.
THEOREM RESTIsDrained == Spec => RESTDrained
<1>1. ASSUME IInv, [Next]_vars
      PROVE  [\A c \in Calls : step[c] = "rest" /\ step'[c] = "unavailable" => overrun[at[c]]]_vars
  <2>1. SUFFICES ASSUME Next, NEW c \in Calls, step[c] = "rest", step'[c] = "unavailable"
                 PROVE  overrun[at[c]]
    BY <1>1
  <2>2. ASSUME NEW p \in Processes, Lives(p) PROVE FALSE
    BY <2>1, <2>2, LivesLeaves DEF callVars
  <2>3. ASSUME NEW p \in Processes, Gone(p) PROVE FALSE
    BY <2>1, <2>3 DEF Gone
  <2>4. ASSUME NEW d \in Calls, CallStep(d) PROVE Dial(c)
    BY <1>1, <2>1, <2>4 DEF IInv, Types, CallStep, CallREST, CallGRPC, Arrive, Dial, Handle, CreateVertex,
       CreateEdge, EndSession, Count, Continue
  <2>5. grpc[at[c]] # "up"
    BY <1>1, <2>1, <2>2, <2>3, <2>4, Steps DEF Dial, IInv, Types
  <2> QED BY <1>1, <2>1, <2>5 DEF IInv, Hosted, Boot
<1> QED BY <1>1, Inductive, PTL DEF Spec, RESTDrained
=============================================================================
