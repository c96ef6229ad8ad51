------------------------------ MODULE Consolidate ------------------------------
(***************************************************************************)
(* The nightly job of cmd/consolidate, whole: RunConsolidation's three     *)
(* phases, each a read of the newest memories and a loop of statements     *)
(* over what was read, night after night, beside clients that store, read  *)
(* and delete memories.  charts/kora runs one job at a time                *)
(* (concurrencyPolicy: Forbid); a job may be killed anywhere.              *)
(*                                                                         *)
(* Time is counted in half-lives.  access_count is kept as "is it above    *)
(* zero".  Module Prune has the same prune beside the write path's folds.  *)
(***************************************************************************)
EXTENDS Integers, FiniteSets, FiniteSetsExt

CONSTANTS
    Memories,
    Facts,       \* texts with their project: what phaseMerge groups by
    FactOf,      \* [Memories -> Facts]
    Semantic,    \* the memories of type semantic
    MergeLimit,  \* TopK of phaseMerge: 100
    PassLimit,   \* TopK of phaseDecay and phasePrune: 1000
    StaleThreshold, PruneAge,
    MaxDay,      \* bound: days that pass
    MaxReads,    \* bound: memories that a query answers with
    SameTime,    \* copies of a fact may share a created_at, as those of one conversation do
    MayFail

Full == 8  \* the score 1.0

ASSUME ConsolidateAssumption ==
    /\ IsFiniteSet(Memories) /\ FactOf \in [Memories -> Facts] /\ Semantic \subseteq Memories
    /\ MergeLimit \in Nat \ {0} /\ PassLimit \in Nat \ {0}
    /\ StaleThreshold \in 0..Full /\ PruneAge \in Nat  \* checked by main before it connects
    /\ MaxDay \in Nat /\ MaxReads \in Nat /\ {SameTime, MayFail} \subseteq BOOLEAN

VARIABLES
    today,
    live, created, used,
    score,      \* decay_score, in eighths
    edges,      \* supersedes, <<from, to>>
    pc,         \* of the job
    pairs,      \* the edges phaseMerge has left to create
    rows,       \* the rows phaseDecay has left: [id, used] as they were read
    doomed,     \* the memories phasePrune has left to delete
    done, failures,  \* ConsolidationResult
    rescored,   \* history: the memories this run gave a score
    readable,   \* history: the memories this run's decay read
    spared      \* history: the memories read before this run's prune looked

storeVars == <<live, created, used, score, edges>>
jobVars == <<pc, pairs, rows, doomed, done, failures>>
historyVars == <<rescored, readable, spared>>
vars == <<today, storeVars, jobVars, historyVars>>

Running == {"merge", "merging", "decay", "decaying", "prune", "pruning"}
Exited == {"complete", "failed", "killed"}

TypeOK ==
    /\ today \in 0..MaxDay
    /\ live \subseteq Memories /\ used \subseteq Memories
    /\ created \in [Memories -> -1..MaxDay]  \* -1: not stored yet
    /\ score \in [Memories -> 0..Full]
    /\ edges \subseteq live \X live
    /\ pc \in Running \cup Exited
    /\ pairs \subseteq Memories \X Memories
    /\ rows \subseteq [id : Memories, used : BOOLEAN]
    /\ doomed \subseteq Memories
    /\ done \in Nat /\ failures \in Nat
    /\ done + failures <= MergeLimit + 2 * PassLimit
    /\ {rescored, readable, spared} \subseteq SUBSET Memories

Init ==
    /\ today = 0
    /\ live = {} /\ used = {} /\ edges = {}
    /\ created = [m \in Memories |-> -1]
    /\ score = [m \in Memories |-> Full]
    /\ pc = "complete" /\ pairs = {} /\ rows = {} /\ doomed = {}
    /\ done = 0 /\ failures = 0
    /\ rescored = {} /\ readable = {} /\ spared = {}

-----------------------------------------------------------------------------
(* The clients and the calendar *)

\* Exact copies reach the store through Store, which does not look for them.
Store(m) ==
    /\ created[m] = -1
    /\ SameTime \/ \A o \in Memories : FactOf[o] = FactOf[m] => created[o] # today
    /\ live' = live \cup {m} /\ created' = [created EXCEPT ![m] = today]
    /\ UNCHANGED <<today, used, score, edges, jobVars, historyVars>>

Read(m) ==
    /\ m \in live /\ m \notin used /\ Cardinality(used) < MaxReads
    /\ used' = used \cup {m}
    /\ UNCHANGED <<today, live, created, score, edges, jobVars, historyVars>>

Deleted(m) ==
    /\ live' = live \ {m}
    /\ edges' = {e \in edges : m \notin {e[1], e[2]}}

Delete(m) ==
    /\ m \in live
    /\ Deleted(m)
    /\ UNCHANGED <<today, created, used, score, jobVars, historyVars>>

\* A job takes less than a day.
NextDay ==
    /\ pc \in Exited /\ today < MaxDay
    /\ today' = today + 1
    /\ UNCHANGED <<storeVars, jobVars, historyVars>>

-----------------------------------------------------------------------------
(* The job *)

Goto(step) == pc' = step
Count(n, d) == n' = n + d

\* QueryMemories: the newest TopK, and among equals the database's choice.
Newest(S, n) ==
    {T \in SUBSET S : /\ Cardinality(T) = Min({n, Cardinality(S)})
                      /\ \A t \in T, o \in S \ T : created[t] >= created[o]}

Start ==
    /\ pc \in Exited
    /\ Goto("merge")
    /\ pairs' = {} /\ rows' = {} /\ doomed' = {} /\ done' = 0 /\ failures' = 0
    /\ rescored' = {} /\ readable' = {} /\ spared' = {}
    /\ UNCHANGED <<today, storeVars>>

\* A phase whose read fails ends the run with an error.
ReadFails ==
    /\ MayFail /\ pc \in {"merge", "decay", "prune"}
    /\ Goto("failed")
    /\ UNCHANGED <<today, storeVars, pairs, rows, doomed, done, failures, historyVars>>

Killed ==
    /\ MayFail /\ pc \in Running
    /\ Goto("killed")
    /\ UNCHANGED <<today, storeVars, pairs, rows, doomed, done, failures, historyVars>>

\* One newest copy of each fact: "newest" is the first of the read that no other
\* is created after, and the order among equals is the database's.
Keepers(read) ==
    {K \in SUBSET read :
        /\ \A m \in read : \E k \in K : FactOf[k] = FactOf[m]
        /\ \A k \in K : \A m \in read \ {k} :
              FactOf[m] = FactOf[k] => m \notin K /\ created[m] <= created[k]}

CopiesWithItself(K, read) == {p \in K \X read : FactOf[p[1]] = FactOf[p[2]]}  \* a bug: the kept copy is not passed over
OlderCopies(K, read) == {p \in K \X (read \ K) : FactOf[p[1]] = FactOf[p[2]]}

phaseMerge ==
    /\ pc = "merge"
    /\ \E read \in Newest(live \cap Semantic, MergeLimit) :
          \E K \in Keepers(read) : pairs' = OlderCopies(K, read)
    /\ Goto("merging")
    /\ UNCHANGED <<today, storeVars, rows, doomed, done, failures, historyVars>>

EndpointsUnmatched(p) == TRUE  \* a bug
Endpoints(p) == {p[1], p[2]} \subseteq live

\* CreateEdge fails, too, when an endpoint is gone.
MergeOne ==
    /\ pc = "merging"
    /\ \E p \in pairs :
        /\ pairs' = pairs \ {p}
        /\ \/ /\ Endpoints(p)
              /\ edges' = edges \cup {p} /\ Count(done, 1) /\ UNCHANGED failures
           \/ /\ MayFail \/ ~Endpoints(p)
              /\ Count(failures, 1) /\ UNCHANGED <<edges, done>>
    /\ UNCHANGED <<today, live, created, used, score, pc, rows, doomed, historyVars>>

MergeEnds ==
    /\ pc = "merging" /\ pairs = {}
    /\ Goto("decay")
    /\ UNCHANGED <<today, storeVars, pairs, rows, doomed, done, failures, historyVars>>

phaseDecay ==
    /\ pc = "decay"
    /\ \E read \in Newest(live, PassLimit) :
        /\ rows' = {[id |-> m, used |-> m \in used] : m \in read}
        /\ readable' = read
    /\ Goto("decaying")
    /\ UNCHANGED <<today, storeVars, pairs, doomed, done, failures, rescored, spared>>

\* exp(-0.693 * age), in eighths and rounded down.
Remaining(age) == IF age < 4 THEN <<Full, 4, 2, 1>>[age + 1] ELSE 0

\* ... times 1 + boost: one access boosts by a seventh.
NewScore(row) ==
    LET base == Remaining(today - created[row.id])
    IN  Min({Full, IF row.used THEN (base * 8) \div 7 ELSE base})

FailedDecayCounted(n) == 0  \* a bug: a failed update is counted as done
FailedDecay(n) == n

\* An update of a memory deleted since finds no row and reports no error.
DecayOne ==
    /\ pc = "decaying"
    /\ \E row \in rows :
        /\ rows' = rows \ {row}
        /\ \/ /\ score' = [score EXCEPT ![row.id] = IF row.id \in live THEN NewScore(row) ELSE @]
              /\ rescored' = rescored \cup {row.id}
              /\ Count(done, 1) /\ UNCHANGED failures
           \/ /\ MayFail
              /\ Count(failures, FailedDecay(1)) /\ Count(done, 1 - FailedDecay(1))
              /\ UNCHANGED <<score, rescored>>
    /\ UNCHANGED <<today, live, created, used, edges, pc, pairs, doomed, readable, spared>>

DecayEnds ==
    /\ pc = "decaying" /\ rows = {}
    /\ Goto("prune")
    /\ UNCHANGED <<today, storeVars, pairs, rows, doomed, done, failures, historyVars>>

DecayScoreRead(m) == IF score[m] = 0 THEN Full ELSE score[m]  \* toModel
Stale(m) == DecayScoreRead(m) < StaleThreshold /\ today - created[m] > PruneAge

AbandonedByAge(m) == Stale(m)  \* a bug: without access_count = 0
Abandoned(m) == Stale(m) /\ m \notin used

phasePrune ==
    /\ pc = "prune"
    /\ \E read \in Newest(live, PassLimit) : doomed' = {m \in read : Abandoned(m)}
    /\ spared' = used
    /\ Goto("pruning")
    /\ UNCHANGED <<today, storeVars, pairs, rows, done, failures, rescored, readable>>

PruneOne ==
    /\ pc = "pruning"
    /\ \E m \in doomed :
        /\ doomed' = doomed \ {m}
        /\ \/ Deleted(m) /\ Count(done, 1) /\ UNCHANGED failures
           \/ MayFail /\ Count(failures, 1) /\ UNCHANGED <<live, edges, done>>
    /\ UNCHANGED <<today, created, used, score, pc, pairs, rows, historyVars>>

\* degradedErr: more than a tenth of what was attempted failed.
Degraded == failures * 10 > done + failures

Exits ==
    /\ pc = "pruning" /\ doomed = {}
    /\ Goto(IF Degraded THEN "failed" ELSE "complete")
    /\ UNCHANGED <<today, storeVars, pairs, rows, doomed, done, failures, historyVars>>

Job ==
    \/ phaseMerge \/ MergeOne \/ MergeEnds
    \/ phaseDecay \/ DecayOne \/ DecayEnds
    \/ phasePrune \/ PruneOne \/ Exits

Next ==
    \/ \E m \in Memories : Store(m) \/ Read(m) \/ Delete(m)
    \/ NextDay \/ Start \/ ReadFails \/ Killed
    \/ Job

Spec == Init /\ [][Next]_vars

-----------------------------------------------------------------------------
(* Properties *)

Copies(m) == {o \in live \cap Semantic : FactOf[o] = FactOf[m]}

\* Whatever nights, kills, deletions and new copies come together, every
\* duplicated fact keeps a copy that nothing supersedes: retrieval demotes the
\* others, never all of them (phaseMerge: "the most recently created one is
\* kept").
OneCopyCurrent ==
    \A m \in live \cap Semantic : \E o \in Copies(m) : \A e \in edges : e[2] # o

\* The prune deletes no memory that had been read when it looked, and none that
\* is not past the age: a client's delete aside, it lives on.
PruneSpares ==
    [][pc = "pruning" /\ pc' = "pruning" /\ doomed' # doomed =>
          \A m \in live \ live' : m \notin spared /\ today - created[m] > PruneAge]_vars

\* A run of fewer than ten items that exits zero left none of them undone: a
\* failure is counted, and the ratio it is held against counts it too
\* (degradedErr).
CompleteMeansDone ==
    pc = "complete" /\ done + failures < 10 => readable \subseteq rescored
=============================================================================
