# TLA+ models of the Kora memory engine

Kora stores what conversations say as *memories*: vertices of an Apache AGE
graph, with one embedding row each in a pgvector table, joined by edges
(`supersedes`, `relates_to`, `mentions`, `contains`). Many requests write to one
project at once, queries read it meanwhile, a nightly job merges, decays and
prunes, users delete, replicas start and stop, and **no transaction spans two
statements** but the one of an entity link. These modules model what can go wrong
in between, check it with TLC on small instances, and prove with TLAPS, for instances of
every size, every safety property that TLC finds to hold.

Paths below are relative to `src/` (`internal/ingest/ingest.go`);
`PROJECT.json` maps each definition to its lines.

## The system

| Part | State it keeps | Operations | What makes it correct | Module |
|---|---|---|---|---|
| Write path (`internal/ingest`) | per request: memories still to write, response slots | `Store`, `Extract`: extract, fold the conversation, look up verbatim twins, embed, then per memory search neighbours, fold or create, embed, link | a memory named in a response keeps saying what was said; concurrent folds lose nothing | `Extract`, `WritePath` |
| Repository (`internal/graph/age.go`) | `:Memory` vertices, `public.memory_embeddings`, edges, sessions | one SQL or Cypher statement each; `DeleteMemory` is four | answers and edges name what is there | `MemoryRepo` and the modules that use its tables |
| Redundancy folding (`internal/extraction/dedup.go`) | the memories kept so far | `FoldRedundant`, `Subsumes` | no order of wordings loses a fact or a tag | `FoldRedundant` |
| Extractors (`internal/extraction`) | none | rules, or an LLM with the rules as fallback | no answer of the model loses the conversation | `Extract` |
| Embedding (`internal/embedding`) | none | chunks of 32, 8 at a time | each vector belongs to its text | `Extract` |
| Contradictions and linking (`detectAndSupersede`, `autoLinkByTags`, `phaseMerge`) | `supersedes`, `relates_to` edges | read candidates, assert up to five edges | what was written later is not replaced by what was there before | `Links` |
| Entity graph (`internal/graph/entity.go`) | `:Entity` vertices, `mentions` edges | `LinkEntities`: a transaction with an advisory lock and retries per name; orphan clean-up | one vertex per name and project; no counted link lost | `EntityLink` |
| Consolidation job (`internal/service/consolidate.go`) | one read of the store per phase, counters | merge, decay, prune | one copy of a fact stays current; only abandoned memories are deleted; success means done | `Consolidate`, `Prune` |
| Retrieval and ranking (`internal/retrieval`, `internal/graph/fts.go`) | one query's candidates | keyword, vector and entity searches, merge, demotion, ranking, cut | nothing found is lost; better ranks higher; the replaced fact below its replacement | `Retrieve` |
| Sessions (`internal/service/session.go`) | `:Session` vertices, a gauge per process | start, end | a session ends once | `Server` |
| Probes and lifecycle (`internal/server`, `cmd/server`) | started, draining, listeners, pool, schema width | boot, probes, drain, exit | a ready pod serves; traffic stops before servers do | `Server` |
| Auth and rate limiting (`internal/auth`) | token bucket per key, at most `maxBuckets` | HTTP middleware, then gRPC interceptor | one token per request over both layers; a bound on what a window admits | `RateLimit` |
| Connection pool | connections | acquire, release | no cycle of waits | `EntityLink`, `Server` |
| Health (`internal/service/health.go`) | cached counts, one flight | serve, recompute, serve stale | at most one recompute per TTL | not modelled |
| Configuration, logging, metrics, CLI, evaluation, SDK, MCP server, charts, site | none | none | no state the engine depends on | not modelled |

Interaction: the authentication layers let a call through, the service validates
it and hands it to the engine or to retrieval; those issue statements through the
repository; the job is a separate process on the same database. The only state
processes share is the database. It gives atomicity to one statement (and to the
transaction of one entity link) and nothing more: everything a request *read* may
be stale when it *writes* or answers. That is where most of the hazards are
(`PROJECT.json`, `hazards`).

## Modules

| Module | Models |
|---|---|
| `MemoryRepo` | the two tables and each statement on them |
| `WritePath` (extends it) | concurrent `Extract` and `Store` requests and `DeleteMemory` calls, one action per statement |
| `FactStore` | the abstract promise: facts are learned, never forgotten, and told only when held |
| `Prune` (extends `WritePath`) | the prune phase beside the write path |
| `FoldRedundant` | the pure folding of one conversation, order by order |
| `Extract` (extends it) | what an `Extract` call does before it writes: model or rules, folding, twins, embedding in concurrent chunks |
| `Links` | the memory-to-memory edges: detection, auto-linking, merge phase, delete |
| `EntityLink` | `LinkEntities` transactions against each other and against `DeleteMemory`'s clean-up, over one pool |
| `Consolidate` | the whole nightly job, night after night, beside clients |
| `Retrieve` (extends `MemoryRepo`) | one query against a store that changes under it |
| `RateLimit` | keys, buckets and the two layers |
| `Server` | processes over one database: boot, schema, probes, sessions, drain, crashes |
| `WritePathProofs` (with `Prune`), `ExtractProofs` (with `FoldRedundant`), `LinksProofs`, `EntityLinkProofs`, `ConsolidateProofs`, `RetrieveProofs`, `RateLimitProofs`, `ServerProofs` | theorems |
| `MC*` | the small instances TLC checks |

`WritePath`, `Prune`, `Consolidate` and `Retrieve` look at the same tables from
four sides. They share `MemoryRepo` where they share columns; `Consolidate` has
its own, since it needs scores and ages and no texts.

### State and actions of the write path

`memory[id]` is the vertex of a uuid: not created yet, a row (content, type,
`content_hash`, and whether `access_count` is above zero), or deleted.
`embedding[id]` is the *text the stored vector was computed from*. A text is a
member of `Contents`, one per `model.ContentHash`; `Carries` says which text has
all the words of another in order with the same polarity, so that
`extraction.Subsumes` is an operator of two texts. `Carries` is assumed reflexive
and transitive. `ExtractProofs` shows it for token sequences of any length: the
reference relation is that, and antisymmetric (`SayingIsAnOrder`), and the code's
single pass decides it (`SubsumesIsSaying`).

A request walks `pc` through the statements of `Extract` (`BeginExtract`,
`FindExisting`, `RestateAndEmbed`, then for each pending slot
`SearchNeighbours`, `Fold`, `Reembed`, `Bump` or `Create`, `StoreVector`) or of
`Store` (`BeginStore`, `Create`, `StoreVector`). `reported` is the response
under construction: which row stands for which slot. With `MayFail` a statement
may return an error whether or not it was applied, and the embedder may return
no vector: this covers a lost connection, the 30 s `storeFinishTimeout` and a
cancelled call. A crash of the server is a request that takes no further step;
the specification has no fairness, so every prefix of a request is a behaviour.

Abstractions, each of which adds behaviours or leaves these tables alone:
one project (every lookup is scoped to it); a text has at least one content
token; any searchable row may be the nearest neighbour that is considered (the
code takes the first of ten by distance); session, entity and edge writes do not
touch the two tables; the two reads of `SearchByVector` are one step, as a row
deleted between them is only dropped. What is assumed of the database is that
one statement is atomic: `UpdateMemoryContent`'s guard and write, and an edge's
`MATCH` and `MERGE`.

### State and actions of the edges

In `Links` a write stores one memory, named after the write; it is a `Store` or
one turn of `Extract`'s loop. Its `created_at` is whatever the clock of its server
said (milliseconds, shared by all the memories of one conversation): stamps may tie,
or be in another order than the writes. `before` remembers which writes were over
when one began. `CreateMemory` commits, `Detect` and `Supersede` are `detectAndSupersede`'s read
and its writes one edge at a time, `Link` and `Relate` are `autoLinkByTags`,
`Delete` is the `DETACH DELETE`, `MergeRead` and `MergeNext` the merge phase.
Which texts contradict is a constant relation, since it is text processing
(`detectPair`); in the instances two texts contradict each other, as two values of
one property do. Tags and similarity are abstracted to *any* of the linkable
memories. Edges a user makes with Connect are not modelled.

### State and actions of the other parts

**Folding and pruning.** `FoldRedundant` reads one memory of a conversation per
step. Texts are sequences of words and the comparison is the code's one pass
over the longer text; the properties use a separate reference, an increasing
choice of places. `Prune` gives the job's one read and its loop of deletes, which
are `WritePath`'s `BeginDelete` and `DeleteVertex`; scores and ages are abstracted
(any memory may be stale and old), `access_count` is not.

**Extraction.** `stage` is where the call is: the `model` answers or fails, the
`rules` read the turns, `fold` is `FoldRedundant`, `SetAside` drops what the
project holds verbatim, then goroutines (`Send`, `SendFails`, `Answered`) embed
the rest, chunk by chunk and a few at a time. `request` is the state of each
chunk, `vectors[p]` the text whose vector was put in place `p`. An openai reply
is any sequence of entries with indices, of any length, a google reply is in
order; `Decoded` is what the two decoders accept. Word lists and patterns are
constants; a turn is its words and a spelling, since the rules' `dedup` looks at
the spelling and folding at the words.

**Entity graph.** `entity` and `mention` are what is committed, `tx[l]` what a
transaction's `MERGE` matched or created, `snap[d]` what the clean-up statement
matched. `Match` and `Update` are the two halves of one statement: a snapshot
read, and the write that waits for whoever has the row and fails if it changed.
`conns` are the connections of pgxpool. What PostgreSQL and AGE do is external;
it is modelled from what the comments in `internal/graph/entity.go` measured.

**The job.** `Consolidate` has `created`, `used` and `score` for each memory
and counts time in half-lives, so that a night halves a score, in eighths
(`Remaining` tabulates the exponential of `phaseDecay`). Each
phase reads once (`Newest`, with ties at the `LIMIT` left to the database) and then
issues one statement per step; a statement may fail, a read may fail, and the job
may be killed anywhere. `Store`, `Read` and `Delete` are the clients.

**A query.** `Retrieve` walks `pc` through the statements of one `Query`; between
any two of them others create, embed, supersede and delete in their two
statements. `vec` keeps the similarity a hit had when it was found. A scoped vector
search is exact over the vectors it materialises, at most `ScopedCandidates`, and an
unscoped one is an HNSW scan, which the code found to miss rows that plainly match
(`internal/graph/age.go:1831`): there `Neighbours` is any subset of the rows, and
`"scan"` joins `full`, the history of searches that may have left something out,
unless all vectors were looked at. Grades are
twentieths, rounded down, and the weights are those of the code in hundredths, so
that the arithmetic of the gate, the fusion, the score and the demotion is the
code's up to rounding.

**Rate limiting.** One tick of `clock` refills one unit of a bucket and a request
costs `Cost` units, so that a fraction of a token can be seen. `HTTPMiddleware`
and `UnaryInterceptor` are one step each, as they hold the mutex across check and
charge; the map's eviction is `Evicted`, with ties left open. `health` stands for
`/v1/health`, the public path that goes on to gRPC; probes and metrics end at the
mux, and charge nothing either. `Observe` is not the
code: it starts a window at any moment, for `WindowBound`.

**Processes.** A server boots through the statements of `InitSchema` (`width` is
the dimension the embeddings table has), listens (over HTTP before or after
`MarkStarted`), drains and exits; `Deadline` is `shutdownTimeout` passing while
`Shutdown` waits. `Crash` is a failed boot statement, the end of a job, or a death. A
`Call` is a session RPC, direct or through the gateway, which dials its own process;
calls not made yet are interchangeable, and the next one to arrive is one of them.
`gauge` is the metric
of each process, `forgotten` what was lost with processes that ended.

## Runs

Each row is a run of `PROJECT.json`. The bounds are the constants of its cfg.

| Run | Instance | Distinct states | Shows |
|---|---|---|---|
| `folds` | 3 requests, 3 ids, 4 nested texts, 2 types, failures | 354 459 | `ReportedFactKept`, `VectorWithinContent`, `ContentOnlyGrows`, and `KeepsPromise`: refinement of `FactStore` |
| `extract` | conversations of 2 turns in 6 wordings, arrays of 3 entries, 4 providers, chunks of 2, 2 slots | 199 896 | `NothingLost`, `TagsEarned`, `ConversationKept`, `VectorsOfTheirTexts`, `OnlyFailedChunksCost`; the call ends: `PipelineEnds` |
| `prune` | 2 requests of up to 2 memories, 4 ids, a text too short to fold, a client's delete and the job, no failures | 1 050 661 | `ReportedFactKept` while rows disappear, `RestatedKept` |
| `links` | 3 concurrent writes, clocks that tie or run apart, 1 merge, 1 delete, failures | 5 978 220 | `EdgesBetweenLive`, `RelatesOnlyElsewhere`, `PointsBack` |
| `entity_link` | 2 link calls of up to 2 names, 1 delete, 2 projects, 2 connections, 2 attempts, failures | 300 204 | `OneVertexPerName`, `LinksKept`; every call ends: `EveryCallEnds` |
| `consolidate` | 3 copies of a fact and an event, limits 2 and 3, 3 days, failures and kills | 5 665 269 | `OneCopyCurrent`, `CompleteMeansDone`, `PruneSpares` |
| `retrieve` | 4 memories, 5 queries, 2 changes and 2 failures during a query | 1 686 977 | `AnsweredWasLive`, `NothingLost`, `BetterRanksHigher`, `ReplacementFirst` |
| `rate_limit` | 3 requests, 2 credentials on 1 or 2 keys or none, a map of 1 bucket, 5 instants | 3 695 276 | `WindowBound`, `ChargedOnce`, `RetriesDoNotStarve` |
| `server` | 2 servers, the job, 2 calls, an earlier session, failures, any number of restarts | 793 071 | `ReadyServes`, `GaugesAddUp`, `RESTDrained` |
| `server_ends` | the same with 1 call | 36 703 | a boot and a drain end: `BootAndDrainEnd` |

Each module's `TypeOK` is checked with its run.

Why these are enough:

- `folds`: losing a fact takes a row and two folders that read it before either
  writes, hence three requests and three ids; the texts are a chain and a fork
  (`abc`, `abcd`, `abce`, `abcde`), which give every verdict of `Subsumes` and two
  upgrades that do not carry each other; two types give the type guard its case.
- `extract`: a fold that disturbs another needs one memory to be there and two to
  come, hence arrays of three; three texts in chunks of two make a full chunk and
  a short one, which is where places go wrong, and one text to a chunk makes three
  chunks for two slots.
- `links`: merging, a cycle of `supersedes` and a `CreateEdges` that fails half way
  need two or three memories, and a third shows that survivors are per group; two
  stamps give ties and every order.
- `entity_link`: one name shared by the calls and one that is not; a name given
  twice and a blank; two projects; a third connection would take the pool out of
  the picture, a single one would take away concurrency.
- `consolidate`: merge reads two of three copies and decay three of four
  memories, so that both limits bite; three days let a score fall below the
  threshold and a memory grow past the age.
- `retrieve`: one memory is found through its entity alone, one by its vector
  alone, two by words and vector. Those two have the same rank, similarity, recency
  and use, and one replaces the other, so that nothing but the demotion orders them.
  The pool of the smallest query is smaller than the store, `ScopedCandidates` is
  smaller than the number of vectors, and an unscoped query with a text makes the
  vector search approximate.
- `rate_limit`: two keys over one bucket make every other request evict; a full
  bucket pays for one request, so that refills, caps and rejections all occur
  within four ticks.
- `server`: two replicas and the job are what can race over one empty database.
  `server_ends` needs one call only: the REST client that does not finish.

Every property has a mutant in `PROJECT.json`, a plausible bug in one definition
that TLC catches on the same instance. Deadlock is checked where a system with
unanswered requests can always move (`folds`, `prune`); the others run out of work,
and their cfgs say so.

### Fairness

Safety rests on no fairness. The liveness properties do, and on no more than this:

- `Extract!FairSpec`: some step is taken as long as one can be. Every step is the
  engine's own or the end of an HTTP request, and the clients have timeouts
  (`llmDefaultClient`, `defaultClient`), so that no request stays out for ever.
- `EntityLink!Fairness`, weak for each call's own steps: a goroutine runs, the
  database answers, and pgxpool and PostgreSQL's lock queue serve waiters in turn.
  `Fail` is not among the fair steps, so that no call ends only because it failed.
- `Server!Fairness`: weak for a boot, for a drain (with the
  `Deadline` of `Shutdown`) and for a handler. Not for `Dial`: a REST
  client may take its time; not for `Connect`, `Drain` or `Crash`.

`WritePath`, `Links`, `Consolidate`, `Retrieve` and `RateLimit` state no liveness:
a request may fail at every statement and nothing resumes it, and a job that is
killed is not resumed but started anew.

### Where the code does not do what it says

These runs end in a violation; the property states what a comment or the API says,
and `findings` quotes it.

| Run | Property | What happens |
|---|---|---|
| `lost_fold` | `FoldedIntoLiveRow` | a fold into a row deleted meanwhile is reported and stored nowhere |
| `retrieve_types` | `TypesKept` | a query's `types` are read by the fallback only: with a query text, memories of other types are answered |

`ReportedFactKept` holds beside `lost_fold` because it lets a reported row be
deleted: what the write path guarantees is that *it* never loses a fact, not
that the fact outlives its row.

More follows from the models, without a run of its own.

In the write path:

- A vector stored after its row's delete stays (`StoreEmbedding` does not ask for
  the vertex, `internal/graph/age.go:738`), although the comment there says that
  each delete leaving one is what the order of statements avoids.
  `AnsweredWasLive` shows that hydration keeps it out of every answer; it takes a
  place under the `LIMIT`.
- Two upgrades of a row may store their vectors in the other order
  (`internal/ingest/ingest.go:328`). `VectorWithinContent` is what remains true:
  a vector says no more than its row.
- A wording that covers two kept ones replaces only the first, and keeps the
  entities of the wording it replaces (`internal/extraction/dedup.go:160`).
- `relates_to` may land on `supersedes` once `CreateEdges` failed half way, or when
  the merge finds a copy. `RelatesOnlyElsewhere` says that it does nowhere else.
- Two concurrent writes that contradict each other retire each other: each
  detects after its own commit (`internal/ingest/ingest.go:90`). `PointsBack` says
  that only overlapping writes can: a memory is not superseded by one whose write
  was over when its own began, except by the merge, which goes by the stamps.

In a query:

- An unscoped search, or a scoped one over more than `scopedVectorCandidates`
  vectors, may miss the nearest memory without reaching its `LIMIT`. `NothingLost`,
  `BetterRanksHigher` and `ReplacementFirst` ask of such a search only what it
  reached; what the other retrievers found is not lost by it.

In the entity graph:

- The comment above `DeleteMemory` says that an entity's degree is final when the
  clean-up runs. A link in flight can still raise it; `LinksKept` holds because
  the clean-up then finds the vertex changed, and so deletes nothing.

In the job:

- A memory restated after the job's read is pruned
  (`internal/service/consolidate.go:279`). `RestatedKept` and `PruneSpares` are
  about what was read before.
- Decay and prune see the newest 1000 memories over all projects and merge the
  newest 100, while the comment above `phaseDecay` says "every memory". An older
  memory keeps its score and its copies.
- Copies of one `created_at` may be superseded by each other over two nights, as
  the order among equals is the database's. `OneCopyCurrent` is checked with
  `SameTime = FALSE`.

In the server:

- The chart and `shutdownTimeout` give a drain 15 s; `GracefulStop` has no deadline
  (`cmd/server/main.go:310`), so that a handler that does not end leaves the pool to
  SIGKILL. `BootAndDrainEnd` assumes that handlers end.
- A session ended after a restart takes the gauge of the process below zero;
  `GaugesAddUp` counts what restarts forgot.
- The two statements of `CreateSession` are not one, despite the comment's
  "ensures": a session may be left without its project.

In limits: "100 requests/minute per key" (`cmd/server/main.go:171`) is a rate, not a bound:
a minute admits up to twice that, a full bucket and what is refilled, and more for a
key whose bucket was evicted. `WindowBound` is the exact statement.

## Proofs

TLAPS proves these for every value of the constants that meets the assumptions
of the module, that is for every number of requests, memories, texts, names,
projects, connections, keys, servers and nights. The assumptions are named in the
module that declares the constants, and TLC evaluates each in a run. They give the
constants their types and ranges (`LinksAssumption`, `EntityLinkAssumption`,
`RateLimitAssumption`, `FoldAssumption`, `ExtractAssumption`, `WritePathAssumption`),
and beyond that:

- `RepoAssumption`: `Carries` is reflexive and transitive, see above.
- `CallsAssumption`: what a conversation and a model's reply may be; neither is
  longer than the bound `MaxMemories`, any number.
- `ConsolidateAssumption`, `RetrieveAssumption`, `ServerAssumption`: finitely many
  memories, servers and calls. A query's `top_k` is at least 1, as `buildFilter`
  clamps it, and every server has an embedder of some width.

| Theorem | Statement |
|---|---|
| `WritePathProofs!TypeCorrect` | `Spec => []TypeOK` |
| `WritePathProofs!FactsKept` | `Spec => []ReportedFactKept` |
| `WritePathProofs!VectorsWithin` | `Spec => []VectorWithinContent` |
| `WritePathProofs!ContentGrows` | `Spec => ContentOnlyGrows` |
| `WritePathProofs!PromiseKept` | `Deletes = {} => (Spec => KeepsPromise)` |
| `WritePathProofs!FactsKeptBesidePrune` | `PruneSpec => []ReportedFactKept` |
| `WritePathProofs!PruneSparesRestated` | `~MayFail => (PruneSpec => []RestatedKept)` |
| `ExtractProofs!SubsumesIsSaying` | of texts long enough, `Subsumes` finds one to carry the other exactly when `Says`, and `Equivalent` when they are equal |
| `ExtractProofs!SayingIsAnOrder` | `Says` is reflexive, transitive and antisymmetric on `Texts` |
| `ExtractProofs!TypeCorrect` | `Spec => []TypeOK` |
| `ExtractProofs!FoldingLosesNothing` | `Spec => []NothingLost` |
| `ExtractProofs!FoldedTagsAreEarned` | `Spec => []TagsEarned` |
| `ExtractProofs!RulesSettleIt` | `Spec => []ConversationKept` |
| `ExtractProofs!VectorsAreAligned` | `Spec => []VectorsOfTheirTexts` |
| `ExtractProofs!AFailureCostsItsChunk` | `Spec => []OnlyFailedChunksCost` |
| `LinksProofs!LinksTyped` | `Spec => []TypeOK` |
| `LinksProofs!NoDanglingEdge` | `Spec => []EdgesBetweenLive` |
| `LinksProofs!LaterIsNotSuperseded` | `Spec => []PointsBack` |
| `LinksProofs!LinksElsewhere` | `Spec => []RelatesOnlyElsewhere` |
| `EntityLinkProofs!TypeCorrect` | `Spec => []TypeOK` |
| `EntityLinkProofs!NamesUnique` | `Spec => []OneVertexPerName` |
| `EntityLinkProofs!LinksStay` | `Spec => []LinksKept` |
| `ConsolidateProofs!TypeCorrect` | `Spec => []TypeOK` |
| `ConsolidateProofs!OneCopyStays` | `~SameTime` gives `Spec => []OneCopyCurrent` |
| `ConsolidateProofs!PruneSparesRead` | `Spec => PruneSpares` |
| `ConsolidateProofs!CompleteRunsDone` | `Spec => []CompleteMeansDone` |
| `RetrieveProofs!TypeCorrect` | `Spec => []TypeOK` |
| `RetrieveProofs!AnswersWereLive` | `Spec => []AnsweredWasLive` |
| `RetrieveProofs!NothingIsLost` | `Spec => []NothingLost` |
| `RetrieveProofs!BetterRanks` | `Spec => []BetterRanksHigher` |
| `RetrieveProofs!ReplacementsFirst` | `Spec => []ReplacementFirst` |
| `RateLimitProofs!TypeCorrect` | `Spec => []TypeOK` |
| `RateLimitProofs!WindowBounded` | `Spec => []WindowBound` |
| `RateLimitProofs!PaidOnce` | `Spec => []ChargedOnce` |
| `RateLimitProofs!RetriesServed` | `Spec => []RetriesDoNotStarve` |
| `ServerProofs!TypeCorrect` | `Spec => []TypeOK` |
| `ServerProofs!ReadyIsWhole` | `Spec => []ReadyServes` |
| `ServerProofs!GaugesCountSessions` | `Spec => []GaugesAddUp` |
| `ServerProofs!RESTIsDrained` | `Spec => RESTDrained` |

**Write path.** Neither property is inductive alone. The invariant `IInv` adds:
`HashInSync` (a live row's `content_hash` is that of its content, which is why
comparing hashes compares texts); `UnbornBare` (an id not created yet has no
vector and nobody's target); and per request `RequestInv`: while it is about to
fold or bump, the row it targets still *carries the text it read* or is gone
(`TargetSays`), so that a bump reports a row that says the memory. The step
that matters is `Fold`: the compare-and-set gives that the row still holds the
text the verdict was about, the verdict that the new text carries it, and
transitivity of `Carries` that it carries whatever any response promised.
Every other action leaves contents alone or creates a fresh row.
`ContentGrows` is read off the same step. The promise adds that nothing is
deleted and that answers are within the job; each step then maps to a `Learn`, a
`Tell` or a stutter of `FactStore`.

**Prune beside the write path.** Every step of `PruneSpec` is one of the write
path's, a delete, or the job's own bookkeeping, so `IInv` carries over.
`PruneSparesRestated` adds `NamedOnce`: a memory whose `access_count` is zero is
named for one statement only, the one it was created for, counting the name a
request has not reported yet. A second name comes from a twin or a fold, and both
go through a statement that counts; that is where `~MayFail` is needed, since a
lost `IncrementAccessCounts` leaves the zero (the engine logs it and goes on). So
what the job read as never used was never restated.

**Extraction.** Recursion is by function and by fold, and induction is by a least
counterexample. First `Subsumes`: the single pass stands at the longest prefix of
the shorter text that has places in what was read (`Placed`), so it succeeds when
any choice of places does. `Says` is then a partial order. A fold keeps `FoldInv`:
a kept memory `Stands` for everything folded into it, and by transitivity whatever
replaces it does too; `NothingLost` and `TagsEarned` are its parts. The call's
invariant, `PipelineInv`, adds that lists stay within their bound (`CallInv`), that
what the rules recognise is read or still to be read (`Heard`), and that the chunks
cover what is to be written, an answered one having all its vectors and each
vector the text of its place (`EmbedInv`).

**Edges.** `NoDanglingEdge` needs only that an assertion matches both endpoints
in the statement that writes and that a delete takes its edges.
`LaterIsNotSuperseded` uses `OInv`: what a write is about to supersede, or did,
had begun while the write was not over (`NotOver`), and what the merge phase has
read, or did, is a copy stamped no later (`NewerCopy`); the set a write began with
and the row it made up never change (`WritesGoOn`), so that neither is undone by any
later step. `LinksElsewhere` adds `LInv`: a write has reported as connected whatever it
superseded or is about to, unless it reports nothing (`ReportedBefore`), and what it
linked or is about to it had not reported (`LinkedElsewhere`).

**Entity graph.** Two arguments, one on the other. The advisory lock: from its
statement to the end of a transaction a linker holds it (`LockHeld`), what it
matched or created is its name's (`TxOfName`), hence it writes the only vertex of
the name (`Single`) and names stay unique. The version of a row: a clean-up has
read no version that is still to come (`SnapOld`), so that a commit after its
read makes it miss; what it read and what has not changed is still mentioned by
nobody (`OrphansStay`), so that its delete breaks no link; and the row lock keeps
it from a vertex an open transaction has written, so that what a linker is about
to commit is current or unseen by anybody (`TxCurrent`). Vertex ids are never
given out twice (`VidsUsed`, `UniqueVids`). `LinkInv` is their conjunction.

**Nightly job.** `OneCopyStays`: edges, and the pairs a killed or slow job has
left to make, go from a copy to one created before it (`Older`), whatever is
deleted or stored between; there is a newest live copy (`NewestExists`, from the
library's well-foundedness of `<` on `Nat`), and an edge to it would come from a
newer one. Without `~SameTime` it is false, see above. `PruneSparesRead` carries
what the prune's read established of its list to each delete (`PruneInv`).
`CompleteRunsDone`: without a failure, what decay read is scored or still in
`rows` (`DoneInv`), and under ten items one failure is more than a tenth.
`TypeCorrect` bounds the counters by what the three reads return: a phase counts
each item of its list once, and the list is no longer than the `LIMIT` (`WorkInv`).

**A query.** `RetrieveInv` says of each retriever what it missed: of the memories
that have stayed as they were (`steady`), one with evidence that a retriever asked
for did not return was cut off by its `LIMIT`, and whatever it returned has no
less of that evidence (`KeywordInv`, `VectorInv`, `EntityInv`). Others act between any two
statements, but do nothing to a steady memory (`StoreStep`), so each part survives
them. At the ranking, a memory ahead on every signal is then among the merged
ones where the other is; every step of the score is monotone, the rescaling to
the pool and the rounding included, and the recency term makes it strict. Where the
vector search did not look at every vector, this is asked of the memories it did not
pass over (`SeenToo`): which those are is the index's choice, and the proof holds for
any. With the
same evidence a replacement scores no less before the demotion, which leaves the
replaced one six tenths of a score that its type keeps above zero, hence
`ReplacementsFirst`. What is used of the sort and the cut is
that the page takes from the top and has no gap (`IsPage`).

**Rate limiting.** `WindowBounded` comes from `Budget`: what a key has paid in a
window and what its bucket has now are at most the burst, the refill of the
window, and one burst for every eviction; refill, charge, cap and eviction each
keep it. `RetriesServed` comes from `Granted`: a bucket holds what was refilled
since it last paid, capped at one token, whatever was refused since. `PaidOnce`
needs that a request marked by the first layer has paid there (`RequestInv`).
`TypeCorrect` includes the bound on the map, which is a count: an insertion into
a full map removes one first (`MapBound`).

**Processes.** Where a process is says what it has: past `verifyEmbeddingDim` the
table is as wide as its vectors and nobody changes a width, past `InitSchema` the
schema is whole, and gRPC listens exactly while it should (`Boot`). A handler runs
only in a process with a pool, and a REST request found there after the HTTP drain
is one that outlasted it (`Hosted`). `GaugesCountSessions` rests on how far each
call is (`Staged`), on every session having one start (`StartsOnce`), and on sums over the
servers, which are shown to move by what one step adds to one gauge, and to keep
their value when a crash moves a gauge into `forgotten` (`AddUp`).

## Model-checked only

- Liveness (`PipelineEnds`, `EveryCallEnds`, `BootAndDrainEnd`): it rests on fairness and
  `ENABLED`, which TLAPS does not treat.
- What the two violation runs show.

Three theorems have a hypothesis, and it is the scope in which the property is true:
`PromiseKept` (nothing is deleted), `PruneSparesRestated` (no statement fails),
`OneCopyStays` (no two copies of one instant).

## Not modelled

- **Health statistics** (`internal/service/health.go`): a cached pair of counts
  behind one flight, which no other part reads. A failed recompute serves the old
  pair; nothing depends on its age.
- **Session links** of a memory and the retry of a `Store` that failed after its
  commit: the row is there whatever the answer, and a client's retry is another
  `Store` of the model.
- **Connect**, `GetGraph`, `GetProfile`, `GetSubgraph`, `GetContextEdges`: one write
  of an edge between memories, and plain reads.
- **Text processing**: patterns, word lists, prompts, contradiction patterns,
  entity recognition. The modules take its results as constants, or keep its order
  of decisions where the order matters (`Classified`).
- **Numbers**: vectors and cosine similarity, IDF weights, the exponentials of decay
  and recency, which TLC cannot explore. They are grades.
- **The tiers of** `internal/ranking/relevance.go` and reciprocal rank fusion: only
  the evaluation harness sets them.
- **pgxpool's** lifetimes and hooks, SQL plans and indexes, but for what the HNSW scan may miss.
- **Configuration, logging, metrics, CLI, evaluation, generated code, clients,
  deployment and the site**: no state that steps of several actors could put in
  disorder.
