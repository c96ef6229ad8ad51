-------------------------------- MODULE Retrieve --------------------------------
(***************************************************************************)
(* One Query over one project while its memories are written, deleted and  *)
(* superseded: the three retrievers, each a statement that finds ids and a *)
(* later one that hydrates them, the merge that puts them on one scale,    *)
(* the demotion of superseded facts, the ranking and the cut at top_k.     *)
(*                                                                         *)
(* What a retriever thinks of a memory is a constant of its text: the      *)
(* query's IDF weights are taken as fixed while the query runs.  Grades in *)
(* [0, 1] are kept to twentieths, rounded down; the weights are the        *)
(* code's, in hundredths.  The fusion is the shipping one (min-max); only  *)
(* the evaluation harness sets another.                                    *)
(***************************************************************************)
EXTENDS MemoryRepo, FiniteSetsExt, Functions

CONSTANTS
    ContentOf, TypeOf,  \* [Ids -> Contents], [Ids -> Types]
    Recency,       \* [Ids -> Grades]: recencyFactor of created_at
    TypePriority,  \* [Types -> Grades]
    Lexical,       \* [Contents -> Nat]: the rank the keyword statement computes
    FullMatch,     \* FullMatchScore: the rank of a complete match
    Cosine,        \* [Contents -> Grades]: of a text's vector to the query's
    Named,         \* [Contents -> Nat]: how many of the query's entities it names
    Entities,      \* how many entities the query names
    Popular,       \* the memories read before
    Replaces,      \* <<new, old>>: the facts a contradiction check may connect
    Queries,       \* [text, types, topK, scoped]
    PoolFactor, MaxPool,  \* candidatePoolFactor, maxCandidatePool
    ScopedCandidates,  \* scopedVectorCandidates: the vectors a scoped search reads
    HasEmbedder, GraphSignals,
    MaxChanges,    \* bound: what others change while the query runs
    MaxFailures    \* bound: the statements that fail

Unit == 20
Grades == 0..Unit

ASSUME RetrieveAssumption ==
    /\ Ids \subseteq Nat /\ IsFiniteSet(Ids)  \* in the byte order of the uuids
    /\ ContentOf \in [Ids -> Contents] /\ TypeOf \in [Ids -> Types]
    /\ Recency \in [Ids -> Grades] /\ TypePriority \in [Types -> 1..Unit]
    /\ Lexical \in [Contents -> Nat] /\ FullMatch \in Nat \ {0}
    /\ Cosine \in [Contents -> Grades]
    /\ Named \in [Contents -> 0..Entities] /\ Entities \in Nat \ {0}
    /\ Popular \subseteq Ids /\ Replaces \subseteq Ids \X Ids
    /\ Queries \subseteq [text : {"none", "stops", "terms"}, types : SUBSET Types,
                           topK : Nat \ {0}, scoped : BOOLEAN]
    /\ PoolFactor \in Nat \ {0} /\ MaxPool \in Nat \ {0} /\ ScopedCandidates \in Nat \ {0}
    /\ {HasEmbedder, GraphSignals} \subseteq BOOLEAN
    /\ MaxChanges \in Nat /\ MaxFailures \in Nat

VARIABLES
    edges,       \* the supersedes edges, <<new, old>>
    deleting,    \* memories whose DeleteMemory removed the embedding
    changes,     \* how often the store has changed, for the bound
    pc, q,       \* the query and its next step
    kw,          \* the keyword retriever's candidates
    recent,      \* ... are the fallback's: nothing was searched for
    vec,         \* the vector retriever's: id -> similarity
    ent,         \* the entity retriever's
    overlap,     \* [Ids -> how many of the query's entities it names]
    answer,
    failed,      \* history: the statements that failed
    full,        \* history: the retrievers whose LIMIT was reached, and "scan" if
                 \* the vector search did not look at every vector
    seen,        \* history: the memories live at some moment of the query
    steady       \* history: the memories nothing happened to meanwhile

storeVars == <<memory, embedding, edges, deleting, changes, seen, steady>>
queryVars == <<pc, q, kw, recent, vec, ent, overlap, answer, failed, full>>
vars == <<storeVars, queryVars>>

Statements == {"keyword", "hydrateKeyword", "searchable", "fallback", "embed",
               "vector", "hydrateVector", "entity", "overlap", "rank", "count"}
Answered == pc \in {"count", "answered"}

TypeOK ==
    /\ RepoTypeOK
    /\ edges \subseteq Replaces /\ \A e \in edges : Live(e[1]) /\ Live(e[2])
    /\ deleting \subseteq Ids /\ changes \in 0..MaxChanges
    /\ pc \in Statements \cup {"answered", "failed"}
    /\ q \in Queries
    /\ {kw, ent, DOMAIN vec} \subseteq SUBSET Ids /\ vec \in [DOMAIN vec -> Grades]
    /\ recent \in BOOLEAN /\ overlap \in [Ids -> 0..Entities]
    /\ answer \in Seq(Ids) /\ Len(answer) <= q.topK /\ IsInjective(answer)
    /\ failed \subseteq Statements /\ full \subseteq Statements \cup {"scan"}
    /\ seen \subseteq Ids /\ steady \subseteq Ids

\* A store as the write path and its failures leave it: a memory may lack its
\* vector, and a vector may have outlived its memory.
Init ==
    /\ \E there \in {S \in SUBSET Ids : Popular \subseteq S}, gone \in SUBSET Ids :
          memory = [id \in Ids |-> IF id \in there
                       THEN [content |-> ContentOf[id], type |-> TypeOf[id],
                             content_hash |-> ContentOf[id], used |-> id \in Popular]
                       ELSE IF id \in gone THEN Deleted ELSE Unborn]
    /\ embedding \in {v \in [Ids -> Contents \cup {NoVector}] :
          \A id \in Ids : v[id] = NoVector \/ (v[id] = ContentOf[id] /\ memory[id] # Unborn)}
    /\ edges \in SUBSET {e \in Replaces : Live(e[1]) /\ Live(e[2])}
    /\ deleting = {} /\ changes = 0
    /\ pc = "keyword" /\ q \in Queries
    /\ kw = {} /\ recent = FALSE /\ vec = <<>> /\ ent = {} /\ answer = <<>>
    /\ overlap = [id \in Ids |-> 0]
    /\ failed = {} /\ full = {}
    /\ seen = {id \in Ids : Live(id)} /\ steady = {id \in Ids : Live(id)}

-----------------------------------------------------------------------------
(* The rest of the program meanwhile: Store, DeleteMemory, contradictions. *)

Create(id) ==
    /\ memory[id] = Unborn
    /\ CreateMemory(id, [content |-> ContentOf[id], type |-> TypeOf[id]])
    /\ seen' = seen \cup {id}
    /\ UNCHANGED <<embedding, edges, deleting, steady>>

Embed(id) ==
    /\ memory[id] # Unborn /\ embedding[id] = NoVector
    /\ StoreEmbedding(id, ContentOf[id])
    /\ steady' = steady \ {id}
    /\ UNCHANGED <<memory, edges, deleting, seen>>

BeginDelete(id) ==
    /\ Live(id) /\ id \notin deleting
    /\ DeleteEmbedding(id)
    /\ deleting' = deleting \cup {id} /\ steady' = steady \ {id}
    /\ UNCHANGED <<memory, edges, seen>>

EndDelete(id) ==
    /\ id \in deleting
    /\ DetachDelete(id)
    /\ edges' = {e \in edges : id \notin {e[1], e[2]}}
    /\ deleting' = deleting \ {id}
    /\ steady' = {s \in steady : {<<s, id>>, <<id, s>>} \cap edges = {}} \ {id}
    /\ UNCHANGED <<embedding, seen>>

\* For the query an edge that comes before it ranks is as good as an earlier one.
Supersede(new, old) ==
    /\ <<new, old>> \in Replaces \ edges /\ Live(new) /\ Live(old)
    /\ edges' = edges \cup {<<new, old>>}
    /\ steady' = IF Answered THEN steady \ {new, old} ELSE steady
    /\ UNCHANGED <<memory, embedding, deleting, seen>>

Meanwhile ==
    /\ pc \notin {"answered", "failed"} /\ changes < MaxChanges /\ changes' = changes + 1
    /\ \/ \E id \in Ids : Create(id) \/ Embed(id) \/ BeginDelete(id) \/ EndDelete(id)
       \/ \E e \in Replaces : Supersede(e[1], e[2])
    /\ UNCHANGED queryVars

-----------------------------------------------------------------------------
(* What the query asks for *)

HasKeywords == q.text \in {"stops", "terms"}  \* extractKeywords left some
Lexes == q.text = "terms"                     \* PostgreSQL's dictionary keeps one
HasText == q.text # "none"
NamesEntities == q.text = "terms"

Pool == Min({q.topK * PoolFactor, MaxPool})

\* ORDER BY grade DESC LIMIT n: the ties at the cut are the database's choice.
Top(S, n, grade) ==
    {T \in SUBSET S : /\ Cardinality(T) = Min({n, Cardinality(S)})
                      /\ \A t \in T, o \in S \ T : grade[t] >= grade[o]}

LiveIds == {id \in Ids : Live(id)}
Rank == [id \in Ids |-> Lexical[ContentOf[id]]]
Similarity == [id \in Ids |-> IF embedding[id] = NoVector THEN 0 ELSE Cosine[embedding[id]]]

Matching == {id \in LiveIds : Lexes /\ Rank[id] > 0}
Mentioning == {id \in LiveIds : Named[ContentOf[id]] > 0}
OfTypes == {id \in LiveIds : q.types = {} \/ memory[id].type \in q.types}

Goto(step) == pc' = step
Limited(hits, retriever) ==
    full' = IF Cardinality(hits) = Pool THEN full \cup {retriever} ELSE full
\* A statement fails and the query goes on without it, or fails.
Fails(then) ==
    /\ Cardinality(failed) < MaxFailures
    /\ failed' = failed \cup {pc} /\ Goto(then)

-----------------------------------------------------------------------------
(* The keyword retriever and its fallback: their failures fail the query *)

SearchByKeywords ==
    /\ pc = "keyword"
    /\ \/ ~HasKeywords /\ Goto("fallback") /\ UNCHANGED <<kw, failed, full>>
       \/ HasKeywords /\ Fails("failed") /\ UNCHANGED <<kw, full>>
       \/ /\ HasKeywords
          /\ kw' \in Top(Matching, Pool, Rank)
          /\ Limited(kw', "keyword")
          /\ Goto("hydrateKeyword") /\ UNCHANGED failed
    /\ UNCHANGED <<storeVars, q, recent, vec, ent, overlap, answer>>

HydratedUnchecked(ids) == ids  \* a bug: a hit without its vertex is kept
Hydrated(ids) == ids \cap LiveIds

hydrateKeywordHits ==
    /\ pc = "hydrateKeyword"
    /\ \/ kw # {} /\ Fails("failed") /\ UNCHANGED kw
       \/ /\ kw' = Hydrated(kw)
          /\ Goto(IF kw' = {} THEN "searchable" ELSE "embed") /\ UNCHANGED failed
    /\ UNCHANGED <<storeVars, q, recent, vec, ent, overlap, answer, full>>

KeywordsAreSearchable ==
    /\ pc = "searchable"
    /\ \/ Fails("embed")
       \/ Goto(IF Lexes THEN "embed" ELSE "fallback") /\ UNCHANGED failed
    /\ UNCHANGED <<storeVars, q, kw, recent, vec, ent, overlap, answer, full>>

QueryMemories ==
    /\ pc = "fallback"
    /\ \/ Fails("failed") /\ UNCHANGED <<kw, recent, full>>
       \/ /\ kw' \in Top(OfTypes, Pool, Recency)
          /\ recent' = TRUE /\ Limited(kw', "fallback")
          /\ Goto("embed") /\ UNCHANGED failed
    /\ UNCHANGED <<storeVars, q, vec, ent, overlap, answer>>

-----------------------------------------------------------------------------
(* The vector and the entity retriever: a failure costs what they would add *)

EmbedQuery ==
    /\ pc = "embed"
    /\ \/ ~(HasEmbedder /\ HasText) /\ Goto("entity") /\ UNCHANGED failed
       \/ HasEmbedder /\ HasText /\ Fails("entity")
       \/ HasEmbedder /\ HasText /\ Goto("vector") /\ UNCHANGED failed
    /\ UNCHANGED <<storeVars, q, kw, recent, vec, ent, overlap, answer, full>>

\* Within a project the search is exact over the vectors it materialises.  Over
\* all projects it scans the HNSW index, which may give up before it reaches a
\* row, however near that row is.
Embedded == {id \in Ids : embedding[id] # NoVector}
Exact == q.scoped /\ Cardinality(Embedded) <= ScopedCandidates
Materialized ==
    {S \in SUBSET Embedded : Cardinality(S) = Min({ScopedCandidates, Cardinality(Embedded)})}
Neighbours ==
    IF q.scoped THEN UNION {Top(S, Pool, Similarity) : S \in Materialized}
    ELSE {hits \in SUBSET Embedded : Cardinality(hits) <= Pool}

nearestNeighbours ==
    /\ pc = "vector"
    /\ \/ Fails("entity") /\ UNCHANGED <<vec, full>>
       \/ \E hits \in Neighbours :
             /\ vec' = Restrict(Similarity, hits)
             /\ full' = full \cup (IF Cardinality(hits) = Pool THEN {"vector"} ELSE {})
                           \cup (IF Exact THEN {} ELSE {"scan"})
             /\ Goto("hydrateVector") /\ UNCHANGED failed
    /\ UNCHANGED <<storeVars, q, kw, recent, ent, overlap, answer>>

hydrate ==
    /\ pc = "hydrateVector"
    /\ \/ DOMAIN vec # {} /\ Fails("entity") /\ vec' = <<>>
       \/ vec' = Restrict(vec, Hydrated(DOMAIN vec)) /\ Goto("entity") /\ UNCHANGED failed
    /\ UNCHANGED <<storeVars, q, kw, recent, ent, overlap, answer, full>>

LooksForEntities == GraphSignals /\ q.scoped /\ NamesEntities

FindMemoriesByEntities ==
    /\ pc = "entity"
    /\ \/ ~LooksForEntities /\ Goto("rank") /\ UNCHANGED <<ent, failed, full>>
       \/ LooksForEntities /\ Fails("rank") /\ UNCHANGED <<ent, full>>
       \/ /\ LooksForEntities
          /\ ent' \in Top(Mentioning, Pool, Recency)
          /\ Limited(ent', "entity")
          /\ Goto("overlap") /\ UNCHANGED failed
    /\ UNCHANGED <<storeVars, q, kw, recent, vec, overlap, answer>>

Candidates == kw \cup DOMAIN vec \cup ent

CountEntityMatches ==
    /\ pc = "overlap"
    /\ \/ Fails("rank") /\ UNCHANGED overlap
       \/ /\ overlap' = [id \in Ids |->
                IF id \in Candidates \cap LiveIds THEN Named[ContentOf[id]] ELSE 0]
          /\ Goto("rank") /\ UNCHANGED failed
    /\ UNCHANGED <<storeVars, q, kw, recent, vec, ent, answer, full>>

-----------------------------------------------------------------------------
(* mergeResults, flagSuperseded, RankResultsAt *)

semanticGate == 3  \* 0.15

PassesSemanticGateAlone(id) == id \in DOMAIN vec => vec[id] >= semanticGate  \* a bug: the other evidence is ignored
PassesSemanticGate(id) == id \in DOMAIN vec \ (kw \cup ent) => vec[id] >= semanticGate

\* raw / (best^(3/4) * FullMatch^(1/4)), clamped: Coverage is a quarter.
KeywordGrade(raw, best) ==
    LET fourth(x) == x * x * x * x
    IN  Max({g \in Grades : fourth(g) * (best * best * best * FullMatch) <= fourth(Unit * raw)})

MinMax(v, lo, hi) == IF hi <= lo THEN Unit ELSE ((v - lo) * Unit) \div (hi - lo)

\* r.Score is the rank of a keyword hit, but the similarity of a vector hit:
\* only the first is evidence that the words match.
ScoreOf(id) ==
    IF id \in kw THEN (IF recent THEN 0 ELSE Rank[id])
    ELSE IF id \in DOMAIN vec THEN vec[id] ELSE 0
KeywordScoreOfAny(id) == ScoreOf(id)  \* a bug: without asking who found it
KeywordScore(id) == IF id \in kw THEN ScoreOf(id) ELSE 0

Relevance(id) ==
    LET best == Max({0} \cup {ScoreOf(k) : k \in kw})
        cosines == Range(vec)
        keyword == IF best = 0 THEN 0 ELSE KeywordGrade(KeywordScore(id), best)
        semantic == IF id \notin DOMAIN vec THEN 0
                    ELSE MinMax(vec[id], Min(cosines), Max(cosines))
        entity == (overlap[id] * Unit) \div Entities
    IN  45 * keyword + 40 * semantic + 15 * entity

Merged == {id \in Candidates : PassesSemanticGate(id)}

Frequency(id) == IF id \in Popular THEN 5 ELSE 0  \* frequencyFactor(1)

Undemoted(id) ==
    75 * Relevance(id) + 100 * (10 * Recency[id] + 10 * Frequency(id) + 5 * TypePriority[TypeOf[id]])

ScoreAlike(id, superseded) == 10 * Undemoted(id)  \* a bug: superseded or not
Score(id, superseded) == (IF id \in superseded THEN 6 ELSE 10) * Undemoted(id)

LengthUncut == Cardinality(Merged)  \* a bug: the page is not cut
Length == Min({q.topK, Cardinality(Merged)})

RankResults(superseded) ==
    LET score == [id \in Merged |-> Score(id, superseded)]
        Above(a, b) == score[a] > score[b] \/ (score[a] = score[b] /\ a < b)
        AboveIt(id) == {o \in Merged : Above(o, id)}
    IN  [i \in 1..Length |-> CHOOSE id \in Merged : Cardinality(AboveIt(id)) = i - 1]

SupersededCandidates == {e[2] : e \in edges} \cap Merged

\* The merge and the ranking are local; between them one statement is issued.
MergeAndRank ==
    /\ pc = "rank"
    /\ \/ GraphSignals /\ Merged # {} /\ Fails("count") /\ answer' = RankResults({})
       \/ /\ answer' = RankResults(IF GraphSignals THEN SupersededCandidates ELSE {})
          /\ Goto("count") /\ UNCHANGED failed
    /\ UNCHANGED <<storeVars, q, kw, recent, vec, ent, overlap, full>>

CountAccess ==
    /\ pc = "count"
    /\ \/ Range(answer) # {} /\ Fails("answered") /\ UNCHANGED memory
       \/ IncrementAccessCounts(Range(answer)) /\ Goto("answered") /\ UNCHANGED failed
    /\ UNCHANGED <<embedding, edges, deleting, changes, seen, steady, q, kw, recent, vec, ent,
                   overlap, answer, full>>

Query ==
    \/ SearchByKeywords \/ hydrateKeywordHits \/ KeywordsAreSearchable \/ QueryMemories
    \/ EmbedQuery \/ nearestNeighbours \/ hydrate
    \/ FindMemoriesByEntities \/ CountEntityMatches
    \/ MergeAndRank \/ CountAccess

Next == Query \/ Meanwhile

Spec == Init /\ [][Next]_vars

-----------------------------------------------------------------------------
(* Properties *)

InAnswer(id) == id \in Range(answer)
Place(id) == CHOOSE i \in DOMAIN answer : answer[i] = id
Asked(statement) == statement \notin failed

\* Only memories that existed while the query ran are answered, whatever the
\* full-text index and the embeddings table still list: hydration, which reads
\* the graph after each search, drops the others.
AnsweredWasLive == Range(answer) \subseteq seen

\* What a retriever that was asked, and not cut by its LIMIT, knows of a memory;
\* of a vector search that did not look at every vector, what it reached.
Evidence(id) ==
    \/ "keyword" \notin full /\ Lexes /\ Rank[id] > 0
    \/ /\ HasEmbedder /\ HasText /\ {"embed", "vector", "hydrateVector"} \cap failed = {}
       /\ {"vector", "scan"} \cap full = {} \/ id \in DOMAIN vec
       /\ embedding[id] # NoVector /\ Similarity[id] >= semanticGate
    \/ LooksForEntities /\ Asked("entity") /\ "entity" \notin full /\ Named[ContentOf[id]] > 0

\* A short answer is short because there is nothing more: a memory nothing
\* happened to, of which one surviving retriever has evidence, is in it,
\* whatever the other retrievers think, whichever of them failed, and whatever
\* was written or deleted meanwhile (mergeResults, the semantic gate).
NothingLost ==
    Answered /\ Len(answer) < q.topK => \A id \in steady : Evidence(id) => InAnswer(id)

Ahead(x, y) == x > y \/ y = 0

\* The vector search did not pass x over and reach y.
SeenToo(x, y) == "scan" \notin full \/ (y \in DOMAIN vec => x \in DOMAIN vec)

\* x is ahead of y on every signal y has, and on the recency the LIMITs cut by.
Beats(x, y) ==
    /\ Ahead(Rank[x], Rank[y])
    /\ embedding[y] = NoVector \/ (embedding[x] # NoVector /\ Similarity[x] > Similarity[y])
    /\ SeenToo(x, y)
    /\ Ahead(Named[ContentOf[x]], Named[ContentOf[y]])
    /\ Recency[x] > Recency[y]
    /\ y \in Popular => x \in Popular
    /\ TypePriority[TypeOf[x]] >= TypePriority[TypeOf[y]]
    /\ x \notin {e[2] : e \in edges}
    /\ q.types = {} \/ TypeOf[x] \in q.types

\* The fusion never turns evidence against a memory: one that is ahead on every
\* signal, and not superseded, is answered wherever the other is, and before
\* it.  It holds across the three scales, the rescaling to the pool and the
\* LIMITs, whichever statements failed.
BetterRanksHigher ==
    Answered => \A x, y \in steady :
        Beats(x, y) /\ InAnswer(y) => InAnswer(x) /\ Place(x) < Place(y)

\* Of two memories of which everything else says the same, the one that
\* supersedes the other, since before the ranking, is above it: the stale fact is
\* demoted, not hidden (flagSuperseded, supersededDemotion).
ReplacementFirst ==
    Answered /\ GraphSignals /\ Asked("rank") /\ full \subseteq {"scan"} => \A e \in edges :
        LET new == e[1] old == e[2] IN
        /\ {new, old} \subseteq steady /\ InAnswer(new) /\ InAnswer(old)
        /\ Rank[new] = Rank[old] /\ Similarity[new] = Similarity[old]
        /\ embedding[new] = NoVector <=> embedding[old] = NoVector
        /\ SeenToo(new, old) /\ Named[ContentOf[new]] = Named[ContentOf[old]]
        /\ TypeOf[new] = TypeOf[old] /\ Recency[new] >= Recency[old]
        /\ old \in Popular => new \in Popular
        /\ new \notin {f[2] : f \in edges}
        => Place(new) < Place(old)

\* What api/proto/kora/v1/memory.proto:248 says of QueryRequest.types: the
\* results are of the types asked for.  Only the fallback reads them.
TypesKept == Answered /\ q.types # {} => \A id \in Range(answer) : TypeOf[id] \in q.types
=============================================================================
