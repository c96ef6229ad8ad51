\* Four memories, five queries, up to two changes and two failures during a query.
SPECIFICATION Spec
CONSTANTS
    about = about
    near = near
    fact = fact
    update = update
    Ids = {1, 2, 3, 4}
    Contents = {about, near, fact, update}
    Types <- MCTypes
    Short = {}
    Carries <- MCCarries
    Unborn = Unborn
    Deleted = Deleted
    NoVector = NoVector
    ContentOf <- MCContentOf
    TypeOf <- MCTypeOf
    Recency <- MCRecency
    TypePriority <- MCTypePriority
    Lexical <- MCLexical
    FullMatch = 16
    Cosine <- MCCosine
    Named <- MCNamed
    Entities = 1
    Popular = {1}
    Replaces <- MCReplaces
    Queries <- MCQueries
    PoolFactor = 2
    MaxPool = 5
    ScopedCandidates = 3
    HasEmbedder = TRUE
    GraphSignals = TRUE
    MaxChanges = 2
    MaxFailures = 2
INVARIANTS
    TypeOK
    AnsweredWasLive
    NothingLost
    BetterRanksHigher
    ReplacementFirst
\* The query ends.
CHECK_DEADLOCK FALSE
