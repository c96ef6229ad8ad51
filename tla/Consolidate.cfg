\* Three copies of one fact and an event, three days, reads shorter than the store, failures and kills.
SPECIFICATION Spec
CONSTANTS
    a1 = a1
    a2 = a2
    a3 = a3
    b1 = b1
    Memories = {a1, a2, a3, b1}
    Facts <- MCFacts
    FactOf <- MCFactOf
    Semantic = {a1, a2, a3}
    MergeLimit = 2
    PassLimit = 3
    StaleThreshold = 3
    PruneAge = 1
    MaxDay = 2
    MaxReads = 1
    SameTime = FALSE
    MayFail = TRUE
SYMMETRY MCSymmetry
INVARIANTS
    TypeOK
    OneCopyCurrent
    CompleteMeansDone
PROPERTY
    PruneSpares
\* The days run out.
CHECK_DEADLOCK FALSE
