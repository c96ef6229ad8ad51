\* Two link calls of two names each, a delete, two pooled connections, failures.
SPECIFICATION Spec
CONSTANTS
    Linkers = {l1, l2}
    Deleters = {d1}
    m1 = m1
    m2 = m2
    other = other
    Memories = {m1, m2, other}
    Projects <- MCProjects
    ProjectOf <- MCProjectOf
    Blank = Blank
    Names <- MCNames
    Mentions <- MCMentions
    Vertices = {1, 2, 3, 4, 5}
    Attempts = 2
    MaxConns = 2
    MayFail = TRUE
    None = None
INVARIANTS
    TypeOK
    OneVertexPerName
    LinksKept
PROPERTY
    EveryCallEnds
\* Every call ends.
CHECK_DEADLOCK FALSE
