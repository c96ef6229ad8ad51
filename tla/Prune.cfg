\* Two requests of up to two memories, a client's delete and a prune of up to two; nothing fails.
SPECIFICATION PruneSpec
CONSTANTS
    Ids = {m1, m2, m3, m4}
    Contents <- MCContents
    Types = {semantic, episodic}
    Short = {"ab"}
    Carries <- MCCarries
    Unborn = Unborn
    Deleted = Deleted
    NoVector = NoVector
    NoTarget = NoTarget
    Requests = {r1, r2}
    Deletes = {d1, d2}
    Conversations <- MCConversations
    MayFail = FALSE
SYMMETRY MCSymmetry
INVARIANTS
    ReportedFactKept
    RestatedKept
