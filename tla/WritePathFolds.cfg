\* Three concurrent requests of one memory each, two types, nothing deleted.
SPECIFICATION Spec
CONSTANTS
    Ids = {m1, m2, m3}
    Contents <- MCContents
    Types = {semantic, episodic}
    Short = {}
    Carries <- MCCarries
    Unborn = Unborn
    Deleted = Deleted
    NoVector = NoVector
    NoTarget = NoTarget
    Requests = {r1, r2, r3}
    Deletes = {}
    Conversations <- MCSingles
    MayFail = TRUE
SYMMETRY MCSymmetry
INVARIANTS
    TypeOK
    ReportedFactKept
    VectorWithinContent
PROPERTIES
    ContentOnlyGrows
    KeepsPromise
