\* A delete between the neighbour read and the fold.
SPECIFICATION Spec
CONSTANTS
    Ids = {m1, m2}
    Contents <- MCContents
    Types = {semantic}
    Short = {}
    Carries <- MCCarries
    Unborn = Unborn
    Deleted = Deleted
    NoVector = NoVector
    NoTarget = NoTarget
    Requests = {r1, r2}
    Deletes = {d1}
    Conversations <- MCSingles
    MayFail = FALSE
SYMMETRY MCSymmetry
PROPERTIES
    FoldedIntoLiveRow
