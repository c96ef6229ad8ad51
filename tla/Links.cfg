\* Three concurrent writes whose stamps may be shared or out of order, a night, a delete, failures.
SPECIFICATION Spec
CONSTANTS
    Writes = {w1, w2, w3}
    Contents = {"python", "go"}
    Types = {"semantic", "episodic"}
    Contradicts <- MCContradicts
    Cap = 2
    MayFail = TRUE
    Times = {0, 1}
    MaxNights = 1
    MaxDeletes = 1
SYMMETRY MCSymmetry
INVARIANTS
    TypeOK
    EdgesBetweenLive
    RelatesOnlyElsewhere
    PointsBack
\* Writes, nights and deletes run out.
CHECK_DEADLOCK FALSE
