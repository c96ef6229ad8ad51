\* Three requests over two keys, one bucket at most, a call that costs two tokens.
SPECIFICATION Spec
CONSTANTS
    one = one
    two = two
    Requests = {r1, r2, r3}
    Credentials = {one, two}
    NoCredential = NoCredential
    KeyIds <- MCKeyIds
    Configurations <- MCConfigurations
    Cost = 2
    Burst = 2
    MaxBuckets = 1
    NoBucket = NoBucket
    Horizon = 4
SYMMETRY Symmetry
INVARIANTS
    TypeOK
    WindowBound
    ChargedOnce
    RetriesDoNotStarve
\* Requests and ticks run out.
CHECK_DEADLOCK FALSE
