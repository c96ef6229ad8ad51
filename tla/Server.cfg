\* Two servers configured for width 768, a job that takes the width it finds, two calls, an earlier session.
SPECIFICATION Spec
CONSTANTS
    p1 = p1
    p2 = p2
    Servers = {p1, p2}
    Jobs = {j}
    Dims = {384, 768}
    EmbedderDim <- MCEmbedderDim
    DefaultDim = 384
    Calls = {c1, c2}
    Sessions = {s0, s1}
    Earlier = {s0}
    MayFail = TRUE
    None = None
INVARIANTS
    TypeOK
    ReadyServes
    GaugesAddUp
PROPERTY
    RESTDrained
\* Servers exit.
CHECK_DEADLOCK FALSE
