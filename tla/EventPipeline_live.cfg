\* Convergence and shutdown under fairness: one report with two contents, two
\* workers, a channel of one.
CONSTANTS
    k1 = k1
    k2 = k2
    v1 = v1
    v2 = v2
    bad = bad
    i1 = i1
    i2 = i2
    w1 = w1
    w2 = w2
    Keys = {k1}
    Versions = {v1, v2}
    Malformed = {}
    Informers = {i1}
    InformerOf <- SingleKey
    Workers = {w1, w2}
    BufferSize = 1
    NoRow = NoRow
    NoEvent = NoEvent
SPECIFICATION FairSpec
PROPERTIES
    ExistingReportsAppear
    DeletedReportsVanish
    WorkersLeave
    LateCallbacksReturn
