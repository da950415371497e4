\* Two reports of different types, each with a storable and a malformed
\* content, two workers, a channel of two: overlaps, back pressure, losses and
\* restarts all occur.
CONSTANTS
    k1 = k1
    k2 = k2
    v1 = v1
    v2 = v2
    bad = bad
    i1 = i1
    i2 = i2
    w1 = w1
    w2 = w2
    Keys = {k1, k2}
    Versions = {v1, bad}
    Malformed = {bad}
    Informers = {i1, i2}
    InformerOf <- TwoInformers
    Workers = {w1, w2}
    BufferSize = 2
    NoRow = NoRow
    NoEvent = NoEvent
SPECIFICATION Spec
INVARIANTS
    TypeOK
    SettledRowIsSeen
    InOrderInv
PROPERTIES
    ImplementsChannel
SYMMETRY WorkersAlike
