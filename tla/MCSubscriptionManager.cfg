SPECIFICATION MCSpec
CONSTANTS
    Subs = {s, t}
    Providers = {p, q, h}
    Streaming = {p, q}
    Ids = {i, j, k}
    Slots = {c, d}
    MaxListeners = 2
    NoSub = NoSub
    NoId = NoId
    NoProvider = NoProvider
    Idle = Idle
    Disciplines = {"free", "tidy"}
SYMMETRY Symmetry
INVARIANTS
    OrderlyInv
    NoOrphanStreams
PROPERTY
    DroppedOnlyWhenStopped
