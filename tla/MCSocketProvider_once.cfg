SPECIFICATION Spec
CONSTANTS
    Callers = {c1, c2}
    CallerIds = {a, b}
    MaxSockets = 2
    MaxInFlight = 2
    MaxAttempts = 0
    AutoReconnect = FALSE
    NoItem = NoItem
SYMMETRY Symmetry
INVARIANTS
    Bookkeeping
    InFlightWithinCap
