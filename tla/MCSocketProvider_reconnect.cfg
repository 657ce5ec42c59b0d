SPECIFICATION Spec
CONSTANTS
    Callers = {c1}
    CallerIds = {a, b}
    MaxSockets = 2
    MaxInFlight = 2
    MaxAttempts = 1
    AutoReconnect = TRUE
    NoItem = NoItem
SYMMETRY Symmetry
INVARIANTS
    Inv
PROPERTIES
    NoneForgotten
    ImplementsRequestTable
