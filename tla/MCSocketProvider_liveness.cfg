SPECIFICATION Spec
CONSTANTS
    Callers = {c1}
    CallerIds = {a}
    MaxSockets = 2
    MaxInFlight = 1
    MaxAttempts = 1
    AutoReconnect = TRUE
    NoItem = NoItem
PROPERTY EveryRequestSettles
