SPECIFICATION MCSpec
CONSTANTS
    AtOnce = FALSE
    EarlyNotices = TRUE
    MaxLogs = 4
    Functions <- MCFunctions
    Events <- MCEvents
    Params <- MCParams
    MaxFragments = 3
    MaxSets = 1
    Addresses = {A}
    Created = A
    Users = {u}
    Codes = {c1, c2}
    OptionChanges = 1
    Askers = {a}
    Checkers = {c, d}
    Nodes = {name, reverse}
    ReverseName = reverse
    Resolvers = {R1, R2}
    MaxEvents = 2
    MaxTime = 3
    MaxHead = 1
    BlockChanges = 1
    BaseFees = {0, 1}
    Null = Null
SYMMETRY Symmetry
CHECK_DEADLOCK FALSE
INVARIANTS
    Inv
    NothingLost
    SelectedFits
    SentAsMeant
    AnswersAreCurrent
