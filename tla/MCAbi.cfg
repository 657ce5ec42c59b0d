CONSTANTS
    WordSize = 2
    Base = 6
    MaxSafe = 32
    ForeignWords = 3
    MaxTokens = 4
    Jobs <- MCJobs
SPECIFICATION MCSpec
INVARIANTS
    RoundTrips
    FilterSelects
    CallsArrive
    FormatParses
    SignedIsUnique
    FormatsAsAsked
    ValidatesExactly
    
