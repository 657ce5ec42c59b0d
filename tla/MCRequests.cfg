SPECIFICATION MCSpec
CONSTANTS
    UseSpecification = TRUE
    LateCallbacks = TRUE
    Entries = {a, b}
    Executions = {x, y}
    Timeouts = {0, 1}
    Numerals = {n1}
    Names = {u, v}
    NaN = NaN
    None = None
    MaxResponseBytes = 2
    MaxBody = 4
    Contexts = {web3, qrl, plugin}
    Root = web3
    Parents = {web3, qrl}
    Writers = {web3, qrl}
    Hardforks = {h1, h2}
    Settings = {1, 2}
    Providers = {p1, p2}
    NoCommon = NoCommon
CHECK_DEADLOCK FALSE
INVARIANTS
    Inv
    ErrorsSurface
    EachGetsItsOwn
    ContextsAgree
PROPERTIES
    NoRequestLeftBehind
    RequestsSettle
    ErrorNamesCause
