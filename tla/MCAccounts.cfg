SPECIFICATION MCSpec
CONSTANTS
    a = a
    b = b
    c = c
    x = x
    y = y
    Accounts = {a, b, c}
    Keys = {x, y}
    KeyOf <- MCKeyOf
    Hole = Hole
    MaxLength = 3
    Jobs = {j}
    Deletes = TRUE
    None = None
    Seeds = {"s1", "s2"}
    Junk = "zeros"
    Passwords <- MCPasswords
    Bounds <- MCBounds
    Params <- MCParams
    KeyBytes = 2
    MaxKeystores = 1
    Lists <- MCLists
    GenesisHashes = {"g1", "g2"}
    MaxCommons = 2
    MaxBlock = 1
    MaxTime = 2
    TxDatas <- MCTxDatas
    Options <- MCOptions
    Base = 2
    MaxUint64 = 7
    MaxInteger = 15
    AddressBytes = 2
    SlotBytes = 1
    WordBytes = 2
    MaxInitCodeSize = 2
    Price <- MCPrice
CHECK_DEADLOCK FALSE
INVARIANTS
    Inv
    LookupFindsOwn
    KeystoresOpen
    ForksAgree
    ReceivedAsSent
    SenderSignedIt
