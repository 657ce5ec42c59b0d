SPECIFICATION MCSpec
CONSTANTS
    Calls = {c1, c2}
    WithSeed = TRUE
    FillGasPrice = {TRUE, FALSE}
    DefaultCommon = {TRUE, FALSE}
    DefaultAccount = "other"
    MaxMined = 2
    Varied = {"from", "nonce", "data", "common", "chain", "hardfork", "chainId", "gas", "fees", "type"}
    ConfirmationBlocks = 3
    MaxOverlap = 1
    MaxHead = 4
CHECK_DEADLOCK FALSE
INVARIANTS
    Inv
    WellFormedIsSigned
    NextNonceIsUsed
    OutcomeMatchesReceipt
PROPERTIES
    SettlesAndConfirms
