SPECIFICATION Spec
CONSTANTS
    Calls = {c1}
    WithSeed = FALSE
    FillGasPrice = {FALSE}
    DefaultCommon = {FALSE}
    DefaultAccount = "other"
    MaxMined = 1
    Varied = {"from"}
CHECK_DEADLOCK FALSE
INVARIANTS
    NonceOfSigner
