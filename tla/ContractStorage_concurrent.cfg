SPECIFICATION VMSpec
CONSTANTS
    c1 = c1
    c2 = c2
    k1 = k1
    k2 = k2
    v1 = v1
    v2 = v2
    erc20 = erc20
    NoValue = NoValue
    Callers = {c1, c2}
    Contracts = {erc20}
    Keys <- MCKeys
    Values = {v1}
    Direct = TRUE
    Crashes = TRUE
    Ranges <- MCRanges
    MemorySize = 4
    Amounts <- MCAmounts
    FixedFee = 1
    WordSize = 8
    Accounts <- MCAccounts
    FuelLimits = {0, 2}
SYMMETRY Symmetry
INVARIANTS
    ContractsHaveAccounts
    OnlySuccessfulCallsPersist
    OutcomeIsEarned
