CONSTANTS
    INITIAL_FEE_BPS = 1
    MAX_FEE_BPS = 2
    FEE_INCREASE_DELAY = 1
    StartTime = 1
    TimeBound = 2
    c1 = c1
    c2 = c2
    c3 = c3
    c4 = c4
    c5 = c5
    relayer = relayer
    user = user
    NoRelayer = NoRelayer
    Commitments = {c1, c2, c3, c4, c5}
    AmountOf <- MCAmountOf
    Denominations = {3, 6}
    BPS_DENOMINATOR = 4
    ROOT_HISTORY_SIZE = 2
    MERKLE_TREE_CAPACITY = 4
    Accounts = {relayer, user}
    Policies <- MCPolicies
    SweepAmounts = {1, 2}
SPECIFICATION Spec
INVARIANTS
    ValueConserved
    PrincipalNeverStuck
    RootWindow
    LogReplaysState
PROPERTIES
    ImplementsLedger
