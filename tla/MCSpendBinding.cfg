CONSTANTS
    INITIAL_FEE_BPS = 1
    MAX_FEE_BPS = 1
    FEE_INCREASE_DELAY = 2
    StartTime = 1
    TimeBound = 3
    c1 = c1
    c2 = c2
    c3 = c3
    c4 = c4
    relayer = relayer
    user = user
    alice = alice
    bob = bob
    NoRelayer = NoRelayer
    Commitments = {c1, c2, c3, c4}
    AmountOf <- MCAmountOf
    Denominations = {2, 4}
    BPS_DENOMINATOR = 2
    ROOT_HISTORY_SIZE = 2
    MERKLE_TREE_CAPACITY = 3
    Accounts = {relayer, user}
    Policies <- MCPolicies
    SweepAmounts = {}
    Here <- MCHere
    Deployments <- MCDeployments
    DepositClients = {"web", "sdk"}
    Destinations = {alice, bob}
    MaxUint256 = 99
    MAX_RELAY_DEADLINE_SECONDS_FROM_NOW = 1
    SDK_DEADLINE_SECONDS = 1
    MaxDeposits = 1
    MaxPlans = 1
    MaxRelayed = 1
SPECIFICATION BindingSpec
INVARIANTS
    ExecutedAsPlanned
    
    
    OutputsConfirmed
CHECK_DEADLOCK FALSE
SYMMETRY MCSymmetry
