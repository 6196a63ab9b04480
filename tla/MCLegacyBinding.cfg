CONSTANTS
    c1 = c1
    c2 = c2
    c3 = c3
    c4 = c4
    relayer = relayer
    user = user
    alice = alice
    bob = bob
    NoRelayer = NoRelayer
    Commitments = {c1, c2, c3, c4}
    OpenAmount <- MCOpenAmount
    Denominations = {2, 4}
    WITHDRAWAL_FEE_BPS = 1
    BPS_DENOMINATOR = 2
    ROOT_HISTORY_SIZE = 2
    MERKLE_TREE_CAPACITY = 3
    Here <- MCHere
    Accounts = {relayer, user}
    StartTime = 2
    TimeBound = 3
    MaxDisturbed = 1
    Deployments <- MCDeployments
    Destinations = {alice, bob}
    Ciphertexts = {"bytes"}
    OwnerPolicies <- MCPolicies
    RelayAccount = relayer
    MaxUint256 = 99
    MAX_RELAY_DEADLINE_SECONDS_FROM_NOW = 1
    MaxDeposits = 1
    MaxPlans = 1
    MaxRelayed = 1
SPECIFICATION LegacySpec
INVARIANTS
    LegacySolvent
    LegacyExecutedAsPlanned
    LegacyChecksAgree
    ConfirmedAsRecorded
CHECK_DEADLOCK FALSE
SYMMETRY MCSymmetry
