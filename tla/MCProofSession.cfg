CONSTANTS
    INITIAL_FEE_BPS = 1
    MAX_FEE_BPS = 2
    FEE_INCREASE_DELAY = 1
    StartTime = 1
    TimeBound = 2
    r1 = r1
    r2 = r2
    r3 = r3
    rt = rt
    Missing = Missing
    Releases = {r1, r2, r3, rt}
    ReleaseInfo <- MCReleaseInfo
    Pinned <- MCPinned
    m1 = m1
    t1 = t1
    l1 = l1
    Notes = {m1, t1, l1}
    NetOf <- MCNetOf
    AmountOf <- MCAmountOf
    Destinations = {d1, d2}
    NoBound = NoBound
    UserBounds <- MCUserBounds
    BPS_DENOMINATOR = 2
    MaxInFlight = 2
    MaxPublishes = 3
    MaxPlans = 1
    WITHDRAWAL_PROOF_VERIFIER_ATTEMPTS = 2
SYMMETRY MCSymmetry
SPECIFICATION Spec
INVARIANTS WitnessGoesToApprovedCircuits SessionIsCoherent PaidAsAsked
CHECK_DEADLOCK FALSE
