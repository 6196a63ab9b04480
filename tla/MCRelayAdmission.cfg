CONSTANTS
    INITIAL_FEE_BPS = 1
    MAX_FEE_BPS = 2
    FEE_INCREASE_DELAY = 4
    StartTime = 0
    TimeBound = 7
    Unset = Unset
    Envs <- MCEnvs
    ChainOf <- MCChainOf
    maxDeadlineSecondsFromNow = 2
    MaxHandling = 1
    MaxTxs = 1
    MaxDeploys = 1
    GovernedEnvs <- MCGovernedEnvs
    Combined = FALSE
SPECIFICATION AdmissionSpec
INVARIANTS SubmittedFeeHolds MainnetSubmissionsApproved QuoteHonoured
CHECK_DEADLOCK FALSE
