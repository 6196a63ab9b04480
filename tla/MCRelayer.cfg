CONSTANTS
    n1 = n1
    c1 = c1
    c2 = c2
    r1 = r1
    r2 = r2
    ip = ip
    global = global
    Nullifiers = {n1}
    Calldatas = {c1, c2}
    Requests = {r1, r2}
    NullifierOf <- MCNullifierOf
    CalldataOf <- MCCalldataOf
    RateKeys = {ip, global}
    Limit <- MCLimit
    RateKeysOf <- MCRateKeysOf
    Queued = TRUE
    NoRecord = NoRecord
    MaxFaults = 1
INVARIANTS   HonestAnswer
SPECIFICATION FairSpec
PROPERTIES QueueDrains RetriesSucceed
