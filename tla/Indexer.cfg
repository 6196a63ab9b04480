CONSTANTS
    MERKLE_TREE_DEPTH = 2
    ZERO = ZERO
    Commitments = {c1, c2, c3}
    Spends = {c2}
    ROOT_HISTORY_SIZE = 2
    MaxBlocks = 5
    MaxBlockTxs = 1
    MaxReorgs = 1
    MaxReorgDepth = 1
    MaxBatch = 2
    MaxPathCacheEntries = 1
SPECIFICATION ServiceSpec
CHECK_DEADLOCK FALSE
INVARIANTS
    ServedRootIsCurrent
    CompleteIndexServes
    ServedPathIsOfOneFork
