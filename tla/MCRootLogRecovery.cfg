CONSTANTS
    MERKLE_TREE_DEPTH = 2
    ZERO = ZERO
    None = None
    c1 = c1
    c2 = c2
    Commitments = {c1, c2}
    Spends = {}
    Wanted = c1
    ROOT_HISTORY_SIZE = 2
    MaxBlocks = 4
    MaxBlockTxs = 2
    MaxReorgs = 1
    MaxReorgDepth = 2
    ChunkSize = 1
    Policies <- MCPolicies
    BlockHints <- MCBlockHints
    LeafIndexHints <- MCLeafIndexHints
    MaxRpcErrors = 1
SPECIFICATION Spec
CHECK_DEADLOCK FALSE
INVARIANTS PathIsOfOneFork FinalPathStaysCanonical WrongHintsDoNotHide
PROPERTY RecoveryAdvances
