CONSTANTS
    MERKLE_TREE_DEPTH = 3
    ZERO = ZERO
    LeafValues = {a, b}
SPECIFICATION TreeSpec
CHECK_DEADLOCK FALSE
INVARIANTS
    TreeAlgorithmsAgree
    GapsAreVisible
