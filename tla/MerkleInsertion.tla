--------------------------- MODULE MerkleInsertion ---------------------------
(***************************************************************************)
(* The pool's tree grows leaf by leaf while a client replays the same      *)
(* leaves with the SDK's insertion; both are compared with the tree they   *)
(* stand for, and the paths of all readers with each other.                *)
(***************************************************************************)
EXTENDS MerkleTree

CONSTANT LeafValues

ASSUME LeafAssumption == ZERO \notin LeafValues

VARIABLES
    leaves,
    filledSubtrees, currentRoot,    \* of the pool
    replay                          \* filled subtrees and root of the client

treeVars == <<leaves, filledSubtrees, currentRoot, replay>>

TreeInit ==
    /\ leaves = << >>
    /\ filledSubtrees = InitialSubtrees
    /\ currentRoot = InitialRoot
    /\ replay = [filled |-> InitialSubtrees, current |-> InitialRoot]

Insert(c) ==
    /\ Len(leaves) < Capacity
    /\ leaves' = Append(leaves, c)
    /\ \E inserted \in {InsertMerkleLeaf(c, Len(leaves), filledSubtrees)} :
          /\ filledSubtrees' = inserted.filled
          /\ currentRoot' = inserted.current
    /\ replay' = InsertLeafAndComputeRoot(c, Len(leaves), replay.filled)

TreeNext == \E c \in LeafValues : Insert(c)

TreeSpec == TreeInit /\ [][TreeNext]_treeVars

-----------------------------------------------------------------------------
(* The complete binary tree over a partial map from positions to leaves.   *)
PairsOf(below) == [p \in Nat |-> HashPair(below[2 * p], below[2 * p + 1])]

TreeRoot(leafAt) ==
    LET Nodes[level \in 0..MERKLE_TREE_DEPTH] ==
            IF level = 0 THEN [p \in Nat |-> NodeAt(leafAt, p, ZERO)]
                         ELSE PairsOf(Nodes[level - 1])
    IN  Nodes[MERKLE_TREE_DEPTH][0]

Indexed == [i \in 0..(Len(leaves) - 1) |-> leaves[i + 1]]

(* The root that _insertMerkleLeaf computes from one filled subtree per    *)
(* level is the root of the complete tree over the leaves so far, and so   *)
(* is the one that the SDK's loop computes when it replays the insertions  *)
(* (verifyRootAcceptedChain). For every leaf the SDK, the browser and the  *)
(* indexer compute the same path, it leads to that root, and it verifies.  *)
TreeAlgorithmsAgree ==
    /\ currentRoot = TreeRoot(Indexed)
    /\ replay.current = currentRoot
    /\ \A i \in DOMAIN Indexed :
           \A path \in {SparsePath(leaves, i)} :
               /\ path = IndexedPath(Indexed, i)
               /\ path.root = currentRoot
               /\ VerifyMerklePath(path)

(* An indexer that misses one leaf serves paths of the tree with that leaf *)
(* empty, and the root of such a tree is a root the pool had only when the *)
(* missing leaf is the newest one: comparing the root with the announced   *)
(* ones is enough to notice a hole (getMerklePathForCommitment).           *)
GapsAreVisible ==
    \A gap \in DOMAIN Indexed :
        LET known == [i \in DOMAIN Indexed \ {gap} |-> Indexed[i]]
        IN  \A i \in DOMAIN known :
                \A path \in {IndexedPath(known, i)} :
                    /\ VerifyMerklePath(path)
                    /\ path.root = TreeRoot(known)
                    /\ \A n \in 0..Len(leaves) :
                          path.root = TreeRoot([k \in 0..(n - 1) |-> leaves[k + 1]])
                              <=> n = gap /\ gap = Len(leaves) - 1
=============================================================================
