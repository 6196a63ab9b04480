----------------------------- MODULE MerkleTree ------------------------------
(***************************************************************************)
(* The commitment tree as four programs compute it: the pool inserts       *)
(* leaves one at a time and keeps one filled subtree per level; the SDK    *)
(* replays that insertion to verify a history of RootAccepted events and   *)
(* builds paths layer by layer from a sparse map; the browser builds paths *)
(* the same way without verifying the history; the indexer builds them     *)
(* from the leaves its logs gave it, skipping empty subtrees.              *)
(*                                                                         *)
(* The Poseidon hash is assumed to be injective: the hash of two nodes is  *)
(* the pair of them. Leaves and ZERO are model values.                     *)
(***************************************************************************)
EXTENDS Integers, Sequences, SequencesExt, FiniteSets

CONSTANTS
    MERKLE_TREE_DEPTH,      \* 20 in the contract
    ZERO                    \* bytes32(0): the empty leaf

ASSUME DepthAssumption == MERKLE_TREE_DEPTH \in Nat \ {0}

HashPair(left, right) == <<left, right>>

Levels == [k \in 1..MERKLE_TREE_DEPTH |-> k - 1]
PowerOf2[k \in 0..MERKLE_TREE_DEPTH] == IF k = 0 THEN 1 ELSE 2 * PowerOf2[k - 1]
Capacity == PowerOf2[MERKLE_TREE_DEPTH]
ZeroHash[level \in 0..MERKLE_TREE_DEPTH] ==
    IF level = 0 THEN ZERO ELSE HashPair(ZeroHash[level - 1], ZeroHash[level - 1])

InitialRoot == ZeroHash[MERKLE_TREE_DEPTH]
InitialSubtrees == [level \in 0..(MERKLE_TREE_DEPTH - 1) |-> ZeroHash[level]]

-----------------------------------------------------------------------------
(* Faulty variants of the definitions below, for mutation checks.          *)
InsertMerkleLevel_KeepsSubtree(s, level) ==
    [current |-> IF s.index % 2 = 0 THEN HashPair(s.current, ZeroHash[level])
                                    ELSE HashPair(s.filled[level], s.current),
     index |-> s.index \div 2,
     filled |-> IF s.index = 0 THEN [s.filled EXCEPT ![level] = s.current] ELSE s.filled]
HasLeafInRange_SkipsFirst(leafIndexes, first, end) == \E i \in leafIndexes : i > first /\ i < end

-----------------------------------------------------------------------------
(* cursor ^ 1 *)
Sibling(cursor) == IF cursor % 2 = 0 THEN cursor + 1 ELSE cursor - 1

(* _insertMerkleLeaf and _insertMerkleLevel of the pool. *)
InsertMerkleLevel(s, level) ==
    IF s.index % 2 = 0
    THEN [current |-> HashPair(s.current, ZeroHash[level]),
          index |-> s.index \div 2,
          filled |-> [s.filled EXCEPT ![level] = s.current]]
    ELSE [current |-> HashPair(s.filled[level], s.current),
          index |-> s.index \div 2,
          filled |-> s.filled]

InsertMerkleLeaf(leaf, leafIndex, filledSubtrees) ==
    FoldLeft(InsertMerkleLevel,
             [current |-> leaf, index |-> leafIndex, filled |-> filledSubtrees], Levels)

(* insertLeafAndComputeRoot of the SDK finds the bit of a level by division *)
(* by 2^level instead of halving an index on the way up.                   *)
InsertLevelByBit(leafIndex, s, level) ==
    IF (leafIndex \div PowerOf2[level]) % 2 = 0
    THEN [current |-> HashPair(s.current, ZeroHash[level]),
          filled |-> [s.filled EXCEPT ![level] = s.current]]
    ELSE [s EXCEPT !.current = HashPair(s.filled[level], s.current)]

InsertLeafAndComputeRoot(leaf, leafIndex, filledSubtrees) ==
    FoldLeft(LAMBDA s, level : InsertLevelByBit(leafIndex, s, level),
             [current |-> leaf, filled |-> filledSubtrees], Levels)

-----------------------------------------------------------------------------
(* Reconstruction by the SDK and the browser: a layer is a partial map     *)
(* from positions to hashes, absent positions are empty subtrees.          *)
NodeAt(layer, position, zeroHash) ==
    IF position \in DOMAIN layer THEN layer[position] ELSE zeroHash

BuildNextSparseMerkleLayer(layer, zeroHash) ==
    [p \in {i \div 2 : i \in DOMAIN layer} |->
        HashPair(NodeAt(layer, 2 * p, zeroHash), NodeAt(layer, 2 * p + 1, zeroHash))]

(* The path of leaf leafIndex (from 0) in a sequence of leaves. *)
Climb(s, level) ==
    [layer |-> BuildNextSparseMerkleLayer(s.layer, ZeroHash[level]),
     cursor |-> s.cursor \div 2,
     pathElements |-> Append(s.pathElements, NodeAt(s.layer, Sibling(s.cursor), ZeroHash[level])),
     pathIndices |-> Append(s.pathIndices, s.cursor % 2)]

SparsePath(leaves, leafIndex) ==
    LET top == FoldLeft(Climb,
                        [layer |-> [i \in 0..(Len(leaves) - 1) |-> leaves[i + 1]],
                         cursor |-> leafIndex, pathElements |-> << >>, pathIndices |-> << >>],
                        Levels)
    IN  [commitment |-> leaves[leafIndex + 1],
         leafIndex |-> leafIndex,
         root |-> NodeAt(top.layer, 0, InitialRoot),
         pathElements |-> top.pathElements,
         pathIndices |-> top.pathIndices]

(* verifyMerklePath of the SDK, and the membership the circuits prove. *)
HashUp(path, computed, level) ==
    IF path.pathIndices[level + 1] = 0
    THEN HashPair(computed, path.pathElements[level + 1])
    ELSE HashPair(path.pathElements[level + 1], computed)

VerifyMerklePath(path) ==
    FoldLeft(LAMBDA computed, level : HashUp(path, computed, level), path.commitment, Levels)
        = path.root

-----------------------------------------------------------------------------
(* getMerklePathForCommitment of the indexer, over a partial map from leaf *)
(* indexes to commitments that may have gaps.                              *)
HasLeafInRange(leafIndexes, first, end) == \E i \in leafIndexes : i >= first /\ i < end

(* The nodes of a level, at every position, from those of the level below. *)
NodesAbove(leavesByIndex, below, level) ==
    [position \in Nat |->
        IF ~HasLeafInRange(DOMAIN leavesByIndex, position * PowerOf2[level],
                           (position + 1) * PowerOf2[level])
        THEN ZeroHash[level]
        ELSE HashPair(below[2 * position], below[2 * position + 1])]

IndexedPath(leavesByIndex, leafIndex) ==
    LET NodeHash[level \in 0..MERKLE_TREE_DEPTH] ==
            IF level = 0
            THEN [position \in Nat |-> NodeAt(leavesByIndex, position, ZERO)]
            ELSE NodesAbove(leavesByIndex, NodeHash[level - 1], level)
    IN  [commitment |-> leavesByIndex[leafIndex],
         leafIndex |-> leafIndex,
         root |-> NodeHash[MERKLE_TREE_DEPTH][0],
         pathElements |-> [k \in 1..MERKLE_TREE_DEPTH |->
                              NodeHash[k - 1][Sibling(leafIndex \div PowerOf2[k - 1])]],
         pathIndices |-> [k \in 1..MERKLE_TREE_DEPTH |-> (leafIndex \div PowerOf2[k - 1]) % 2]]
=============================================================================
