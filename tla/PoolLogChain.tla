---------------------------- MODULE PoolLogChain -----------------------------
(***************************************************************************)
(* The chain as the readers of the pool's logs see it through RPC: blocks  *)
(* of pool events that grow at the head and may be reorganised near it.    *)
(* Every transaction of this model inserts one leaf, as deposit,           *)
(* privateTransfer and withdraw all do, the latter two with a nullifier    *)
(* that is named here by the note they create; what else they change is    *)
(* the subject of NullarkPool.                                             *)
(*                                                                         *)
(* The chain itself is external to the repository. The events of a         *)
(* transaction are those of _recordCommitmentRoot followed by those of the *)
(* nullifier and the note, and the tree is the one _insertMerkleLeaf keeps. *)
(***************************************************************************)
EXTENDS MerkleTree

CONSTANTS
    Commitments,
    Spends,                 \* those created by spending another note
    ROOT_HISTORY_SIZE,      \* 256 in the contract
    MaxBlocks,              \* TLC bound on the length of the chain
    MaxBlockTxs,            \* TLC bound on the transactions of a block
    MaxReorgs,              \* TLC bound on the number of reorganisations
    MaxReorgDepth           \* blocks a reorganisation may replace

ASSUME ChainAssumption ==
    /\ ZERO \notin Commitments
    /\ Spends \subseteq Commitments
    /\ ROOT_HISTORY_SIZE \in Nat \ {0, 1}
    /\ {MaxBlocks, MaxBlockTxs} \subseteq Nat \ {0}
    /\ {MaxReorgs, MaxReorgDepth} \subseteq Nat

VARIABLES
    blocks,                 \* blocks[n] are the commitments block n inserts, in
                            \* order; block 1 deploys the pool and inserts none
    reorgs,                 \* reorganisations so far
    everLeaves              \* the leaves of every chain there has been

chainVars == <<blocks, reorgs, everLeaves>>

RootAccepted(root, previousRoot, c) ==
    [event |-> "RootAccepted", root |-> root, previousRoot |-> previousRoot,
     insertedCommitment |-> c]
RootExpired(root) == [event |-> "RootExpired", root |-> root]
NullifierSpent(c) == [event |-> "NullifierSpent", nullifier |-> c]
NoteCreated(c, leafIndex) ==
    [event |-> "NoteCreated", commitment |-> c, leafIndex |-> leafIndex]

-----------------------------------------------------------------------------
(* The pool after its deployment: roots are all roots so far.              *)
NewPool ==
    [leaves |-> << >>, filled |-> InitialSubtrees, roots |-> <<InitialRoot>>,
     events |-> <<RootAccepted(InitialRoot, ZERO, ZERO)>>]

(* One transaction on the tree of the pool s.                              *)
RecordCommitmentRoot(s, c) ==
    LET inserted == InsertMerkleLeaf(c, Len(s.leaves), s.filled)
        expired == IF Len(s.roots) >= ROOT_HISTORY_SIZE
                   THEN <<RootExpired(s.roots[Len(s.roots) - ROOT_HISTORY_SIZE + 1])>>
                   ELSE << >>
        spent == IF c \in Spends THEN <<NullifierSpent(c)>> ELSE << >>
    IN  [leaves |-> Append(s.leaves, c),
         filled |-> inserted.filled,
         roots |-> Append(s.roots, inserted.current),
         events |-> s.events \o expired
                      \o <<RootAccepted(inserted.current, Last(s.roots), c)>>
                      \o spent \o <<NoteCreated(c, Len(s.leaves))>>]

Histories == SeqOf(Commitments, Capacity)

(* The pool after these leaves, and the roots it has had. *)
PoolAfter == [leaves \in Histories |-> FoldLeft(RecordCommitmentRoot, NewPool, leaves)]

RootsOf(leaves) == ToSet(PoolAfter[leaves].roots)

-----------------------------------------------------------------------------
Latest == Len(blocks)

(* The leaves after block n, and after the last one. *)
LeavesAt(n) == FlattenSeq(SubSeq(blocks, 1, n))
Leaves == FlattenSeq(blocks)

(* The events of block n: what the pool emitted since the block before.    *)
EventsIn(n) ==
    IF n = 1 THEN NewPool.events
    ELSE LET before == PoolAfter[LeavesAt(n - 1)].events
             after == PoolAfter[LeavesAt(n)].events
         IN  SubSeq(after, Len(before) + 1, Len(after))

(* A commitment enters the tree at most once, a note is there to be spent, *)
(* and the tree has room.                                                  *)
Possible(leaves) ==
    /\ IsInjective(leaves)
    /\ leaves # << >> => Head(leaves) \notin Spends
    /\ Len(leaves) <= Capacity

ChainInit ==
    /\ blocks = << << >> >>
    /\ reorgs = 0
    /\ everLeaves = {<< >>}

Mine ==
    /\ Latest < MaxBlocks
    /\ \E block \in SeqOf(Commitments, MaxBlockTxs) :
          /\ Possible(Leaves \o block)
          /\ blocks' = Append(blocks, block)
          /\ everLeaves' = everLeaves \cup {Leaves \o block}
    /\ UNCHANGED reorgs

(* A fork of the same length replaces the last blocks, never the block     *)
(* that deployed the pool.                                                 *)
Reorg ==
    /\ reorgs < MaxReorgs
    /\ \E depth \in 1..MaxReorgDepth :
          /\ depth < Latest
          /\ \E fork \in [1..depth -> SeqOf(Commitments, MaxBlockTxs)] :
                LET chain == SubSeq(blocks, 1, Latest - depth) \o fork
                IN  /\ Possible(FlattenSeq(chain))
                    /\ chain # blocks
                    /\ blocks' = chain
                    /\ everLeaves' = everLeaves \cup {FlattenSeq(chain)}
    /\ reorgs' = reorgs + 1
=============================================================================
