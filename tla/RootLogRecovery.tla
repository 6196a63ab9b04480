--------------------------- MODULE RootLogRecovery ---------------------------
(***************************************************************************)
(* A client of the SDK recovers the Merkle path of its note from the       *)
(* RootAccepted events of the pool (packages/sdk/src/merkle): it looks at  *)
(* the hints it has, fixes the block to read up to, fetches the events in  *)
(* chunks, falls back to the whole range when a hint proves wrong,         *)
(* normalises what it got, verifies it as one append-only history and      *)
(* builds the path. Every RPC answer is a step, so the chain may grow or   *)
(* be reorganised between any two of them.                                 *)
(***************************************************************************)
EXTENDS PoolLogChain

CONSTANTS
    Wanted,                 \* the commitment of the note
    ChunkSize,              \* logChunkSize
    Policies,               \* [confirmations, mainnet]: minConfirmations, 0 for none, and
                            \* whether runtime.environment is "megaeth-mainnet"
    BlockHints,             \* values of blockNumberHint
    LeafIndexHints,         \* values of leafIndexHint
    None,                   \* undefined or null
    MaxRpcErrors            \* TLC bound on failing RPC answers

ASSUME RecoveryAssumption ==
    /\ Wanted \in Commitments
    /\ ChunkSize \in Nat \ {0}
    /\ Policies \subseteq [confirmations : Nat, mainnet : BOOLEAN]
    /\ MaxRpcErrors \in Nat
    /\ None \notin Nat
    /\ BlockHints \cup LeafIndexHints \subseteq Nat \cup {None}

VARIABLES
    policy,                 \* of this client, never changed
    pc,                     \* the RPC answer the client waits for, or its end
    hints,                  \* txHashHint given or not, blockNumberHint, leafIndexHint
    hintedToBlock, finalizedToBlock,
    source,                 \* "hint" while the hinted range is fetched
    toBlock, cursor, logs,
    recovered,              \* the result: the leaves the path is built from
    rpcErrors,
    dueAtStart              \* the note was behind the finality boundary at the start

Confirmations == policy.confirmations
Mainnet == policy.mainnet

readerVars == <<policy, pc, hints, hintedToBlock, finalizedToBlock, source,
                toBlock, cursor, logs, recovered, rpcErrors, dueAtStart>>
vars == <<chainVars, readerVars>>

-----------------------------------------------------------------------------
(* Faulty variants of the definitions below, for mutation checks.          *)
LinksTo_Unchecked(log, acceptedRoot, computed) == TRUE
FinalityBoundary_OffByOne(latest) == latest - Confirmations + 1
ConfirmHint_Always(records, leafIndexHint) == TRUE

-----------------------------------------------------------------------------
(* eth_getLogs for RootAccepted in a block range. A log is identified by   *)
(* its transaction (the model writes the inserted commitment, which is     *)
(* unique to it) and by its position in the block. The client sorts what   *)
(* it gets and drops repeated logs, so an answer is a set.                 *)
BlockLogs(n) ==
    LET events == EventsIn(n)
    IN  {[blockNumber |-> n, logIndex |-> k, log |-> events[k]] : k \in DOMAIN events}

GetLogs(first, last) ==
    {entry \in UNION {BlockLogs(n) : n \in (first..last) \cap (1..Latest)} :
        entry.log.event = "RootAccepted"}

TransactionOf(entry) == entry.log.insertedCommitment

(* normalizeRootAcceptedLogs: duplicates are dropped, two different logs   *)
(* with the same identity are an error, the rest is sorted by position.    *)
Ambiguous(entries) ==
    \E a, b \in entries :
        /\ a # b
        /\ a.logIndex = b.logIndex
        /\ TransactionOf(a) = TransactionOf(b) \/ a.blockNumber = b.blockNumber

Before(a, b) ==
    \/ a.blockNumber < b.blockNumber
    \/ a.blockNumber = b.blockNumber /\ a.logIndex < b.logIndex

Decoded(entries) ==
    [k \in 1..Cardinality(entries) |->
        (CHOOSE e \in entries : Cardinality({d \in entries : Before(d, e)}) = k - 1).log]

(* The root the client computes for a history of insertions. *)
ReplayInsertion(s, c) ==
    LET inserted == InsertLeafAndComputeRoot(c, s.count, s.filled)
    IN  [count |-> s.count + 1, filled |-> inserted.filled, root |-> inserted.current]

ComputedRoot ==
    [leaves \in Histories \ {<< >>} |->
        FoldLeft(ReplayInsertion,
                 [count |-> 0, filled |-> InitialSubtrees, root |-> InitialRoot], leaves).root]

(* A record continues a history: it names the root before it and announces *)
(* the root that follows from inserting its commitment.                    *)
LinksTo(log, acceptedRoot, computedRoot) ==
    /\ log.previousRoot = acceptedRoot
    /\ log.root = computedRoot

(* The deployment's record inserts no leaf. *)
PushLeaf(leaves, record) ==
    IF record.insertedCommitment = ZERO THEN leaves ELSE Append(leaves, record.insertedCommitment)

InsertedLeaves(records) == FoldLeft(PushLeaf, << >>, records)

(* verifyRootAcceptedChain does not throw. *)
VerifyRootAcceptedChain(records) ==
    \A k \in DOMAIN records :
        LET acceptedRoot == IF k = 1 THEN InitialRoot ELSE records[k - 1].root
            leaves == InsertedLeaves(SubSeq(records, 1, k))
        IN  \/ /\ records[k].insertedCommitment = ZERO
               /\ records[k].previousRoot = ZERO
               /\ records[k].root = InitialRoot
            \/ /\ records[k].insertedCommitment # ZERO
               /\ Len(leaves) <= Capacity
               /\ LinksTo(records[k], acceptedRoot, ComputedRoot[leaves])

IndexOfNote(leaves) == SelectInSeq(leaves, LAMBDA c : c = Wanted) - 1

(* reconstructMerklePathFromRootAcceptedLogs does not throw. *)
Reconstructs(records) ==
    /\ VerifyRootAcceptedChain(records)
    /\ Wanted \in ToSet(InsertedLeaves(records))

(* decodedLogsConfirmHint *)
ConfirmHint(records, leafIndexHint) ==
    /\ Wanted \in ToSet(InsertedLeaves(records))
    /\ leafIndexHint # None => leafIndexHint = IndexOfNote(InsertedLeaves(records))

-----------------------------------------------------------------------------
DeepEnough(latest) == latest >= Confirmations

FinalityBoundary(latest) == latest - Confirmations

ChunkEnd == IF cursor + ChunkSize > toBlock THEN toBlock ELSE cursor + ChunkSize

NextCursor(chunkEnd) == chunkEnd + 1

ReaderInit ==
    /\ policy \in Policies
    /\ pc = "start"
    /\ hints = [tx |-> FALSE, block |-> None, leafIndex |-> None]
    /\ hintedToBlock = None
    /\ finalizedToBlock = None
    /\ source = "fallback"
    /\ toBlock = None
    /\ cursor = 1
    /\ logs = {}
    /\ recovered = << >>
    /\ rpcErrors = 0
    /\ dueAtStart = FALSE

(* The call, with the hints the caller happens to hold. *)
Start ==
    /\ pc = "start"
    /\ \E tx \in BOOLEAN, block \in BlockHints, leafIndex \in LeafIndexHints :
          /\ hints' = [tx |-> tx, block |-> block, leafIndex |-> leafIndex]
          /\ pc' = IF tx THEN "receipt" ELSE "finality"
          /\ hintedToBlock' = IF tx THEN None ELSE block
    /\ dueAtStart' = /\ Latest > Confirmations
                     /\ Wanted \in ToSet(LeavesAt(Latest - Confirmations))
    /\ UNCHANGED <<chainVars, finalizedToBlock, source, toBlock, cursor, logs, recovered, rpcErrors>>

(* An RPC request is answered with an error. *)
RpcError ==
    /\ rpcErrors < MaxRpcErrors
    /\ rpcErrors' = rpcErrors + 1

(* eth_getTransactionReceipt: without a receipt that mentions the note the *)
(* block hint takes its place.                                             *)
BlocksHolding(c) == {n \in 1..Latest : c \in ToSet(blocks[n])}

Receipt ==
    /\ pc = "receipt"
    /\ \/ /\ hintedToBlock' \in BlocksHolding(Wanted)
          /\ UNCHANGED rpcErrors
       \/ /\ BlocksHolding(Wanted) = {}
          /\ hintedToBlock' = hints.block
          /\ UNCHANGED rpcErrors
       \/ /\ RpcError
          /\ hintedToBlock' = hints.block
    /\ pc' = "finality"
    /\ UNCHANGED <<chainVars, hints, finalizedToBlock, source, toBlock, cursor, logs,
                   recovered, dueAtStart>>

(* Fetching starts over for the range that ends at block last. *)
Fetch(from, last) ==
    /\ source' = from
    /\ toBlock' = last
    /\ cursor' = 1
    /\ logs' = {}
    /\ pc' = "chunk"

Fail == pc' = "failed" /\ UNCHANGED <<source, toBlock, cursor, logs>>

(* With the boundary known, the hinted range is tried first; a hint behind *)
(* the boundary is required, not merely preferred.                         *)
BeginFetch(boundary) ==
    \/ /\ hintedToBlock # None
       /\ IF boundary # None /\ hintedToBlock > boundary
          THEN Fail ELSE Fetch("hint", hintedToBlock)
    \/ /\ hintedToBlock = None
       /\ boundary # None
       /\ Fetch("fallback", boundary)
    \/ /\ hintedToBlock = None
       /\ boundary = None
       /\ pc' = "latest"
       /\ UNCHANGED <<source, toBlock, cursor, logs>>

(* resolveRecoveryToBlock *)
Finality ==
    /\ pc = "finality"
    /\ \/ /\ Confirmations > 0
          /\ \/ /\ DeepEnough(Latest)
                /\ finalizedToBlock' = FinalityBoundary(Latest)
                /\ BeginFetch(FinalityBoundary(Latest))
                /\ UNCHANGED rpcErrors
             \/ /\ ~DeepEnough(Latest)
                /\ Fail
                /\ UNCHANGED <<finalizedToBlock, rpcErrors>>
             \/ /\ RpcError
                /\ Fail
                /\ UNCHANGED finalizedToBlock
       \/ /\ Confirmations = 0
          /\ IF Mainnet THEN Fail ELSE BeginFetch(None)
          /\ UNCHANGED <<finalizedToBlock, rpcErrors>>
    /\ UNCHANGED <<chainVars, hints, hintedToBlock, recovered, dueAtStart>>

(* eth_blockNumber for a fallback without a finality policy. *)
LatestBlock ==
    /\ pc = "latest"
    /\ \/ Fetch("fallback", Latest) /\ UNCHANGED rpcErrors
       \/ RpcError /\ Fail
    /\ UNCHANGED <<chainVars, hints, hintedToBlock, finalizedToBlock, recovered, dueAtStart>>

(* Faulty variant of Fallback, for a mutation check. *)
Fallback_RetriesHint ==
    IF finalizedToBlock # None
    THEN Fetch("hint", hintedToBlock)
    ELSE pc' = "latest" /\ UNCHANGED <<source, toBlock, cursor, logs>>

(* The hinted range did not give a usable history. *)
Fallback ==
    IF finalizedToBlock # None
    THEN Fetch("fallback", finalizedToBlock)
    ELSE pc' = "latest" /\ UNCHANGED <<source, toBlock, cursor, logs>>

(* eth_getLogs for the next chunk, while there is one. *)
Chunk ==
    /\ pc = "chunk"
    /\ cursor <= toBlock
    /\ \/ /\ logs' = logs \cup GetLogs(cursor, ChunkEnd)
          /\ cursor' = NextCursor(ChunkEnd)
          /\ UNCHANGED <<pc, source, toBlock, rpcErrors>>
       \/ /\ RpcError
          /\ IF source = "hint" THEN Fallback ELSE Fail
    /\ UNCHANGED <<chainVars, hints, hintedToBlock, finalizedToBlock, recovered, dueAtStart>>

(* All chunks are there. A hinted range has to show the note; then the     *)
(* caller reconstructs the path, and fails when that throws.               *)
Finish ==
    /\ pc = "chunk"
    /\ cursor > toBlock
    /\ \/ /\ Ambiguous(logs)
          /\ IF source = "hint" THEN Fallback ELSE Fail
          /\ UNCHANGED recovered
       \/ /\ ~Ambiguous(logs)
          /\ \E records \in {Decoded(logs)} :
                \/ /\ source = "hint"
                   /\ ~ConfirmHint(records, hints.leafIndex)
                   /\ Fallback
                   /\ UNCHANGED recovered
                \/ /\ source = "hint" => ConfirmHint(records, hints.leafIndex)
                   /\ ~Reconstructs(records)
                   /\ Fail
                   /\ UNCHANGED recovered
                \/ /\ source = "hint" => ConfirmHint(records, hints.leafIndex)
                   /\ Reconstructs(records)
                   /\ recovered' = InsertedLeaves(records)
                   /\ pc' = "done"
                   /\ UNCHANGED <<source, toBlock, cursor, logs>>
    /\ UNCHANGED <<chainVars, hints, hintedToBlock, finalizedToBlock, rpcErrors, dueAtStart>>

Reader ==
    /\ Start \/ Receipt \/ Finality \/ LatestBlock \/ Chunk \/ Finish
    /\ UNCHANGED policy

Init == ChainInit /\ ReaderInit

Next ==
    \/ Reader
    \/ Mine /\ UNCHANGED readerVars
    \/ Reorg /\ UNCHANGED readerVars

(* RPC requests are answered, with a result or an error. *)
Spec == Init /\ [][Next]_vars /\ WF_vars(Reader)

-----------------------------------------------------------------------------
(* Types of the client's state.                                            *)
TypeOK ==
    /\ pc \in {"start", "receipt", "finality", "latest", "chunk", "done", "failed"}
    /\ source \in {"hint", "fallback"}
    /\ {hintedToBlock, finalizedToBlock, toBlock} \subseteq Nat \cup {None}
    /\ cursor \in Nat
    /\ recovered # << >> <=> pc = "done"

(* The path the client returns, by the leaves it recovered. *)
PathIn ==
    [leaves \in {h \in Histories : Wanted \in ToSet(h)} |->
        SparsePath(leaves, IndexOfNote(leaves))]

PathVerifies == [leaves \in DOMAIN PathIn |-> VerifyMerklePath(PathIn[leaves])]

(* A path the SDK returns opens the note under a root the pool really      *)
(* computed: chunks fetched before and after a reorganisation are never    *)
(* stitched into a history no fork had (verifyRootAcceptedChain).          *)
PathIsOfOneFork ==
    pc = "done" =>
        /\ PathVerifies[recovered]
        /\ PathIn[recovered].commitment = Wanted
        /\ PathIn[recovered].root \in UNION {RootsOf(leaves) : leaves \in everLeaves}

(* With a finality policy of at least the depth of reorganisations, the    *)
(* path stays a path of the canonical chain, whatever hint it came from    *)
(* and however the chain is reorganised while or after it is recovered     *)
(* (resolveRecoveryToBlock and the check of the hinted block against it).  *)
FinalPathStaysCanonical ==
    pc = "done" /\ Confirmations >= MaxReorgDepth =>
        /\ PathIn[recovered].root \in RootsOf(Leaves)
        /\ Leaves[PathIn[recovered].leafIndex + 1] = Wanted

(* Hints are advisory: under such a policy a note that was behind the      *)
(* boundary when recovery started is recovered unless RPC requests fail or *)
(* the hinted block is beyond the boundary, wrong as the hints may be.     *)
WrongHintsDoNotHide ==
    /\ pc = "failed"
    /\ Confirmations > 0 /\ Confirmations >= MaxReorgDepth
    /\ dueAtStart
    /\ rpcErrors = 0
    => hintedToBlock > finalizedToBlock

(* Recovery ends although the chain keeps growing and may be reorganised:  *)
(* every answer, errors included, moves the client to a later stage or, in *)
(* the range fixed before the first chunk, to a later chunk; a hinted      *)
(* range that failed is never tried again (fetchRootAcceptedLogs and its   *)
(* fallback).                                                              *)
Stages == <<"start", "receipt", "finality", "hint", "latest", "fallback", "end">>

Stage ==
    CASE pc = "chunk" -> source
      [] pc \in {"done", "failed"} -> "end"
      [] OTHER -> pc

StageIndex == CHOOSE k \in DOMAIN Stages : Stages[k] = Stage

RecoveryAdvances ==
    [][\/ UNCHANGED readerVars
       \/ StageIndex' > StageIndex
       \/ /\ StageIndex' = StageIndex
          /\ pc = "chunk" /\ toBlock' = toBlock /\ cursor' > cursor]_vars
=============================================================================
