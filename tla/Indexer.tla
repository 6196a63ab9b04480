------------------------------- MODULE Indexer -------------------------------
(***************************************************************************)
(* The recovery indexer (services/indexer): it ingests batches of pool     *)
(* logs in whatever order its operator fetches the block ranges, remembers *)
(* which ranges it has seen, and serves Merkle paths from the leaves it    *)
(* knows. It does not handle reorganisations: its responses ask callers to *)
(* rescan.                                                                 *)
(*                                                                         *)
(* The checks of a query that depend on configuration alone (chain, pool,  *)
(* readiness evidence, shape of the commitment) are taken to have passed.  *)
(***************************************************************************)
EXTENDS PoolLogChain

CONSTANTS
    MaxBatch,               \* TLC bound on the blocks of a batch
    MaxPathCacheEntries     \* maxPathCacheEntries of the path index

ASSUME IndexerAssumption ==
    /\ MaxBatch \in Nat \ {0}
    /\ MaxPathCacheEntries \in Nat

VARIABLES
    leavesByIndex, indexByCommitment,   \* the path index, as partial maps
    pathCache,                          \* paths, the least recently used first
    roots, expiredRoots,                \* keys of the two maps
    nullifiers,                         \* keys of the map of spent nullifiers
    encryptedNotes,                     \* notes of the encrypted-note records
    checkedRanges,                      \* a sequence of block ranges
    ingested                            \* blocks of the batches that went through

stateVars == <<leavesByIndex, indexByCommitment, pathCache, roots, expiredRoots,
               nullifiers, encryptedNotes>>
indexerVars == <<stateVars, checkedRanges, ingested>>
serviceVars == <<chainVars, indexerVars>>

-----------------------------------------------------------------------------
(* Faulty variants of the definitions below, for mutation checks.          *)
ClearCache_Forgotten(cache) == cache
Complete_Always(latestCheckedBlock) == TRUE
RootConfirmed_Always(path) == TRUE

-----------------------------------------------------------------------------
(* insertIndexedCommitment: a commitment keeps its index and an index its  *)
(* commitment, otherwise it throws.                                        *)
Conflict(s, c, i) ==
    \/ c \in DOMAIN s.byCommitment /\ s.byCommitment[c] # i
    \/ i \in DOMAIN s.leaves /\ s.leaves[i] # c

ClearCache(cache) == << >>

SetEntry(map, key, value) ==
    [k \in DOMAIN map \cup {key} |-> IF k = key THEN value ELSE map[k]]

InsertIndexedCommitment(s, c, i) ==
    IF Conflict(s, c, i)
    THEN [s EXCEPT !.ok = FALSE]
    ELSE [s EXCEPT !.leaves = SetEntry(@, i, c),
                   !.byCommitment = SetEntry(@, c, i),
                   !.cache = ClearCache(@)]

(* addEncryptedNoteEvent appends a record; a repeated batch repeats it.    *)
AddEncryptedNoteEvent(s, c, i) ==
    IF s.ok THEN [s EXCEPT !.notes = @ \cup {<<c, i>>}] ELSE s

(* ingestPoolLogs, one log: nothing after a log that throws is processed,  *)
(* everything before it stays.                                             *)
IngestLog(s, log) ==
    IF ~s.ok THEN s
    ELSE CASE log.event = "NoteCreated" ->
                  AddEncryptedNoteEvent(
                      InsertIndexedCommitment(s, log.commitment, log.leafIndex),
                      log.commitment, log.leafIndex)
           [] log.event = "RootAccepted" ->
                  [s EXCEPT !.expired = @ \ {log.root}, !.roots = @ \cup {log.root}]
           [] log.event = "RootExpired" ->
                  [s EXCEPT !.roots = @ \ {log.root}, !.expired = @ \cup {log.root}]
           [] log.event = "NullifierSpent" ->
                  [s EXCEPT !.nullifiers = @ \cup {log.nullifier}]

IngestLogs(logs) ==
    FoldLeft(IngestLog,
             [leaves |-> leavesByIndex, byCommitment |-> indexByCommitment,
              cache |-> pathCache, roots |-> roots, expired |-> expiredRoots,
              nullifiers |-> nullifiers, notes |-> encryptedNotes, ok |-> TRUE],
             logs)

(* markCheckedRange: sort, then merge a range into the last one when they  *)
(* overlap or touch. Ranges that start alike merge alike in either order.  *)
Touches(last, range) == range.fromBlock <= last.toBlock + 1

Precedes(ranges, i, j) ==
    \/ ranges[i].fromBlock < ranges[j].fromBlock
    \/ ranges[i].fromBlock = ranges[j].fromBlock /\ i < j

Sorted(ranges) ==
    [k \in DOMAIN ranges |->
        ranges[CHOOSE i \in DOMAIN ranges :
                   Cardinality({j \in DOMAIN ranges : Precedes(ranges, j, i)}) = k - 1]]

Stretched(last, next) ==
    [last EXCEPT !.toBlock = IF next.toBlock > @ THEN next.toBlock ELSE @]

MergeRange(merged, next) ==
    IF merged = << >> \/ ~Touches(Last(merged), next)
    THEN Append(merged, next)
    ELSE [merged EXCEPT ![Len(merged)] = Stretched(@, next)]

MarkCheckedRange(ranges, range) ==
    FoldLeft(MergeRange, << >>, Sorted(Append(ranges, range)))

(* findMissingRanges: merged ranges are in order, so those after the first *)
(* one past the request, where it stops, are passed over likewise.         *)
NextMissing(range, cursor) ==
    IF range.toBlock + 1 > cursor THEN range.toBlock + 1 ELSE cursor

VisitRange(requested, s, checked) ==
    IF checked.toBlock < s.cursor \/ checked.fromBlock > requested.toBlock
    THEN s
    ELSE [cursor |-> NextMissing(checked, s.cursor),
          missing |-> IF checked.fromBlock > s.cursor
                      THEN Append(s.missing, [fromBlock |-> s.cursor,
                                              toBlock |-> checked.fromBlock - 1])
                      ELSE s.missing]

FindMissingRanges(ranges, requested) ==
    LET end == FoldLeft(LAMBDA s, checked : VisitRange(requested, s, checked),
                        [cursor |-> requested.fromBlock, missing |-> << >>], ranges)
    IN  IF end.cursor <= requested.toBlock
        THEN Append(end.missing, [fromBlock |-> end.cursor, toBlock |-> requested.toBlock])
        ELSE end.missing

-----------------------------------------------------------------------------
IndexerInit ==
    /\ leavesByIndex = << >>
    /\ indexByCommitment = << >>
    /\ pathCache = << >>
    /\ roots = {}
    /\ expiredRoots = {}
    /\ nullifiers = {}
    /\ encryptedNotes = {}
    /\ checkedRanges = << >>
    /\ ingested = {}

(* The logs of a range of blocks. *)
LogsIn(range) ==
    FlattenSeq([k \in 1..(range.toBlock - range.fromBlock + 1) |->
                   EventsIn(range.fromBlock + k - 1)])

(* The operator fetches a range of blocks, again or for the first time,    *)
(* and ingests its logs; the range counts as checked only if no log threw. *)
Ingest(range) ==
    /\ \E s \in {IngestLogs(LogsIn(range))} :
          /\ leavesByIndex' = s.leaves
          /\ indexByCommitment' = s.byCommitment
          /\ pathCache' = s.cache
          /\ roots' = s.roots
          /\ expiredRoots' = s.expired
          /\ nullifiers' = s.nullifiers
          /\ encryptedNotes' = s.notes
          /\ \/ /\ s.ok
                /\ checkedRanges' = MarkCheckedRange(checkedRanges, range)
                /\ ingested' = ingested \cup (range.fromBlock..range.toBlock)
             \/ /\ ~s.ok
                /\ UNCHANGED <<checkedRanges, ingested>>
    /\ UNCHANGED chainVars

(* getMerklePathForCommitment: a cached path, or one built from the leaves *)
(* and remembered, the least recently used one making room.                *)
Cached(c) == {k \in DOMAIN pathCache : pathCache[k].commitment = c}
CachedAt(c) == CHOOSE k \in Cached(c) : TRUE

PathFor(c) ==
    IF Cached(c) # {} THEN pathCache[CachedAt(c)]
                      ELSE IndexedPath(leavesByIndex, indexByCommitment[c])

Remember(path) ==
    LET c == path.commitment
        others == IF Cached(c) # {} THEN RemoveAt(pathCache, CachedAt(c)) ELSE pathCache
        all == Append(others, path)
    IN  IF Len(all) > MaxPathCacheEntries THEN Tail(all) ELSE all

(* The checks of the merklePath handler that depend on what was ingested:  *)
(* complete ranges and some accepted root (v1.2 only), a known commitment, *)
(* a root that the logs announced and did not expire.                      *)
Complete(latestCheckedBlock) ==
    FindMissingRanges(checkedRanges, [fromBlock |-> 1, toBlock |-> latestCheckedBlock]) = << >>

RootConfirmed(path) == path.root \in roots

Status(c, v12, latestCheckedBlock) ==
    IF v12 /\ (~Complete(latestCheckedBlock) \/ roots = {}) THEN 503
    ELSE IF c \notin DOMAIN indexByCommitment THEN 404
    ELSE IF ~RootConfirmed(PathFor(c)) THEN 409
    ELSE 200

(* A query that gets as far as the path; others change nothing. *)
Query(c, v12, latestCheckedBlock) ==
    /\ Status(c, v12, latestCheckedBlock) \in {200, 409}
    /\ pathCache' = Remember(PathFor(c))
    /\ UNCHANGED <<chainVars, leavesByIndex, indexByCommitment, roots, expiredRoots,
                   nullifiers, encryptedNotes, checkedRanges, ingested>>

ServiceInit == ChainInit /\ IndexerInit

Ranges == {r \in [fromBlock : 1..Latest, toBlock : 1..Latest] :
              r.fromBlock <= r.toBlock /\ r.toBlock < r.fromBlock + MaxBatch}

ServiceNext ==
    \/ (Mine \/ Reorg) /\ UNCHANGED indexerVars
    \/ \E range \in Ranges : Ingest(range)
    \/ \E c \in Commitments, v12 \in BOOLEAN, h \in 1..Latest : Query(c, v12, h)

ServiceSpec == ServiceInit /\ [][ServiceNext]_serviceVars

-----------------------------------------------------------------------------
Served(c, v12, h) == Status(c, v12, h) = 200

(* A served path verifies and its root is one the pool computed on some    *)
(* fork, also when leaves of two forks have met in the index: the handler  *)
(* answers 409 rather than a path of a tree that never was.                *)
ServedPathIsOfOneFork ==
    \A c \in Commitments, v12 \in BOOLEAN, h \in 1..Latest :
        Served(c, v12, h) =>
            \A path \in {PathFor(c)} :
                /\ path.commitment = c
                /\ VerifyMerklePath(path)
                /\ path.root \in UNION {RootsOf(leaves) : leaves \in everLeaves}

(* Without reorganisations a served root is the pool's root after some     *)
(* block, for v1.2 not older than the block the operator checked up to:    *)
(* neither a stale cache entry, nor an expired root that an old batch has  *)
(* brought back into the accepted ones, nor a hole is ever served.         *)
ServedRootIsCurrent ==
    reorgs = 0 =>
        \A c \in Commitments, v12 \in BOOLEAN, h \in 1..Latest :
            Served(c, v12, h) =>
                \E block \in (IF v12 THEN h ELSE 1)..Latest :
                    PathFor(c).root = Last(PoolAfter[LeavesAt(block)].roots)

(* Without reorganisations an indexer that has everything up to its newest *)
(* block serves every note of the tree and knows the spent nullifiers, in  *)
(* whichever order and however often the batches came.                     *)
CompleteIndexServes ==
    reorgs = 0 =>
        \A h \in ingested :
            ingested = 1..h =>
                /\ \A c \in ToSet(LeavesAt(h)) : Served(c, TRUE, h)
                /\ nullifiers = ToSet(LeavesAt(h)) \cap Spends
=============================================================================
