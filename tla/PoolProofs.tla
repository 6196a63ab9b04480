----------------------------- MODULE PoolProofs -----------------------------
(***************************************************************************)
(* Proofs about the v1.2 pool. First the contract by itself (NullarkPool): *)
(* it is solvent and its principal is never stuck, for every tree          *)
(* capacity, root history size, set of denominations and fee schedule.     *)
(* Then the contract among its clients (SpendBinding and SpendEvidence):   *)
(* only planned calls are executed, the pool executes what the relay       *)
(* admitted, the relay admits what the wallets build, and the indexer      *)
(* confirms nothing else.                                                  *)
(*                                                                         *)
(* The accounting variables say nothing about single notes, so the         *)
(* contract's invariant has to tie them to the notes. It keeps the witness *)
(* of the sum: a running total over the leaves that ends at                *)
(* WithdrawableAccounting. Spending a leaf lowers, and inserting one       *)
(* raises, the tail of the running total, and what is left of it at a leaf *)
(* shows that the note can be paid.                                        *)
(*                                                                         *)
(* The log is related to the state in the same way: what it has of each    *)
(* kind of event, next to what an open call has still to write.            *)
(***************************************************************************)
EXTENDS SpendEvidence, FeePolicyProofs, FiniteInduction

(* P[k] is the sum of U over the leaves below k. *)
RunningTotal(P, U) ==
    /\ P \in [0..MERKLE_TREE_CAPACITY -> Nat]
    /\ P[0] = 0
    /\ \A i \in LeafIndices : P[i + 1] = P[i] + U[i]
    /\ \A i \in LeafIndices, k \in 0..MERKLE_TREE_CAPACITY : i < k => P[i] + U[i] <= P[k]

(* The withdrawable accounting is the total value of the unspent notes. *)
Backed ==
    \E P : /\ RunningTotal(P, UnspentValue)
           /\ P[MERKLE_TREE_CAPACITY] = WithdrawableAccounting

(* Insertions since ring entry k was written. *)
Age(k) == IF k <= rootHistoryIndex THEN rootHistoryIndex - k
                                   ELSE rootHistoryIndex - k + ROOT_HISTORY_SIZE

RingInv ==
    /\ currentRoot = nextLeafIndex
    /\ \A k \in 0..(ROOT_HISTORY_SIZE - 1) :
          rootHistory[k] = IF nextLeafIndex >= Age(k) THEN nextLeafIndex - Age(k) ELSE NoRoot

TreeInv ==
    /\ \A i \in LeafIndices : IF i < nextLeafIndex THEN leaves[i] \in Commitments
                                                   ELSE leaves[i] = NoCommitment
    /\ \A i \in nullifiers : i < nextLeafIndex

TreeTypeOK ==
    /\ commitments \subseteq Commitments
    /\ leaves \in [LeafIndices -> Commitments \cup {NoCommitment}]
    /\ nextLeafIndex \in 0..MERKLE_TREE_CAPACITY
    /\ currentRoot \in 0..MERKLE_TREE_CAPACITY
    /\ rootHistory \in [0..(ROOT_HISTORY_SIZE - 1) -> 0..MERKLE_TREE_CAPACITY \cup {NoRoot}]
    /\ rootHistoryIndex \in 0..(ROOT_HISTORY_SIZE - 1)
    /\ acceptedRoots \subseteq 0..MERKLE_TREE_CAPACITY

PoolInv ==
    /\ TypeOK
    /\ TreeInv
    /\ RingInv
    /\ RootWindow
    /\ BalanceMatchesAccounting
    /\ Backed

-----------------------------------------------------------------------------
(* Running totals.                                                         *)

(* Spending leaf j takes its value out of the total.                       *)
LEMMA RunningTotalSpend ==
    ASSUME NEW U \in [LeafIndices -> Nat], NEW P, RunningTotal(P, U),
           NEW j \in LeafIndices, NEW V, V = [U EXCEPT ![j] = 0]
    PROVE  \E Q : /\ RunningTotal(Q, V)
                  /\ Q[MERKLE_TREE_CAPACITY] = P[MERKLE_TREE_CAPACITY] - U[j]
<1> DEFINE Q == [k \in 0..MERKLE_TREE_CAPACITY |-> IF k > j THEN P[k] - U[j] ELSE P[k]]
<1>1. /\ \A k \in 0..MERKLE_TREE_CAPACITY : k \in Nat /\ P[k] \in Nat
      /\ \A i \in LeafIndices : /\ i \in 0..MERKLE_TREE_CAPACITY
                                /\ i + 1 \in 0..MERKLE_TREE_CAPACITY
                                /\ U[i] \in Nat
                                /\ P[i + 1] = P[i] + U[i]
      /\ 0 \in 0..MERKLE_TREE_CAPACITY /\ P[0] = 0
      /\ MERKLE_TREE_CAPACITY \in 0..MERKLE_TREE_CAPACITY /\ j < MERKLE_TREE_CAPACITY
    BY PoolAssumption, SMTT(20) DEF LeafIndices, RunningTotal
<1>2. \A i \in LeafIndices, k \in 0..MERKLE_TREE_CAPACITY : i < k => P[i] + U[i] <= P[k]
    BY DEF RunningTotal
<1>3. \A i \in LeafIndices : V[i] = IF i = j THEN 0 ELSE U[i]
    OBVIOUS
<1>4. \A k \in 0..MERKLE_TREE_CAPACITY : Q[k] = IF k > j THEN P[k] - U[j] ELSE P[k]
    OBVIOUS
<1>5. Q \in [0..MERKLE_TREE_CAPACITY -> Nat]
    BY <1>1, <1>2
<1> HIDE DEF Q
<1>6. Q[0] = 0 /\ Q[MERKLE_TREE_CAPACITY] = P[MERKLE_TREE_CAPACITY] - U[j]
    BY <1>1, <1>4
<1>7. ASSUME NEW i \in LeafIndices PROVE Q[i + 1] = Q[i] + V[i]
    BY <1>1, <1>3, <1>4
<1>8. ASSUME NEW i \in LeafIndices, NEW k \in 0..MERKLE_TREE_CAPACITY, i < k
      PROVE  Q[i] + V[i] <= Q[k]
  <2>1. P[i] + U[i] <= P[k]
      BY <1>2, <1>8
  <2>2. i < j => P[i] + U[i] <= P[j]
      BY <1>1, <1>2
  <2>3. j < k => P[j] + U[j] <= P[k]
      BY <1>2
  <2> QED BY <1>1, <1>3, <1>4, <1>8, <2>1, <2>2, <2>3
<1>9. RunningTotal(Q, V)
    BY <1>5, <1>6, <1>7, <1>8 DEF RunningTotal
<1> QED BY <1>6, <1>9

(* Writing an empty leaf n adds its value to the total.                    *)
LEMMA RunningTotalInsert ==
    ASSUME NEW U \in [LeafIndices -> Nat], NEW P, RunningTotal(P, U),
           NEW V \in [LeafIndices -> Nat], NEW n \in LeafIndices, U[n] = 0,
           \A i \in LeafIndices \ {n} : V[i] = U[i]
    PROVE  \E Q : /\ RunningTotal(Q, V)
                  /\ Q[MERKLE_TREE_CAPACITY] = P[MERKLE_TREE_CAPACITY] + V[n]
<1> DEFINE Q == [k \in 0..MERKLE_TREE_CAPACITY |-> IF k > n THEN P[k] + V[n] ELSE P[k]]
<1>1. /\ \A k \in 0..MERKLE_TREE_CAPACITY : k \in Nat /\ P[k] \in Nat
      /\ \A i \in LeafIndices : /\ i \in 0..MERKLE_TREE_CAPACITY
                                /\ i + 1 \in 0..MERKLE_TREE_CAPACITY
                                /\ U[i] \in Nat
                                /\ P[i + 1] = P[i] + U[i]
      /\ 0 \in 0..MERKLE_TREE_CAPACITY /\ P[0] = 0
      /\ MERKLE_TREE_CAPACITY \in 0..MERKLE_TREE_CAPACITY /\ n < MERKLE_TREE_CAPACITY
    BY PoolAssumption, SMTT(20) DEF LeafIndices, RunningTotal
<1>2. \A i \in LeafIndices, k \in 0..MERKLE_TREE_CAPACITY : i < k => P[i] + U[i] <= P[k]
    BY DEF RunningTotal
<1>3. \A i \in LeafIndices : V[i] \in Nat /\ V[i] = IF i = n THEN V[n] ELSE U[i]
    OBVIOUS
<1>4. \A k \in 0..MERKLE_TREE_CAPACITY : Q[k] = IF k > n THEN P[k] + V[n] ELSE P[k]
    OBVIOUS
<1>5. Q \in [0..MERKLE_TREE_CAPACITY -> Nat]
    BY <1>1, <1>3
<1> HIDE DEF Q
<1>6. Q[0] = 0 /\ Q[MERKLE_TREE_CAPACITY] = P[MERKLE_TREE_CAPACITY] + V[n]
    BY <1>1, <1>3, <1>4
<1>7. ASSUME NEW i \in LeafIndices PROVE Q[i + 1] = Q[i] + V[i]
    BY <1>1, <1>3, <1>4
<1>8. ASSUME NEW i \in LeafIndices, NEW k \in 0..MERKLE_TREE_CAPACITY, i < k
      PROVE  Q[i] + V[i] <= Q[k]
  <2>1. P[i] + U[i] <= P[k]
      BY <1>2, <1>8
  <2> QED BY <1>1, <1>3, <1>4, <1>8, <2>1
<1>9. RunningTotal(Q, V)
    BY <1>5, <1>6, <1>7, <1>8 DEF RunningTotal
<1> QED BY <1>6, <1>9

(* No leaf is worth more than the total.                                   *)
LEMMA RunningTotalBounds ==
    ASSUME NEW U \in [LeafIndices -> Nat], NEW P, RunningTotal(P, U), NEW i \in LeafIndices
    PROVE  U[i] <= P[MERKLE_TREE_CAPACITY]
BY PoolAssumption DEF LeafIndices, RunningTotal
-----------------------------------------------------------------------------
(* The tree and the root ring.                                             *)

(* The ring index wraps at the size of the ring.                           *)
LEMMA RingIndexStep ==
    ASSUME NEW H \in Nat \ {0}, NEW k \in 0..(H - 1)
    PROVE  (k + 1) % H = IF k + 1 = H THEN 0 ELSE k + 1
<1>1. CASE k + 1 = H
    BY <1>1
<1>2. CASE k + 1 # H
  <2>1. k + 1 \in 0..(H - 1)
      BY <1>2
  <2> QED BY <1>2, <2>1
<1> QED BY <1>1, <1>2

(* One insertion keeps the types, the ring and the window of accepted      *)
(* roots: the entry it overwrites is the only root that leaves the window. *)
LEMMA RecordRootInv ==
    ASSUME TreeTypeOK, RingInv, RootWindow, NEW c \in Commitments, RecordCommitmentRoot(c)
    PROVE  TreeTypeOK' /\ RingInv' /\ RootWindow'
<1> USE PoolAssumption
<1> DEFINE n == nextLeafIndex
           H == ROOT_HISTORY_SIZE
           idx == rootHistoryIndex
           nxt == NextHistoryIndex
           expired == rootHistory[nxt]
<1>1. /\ n \in 0..(MERKLE_TREE_CAPACITY - 1) /\ n \in Nat /\ n + 1 \in 0..MERKLE_TREE_CAPACITY
      /\ nextLeafIndex' = n + 1 /\ currentRoot' = n + 1
      /\ H \in Nat \ {0} /\ idx \in 0..(H - 1)
    BY DEF TreeTypeOK, RecordCommitmentRoot
<1>2. /\ nxt = IF idx + 1 = H THEN 0 ELSE idx + 1
      /\ nxt \in 0..(H - 1)
      /\ rootHistoryIndex' = nxt
  <2>1. (idx + 1) % H = IF idx + 1 = H THEN 0 ELSE idx + 1
      BY <1>1, RingIndexStep
  <2> QED BY <1>1, <2>1 DEF NextHistoryIndex, RecordCommitmentRoot
<1>3. Age(nxt) = H - 1
    BY <1>1, <1>2 DEF Age
<1>4. expired = IF n >= H - 1 THEN n - (H - 1) ELSE NoRoot
    BY <1>1, <1>2, <1>3 DEF RingInv
<1>5. rootHistory' = [rootHistory EXCEPT ![nxt] = n + 1]
    BY DEF RecordCommitmentRoot
<1>6. acceptedRoots' =
         (IF expired # NoRoot THEN acceptedRoots \ {expired} ELSE acceptedRoots) \cup {n + 1}
  <2>1. expired # n + 1
      BY <1>1, <1>4 DEF NoRoot
  <2> QED BY <2>1 DEF RecordCommitmentRoot, Expires
<1>7. TreeTypeOK'
  <2>1. leaves' = [leaves EXCEPT ![n] = c] /\ commitments' = commitments \cup {c}
      BY DEF RecordCommitmentRoot
  <2>2. leaves' \in [LeafIndices -> Commitments \cup {NoCommitment}]
      BY <2>1 DEF TreeTypeOK
  <2>3. rootHistory' \in [0..(H - 1) -> 0..MERKLE_TREE_CAPACITY \cup {NoRoot}]
      BY <1>1, <1>5 DEF TreeTypeOK
  <2>4. acceptedRoots' \subseteq 0..MERKLE_TREE_CAPACITY
      BY <1>1, <1>6 DEF TreeTypeOK
  <2> QED BY <1>1, <1>2, <2>1, <2>2, <2>3, <2>4 DEF TreeTypeOK
<1>8. RingInv'
  <2> SUFFICES ASSUME NEW k \in 0..(H - 1)
               PROVE  (rootHistory[k] =
                         IF nextLeafIndex >= Age(k) THEN nextLeafIndex - Age(k) ELSE NoRoot)'
      BY <1>1 DEF RingInv
  <2>1. CASE k = nxt
    <3>1. Age(k)' = 0
        BY <1>2, <2>1 DEF Age
    <3>2. rootHistory'[k] = n + 1
        BY <1>5, <2>1 DEF TreeTypeOK
    <3> QED BY <1>1, <3>1, <3>2
  <2>2. CASE k # nxt
    <3>1. Age(k)' = Age(k) + 1 /\ Age(k) \in Nat
        BY <1>1, <1>2, <2>2 DEF Age
    <3>2. rootHistory'[k] = rootHistory[k]
        BY <1>5, <2>2 DEF TreeTypeOK
    <3>3. rootHistory[k] = IF n >= Age(k) THEN n - Age(k) ELSE NoRoot
        BY DEF RingInv
    <3> QED BY <1>1, <3>1, <3>2, <3>3 DEF NoRoot
  <2> QED BY <2>1, <2>2
<1>9. RootWindow'
  <2>1. ASSUME NEW r \in 0..MERKLE_TREE_CAPACITY
        PROVE  r \in acceptedRoots' <=> (r <= n + 1 /\ r > n + 1 - H)
    <3>1. r \in acceptedRoots <=> (r <= n /\ r > n - H)
        BY DEF RootWindow
    <3> QED BY <1>1, <1>4, <1>6, <3>1 DEF NoRoot
  <2>2. acceptedRoots' \subseteq 0..MERKLE_TREE_CAPACITY
      BY <1>7 DEF TreeTypeOK
  <2>3. \A r \in 0..MERKLE_TREE_CAPACITY :
           r \in acceptedRoots' <=> (r <= nextLeafIndex' /\ r > nextLeafIndex' - ROOT_HISTORY_SIZE)
      BY <1>1, <2>1
  <2> QED BY <2>2, <2>3, Zenon DEF RootWindow
<1> QED BY <1>7, <1>8, <1>9

(* A fee is at most the amount it is taken from.                           *)
LEMMA FeeBound ==
    ASSUME NEW g \in Nat, feeBps \in 0..MAX_FEE_BPS
    PROVE  FeeOf(g) \in 0..g
<1> DEFINE D == BPS_DENOMINATOR
           q == (g * feeBps) \div D
<1>1. D \in Nat \ {0} /\ feeBps \in Nat /\ feeBps <= D
    BY PoolAssumption, FeeAssumption
<1>2. g * feeBps \in Nat /\ g * feeBps <= g * D
    BY <1>1
<1>3. q \in Nat /\ q * D <= g * feeBps
    BY <1>1, <1>2
<1>4. q <= g
  <2>1. SUFFICES ASSUME q >= g + 1 PROVE FALSE
      BY <1>3
  <2>2. q * D >= (g + 1) * D
      BY <1>1, <1>3, <2>1
  <2>3. (g + 1) * D = g * D + D
      BY <1>1
  <2> QED BY <1>1, <1>2, <1>3, <2>2, <2>3
<1> QED BY <1>3, <1>4 DEF FeeOf

-----------------------------------------------------------------------------
(* Notes.                                                                  *)

(* A leaf is worth a natural number of the native asset. *)
LEMMA AmountType ==
    /\ \A c \in Commitments : AmountOf[c] \in Nat
    /\ \A i \in LeafIndices : Amount(i) \in Nat
<1>1. ASSUME NEW c \in Commitments PROVE AmountOf[c] \in Nat
  <2>1. AmountOf[c] \in Denominations \cup {0}
      BY PoolAssumption
  <2>2. \A d \in Denominations : d \in Nat
      BY PoolAssumption
  <2> QED BY <2>1, <2>2
<1> QED BY <1>1 DEF Amount

(* So is what is left of it. *)
LEMMA UnspentValueType ==
    UnspentValue \in [LeafIndices -> Nat]
BY AmountType DEF UnspentValue

(* A deposit adds a note worth its amount.                                 *)
LEMMA InsertNote ==
    ASSUME PoolInv, NEW c \in Commitments, RecordCommitmentRoot(c), UNCHANGED nullifiers
    PROVE  /\ TreeInv'
           /\ \E Q : /\ RunningTotal(Q, UnspentValue')
                     /\ Q[MERKLE_TREE_CAPACITY] = WithdrawableAccounting + AmountOf[c]
<1> DEFINE n == nextLeafIndex
           U == UnspentValue
<1>1. n \in LeafIndices /\ n \notin nullifiers /\ n \in Nat
    BY PoolAssumption DEF PoolInv, TypeOK, TreeInv, RecordCommitmentRoot, LeafIndices
<1>2. /\ leaves \in [LeafIndices -> Commitments \cup {NoCommitment}]
      /\ leaves' = [leaves EXCEPT ![n] = c]
      /\ nextLeafIndex' = n + 1
    BY DEF PoolInv, TypeOK, RecordCommitmentRoot
<1>3. TreeInv'
  <2>1. \A i \in LeafIndices : i \in Nat
      BY DEF LeafIndices
  <2>2. \A i \in LeafIndices : IF i < n THEN leaves[i] \in Commitments
                                        ELSE leaves[i] = NoCommitment
      BY DEF PoolInv, TreeInv
  <2>3. nullifiers' \subseteq LeafIndices /\ \A i \in nullifiers' : i < n
      BY DEF PoolInv, TreeInv, TypeOK
  <2>4. \A i \in LeafIndices : IF i < n + 1 THEN leaves'[i] \in Commitments
                                            ELSE leaves'[i] = NoCommitment
      BY <1>1, <1>2, <2>1, <2>2
  <2>5. \A i \in nullifiers' : i < n + 1
      BY <1>1, <2>1, <2>3
  <2> QED BY <1>2, <2>4, <2>5 DEF TreeInv, NoCommitment
<1>4. U \in [LeafIndices -> Nat] /\ AmountOf[c] \in Nat
    BY UnspentValueType, AmountType
<1>5. U[n] = 0
    BY <1>1, PoolAssumption DEF UnspentValue, Amount, PoolInv, TreeInv
<1>6. /\ UnspentValue' \in [LeafIndices -> Nat]
      /\ UnspentValue'[n] = AmountOf[c]
      /\ \A k \in LeafIndices \ {n} : UnspentValue'[k] = U[k]
    BY <1>1, <1>2, <1>4 DEF UnspentValue, Amount
<1>7. PICK P : RunningTotal(P, U) /\ P[MERKLE_TREE_CAPACITY] = WithdrawableAccounting
    BY DEF PoolInv, Backed
<1> HIDE DEF U, n
<1>8. \E Q : /\ RunningTotal(Q, UnspentValue')
             /\ Q[MERKLE_TREE_CAPACITY] = P[MERKLE_TREE_CAPACITY] + UnspentValue'[n]
    BY <1>1, <1>4, <1>5, <1>6, <1>7, RunningTotalInsert
<1> QED BY <1>3, <1>6, <1>7, <1>8

(* A spend replaces the note at leaf i by the note of the output leaf.     *)
LEMMA ReplaceNote ==
    ASSUME PoolInv, NEW c \in Commitments, RecordCommitmentRoot(c),
           NEW i \in LeafIndices, i < nextLeafIndex, i \notin nullifiers, MarkSpent(i)
    PROVE  /\ TreeInv'
           /\ nullifiers' \subseteq LeafIndices
           /\ \E Q : /\ RunningTotal(Q, UnspentValue')
                     /\ Q[MERKLE_TREE_CAPACITY] =
                           WithdrawableAccounting - Amount(i) + AmountOf[c]
<1> DEFINE n == nextLeafIndex
           U == UnspentValue
           V == [U EXCEPT ![i] = 0]
<1>1. n \in LeafIndices /\ n \notin nullifiers /\ n \in Nat /\ n # i
    BY PoolAssumption DEF PoolInv, TypeOK, TreeInv, RecordCommitmentRoot, LeafIndices
<1>2. /\ leaves \in [LeafIndices -> Commitments \cup {NoCommitment}]
      /\ leaves' = [leaves EXCEPT ![n] = c]
      /\ nextLeafIndex' = n + 1
      /\ nullifiers' = nullifiers \cup {i}
      /\ nullifiers' \subseteq LeafIndices
    BY DEF PoolInv, TypeOK, RecordCommitmentRoot, MarkSpent
<1>3. TreeInv'
  <2>1. \A k \in LeafIndices : k \in Nat
      BY DEF LeafIndices
  <2>2. \A k \in LeafIndices : IF k < n THEN leaves[k] \in Commitments
                                        ELSE leaves[k] = NoCommitment
      BY DEF PoolInv, TreeInv
  <2>3. \A k \in nullifiers' : k < n
      BY <1>2 DEF PoolInv, TreeInv
  <2>4. \A k \in LeafIndices : IF k < n + 1 THEN leaves'[k] \in Commitments
                                            ELSE leaves'[k] = NoCommitment
      BY <1>1, <1>2, <2>1, <2>2
  <2>5. \A k \in nullifiers' : k < n + 1
      BY <1>1, <1>2, <2>1, <2>3
  <2> QED BY <1>2, <2>4, <2>5 DEF TreeInv, NoCommitment
<1>4. U \in [LeafIndices -> Nat] /\ AmountOf[c] \in Nat
    BY UnspentValueType, AmountType
<1>5. U[n] = 0 /\ U[i] = Amount(i)
    BY <1>1, PoolAssumption DEF UnspentValue, Amount, PoolInv, TreeInv
<1>6. /\ UnspentValue' \in [LeafIndices -> Nat]
      /\ UnspentValue'[n] = AmountOf[c]
      /\ \A k \in LeafIndices \ {n} : UnspentValue'[k] = V[k]
    BY <1>1, <1>2, <1>4 DEF UnspentValue, Amount
<1>7. PICK P : RunningTotal(P, U) /\ P[MERKLE_TREE_CAPACITY] = WithdrawableAccounting
    BY DEF PoolInv, Backed
<1> HIDE DEF U
<1>8. PICK R : /\ RunningTotal(R, V)
               /\ R[MERKLE_TREE_CAPACITY] = P[MERKLE_TREE_CAPACITY] - U[i]
    BY <1>4, <1>7, RunningTotalSpend
<1>9. V \in [LeafIndices -> Nat] /\ V[n] = 0
    BY <1>1, <1>4, <1>5
<1> HIDE DEF V, n
<1>10. \E Q : /\ RunningTotal(Q, UnspentValue')
              /\ Q[MERKLE_TREE_CAPACITY] = R[MERKLE_TREE_CAPACITY] + UnspentValue'[n]
    BY <1>1, <1>4, <1>6, <1>8, <1>9, RunningTotalInsert
<1> QED BY <1>2, <1>3, <1>5, <1>6, <1>7, <1>8, <1>10

-----------------------------------------------------------------------------
(* Invariance.                                                             *)

(* The part of the invariant that is about the tree and the notes does not *)
(* depend on the rest of the state.                                        *)
LEMMA FrameInv ==
    ASSUME PoolInv, UNCHANGED <<treeVars, nullifiers>>,
           WithdrawableAccounting' = WithdrawableAccounting
    PROVE  TreeTypeOK' /\ TreeInv' /\ RingInv' /\ RootWindow' /\ Backed'
<1>1. UNCHANGED <<commitments, nullifiers, leaves, nextLeafIndex, currentRoot,
                  rootHistory, rootHistoryIndex, acceptedRoots>>
    BY DEF treeVars
<1>2. TreeTypeOK' /\ TreeInv'
    BY <1>1 DEF PoolInv, TypeOK, TreeTypeOK, TreeInv
<1>3. RootWindow'
    BY <1>1 DEF PoolInv, RootWindow
<1>4. RingInv'
    BY <1>1 DEF PoolInv, RingInv, Age
<1>5. UnspentValue' = UnspentValue
    BY <1>1 DEF UnspentValue, Amount
<1>6. Backed'
  <2>1. PICK P : RunningTotal(P, UnspentValue) /\ P[MERKLE_TREE_CAPACITY] = WithdrawableAccounting
      BY DEF PoolInv, Backed
  <2>2. RunningTotal(P, UnspentValue') /\ P[MERKLE_TREE_CAPACITY] = WithdrawableAccounting'
      BY <1>5, <2>1
  <2> QED BY <2>2 DEF Backed
<1> QED BY <1>2, <1>3, <1>4, <1>6

(* The constructor's pool is empty, with the empty tree's root in the ring. *)
LEMMA PoolInitInv == Init => PoolInv
<1> SUFFICES ASSUME Init PROVE PoolInv
    OBVIOUS
<1> USE PoolAssumption, FeeAssumption
<1>1. TypeOK
  <2>1. FeeTypeOK
      BY FeeInitInv DEF Init, FeeInv
  <2>2. leaves \in [LeafIndices -> Commitments \cup {NoCommitment}]
      BY DEF Init
  <2>3. rootHistory \in [0..(ROOT_HISTORY_SIZE - 1) -> 0..MERKLE_TREE_CAPACITY \cup {NoRoot}]
      BY DEF Init
  <2>4. acceptedRoots \subseteq 0..MERKLE_TREE_CAPACITY /\ rootHistoryIndex \in 0..(ROOT_HISTORY_SIZE - 1)
      BY DEF Init
  <2> QED BY <2>1, <2>2, <2>3, <2>4 DEF Init, TypeOK
<1>2. TreeInv
    BY DEF Init, TreeInv, LeafIndices
<1>3. RingInv
    BY DEF Init, RingInv, Age
<1>4. RootWindow
    BY DEF Init, RootWindow
<1>5. BalanceMatchesAccounting
    BY DEF Init, BalanceMatchesAccounting
<1>6. Backed
  <2> DEFINE P == [k \in 0..MERKLE_TREE_CAPACITY |-> 0]
  <2>1. \A i \in LeafIndices : UnspentValue[i] = 0
      BY DEF Init, UnspentValue, Amount
  <2>2. RunningTotal(P, UnspentValue)
      BY <2>1 DEF RunningTotal, LeafIndices
  <2>3. P[MERKLE_TREE_CAPACITY] = WithdrawableAccounting
      BY DEF Init, WithdrawableAccounting
  <2> HIDE DEF P
  <2> QED BY <2>2, <2>3 DEF Backed
<1> QED BY <1>1, <1>2, <1>3, <1>4, <1>5, <1>6 DEF PoolInv

(* deposit: one more leaf, backed by the ether that came with it. *)
LEMMA DepositInv ==
    ASSUME PoolInv, NEW c \in Commitments, NEW amount \in Denominations, Deposit(c, amount)
    PROVE  PoolInv'
<1>1. amount \in Nat /\ AmountOf[c] = amount
    BY PoolAssumption DEF Deposit, DepositCircuit
<1>2. TreeTypeOK' /\ RingInv' /\ RootWindow'
  <2>1. TreeTypeOK /\ RingInv /\ RootWindow
      BY DEF PoolInv, TypeOK, TreeTypeOK
  <2> QED BY <2>1, RecordRootInv DEF Deposit
<1>3. PICK Q : /\ TreeInv'
               /\ RunningTotal(Q, UnspentValue')
               /\ Q[MERKLE_TREE_CAPACITY] = WithdrawableAccounting + AmountOf[c]
    BY InsertNote DEF Deposit
<1>4. TypeOK' /\ BalanceMatchesAccounting'
    BY <1>1, <1>2, SMTT(20) DEF PoolInv, TypeOK, TreeTypeOK, BalanceMatchesAccounting, Deposit, feeVars, FeeTypeOK
<1>5. WithdrawableAccounting' = WithdrawableAccounting + amount
    BY <1>1 DEF PoolInv, TypeOK, WithdrawableAccounting, Deposit
<1> QED BY <1>1, <1>2, <1>3, <1>4, <1>5 DEF PoolInv, Backed

(* privateTransfer: the value moves from one leaf to another. *)
LEMMA PrivateTransferInv ==
    ASSUME PoolInv, NEW i \in LeafIndices, NEW root \in 0..MERKLE_TREE_CAPACITY,
           NEW out \in Commitments, NEW policy, NEW sender,
           PrivateTransfer(i, root, out, policy, sender)
    PROVE  PoolInv'
<1>1. i < nextLeafIndex
    BY DEF PrivateTransfer, IsAcceptedRoot, PrivateTransferCircuit, SpendsLeaf, PoolInv,
           RootWindow, TypeOK, LeafIndices
<1>2. TreeTypeOK' /\ RingInv' /\ RootWindow'
  <2>1. TreeTypeOK /\ RingInv /\ RootWindow
      BY DEF PoolInv, TypeOK, TreeTypeOK
  <2> QED BY <2>1, RecordRootInv DEF PrivateTransfer
<1>3. PICK Q : /\ TreeInv'
               /\ nullifiers' \subseteq LeafIndices
               /\ RunningTotal(Q, UnspentValue')
               /\ Q[MERKLE_TREE_CAPACITY] = WithdrawableAccounting - Amount(i) + AmountOf[out]
    BY <1>1, ReplaceNote DEF PrivateTransfer
<1>4. UNCHANGED <<accruedProtocolFees, feeSweptAccounting, totalDepositedAccounting,
                  totalWithdrawnAccounting, balance, entered>> /\ FeeTypeOK'
    BY DEF PrivateTransfer, accountingVars, feeVars, PoolInv, TypeOK, FeeTypeOK
<1>5. TypeOK' /\ BalanceMatchesAccounting'
    BY <1>2, <1>3, <1>4 DEF PoolInv, TypeOK, TreeTypeOK, BalanceMatchesAccounting
<1>6. /\ WithdrawableAccounting' = WithdrawableAccounting
      /\ WithdrawableAccounting \in Int
    BY <1>4 DEF WithdrawableAccounting, PoolInv, TypeOK
<1>7. Amount(i) = AmountOf[out] /\ AmountOf[out] \in Nat
    BY AmountType DEF PrivateTransfer, PrivateTransferCircuit
<1>8. Q[MERKLE_TREE_CAPACITY] = WithdrawableAccounting'
    BY <1>3, <1>6, <1>7
<1> QED BY <1>2, <1>3, <1>5, <1>8 DEF PoolInv, Backed

(* withdraw, up to the payment: a leaf is spent, less principal, more fees. *)
LEMMA WithdrawInv ==
    ASSUME PoolInv, NEW i \in LeafIndices, NEW root \in 0..MERKLE_TREE_CAPACITY,
           NEW out \in Commitments, NEW gross \in Denominations, NEW policy, NEW sender,
           WithdrawCall(i, root, out, gross, policy, sender)
    PROVE  PoolInv'
<1> DEFINE fee == FeeOf(gross)
<1>1. i < nextLeafIndex
    BY DEF WithdrawCall, IsAcceptedRoot, WithdrawCircuit, SpendsLeaf, PoolInv,
           RootWindow, TypeOK, LeafIndices
<1>2. TreeTypeOK' /\ RingInv' /\ RootWindow'
  <2>1. TreeTypeOK /\ RingInv /\ RootWindow
      BY DEF PoolInv, TypeOK, TreeTypeOK
  <2> QED BY <2>1, RecordRootInv DEF WithdrawCall
<1>3. PICK Q : /\ TreeInv'
               /\ nullifiers' \subseteq LeafIndices
               /\ RunningTotal(Q, UnspentValue')
               /\ Q[MERKLE_TREE_CAPACITY] = WithdrawableAccounting - Amount(i) + AmountOf[out]
    BY <1>1, ReplaceNote DEF WithdrawCall
<1>4. gross \in Nat /\ fee \in 0..gross
    BY FeeBound, PoolAssumption DEF PoolInv, TypeOK, FeeTypeOK
<1>5. Amount(i) = gross + AmountOf[out] /\ AmountOf[out] \in Nat
    BY AmountType DEF WithdrawCall, WithdrawCircuit
<1> HIDE DEF fee
<1>6. /\ accruedProtocolFees' = accruedProtocolFees + fee
      /\ totalWithdrawnAccounting' = totalWithdrawnAccounting + (gross - fee)
      /\ balance' = balance - (gross - fee)
      /\ UNCHANGED <<feeSweptAccounting, totalDepositedAccounting>>
      /\ gross <= balance - UnsweptFees
      /\ entered' = TRUE
    BY DEF WithdrawCall, Liquid, fee
<1>7. FeeTypeOK'
    BY DEF WithdrawCall, feeVars, PoolInv, TypeOK, FeeTypeOK
<1>8. balance' \in Nat
    BY <1>4, <1>6 DEF PoolInv, TypeOK, BalanceMatchesAccounting, UnsweptFees
<1>9. TypeOK' /\ BalanceMatchesAccounting'
    BY <1>2, <1>3, <1>4, <1>6, <1>7, <1>8
       DEF PoolInv, TypeOK, TreeTypeOK, BalanceMatchesAccounting
<1>10. /\ WithdrawableAccounting' = WithdrawableAccounting - gross
       /\ WithdrawableAccounting \in Int
    BY <1>4, <1>6 DEF WithdrawableAccounting, PoolInv, TypeOK
<1>11. Q[MERKLE_TREE_CAPACITY] = WithdrawableAccounting'
    BY <1>3, <1>4, <1>5, <1>10
<1> QED BY <1>2, <1>3, <1>9, <1>11 DEF PoolInv, Backed

(* sweepFees, up to the payment: no more than the fees that are left. *)
LEMMA SweepFeesInv ==
    ASSUME PoolInv, NEW amount \in SweepAmounts, SweepFeesCall(amount)
    PROVE  PoolInv'
<1>1. amount \in Nat /\ feeSweptAccounting + amount <= accruedProtocolFees
    BY PoolAssumption DEF SweepFeesCall, Sweepable
<1>2. WithdrawableAccounting' = WithdrawableAccounting
    BY DEF SweepFeesCall, WithdrawableAccounting
<1>3. TreeTypeOK' /\ TreeInv' /\ RingInv' /\ RootWindow' /\ Backed'
    BY <1>2, FrameInv DEF SweepFeesCall
<1>4. /\ WithdrawableAccounting \in Int /\ WithdrawableAccounting >= 0
  <2>1. PICK P : RunningTotal(P, UnspentValue) /\ P[MERKLE_TREE_CAPACITY] = WithdrawableAccounting
      BY DEF PoolInv, Backed
  <2> QED BY <2>1, PoolAssumption DEF RunningTotal
<1>5. balance - amount \in Nat
    BY <1>1, <1>4 DEF PoolInv, TypeOK, BalanceMatchesAccounting, WithdrawableAccounting
<1>6. FeeTypeOK' /\ nullifiers' = nullifiers
    BY DEF SweepFeesCall, feeVars, PoolInv, TypeOK, FeeTypeOK
<1>7. TypeOK' /\ BalanceMatchesAccounting'
    BY <1>1, <1>3, <1>5, <1>6
       DEF PoolInv, TypeOK, TreeTypeOK, BalanceMatchesAccounting, SweepFeesCall
<1> QED BY <1>3, <1>7 DEF PoolInv

(* The rest of withdraw and sweepFees, after the external call. *)
LEMMA CallReturnsInv == ASSUME PoolInv, CallReturns PROVE PoolInv'
<1>1. UNCHANGED <<treeVars, nullifiers, feeBps, pendingFeeBps, pendingFeeActivationTime,
                  timestamp, quote, accruedProtocolFees, feeSweptAccounting,
                  totalDepositedAccounting, totalWithdrawnAccounting, balance>> /\ entered' = FALSE
    BY DEF CallReturns, feeVars, accountingVars
<1>2. TreeTypeOK' /\ TreeInv' /\ RingInv' /\ RootWindow' /\ Backed'
    BY <1>1, FrameInv DEF WithdrawableAccounting
<1>3. TypeOK' /\ BalanceMatchesAccounting'
    BY <1>1, <1>2 DEF PoolInv, TypeOK, FeeTypeOK, TreeTypeOK, BalanceMatchesAccounting
<1> QED BY <1>2, <1>3 DEF PoolInv

(* Steps that change only the fee state.                                   *)
LEMMA FeeOnlyInv == ASSUME PoolInv, UNCHANGED poolVars, FeeTypeOK' PROVE PoolInv'
<1>1. UNCHANGED <<treeVars, nullifiers, accruedProtocolFees, feeSweptAccounting,
                  totalDepositedAccounting, totalWithdrawnAccounting, balance, entered>>
    BY DEF poolVars, accountingVars
<1>2. TreeTypeOK' /\ TreeInv' /\ RingInv' /\ RootWindow' /\ Backed'
    BY <1>1, FrameInv DEF WithdrawableAccounting
<1>3. TypeOK' /\ BalanceMatchesAccounting'
    BY <1>1, <1>2 DEF PoolInv, TypeOK, TreeTypeOK, BalanceMatchesAccounting
<1> QED BY <1>2, <1>3 DEF PoolInv

(* Every step of the pool is a step of fee governance or leaves it alone.  *)
LEMMA PoolStepIsFeeStep == ASSUME [Next]_vars PROVE [FeeNext]_feeVars
<1>1. CASE FeeStep
    BY <1>1 DEF FeeStep, FeeNext
<1>2. CASE UNCHANGED feeVars
    BY <1>2
<1>3. ASSUME Next, ~FeeStep PROVE UNCHANGED feeVars
  <2>1. \A c, amount : Deposit(c, amount) => UNCHANGED feeVars
      BY DEF Deposit
  <2>2. \A i, root, out, policy, sender :
           PrivateTransfer(i, root, out, policy, sender) => UNCHANGED feeVars
      BY DEF PrivateTransfer
  <2>3. \A i, root, out, gross, policy, sender :
           WithdrawCall(i, root, out, gross, policy, sender) => UNCHANGED feeVars
      BY DEF WithdrawCall
  <2>4. \A amount : SweepFeesCall(amount) => UNCHANGED feeVars
      BY DEF SweepFeesCall
  <2>5. CallReturns => UNCHANGED feeVars
      BY DEF CallReturns
  <2> QED BY <1>3, <2>1, <2>2, <2>3, <2>4, <2>5 DEF Next
<1>4. UNCHANGED vars => UNCHANGED feeVars
    BY DEF vars
<1> QED BY <1>1, <1>2, <1>3, <1>4

(* Every step of the pool keeps the invariant. *)
LEMMA PoolNextInv == ASSUME PoolInv, FeeInv, [Next]_vars PROVE PoolInv'
<1>1. CASE FeeStep \/ UNCHANGED vars
  <2>1. FeeInv'
      BY PoolStepIsFeeStep, FeeStepInv
  <2>2. UNCHANGED poolVars
      BY <1>1 DEF FeeStep, vars
  <2> QED BY <2>1, <2>2, FeeOnlyInv DEF FeeInv
<1>2. CASE \E c \in Commitments, amount \in Denominations : Deposit(c, amount)
    BY <1>2, DepositInv
<1>3. CASE \E i \in LeafIndices, root \in 0..MERKLE_TREE_CAPACITY, out \in Commitments,
              policy \in Policies, sender \in Accounts :
              PrivateTransfer(i, root, out, policy, sender)
    BY <1>3, PrivateTransferInv
<1>4. CASE \E i \in LeafIndices, root \in 0..MERKLE_TREE_CAPACITY, out \in Commitments,
              policy \in Policies, sender \in Accounts, gross \in Denominations :
              WithdrawCall(i, root, out, gross, policy, sender)
    BY <1>4, WithdrawInv
<1>5. CASE \E amount \in SweepAmounts : SweepFeesCall(amount)
    BY <1>5, SweepFeesInv
<1>6. CASE CallReturns
    BY <1>6, CallReturnsInv
<1> QED BY <1>1, <1>2, <1>3, <1>4, <1>5, <1>6 DEF Next

-----------------------------------------------------------------------------
(* Results.                                                                *)

(* The pool implements fee governance: deposits, transfers, withdrawals    *)
(* and sweeps never touch the fee state, and reentrant governance calls    *)
(* are ordinary ones.                                                      *)
THEOREM PoolImplementsFeePolicy == Spec => FeeSpec
<1>1. Init => FeeInit
    BY DEF Init
<1>2. [Next]_vars => [FeeNext]_feeVars
    BY PoolStepIsFeeStep
<1> QED BY <1>1, <1>2, PTL DEF Spec, FeeSpec

(* The pool's inductive invariant: well-formed state, the leaves filled    *)
(* from the left, the ring of roots, and accounting backed by the notes    *)
(* (deposit, privateTransfer, withdraw, sweepFees and the fee setters).    *)
THEOREM PoolInvariant == Spec => [](PoolInv /\ FeeInv)
<1>1. Init => PoolInv /\ FeeInv
    BY PoolInitInv, FeeInitInv DEF Init
<1>2. (PoolInv /\ FeeInv) /\ [Next]_vars => (PoolInv /\ FeeInv)'
    BY PoolNextInv, PoolStepIsFeeStep, FeeStepInv
<1> QED BY <1>1, <1>2, PTL DEF Spec

(* The types of the contract's state, in every reachable state.            *)
THEOREM PoolTypeCorrect == Spec => []TypeOK
<1>1. PoolInv => TypeOK
    BY DEF PoolInv
<1> QED BY <1>1, PoolInvariant, PTL

(* The ether held matches the accounting at every step of every call.      *)
THEOREM PoolSolvent == Spec => []BalanceMatchesAccounting
<1>1. PoolInv => BalanceMatchesAccounting
    BY DEF PoolInv
<1> QED BY <1>1, PoolInvariant, PTL

(* The accepted roots are the last ROOT_HISTORY_SIZE roots.                *)
THEOREM PoolRootWindow == Spec => []RootWindow
<1>1. PoolInv => RootWindow
    BY DEF PoolInv
<1> QED BY <1>1, PoolInvariant, PTL

(* The liquidity and root checks of withdraw never stop the owner of an    *)
(* unspent note from taking out all of it while the tree has room.         *)
THEOREM PoolPrincipalNeverStuck == Spec => []PrincipalNeverStuck
<1>1. ASSUME PoolInv PROVE PrincipalNeverStuck
  <2> SUFFICES ASSUME NEW i \in UnspentNotes
               PROVE  /\ \E root \in acceptedRoots : IsAcceptedRoot(root) /\ SpendsLeaf(i, root)
                      /\ Liquid(Amount(i))
      BY DEF PrincipalNeverStuck
  <2>1. i \in LeafIndices /\ i < nextLeafIndex /\ i \notin nullifiers
      BY DEF UnspentNotes
  <2>2. nextLeafIndex \in acceptedRoots /\ nextLeafIndex # NoRoot
      BY <1>1, PoolAssumption DEF PoolInv, TypeOK, RootWindow, NoRoot
  <2>3. UnspentValue[i] = Amount(i)
      BY <2>1 DEF UnspentValue
  <2>4. PICK P : RunningTotal(P, UnspentValue) /\ P[MERKLE_TREE_CAPACITY] = WithdrawableAccounting
      BY <1>1 DEF PoolInv, Backed
  <2>5. UnspentValue[i] <= P[MERKLE_TREE_CAPACITY]
      BY <2>1, <2>4, RunningTotalBounds, UnspentValueType
  <2>6. Amount(i) <= WithdrawableAccounting /\ Amount(i) \in Nat
      BY <2>1, <2>3, <2>4, <2>5, AmountType
  <2>7. Liquid(Amount(i))
      BY <1>1, <2>6 DEF Liquid, PoolInv, TypeOK, BalanceMatchesAccounting,
                        WithdrawableAccounting, UnsweptFees
  <2> QED BY <2>1, <2>2, <2>7 DEF IsAcceptedRoot, SpendsLeaf
<1> QED BY <1>1, PoolInvariant, PTL

(* No step un-spends a note or rewrites a leaf.                            *)
THEOREM PoolAppendOnly == Spec => AppendOnly
<1> DEFINE Grows == /\ nullifiers \subseteq nullifiers'
                    /\ nextLeafIndex <= nextLeafIndex'
                    /\ \A i \in LeafIndices : i < nextLeafIndex => leaves'[i] = leaves[i]
<1>1. ASSUME PoolInv, [Next]_vars PROVE [Grows]_vars
  <2>1. nextLeafIndex \in Nat /\ leaves \in [LeafIndices -> Commitments \cup {NoCommitment}]
      BY <1>1 DEF PoolInv, TypeOK
  <2>2. ASSUME NEW c, RecordCommitmentRoot(c)
        PROVE  /\ nextLeafIndex <= nextLeafIndex'
               /\ \A i \in LeafIndices : i < nextLeafIndex => leaves'[i] = leaves[i]
      BY <2>1, <2>2 DEF RecordCommitmentRoot, LeafIndices
  <2>3. ASSUME UNCHANGED <<treeVars, nullifiers>> PROVE Grows
      BY <2>1, <2>3 DEF treeVars
  <2>4. ASSUME Next PROVE Grows
    <3>1. CASE FeeStep \/ CallReturns \/ \E amount \in SweepAmounts : SweepFeesCall(amount)
      <4>1. UNCHANGED <<treeVars, nullifiers>>
          BY <3>1 DEF FeeStep, CallReturns, SweepFeesCall, poolVars
      <4> QED BY <2>3, <4>1
    <3>2. CASE \E c \in Commitments, amount \in Denominations : Deposit(c, amount)
        BY <2>2, <3>2 DEF Deposit
    <3>3. CASE \E i \in LeafIndices, root \in 0..MERKLE_TREE_CAPACITY, out \in Commitments,
                  policy \in Policies, sender \in Accounts :
                  PrivateTransfer(i, root, out, policy, sender)
        BY <2>2, <3>3 DEF PrivateTransfer, MarkSpent
    <3>4. CASE \E i \in LeafIndices, root \in 0..MERKLE_TREE_CAPACITY, out \in Commitments,
                  policy \in Policies, sender \in Accounts, gross \in Denominations :
                  WithdrawCall(i, root, out, gross, policy, sender)
        BY <2>2, <3>4 DEF WithdrawCall, MarkSpent
    <3> QED BY <2>4, <3>1, <3>2, <3>3, <3>4 DEF Next
  <2> QED BY <1>1, <2>4
<1>2. AppendOnly <=> [][Grows]_vars
    BY DEF AppendOnly
<1> QED BY <1>1, <1>2, PoolInvariant, PTL DEF Spec
-----------------------------------------------------------------------------
(* The ledger.                                                             *)

(* What an insertion does to the worth of the notes. *)
LEMMA LedgerInsert ==
    ASSUME PoolInv, NEW c \in Commitments, RecordCommitmentRoot(c), UNCHANGED nullifiers
    PROVE  /\ nextLeafIndex \in LeafIndices /\ UnspentValue[nextLeafIndex] = 0
           /\ UnspentValue' = [UnspentValue EXCEPT ![nextLeafIndex] = AmountOf[c]]
<1> DEFINE n == nextLeafIndex
<1>1. n \in LeafIndices /\ n \notin nullifiers /\ leaves[n] = NoCommitment
    BY PoolAssumption DEF PoolInv, TypeOK, TreeInv, RecordCommitmentRoot, LeafIndices
<1>2. leaves \in [LeafIndices -> Commitments \cup {NoCommitment}] /\ leaves' = [leaves EXCEPT ![n] = c]
    BY DEF PoolInv, TypeOK, RecordCommitmentRoot
<1>3. UnspentValue[n] = 0
    BY <1>1, PoolAssumption DEF UnspentValue, Amount
<1>4. ASSUME NEW k \in LeafIndices
      PROVE  UnspentValue'[k] = [UnspentValue EXCEPT ![n] = AmountOf[c]][k]
    BY <1>1, <1>2 DEF UnspentValue, Amount
<1>5. UnspentValue' = [k \in LeafIndices |-> UnspentValue'[k]]
    BY DEF UnspentValue
<1>6. UnspentValue = [k \in LeafIndices |-> UnspentValue[k]]
    BY DEF UnspentValue
<1> QED BY <1>1, <1>3, <1>4, <1>5, <1>6

(* What a spend does to it. *)
LEMMA LedgerReplace ==
    ASSUME PoolInv, NEW c \in Commitments, RecordCommitmentRoot(c),
           NEW i \in LeafIndices, i < nextLeafIndex, i \notin nullifiers, MarkSpent(i)
    PROVE  /\ nextLeafIndex \in LeafIndices /\ i # nextLeafIndex
           /\ UnspentValue[nextLeafIndex] = 0 /\ UnspentValue[i] = Amount(i)
           /\ UnspentValue' = [UnspentValue EXCEPT ![i] = 0, ![nextLeafIndex] = AmountOf[c]]
<1> DEFINE n == nextLeafIndex
<1>1. n \in LeafIndices /\ n \notin nullifiers /\ leaves[n] = NoCommitment /\ n # i
    BY PoolAssumption DEF PoolInv, TypeOK, TreeInv, RecordCommitmentRoot, LeafIndices
<1>2. /\ leaves \in [LeafIndices -> Commitments \cup {NoCommitment}]
      /\ leaves' = [leaves EXCEPT ![n] = c]
      /\ nullifiers' = nullifiers \cup {i}
    BY DEF PoolInv, TypeOK, RecordCommitmentRoot, MarkSpent
<1>3. UnspentValue[n] = 0 /\ UnspentValue[i] = Amount(i)
    BY <1>1, PoolAssumption DEF UnspentValue, Amount
<1>4. ASSUME NEW k \in LeafIndices
      PROVE  UnspentValue'[k] = [UnspentValue EXCEPT ![i] = 0, ![n] = AmountOf[c]][k]
    BY <1>1, <1>2 DEF UnspentValue, Amount
<1>5. UnspentValue' = [k \in LeafIndices |-> UnspentValue'[k]]
    BY DEF UnspentValue
<1>6. UnspentValue = [k \in LeafIndices |-> UnspentValue[k]]
    BY DEF UnspentValue
<1> QED BY <1>1, <1>3, <1>4, <1>5, <1>6

(* deposit pays in. *)
LEMMA DepositPaysIn ==
    ASSUME PoolInv, NEW c \in Commitments, NEW amount \in Denominations, Deposit(c, amount)
    PROVE  Ledger!LedgerNext
<1>1. /\ nextLeafIndex \in LeafIndices /\ UnspentValue[nextLeafIndex] = 0
      /\ UnspentValue' = [UnspentValue EXCEPT ![nextLeafIndex] = amount]
    BY LedgerInsert DEF Deposit, DepositCircuit
<1>2. balance' = balance + amount /\ UNCHANGED UnsweptFees
    BY DEF Deposit, UnsweptFees
<1>3. Ledger!PayIn(nextLeafIndex, amount)
    BY <1>1, <1>2 DEF Ledger!PayIn
<1> QED BY <1>1, <1>3 DEF Ledger!LedgerNext

(* privateTransfer moves a note. *)
LEMMA PrivateTransferMoves ==
    ASSUME PoolInv, NEW i \in LeafIndices, NEW root \in 0..MERKLE_TREE_CAPACITY,
           NEW out \in Commitments, NEW policy, NEW sender,
           PrivateTransfer(i, root, out, policy, sender)
    PROVE  Ledger!LedgerNext
<1>1. i < nextLeafIndex
    BY DEF PrivateTransfer, IsAcceptedRoot, PrivateTransferCircuit, SpendsLeaf, PoolInv,
           RootWindow, TypeOK, LeafIndices
<1>2. /\ nextLeafIndex \in LeafIndices /\ i # nextLeafIndex
      /\ UnspentValue[nextLeafIndex] = 0 /\ UnspentValue[i] = Amount(i)
      /\ UnspentValue' = [UnspentValue EXCEPT ![i] = 0, ![nextLeafIndex] = AmountOf[out]]
    BY <1>1, LedgerReplace DEF PrivateTransfer
<1>3. Amount(i) > 0 /\ AmountOf[out] = Amount(i)
  <2>1. Amount(i) \in Denominations /\ AmountOf[out] = Amount(i)
      BY DEF PrivateTransfer, PrivateTransferCircuit
  <2>2. \A d \in Denominations : d > 0
      BY PoolAssumption
  <2> QED BY <2>1, <2>2
<1>4. UNCHANGED <<UnsweptFees, balance>>
    BY DEF PrivateTransfer, accountingVars, UnsweptFees
<1>5. Ledger!Move(i, nextLeafIndex)
    BY <1>2, <1>3, <1>4 DEF Ledger!Move
<1> QED BY <1>2, <1>5 DEF Ledger!LedgerNext

(* withdraw, up to the payment, pays out of one note. *)
LEMMA WithdrawPaysOut ==
    ASSUME PoolInv, NEW i \in LeafIndices, NEW root \in 0..MERKLE_TREE_CAPACITY,
           NEW out \in Commitments, NEW gross \in Denominations, NEW policy, NEW sender,
           WithdrawCall(i, root, out, gross, policy, sender)
    PROVE  Ledger!LedgerNext
<1> DEFINE fee == FeeOf(gross)
<1>1. i < nextLeafIndex
    BY DEF WithdrawCall, IsAcceptedRoot, WithdrawCircuit, SpendsLeaf, PoolInv,
           RootWindow, TypeOK, LeafIndices
<1>2. /\ nextLeafIndex \in LeafIndices /\ i # nextLeafIndex
      /\ UnspentValue[nextLeafIndex] = 0 /\ UnspentValue[i] = Amount(i)
      /\ UnspentValue' = [UnspentValue EXCEPT ![i] = 0, ![nextLeafIndex] = AmountOf[out]]
    BY <1>1, LedgerReplace DEF WithdrawCall
<1>3. gross \in Nat \ {0} /\ fee \in 0..gross
    BY FeeBound, PoolAssumption DEF PoolInv, TypeOK, FeeTypeOK
<1>4. Amount(i) = gross + AmountOf[out] /\ AmountOf[out] \in Nat
    BY AmountType DEF WithdrawCall, WithdrawCircuit
<1> HIDE DEF fee
<1>5. gross \in 1..UnspentValue[i] /\ AmountOf[out] = UnspentValue[i] - gross
    BY <1>2, <1>3, <1>4
<1>6. UnsweptFees' = UnsweptFees + fee /\ balance' = balance - (gross - fee)
    BY <1>3, SMTT(20) DEF WithdrawCall, UnsweptFees, fee, PoolInv, TypeOK
<1>7. Ledger!PayOut(i, nextLeafIndex, gross, fee)
    BY <1>2, <1>5, <1>6 DEF Ledger!PayOut
<1> QED BY <1>2, <1>3, <1>5, <1>7 DEF Ledger!LedgerNext

(* sweepFees, up to the payment, takes fees and nothing else. *)
LEMMA SweepTakesFees ==
    ASSUME PoolInv, NEW amount \in SweepAmounts, SweepFeesCall(amount)
    PROVE  Ledger!LedgerNext
<1>1. amount \in Nat \ {0} /\ amount \in 1..UnsweptFees
    BY PoolAssumption DEF SweepFeesCall, Sweepable, UnsweptFees, PoolInv, TypeOK
<1>2. UNCHANGED UnspentValue
    BY DEF SweepFeesCall, treeVars, UnspentValue, Amount
<1>3. UnsweptFees' = UnsweptFees - amount /\ balance' = balance - amount
    BY <1>1 DEF SweepFeesCall, UnsweptFees, PoolInv, TypeOK
<1>4. Ledger!SweepOut(amount)
    BY <1>2, <1>3 DEF Ledger!SweepOut
<1> QED BY <1>1, <1>4 DEF Ledger!LedgerNext

(* The pool implements the ledger of ShieldedLedger: whatever is proved    *)
(* with deposit, privateTransfer, withdraw and sweepFees, in whatever      *)
(* order and from inside whatever external call, notes keep their worth    *)
(* until they are spent, are spent once, and pay out no more than that.    *)
THEOREM PoolImplementsLedger == Spec => ImplementsLedger
<1>1. Init => Ledger!LedgerInit
  <2> SUFFICES ASSUME Init PROVE Ledger!LedgerInit
      OBVIOUS
  <2>1. UnspentValue = [i \in LeafIndices |-> 0]
      BY PoolAssumption DEF Init, UnspentValue, Amount
  <2> QED BY <2>1 DEF Init, Ledger!LedgerInit, UnsweptFees
<1>2. ASSUME PoolInv, [Next]_vars PROVE [Ledger!LedgerNext]_(Ledger!ledgerVars)
  <2>1. CASE FeeStep \/ CallReturns \/ UNCHANGED vars
    <3>1. UNCHANGED <<nullifiers, leaves, accruedProtocolFees, feeSweptAccounting, balance>>
        BY <2>1 DEF FeeStep, CallReturns, vars, poolVars, treeVars, accountingVars
    <3> QED BY <3>1 DEF Ledger!ledgerVars, UnspentValue, Amount, UnsweptFees
  <2>2. CASE \E c \in Commitments, amount \in Denominations : Deposit(c, amount)
      BY <1>2, <2>2, DepositPaysIn
  <2>3. CASE \E i \in LeafIndices, root \in 0..MERKLE_TREE_CAPACITY, out \in Commitments,
                policy \in Policies, sender \in Accounts :
                PrivateTransfer(i, root, out, policy, sender)
      BY <1>2, <2>3, PrivateTransferMoves
  <2>4. CASE \E i \in LeafIndices, root \in 0..MERKLE_TREE_CAPACITY, out \in Commitments,
                policy \in Policies, sender \in Accounts, gross \in Denominations :
                WithdrawCall(i, root, out, gross, policy, sender)
      BY <1>2, <2>4, WithdrawPaysOut
  <2>5. CASE \E amount \in SweepAmounts : SweepFeesCall(amount)
      BY <1>2, <2>5, SweepTakesFees
  <2> QED BY <1>2, <2>1, <2>2, <2>3, <2>4, <2>5 DEF Next
<1> QED BY <1>1, <1>2, PoolInvariant, PTL DEF Spec, ImplementsLedger, Ledger!LedgerSpec

-----------------------------------------------------------------------------
(***************************************************************************)
(* The log.                                                                *)
(*                                                                         *)
(* Insertions write their root events at once, a withdrawal its note       *)
(* events only when its external call returns, after those of whatever     *)
(* was called meanwhile. So the invariant counts, next to the state, what  *)
(* the open call still owes the log.                                       *)
(***************************************************************************)
Events ==
    [event : {"RootExpired", "RootAccepted"}, root : Nat]
        \cup [event : {"NullifierSpent"}, nullifier : LeafIndices]
        \cup [event : {"NoteCreated"}, commitment : Commitments, leafIndex : LeafIndices]

EventsIn(L, kind) == {k \in 1..Len(L) : L[k].event = kind}

(* The roots up to n are announced, in order. *)
AcceptedLogged(L, n) ==
    LET ks == EventsIn(L, "RootAccepted")
    IN  /\ IsFiniteSet(ks) /\ Cardinality(ks) = n + 1
        /\ \A j, k \in ks : j < k => L[j].root < L[k].root
        /\ \A k \in ks : L[k].root \in 0..n
        /\ \A r \in 0..n : \E k \in ks : L[k].root = r

(* Those that have left the ring are announced as expired. *)
ExpiredLogged(L, n) ==
    LET ks == EventsIn(L, "RootExpired")
    IN  /\ \A k \in ks : L[k].root \in Nat /\ L[k].root + ROOT_HISTORY_SIZE <= n
        /\ \A r \in Nat : r + ROOT_HISTORY_SIZE <= n => \E k \in ks : L[k].root = r

(* The nullifiers ns are announced once each. *)
SpentLogged(L, ns) ==
    LET ks == EventsIn(L, "NullifierSpent")
    IN  /\ IsFiniteSet(ks) /\ IsFiniteSet(ns) /\ Cardinality(ks) = Cardinality(ns)
        /\ \A k \in ks : L[k].nullifier \in ns
        /\ \A i \in ns : \E k \in ks : L[k].nullifier = i

(* So are the leaves is of the tree T, each with its commitment. *)
NotesLogged(L, is, T) ==
    LET ks == EventsIn(L, "NoteCreated")
    IN  /\ IsFiniteSet(ks) /\ IsFiniteSet(is) /\ Cardinality(ks) = Cardinality(is)
        /\ \A i \in is : \E k \in ks : L[k] = NoteCreated(T[i], i)

Written == 0..(nextLeafIndex - 1)

(* What is logged when no call is open, and what when one is. *)
NothingOwed ==
    /\ pendingEvents = << >>
    /\ SpentLogged(log, nullifiers)
    /\ NotesLogged(log, Written, leaves)

Owed(i, n) ==
    /\ pendingEvents = <<NullifierSpent(i), NoteCreated(leaves[n], n)>>
    /\ i \in nullifiers /\ SpentLogged(log, nullifiers \ {i})
    /\ n \in Written /\ NotesLogged(log, Written \ {n}, leaves)

LogInv ==
    /\ log \in Seq(Events)
    /\ AcceptedLogged(log, nextLeafIndex)
    /\ ExpiredLogged(log, nextLeafIndex)
    /\ \/ NothingOwed
       \/ entered /\ \E i \in nullifiers, n \in Written : Owed(i, n)

-----------------------------------------------------------------------------
(* One more event.                                                         *)
Extends(L, M, e) ==
    /\ M \in Seq(Events) /\ Len(L) \in Nat /\ Len(M) = Len(L) + 1
    /\ \A k \in 1..Len(L) : M[k] = L[k]
    /\ M[Len(M)] = e

LEMMA EventsTyped ==
    /\ \A r \in Nat : /\ RootExpired(r) \in Events /\ RootAccepted(r) \in Events
                      /\ RootExpired(r).event = "RootExpired" /\ RootExpired(r).root = r
                      /\ RootAccepted(r).event = "RootAccepted" /\ RootAccepted(r).root = r
    /\ \A i \in LeafIndices : /\ NullifierSpent(i) \in Events
                              /\ NullifierSpent(i).event = "NullifierSpent"
                              /\ NullifierSpent(i).nullifier = i
    /\ \A i \in LeafIndices, c \in Commitments : /\ NoteCreated(c, i) \in Events
                                                 /\ NoteCreated(c, i).event = "NoteCreated"
BY DEF Events, RootExpired, RootAccepted, NullifierSpent, NoteCreated

LEMMA AppendExtends ==
    ASSUME NEW L \in Seq(Events), NEW e \in Events
    PROVE  Extends(L, Append(L, e), e)
BY DEF Extends

LEMMA ConcatOne ==
    ASSUME NEW L \in Seq(Events), NEW a \in Events
    PROVE  L \o <<a>> = Append(L, a)
OBVIOUS

LEMMA ConcatTwo ==
    ASSUME NEW L \in Seq(Events), NEW a \in Events, NEW b \in Events
    PROVE  L \o <<a, b>> = Append(Append(L, a), b)
OBVIOUS

LEMMA PairOf ==
    ASSUME NEW a, NEW b
    PROVE  <<a>> \o <<b>> = <<a, b>> /\ << >> \o <<b>> = <<b>>
<1> DEFINE S == {a, b}
<1>1. <<a>> \in Seq(S) /\ <<b>> \in Seq(S) /\ << >> \in Seq(S) /\ <<a, b>> \in Seq(S)
    OBVIOUS
<1>2. /\ Len(<<a>> \o <<b>>) = 2 /\ (<<a>> \o <<b>>)[1] = a /\ (<<a>> \o <<b>>)[2] = b
      /\ Len(<< >> \o <<b>>) = 1 /\ (<< >> \o <<b>>)[1] = b
      /\ <<a>> \o <<b>> \in Seq(S) /\ << >> \o <<b>> \in Seq(S)
    BY <1>1
<1> DEFINE P == <<a>> \o <<b>>
           Q == << >> \o <<b>>
<1>3. P \in Seq(S) /\ Len(P) = 2 /\ P[1] = a /\ P[2] = b
    BY <1>2
<1>4. Q \in Seq(S) /\ Len(Q) = 1 /\ Q[1] = b
    BY <1>2
<1> HIDE DEF P, Q
<1>5. P = <<a, b>> /\ Q = <<b>>
    BY <1>3, <1>4
<1> QED BY <1>5 DEF P, Q

LEMMA OtherKind ==
    ASSUME NEW L, NEW M, NEW e, Extends(L, M, e), NEW kind, e.event # kind
    PROVE  /\ EventsIn(M, kind) = EventsIn(L, kind)
           /\ \A k \in EventsIn(L, kind) : M[k] = L[k]
BY DEF Extends, EventsIn

LEMMA SameKind ==
    ASSUME NEW L, NEW M, NEW e, Extends(L, M, e), NEW kind, e.event = kind
    PROVE  /\ EventsIn(M, kind) = EventsIn(L, kind) \cup {Len(M)}
           /\ Len(M) \notin EventsIn(L, kind) /\ M[Len(M)] = e
           /\ \A k \in EventsIn(L, kind) : k \in Nat /\ k < Len(M) /\ M[k] = L[k]
BY DEF Extends, EventsIn

(* An event of another kind leaves the record of a kind alone. *)
LEMMA OtherEventsKept ==
    ASSUME NEW L, NEW M, NEW e, Extends(L, M, e)
    PROVE  /\ e.event # "RootAccepted" => \A n : AcceptedLogged(L, n) => AcceptedLogged(M, n)
           /\ e.event # "RootExpired" => \A n : ExpiredLogged(L, n) => ExpiredLogged(M, n)
           /\ e.event # "NullifierSpent" => \A ns : SpentLogged(L, ns) => SpentLogged(M, ns)
           /\ e.event # "NoteCreated" => \A is, T : NotesLogged(L, is, T) => NotesLogged(M, is, T)
<1>1. e.event # "RootAccepted" => \A n : AcceptedLogged(L, n) => AcceptedLogged(M, n)
    BY OtherKind DEF AcceptedLogged
<1>2. e.event # "RootExpired" => \A n : ExpiredLogged(L, n) => ExpiredLogged(M, n)
    BY OtherKind DEF ExpiredLogged
<1>3. e.event # "NullifierSpent" => \A ns : SpentLogged(L, ns) => SpentLogged(M, ns)
    BY OtherKind DEF SpentLogged
<1>4. e.event # "NoteCreated" => \A is, T : NotesLogged(L, is, T) => NotesLogged(M, is, T)
    BY OtherKind DEF NotesLogged
<1> QED BY <1>1, <1>2, <1>3, <1>4

LEMMA AcceptanceLogged ==
    ASSUME NEW L, NEW M, NEW n \in Nat, Extends(L, M, RootAccepted(n + 1)), AcceptedLogged(L, n)
    PROVE  AcceptedLogged(M, n + 1)
<1> DEFINE ks == EventsIn(L, "RootAccepted")
           e == RootAccepted(n + 1)
<1>1. e.event = "RootAccepted" /\ e.root = n + 1
    BY EventsTyped
<1> HIDE DEF e
<1>2. /\ EventsIn(M, "RootAccepted") = ks \cup {Len(M)}
      /\ Len(M) \notin ks /\ M[Len(M)].root = n + 1
      /\ \A k \in ks : k \in Nat /\ k < Len(M) /\ M[k] = L[k]
    BY <1>1, SameKind DEF e
<1>3. /\ IsFiniteSet(ks) /\ Cardinality(ks) = n + 1
      /\ \A j, k \in ks : j < k => L[j].root < L[k].root
      /\ \A k \in ks : L[k].root \in 0..n
      /\ \A r \in 0..n : \E k \in ks : L[k].root = r
    BY DEF AcceptedLogged
<1>4. Len(M) \in Nat
    BY DEF Extends
<1> HIDE DEF ks
<1>5. IsFiniteSet(ks \cup {Len(M)}) /\ Cardinality(ks \cup {Len(M)}) = n + 1 + 1
    BY <1>2, <1>3, FS_AddElement
<1>6. ASSUME NEW j \in ks \cup {Len(M)}, NEW k \in ks \cup {Len(M)}, j < k
      PROVE  M[j].root < M[k].root
  <2>1. j \in ks
      BY <1>2, <1>4, <1>6
  <2>2. M[j].root = L[j].root /\ L[j].root \in 0..n
      BY <1>2, <1>3, <2>1
  <2>3. CASE k \in ks
      BY <1>2, <1>3, <1>6, <2>1, <2>3
  <2>4. CASE k = Len(M)
      BY <1>2, <2>2, <2>4
  <2> QED BY <2>3, <2>4
<1>7. \A k \in ks \cup {Len(M)} : M[k].root \in 0..(n + 1)
    BY <1>2, <1>3
<1>8. \A r \in 0..(n + 1) : \E k \in ks \cup {Len(M)} : M[k].root = r
  <2>1. ASSUME NEW r \in 0..n PROVE \E k \in ks \cup {Len(M)} : M[k].root = r
      BY <1>2, <1>3
  <2>2. \E k \in ks \cup {Len(M)} : M[k].root = n + 1
      BY <1>2
  <2>3. \A r \in 0..(n + 1) : r \in 0..n \/ r = n + 1
      OBVIOUS
  <2> QED BY <2>1, <2>2, <2>3
<1> QED BY <1>2, <1>5, <1>6, <1>7, <1>8 DEF AcceptedLogged

LEMMA ExpiryLogged ==
    ASSUME NEW L, NEW M, NEW n \in Nat, NEW r \in Nat, r + ROOT_HISTORY_SIZE = n + 1,
           Extends(L, M, RootExpired(r)), ExpiredLogged(L, n)
    PROVE  ExpiredLogged(M, n + 1)
<1> DEFINE ks == EventsIn(L, "RootExpired")
           e == RootExpired(r)
<1>1. e.event = "RootExpired" /\ e.root = r
    BY EventsTyped
<1> HIDE DEF e
<1>2. /\ EventsIn(M, "RootExpired") = ks \cup {Len(M)}
      /\ M[Len(M)].root = r
      /\ \A k \in ks : M[k] = L[k]
    BY <1>1, SameKind DEF e
<1>3. ROOT_HISTORY_SIZE \in Nat
    BY PoolAssumption
<1> HIDE DEF ks
<1>4. /\ \A k \in ks : L[k].root \in Nat /\ L[k].root + ROOT_HISTORY_SIZE <= n
      /\ \A s \in Nat : s + ROOT_HISTORY_SIZE <= n => \E k \in ks : L[k].root = s
    BY DEF ExpiredLogged, ks
<1>5. \A k \in ks \cup {Len(M)} : M[k].root \in Nat /\ M[k].root + ROOT_HISTORY_SIZE <= n + 1
    BY <1>2, <1>3, <1>4
<1>6. ASSUME NEW s \in Nat, s + ROOT_HISTORY_SIZE <= n + 1
      PROVE  \E k \in ks \cup {Len(M)} : M[k].root = s
  <2>1. CASE s = r
      BY <1>2, <2>1
  <2>2. CASE s # r
    <3>1. s + ROOT_HISTORY_SIZE <= n
        BY <1>3, <1>6, <2>2
    <3>2. PICK k \in ks : L[k].root = s
        BY <1>4, <3>1
    <3> QED BY <1>2, <3>2
  <2> QED BY <2>1, <2>2
<1> QED BY <1>2, <1>5, <1>6 DEF ExpiredLogged

LEMMA BothGrow ==
    ASSUME NEW A, NEW B, IsFiniteSet(A), IsFiniteSet(B), Cardinality(A) = Cardinality(B),
           NEW a, a \notin A, NEW b, b \notin B
    PROVE  /\ IsFiniteSet(A \cup {a}) /\ IsFiniteSet(B \cup {b})
           /\ Cardinality(A \cup {a}) = Cardinality(B \cup {b})
<1>1. IsFiniteSet(A \cup {a}) /\ Cardinality(A \cup {a}) = Cardinality(A) + 1
    BY FS_AddElement
<1>2. IsFiniteSet(B \cup {b}) /\ Cardinality(B \cup {b}) = Cardinality(B) + 1
    BY FS_AddElement
<1> QED BY <1>1, <1>2

LEMMA SpendLogged ==
    ASSUME NEW L, NEW M, NEW i \in LeafIndices, Extends(L, M, NullifierSpent(i)),
           NEW ns, SpentLogged(L, ns), i \notin ns
    PROVE  SpentLogged(M, ns \cup {i})
<1> DEFINE ks == EventsIn(L, "NullifierSpent")
           e == NullifierSpent(i)
<1>1. e.event = "NullifierSpent" /\ e.nullifier = i
    BY EventsTyped
<1> HIDE DEF e
<1>2. /\ EventsIn(M, "NullifierSpent") = ks \cup {Len(M)}
      /\ Len(M) \notin ks /\ M[Len(M)].nullifier = i
      /\ \A k \in ks : M[k] = L[k]
    BY <1>1, SameKind DEF e
<1> HIDE DEF ks
<1>3. /\ IsFiniteSet(ks) /\ IsFiniteSet(ns) /\ Cardinality(ks) = Cardinality(ns)
      /\ \A k \in ks : L[k].nullifier \in ns
      /\ \A j \in ns : \E k \in ks : L[k].nullifier = j
    BY DEF SpentLogged, ks
<1>4. /\ IsFiniteSet(ks \cup {Len(M)}) /\ IsFiniteSet(ns \cup {i})
      /\ Cardinality(ks \cup {Len(M)}) = Cardinality(ns \cup {i})
    BY <1>2, <1>3, BothGrow
<1>5. \A k \in ks \cup {Len(M)} : M[k].nullifier \in ns \cup {i}
    BY <1>2, <1>3
<1>6. \A j \in ns \cup {i} : \E k \in ks \cup {Len(M)} : M[k].nullifier = j
    BY <1>2, <1>3
<1> QED BY <1>2, <1>4, <1>5, <1>6 DEF SpentLogged

LEMMA CreationLogged ==
    ASSUME NEW L, NEW M, NEW i \in LeafIndices, NEW T, T[i] \in Commitments,
           Extends(L, M, NoteCreated(T[i], i)),
           NEW is, NotesLogged(L, is, T), i \notin is
    PROVE  NotesLogged(M, is \cup {i}, T)
<1> DEFINE ks == EventsIn(L, "NoteCreated")
           e == NoteCreated(T[i], i)
<1>1. e.event = "NoteCreated"
    BY EventsTyped
<1> HIDE DEF e
<1>2. /\ EventsIn(M, "NoteCreated") = ks \cup {Len(M)}
      /\ Len(M) \notin ks /\ M[Len(M)] = e
      /\ \A k \in ks : M[k] = L[k]
    BY <1>1, SameKind DEF e
<1> HIDE DEF ks
<1>3. /\ IsFiniteSet(ks) /\ IsFiniteSet(is) /\ Cardinality(ks) = Cardinality(is)
      /\ \A j \in is : \E k \in ks : L[k] = NoteCreated(T[j], j)
    BY DEF NotesLogged, ks
<1>4. /\ IsFiniteSet(ks \cup {Len(M)}) /\ IsFiniteSet(is \cup {i})
      /\ Cardinality(ks \cup {Len(M)}) = Cardinality(is \cup {i})
  <2> DEFINE m == Len(M)
  <2>1. m \notin ks
      BY <1>2
  <2> HIDE DEF m
  <2>2. /\ IsFiniteSet(ks \cup {m}) /\ IsFiniteSet(is \cup {i})
        /\ Cardinality(ks \cup {m}) = Cardinality(is \cup {i})
      BY <1>3, <2>1, BothGrow
  <2> QED BY <2>2 DEF m
<1>5. \A j \in is \cup {i} : \E k \in ks \cup {Len(M)} : M[k] = NoteCreated(T[j], j)
    BY <1>2, <1>3 DEF e
<1> QED BY <1>2, <1>4, <1>5 DEF NotesLogged

-----------------------------------------------------------------------------
(* The events of the handlers.                                             *)

(* An insertion expires the root that is ROOT_HISTORY_SIZE older.          *)
LEMMA RootEventsAre ==
    ASSUME TreeTypeOK, RingInv, nextLeafIndex < MERKLE_TREE_CAPACITY
    PROVE  RootEvents =
             IF nextLeafIndex + 1 >= ROOT_HISTORY_SIZE
             THEN <<RootExpired(nextLeafIndex + 1 - ROOT_HISTORY_SIZE), RootAccepted(nextLeafIndex + 1)>>
             ELSE <<RootAccepted(nextLeafIndex + 1)>>
<1> USE PoolAssumption
<1> DEFINE n == nextLeafIndex
           H == ROOT_HISTORY_SIZE
           idx == rootHistoryIndex
           nxt == NextHistoryIndex
           expired == rootHistory[nxt]
<1>1. n \in Nat /\ H \in Nat \ {0} /\ idx \in 0..(H - 1)
    BY DEF TreeTypeOK
<1>2. nxt = (IF idx + 1 = H THEN 0 ELSE idx + 1) /\ nxt \in 0..(H - 1)
  <2>1. (idx + 1) % H = IF idx + 1 = H THEN 0 ELSE idx + 1
      BY <1>1, RingIndexStep
  <2> QED BY <1>1, <2>1 DEF NextHistoryIndex
<1>3. Age(nxt) = H - 1
    BY <1>1, <1>2 DEF Age
<1>4. expired = IF n >= H - 1 THEN n - (H - 1) ELSE NoRoot
    BY <1>1, <1>2, <1>3 DEF RingInv
<1>5. CASE n + 1 >= H
  <2>1. expired = n + 1 - H /\ Expires(expired, n + 1)
      BY <1>1, <1>4, <1>5 DEF Expires, NoRoot
  <2> DEFINE x == RootExpired(expired)
             a == RootAccepted(n + 1)
  <2>2. RootEvents = <<x>> \o <<a>>
      BY <2>1 DEF RootEvents
  <2>3. x = RootExpired(n + 1 - H)
      BY <2>1
  <2> HIDE DEF x
  <2>4. RootEvents = <<x, a>>
    <3> HIDE DEF a
    <3> QED BY <2>2, PairOf
  <2> QED BY <1>5, <2>3, <2>4
<1>6. CASE ~(n + 1 >= H)
  <2>1. ~Expires(expired, n + 1)
      BY <1>1, <1>4, <1>6 DEF Expires
  <2>2. RootEvents = << >> \o <<RootAccepted(n + 1)>>
      BY <2>1 DEF RootEvents
  <2> QED BY <1>6, <2>2
<1> QED BY <1>5, <1>6

(* What an insertion adds to the log: the roots move on, the rest stays.   *)
LEMMA RootEventsLogged ==
    ASSUME TreeTypeOK, RingInv, nextLeafIndex < MERKLE_TREE_CAPACITY,
           log \in Seq(Events), AcceptedLogged(log, nextLeafIndex), ExpiredLogged(log, nextLeafIndex)
    PROVE  /\ log \o RootEvents \in Seq(Events)
           /\ AcceptedLogged(log \o RootEvents, nextLeafIndex + 1)
           /\ ExpiredLogged(log \o RootEvents, nextLeafIndex + 1)
           /\ \A ns : SpentLogged(log, ns) => SpentLogged(log \o RootEvents, ns)
           /\ \A is, T : NotesLogged(log, is, T) => NotesLogged(log \o RootEvents, is, T)
<1> DEFINE n == nextLeafIndex
           a == RootAccepted(n + 1)
<1>1. n \in Nat /\ ROOT_HISTORY_SIZE \in Nat
    BY PoolAssumption DEF TreeTypeOK
<1>2. a \in Events /\ a.event = "RootAccepted"
    BY <1>1, EventsTyped
<1>3. ASSUME NEW L \in Seq(Events), AcceptedLogged(L, n), ExpiredLogged(L, n + 1)
      PROVE  /\ Append(L, a) \in Seq(Events)
             /\ AcceptedLogged(Append(L, a), n + 1) /\ ExpiredLogged(Append(L, a), n + 1)
             /\ \A ns : SpentLogged(L, ns) => SpentLogged(Append(L, a), ns)
             /\ \A is, T : NotesLogged(L, is, T) => NotesLogged(Append(L, a), is, T)
  <2>1. Extends(L, Append(L, a), a)
      BY <1>2, AppendExtends
  <2>2. AcceptedLogged(Append(L, a), n + 1)
      BY <1>1, <1>3, <2>1, AcceptanceLogged
  <2> HIDE DEF a
  <2>3. /\ ExpiredLogged(L, n + 1) => ExpiredLogged(Append(L, a), n + 1)
        /\ \A ns : SpentLogged(L, ns) => SpentLogged(Append(L, a), ns)
        /\ \A is, T : NotesLogged(L, is, T) => NotesLogged(Append(L, a), is, T)
      BY <1>2, <2>1, OtherEventsKept
  <2> QED BY <1>2, <1>3, <2>2, <2>3
<1>4. CASE n + 1 >= ROOT_HISTORY_SIZE
  <2> DEFINE r == n + 1 - ROOT_HISTORY_SIZE
             x == RootExpired(r)
             L == Append(log, x)
  <2>1. r \in Nat /\ r + ROOT_HISTORY_SIZE = n + 1
      BY <1>1, <1>4
  <2>2. x \in Events /\ x.event = "RootExpired"
      BY <2>1, EventsTyped
  <2>3. log \o RootEvents = Append(L, a)
    <3>1. RootEvents = <<x, a>>
        BY <1>4, RootEventsAre
    <3> HIDE DEF x, a
    <3> QED BY <1>2, <2>2, <3>1, ConcatTwo
  <2> HIDE DEF r
  <2>4. Extends(log, L, x) /\ L \in Seq(Events)
      BY <2>2, AppendExtends
  <2>5. ExpiredLogged(L, n + 1)
      BY <1>1, <2>1, <2>4, ExpiryLogged
  <2> HIDE DEF x, L
  <2>6. /\ AcceptedLogged(L, n)
        /\ \A ns : SpentLogged(log, ns) => SpentLogged(L, ns)
        /\ \A is, T : NotesLogged(log, is, T) => NotesLogged(L, is, T)
      BY <2>2, <2>4, OtherEventsKept
  <2> HIDE DEF a
  <2> QED BY <1>3, <2>3, <2>4, <2>5, <2>6
<1>5. CASE ~(n + 1 >= ROOT_HISTORY_SIZE)
  <2>1. log \o RootEvents = Append(log, a)
    <3>1. RootEvents = <<a>>
        BY <1>5, RootEventsAre
    <3> HIDE DEF a
    <3> QED BY <1>2, <3>1, ConcatOne
  <2>2. ExpiredLogged(log, n + 1)
      BY <1>1, <1>5 DEF ExpiredLogged
  <2> HIDE DEF a
  <2> QED BY <1>3, <2>1, <2>2
<1> QED BY <1>4, <1>5

(* The two events of a spend, written together. *)
LEMMA SpendEventsLogged ==
    ASSUME NEW L \in Seq(Events), NEW i \in LeafIndices, NEW m \in LeafIndices, NEW T, T[m] \in Commitments,
           NEW ns, SpentLogged(L, ns), i \notin ns, NEW is, NotesLogged(L, is, T), m \notin is
    PROVE  LET M == L \o <<NullifierSpent(i), NoteCreated(T[m], m)>>
           IN  /\ M \in Seq(Events)
               /\ \A n : AcceptedLogged(L, n) => AcceptedLogged(M, n)
               /\ \A n : ExpiredLogged(L, n) => ExpiredLogged(M, n)
               /\ SpentLogged(M, ns \cup {i})
               /\ NotesLogged(M, is \cup {m}, T)
<1> DEFINE a == NullifierSpent(i)
           b == NoteCreated(T[m], m)
           K == Append(L, a)
           M == Append(K, b)
<1>1. a \in Events /\ a.event = "NullifierSpent" /\ b \in Events /\ b.event = "NoteCreated"
    BY EventsTyped
<1>2. Extends(L, K, a) /\ K \in Seq(Events)
    BY <1>1, AppendExtends
<1>3. Extends(K, M, b) /\ M \in Seq(Events)
  <2> HIDE DEF b, K
  <2> QED BY <1>1, <1>2, AppendExtends
<1>4. L \o <<a, b>> = M
  <2> HIDE DEF a, b
  <2> QED BY <1>1, ConcatTwo
<1> HIDE DEF K, M
<1>5. SpentLogged(K, ns \cup {i})
    BY <1>2, SpendLogged
<1>6. /\ NotesLogged(K, is, T)
      /\ \A n : AcceptedLogged(L, n) => AcceptedLogged(K, n)
      /\ \A n : ExpiredLogged(L, n) => ExpiredLogged(K, n)
  <2> HIDE DEF a
  <2> QED BY <1>1, <1>2, OtherEventsKept
<1>7. NotesLogged(M, is \cup {m}, T)
    BY <1>3, <1>6, CreationLogged
<1>8. /\ SpentLogged(M, ns \cup {i})
      /\ \A n : AcceptedLogged(K, n) => AcceptedLogged(M, n)
      /\ \A n : ExpiredLogged(K, n) => ExpiredLogged(M, n)
  <2> HIDE DEF b
  <2> QED BY <1>1, <1>3, <1>5, OtherEventsKept
<1> HIDE DEF a, b
<1>9. /\ M \in Seq(Events)
      /\ \A n : AcceptedLogged(L, n) => AcceptedLogged(M, n)
      /\ \A n : ExpiredLogged(L, n) => ExpiredLogged(M, n)
      /\ SpentLogged(M, ns \cup {i})
      /\ NotesLogged(M, is \cup {m}, T)
    BY <1>3, <1>6, <1>7, <1>8
<1> QED BY <1>4, <1>9 DEF a, b

(* What is logged of a note does not depend on the rest of the tree. *)
LEMMA NotesOfTree ==
    ASSUME NEW L, NEW is, NEW T, NEW U, \A i \in is : U[i] = T[i], NotesLogged(L, is, T)
    PROVE  NotesLogged(L, is, U)
BY DEF NotesLogged

-----------------------------------------------------------------------------
(* The steps.                                                              *)

LEMMA LogInitInv == Init => LogInv
<1> SUFFICES ASSUME Init PROVE LogInv
    OBVIOUS
<1> DEFINE e == RootAccepted(0)
<1>1. e \in Events /\ e.event = "RootAccepted" /\ e.root = 0
    BY EventsTyped
<1>2. log = <<e>> /\ nextLeafIndex = 0 /\ nullifiers = {} /\ pendingEvents = << >>
    BY DEF Init
<1> HIDE DEF e
<1>3. log \in Seq(Events) /\ Len(log) = 1 /\ log[1] = e
    BY <1>1, <1>2
<1>4. /\ EventsIn(log, "RootAccepted") = {1}
      /\ EventsIn(log, "RootExpired") = {}
      /\ EventsIn(log, "NullifierSpent") = {}
      /\ EventsIn(log, "NoteCreated") = {}
    BY <1>1, <1>3 DEF EventsIn
<1>5. IsFiniteSet({1}) /\ Cardinality({1}) = 1 /\ IsFiniteSet({})
    BY FS_Singleton, FS_EmptySet
<1>6. AcceptedLogged(log, nextLeafIndex)
  <2>1. log[1].root = 0 /\ 0..0 = {0} /\ 0 + 1 = 1
      BY <1>1, <1>3
  <2>2. AcceptedLogged(log, 0)
      BY <1>4, <1>5, <2>1 DEF AcceptedLogged
  <2> QED BY <1>2, <2>2
<1>7. ExpiredLogged(log, nextLeafIndex)
    BY <1>2, <1>4, PoolAssumption DEF ExpiredLogged
<1>8. SpentLogged(log, nullifiers)
    BY <1>2, <1>4, <1>5 DEF SpentLogged
<1>9. Written = {}
    BY <1>2 DEF Written
<1>10. NotesLogged(log, Written, leaves)
    BY <1>4, <1>5, <1>9 DEF NotesLogged
<1> QED BY <1>2, <1>3, <1>6, <1>7, <1>8, <1>10 DEF LogInv, NothingOwed

(* An insertion grows the tree by one leaf and logs the root's events.     *)
LEMMA InsertionLogged ==
    ASSUME PoolInv, LogInv, NEW c \in Commitments, RecordCommitmentRoot(c)
    PROVE  LET n == nextLeafIndex
               M == log \o RootEvents
           IN  /\ n \in LeafIndices /\ n \notin Written /\ Written \subseteq LeafIndices
               /\ nextLeafIndex' = n + 1 /\ Written' = Written \cup {n}
               /\ leaves'[n] = c /\ \A i \in Written : leaves'[i] = leaves[i]
               /\ M \in Seq(Events)
               /\ AcceptedLogged(M, n + 1) /\ ExpiredLogged(M, n + 1)
               /\ \A ns : SpentLogged(log, ns) => SpentLogged(M, ns)
               /\ \A is \in SUBSET Written :
                     NotesLogged(log, is, leaves) => NotesLogged(M, is, leaves')
<1> DEFINE n == nextLeafIndex
           M == log \o RootEvents
<1>1. /\ n \in 0..MERKLE_TREE_CAPACITY /\ n < MERKLE_TREE_CAPACITY
      /\ leaves \in [LeafIndices -> Commitments \cup {NoCommitment}]
      /\ leaves' = [leaves EXCEPT ![n] = c] /\ nextLeafIndex' = n + 1
    BY DEF PoolInv, TypeOK, RecordCommitmentRoot
<1>2. /\ n \in LeafIndices /\ n \notin Written /\ Written \subseteq LeafIndices
      /\ Written' = Written \cup {n}
    BY <1>1, PoolAssumption DEF LeafIndices, Written
<1>3. leaves'[n] = c /\ \A i \in Written : leaves'[i] = leaves[i]
    BY <1>1, <1>2
<1>4. /\ M \in Seq(Events)
      /\ AcceptedLogged(M, n + 1) /\ ExpiredLogged(M, n + 1)
      /\ \A ns : SpentLogged(log, ns) => SpentLogged(M, ns)
      /\ \A is, T : NotesLogged(log, is, T) => NotesLogged(M, is, T)
  <2>1. TreeTypeOK /\ RingInv
      BY DEF PoolInv, TypeOK, TreeTypeOK
  <2>2. /\ log \in Seq(Events)
        /\ AcceptedLogged(log, nextLeafIndex) /\ ExpiredLogged(log, nextLeafIndex)
      BY DEF LogInv
  <2> QED BY <1>1, <2>1, <2>2, RootEventsLogged
<1> HIDE DEF M
<1>5. ASSUME NEW is \in SUBSET Written, NotesLogged(log, is, leaves)
      PROVE  NotesLogged(M, is, leaves')
  <2>1. NotesLogged(M, is, leaves)
      BY <1>4, <1>5
  <2>2. \A i \in is : leaves'[i] = leaves[i]
      BY <1>3
  <2> QED BY <2>1, <2>2, NotesOfTree
<1> QED BY <1>1, <1>2, <1>3, <1>4, <1>5 DEF M

LEMMA DepositLog ==
    ASSUME PoolInv, LogInv, NEW c \in Commitments, NEW amount, Deposit(c, amount)
    PROVE  LogInv'
<1> DEFINE n == nextLeafIndex
           M == log \o RootEvents
           b == NoteCreated(leaves'[n], n)
<1>1. /\ NothingOwed /\ RecordCommitmentRoot(c)
      /\ log' = M \o <<NoteCreated(c, n)>>
      /\ nullifiers' = nullifiers /\ pendingEvents' = pendingEvents
    BY DEF LogInv, Deposit
<1>2. /\ n \in LeafIndices /\ n \notin Written
      /\ nextLeafIndex' = n + 1 /\ Written' = Written \cup {n} /\ leaves'[n] = c
      /\ M \in Seq(Events)
      /\ AcceptedLogged(M, n + 1) /\ ExpiredLogged(M, n + 1)
      /\ SpentLogged(M, nullifiers) /\ NotesLogged(M, Written, leaves')
    BY <1>1, InsertionLogged DEF NothingOwed
<1>3. b \in Events /\ b.event = "NoteCreated"
    BY <1>2, EventsTyped
<1>4. log' = Append(M, b)
  <2>1. log' = M \o <<b>>
      BY <1>1, <1>2
  <2> HIDE DEF b, M
  <2> QED BY <1>2, <1>3, <2>1, ConcatOne
<1> HIDE DEF M
<1>5. Extends(M, log', b) /\ log' \in Seq(Events)
  <2> HIDE DEF b
  <2> QED BY <1>2, <1>3, <1>4, AppendExtends
<1>6. NotesLogged(log', Written \cup {n}, leaves')
    BY <1>2, <1>5, CreationLogged
<1>7. AcceptedLogged(log', n + 1) /\ ExpiredLogged(log', n + 1) /\ SpentLogged(log', nullifiers)
  <2> HIDE DEF b
  <2> QED BY <1>2, <1>3, <1>5, OtherEventsKept
<1> QED BY <1>1, <1>2, <1>5, <1>6, <1>7 DEF LogInv, NothingOwed

(* A private transfer logs its spend at once, also inside a withdrawal     *)
(* whose own events are still owed.                                        *)
LEMMA PrivateTransferLog ==
    ASSUME PoolInv, LogInv, NEW i \in LeafIndices, NEW root, NEW out \in Commitments,
           NEW policy, NEW sender, PrivateTransfer(i, root, out, policy, sender)
    PROVE  LogInv'
<1> DEFINE n == nextLeafIndex
           M == log \o RootEvents
<1>1. /\ RecordCommitmentRoot(out) /\ i \notin nullifiers /\ nullifiers' = nullifiers \cup {i}
      /\ log' = M \o <<NullifierSpent(i), NoteCreated(out, n)>>
      /\ entered' = entered /\ pendingEvents' = pendingEvents
    BY DEF PrivateTransfer, MarkSpent
<1>2. /\ n \in LeafIndices /\ n \notin Written
      /\ nextLeafIndex' = n + 1 /\ Written' = Written \cup {n} /\ leaves'[n] = out
      /\ \A j \in Written : leaves'[j] = leaves[j]
      /\ M \in Seq(Events)
      /\ AcceptedLogged(M, n + 1) /\ ExpiredLogged(M, n + 1)
      /\ \A ns : SpentLogged(log, ns) => SpentLogged(M, ns)
      /\ \A is \in SUBSET Written : NotesLogged(log, is, leaves) => NotesLogged(M, is, leaves')
    BY <1>1, InsertionLogged
<1> HIDE DEF M
<1>3. ASSUME NEW ns \in SUBSET nullifiers, SpentLogged(log, ns),
             NEW is \in SUBSET Written, NotesLogged(log, is, leaves)
      PROVE  /\ log' \in Seq(Events) /\ AcceptedLogged(log', n + 1) /\ ExpiredLogged(log', n + 1)
             /\ SpentLogged(log', ns \cup {i}) /\ NotesLogged(log', is \cup {n}, leaves')
  <2>1. /\ SpentLogged(M, ns) /\ i \notin ns
        /\ NotesLogged(M, is, leaves') /\ n \notin is /\ leaves'[n] \in Commitments
        /\ log' = M \o <<NullifierSpent(i), NoteCreated(leaves'[n], n)>>
      BY <1>1, <1>2, <1>3
  <2> QED BY <1>2, <2>1, SpendEventsLogged
<1>4. CASE NothingOwed
  <2>1. /\ log' \in Seq(Events) /\ AcceptedLogged(log', n + 1) /\ ExpiredLogged(log', n + 1)
        /\ SpentLogged(log', nullifiers \cup {i}) /\ NotesLogged(log', Written \cup {n}, leaves')
      BY <1>3, <1>4 DEF NothingOwed
  <2>2. NothingOwed'
      BY <1>1, <1>2, <1>4, <2>1 DEF NothingOwed
  <2> QED BY <1>2, <2>1, <2>2 DEF LogInv
<1>5. ASSUME entered, NEW j \in nullifiers, NEW m \in Written, Owed(j, m)
      PROVE  LogInv'
  <2>1. /\ log' \in Seq(Events) /\ AcceptedLogged(log', n + 1) /\ ExpiredLogged(log', n + 1)
        /\ SpentLogged(log', (nullifiers \ {j}) \cup {i})
        /\ NotesLogged(log', (Written \ {m}) \cup {n}, leaves')
    <3>1. SpentLogged(log, nullifiers \ {j}) /\ NotesLogged(log, Written \ {m}, leaves)
        BY <1>5 DEF Owed
    <3> QED BY <1>3, <3>1
  <2>2. nullifiers' \ {j} = (nullifiers \ {j}) \cup {i} /\ Written' \ {m} = (Written \ {m}) \cup {n}
      BY <1>1, <1>2
  <2>3. pendingEvents' = <<NullifierSpent(j), NoteCreated(leaves'[m], m)>>
      BY <1>1, <1>2, <1>5 DEF Owed
  <2>4. Owed(j, m)' /\ j \in nullifiers' /\ m \in Written'
      BY <1>1, <1>2, <2>1, <2>2, <2>3 DEF Owed
  <2> QED BY <1>1, <1>2, <1>5, <2>1, <2>4 DEF LogInv
<1> QED BY <1>4, <1>5 DEF LogInv

(* A withdrawal logs the root and owes the two events of its spend.        *)
LEMMA WithdrawLog ==
    ASSUME PoolInv, LogInv, NEW i \in LeafIndices, NEW root, NEW out \in Commitments,
           NEW gross, NEW policy, NEW sender, WithdrawCall(i, root, out, gross, policy, sender)
    PROVE  LogInv'
<1> DEFINE n == nextLeafIndex
           M == log \o RootEvents
<1>1. /\ NothingOwed /\ RecordCommitmentRoot(out)
      /\ i \notin nullifiers /\ nullifiers' = nullifiers \cup {i}
      /\ log' = M /\ entered' = TRUE
      /\ pendingEvents' = <<NullifierSpent(i), NoteCreated(out, n)>>
    BY DEF LogInv, WithdrawCall, MarkSpent
<1>2. /\ n \notin Written
      /\ nextLeafIndex' = n + 1 /\ Written' = Written \cup {n} /\ leaves'[n] = out
      /\ M \in Seq(Events)
      /\ AcceptedLogged(M, n + 1) /\ ExpiredLogged(M, n + 1)
      /\ SpentLogged(M, nullifiers) /\ NotesLogged(M, Written, leaves')
    BY <1>1, InsertionLogged DEF NothingOwed
<1> HIDE DEF M
<1>3. nullifiers' \ {i} = nullifiers /\ Written' \ {n} = Written
    BY <1>1, <1>2
<1>4. ASSUME NEW m, m = n
      PROVE  LogInv'
  <2>1. pendingEvents' = <<NullifierSpent(i), NoteCreated(leaves'[m], m)>>
      BY <1>1, <1>2, <1>4
  <2>2. Owed(i, m)' /\ i \in nullifiers' /\ m \in Written'
      BY <1>1, <1>2, <1>3, <1>4, <2>1 DEF Owed
  <2> QED BY <1>1, <1>2, <2>2 DEF LogInv
<1> QED BY <1>4

(* When the call returns, what was owed is logged.                         *)
LEMMA CallReturnsLog ==
    ASSUME PoolInv, LogInv, CallReturns
    PROVE  LogInv'
<1>1. /\ log' = log \o pendingEvents /\ pendingEvents' = << >>
      /\ nullifiers' = nullifiers /\ nextLeafIndex' = nextLeafIndex /\ leaves' = leaves
    BY DEF CallReturns, treeVars
<1>2. /\ log \in Seq(Events) /\ Written' = Written
      /\ AcceptedLogged(log, nextLeafIndex) /\ ExpiredLogged(log, nextLeafIndex)
    BY <1>1 DEF LogInv, Written
<1>3. CASE NothingOwed
  <2>1. log' = log
      BY <1>1, <1>2, <1>3 DEF NothingOwed
  <2> QED BY <1>1, <1>2, <1>3, <2>1 DEF LogInv, NothingOwed
<1>4. ASSUME NEW i \in nullifiers, NEW m \in Written, Owed(i, m)
      PROVE  LogInv'
  <2>1. /\ i \in LeafIndices /\ m \in LeafIndices /\ leaves[m] \in Commitments
      BY <1>4, PoolAssumption DEF PoolInv, TypeOK, TreeInv, Written, LeafIndices
  <2>2. /\ SpentLogged(log, nullifiers \ {i}) /\ NotesLogged(log, Written \ {m}, leaves)
        /\ log' = log \o <<NullifierSpent(i), NoteCreated(leaves[m], m)>>
      BY <1>1, <1>4 DEF Owed
  <2>3. /\ log' \in Seq(Events)
        /\ AcceptedLogged(log', nextLeafIndex) /\ ExpiredLogged(log', nextLeafIndex)
        /\ SpentLogged(log', (nullifiers \ {i}) \cup {i})
        /\ NotesLogged(log', (Written \ {m}) \cup {m}, leaves)
    <3>1. i \notin nullifiers \ {i} /\ m \notin Written \ {m}
        OBVIOUS
    <3> QED BY <1>2, <2>1, <2>2, <3>1, SpendEventsLogged
  <2>4. (nullifiers \ {i}) \cup {i} = nullifiers' /\ (Written \ {m}) \cup {m} = Written'
      BY <1>1, <1>2, <1>4
  <2>5. NothingOwed'
      BY <1>1, <1>2, <2>3, <2>4 DEF NothingOwed
  <2> QED BY <1>1, <2>3, <2>5 DEF LogInv
<1> QED BY <1>3, <1>4 DEF LogInv

(* Calls that log nothing.                                                 *)
LEMMA SilentLog ==
    ASSUME LogInv, UNCHANGED <<nullifiers, leaves, nextLeafIndex, pendingEvents, log>>,
           entered' = entered \/ ~entered
    PROVE  LogInv'
<1>1. Written' = Written
    BY DEF Written
<1>2. NothingOwed => NothingOwed'
    BY <1>1 DEF NothingOwed
<1>3. ASSUME entered, NEW i \in nullifiers, NEW m \in Written, Owed(i, m)
      PROVE  entered' /\ i \in nullifiers' /\ m \in Written' /\ Owed(i, m)'
    BY <1>1, <1>3 DEF Owed
<1> QED BY <1>2, <1>3 DEF LogInv

LEMMA LogNextInv == ASSUME PoolInv, LogInv, [Next]_vars PROVE LogInv'
<1>1. CASE FeeStep \/ UNCHANGED vars
    BY <1>1, SilentLog DEF FeeStep, vars, poolVars, treeVars
<1>2. ASSUME NEW c \in Commitments, NEW amount \in Denominations, Deposit(c, amount)
      PROVE  LogInv'
    BY <1>2, DepositLog
<1>3. ASSUME NEW i \in LeafIndices, NEW root \in 0..MERKLE_TREE_CAPACITY, NEW out \in Commitments,
             NEW policy \in Policies, NEW sender \in Accounts
      PROVE  /\ PrivateTransfer(i, root, out, policy, sender) => LogInv'
             /\ \A gross \in Denominations :
                   WithdrawCall(i, root, out, gross, policy, sender) => LogInv'
    BY PrivateTransferLog, WithdrawLog
<1>4. ASSUME NEW amount \in SweepAmounts, SweepFeesCall(amount)
      PROVE  LogInv'
    BY <1>4, SilentLog DEF SweepFeesCall, treeVars
<1>5. CASE CallReturns
    BY <1>5, CallReturnsLog
<1> QED BY <1>1, <1>2, <1>3, <1>4, <1>5 DEF Next

LEMMA LogInvReplays == ASSUME PoolInv, LogInv PROVE LogReplaysState
<1> SUFFICES ASSUME ~entered PROVE LogReplaysState
    BY DEF LogReplaysState
<1> DEFINE n == nextLeafIndex
           accepted == EventsIn(log, "RootAccepted")
           expired == EventsIn(log, "RootExpired")
           spends == EventsIn(log, "NullifierSpent")
           created == EventsIn(log, "NoteCreated")
<1>1. /\ n \in Nat /\ n <= MERKLE_TREE_CAPACITY /\ ROOT_HISTORY_SIZE \in Nat \ {0}
      /\ acceptedRoots = {r \in 0..MERKLE_TREE_CAPACITY : r <= n /\ r > n - ROOT_HISTORY_SIZE}
    BY PoolAssumption DEF PoolInv, TypeOK, RootWindow
<1>2. SpentLogged(log, nullifiers) /\ NotesLogged(log, Written, leaves)
    BY DEF LogInv, NothingOwed
<1>3. /\ Cardinality(accepted) = n + 1
      /\ \A j, k \in accepted : j < k => log[j].root < log[k].root
      /\ \A k \in accepted : log[k].root \in 0..n
      /\ \A r \in 0..n : \E k \in accepted : log[k].root = r
    BY DEF LogInv, AcceptedLogged
<1>4. /\ \A k \in expired : log[k].root \in Nat /\ log[k].root + ROOT_HISTORY_SIZE <= n
      /\ \A r \in Nat : r + ROOT_HISTORY_SIZE <= n => \E k \in expired : log[k].root = r
    BY DEF LogInv, ExpiredLogged
<1>5. /\ Cardinality(spends) = Cardinality(nullifiers)
      /\ {log[k].nullifier : k \in spends} = nullifiers
    BY <1>2 DEF SpentLogged
<1>6. /\ Cardinality(created) = n
      /\ \A i \in 0..(n - 1) : \E k \in created : log[k] = NoteCreated(leaves[i], i)
  <2>1. Cardinality(0..(n - 1)) = n
      BY <1>1, FS_Interval
  <2> QED BY <1>2, <2>1 DEF NotesLogged, Written
<1>7. /\ EventsOf("RootAccepted") = accepted /\ EventsOf("RootExpired") = expired
      /\ EventsOf("NullifierSpent") = spends /\ EventsOf("NoteCreated") = created
    BY DEF EventsOf, EventsIn
<1> HIDE DEF accepted, expired, spends, created
<1>8. {log[k].root : k \in accepted} = 0..n
    BY <1>3
<1>9. {log[k].root : k \in expired} = {r \in Nat : r + ROOT_HISTORY_SIZE <= n}
    BY <1>4
<1>10. (0..n) \ {r \in Nat : r + ROOT_HISTORY_SIZE <= n} = acceptedRoots
  <2>1. \A r \in Nat : ~(r + ROOT_HISTORY_SIZE <= n) <=> r > n - ROOT_HISTORY_SIZE
      BY <1>1
  <2>2. \A r : r \in 0..n <=> r \in 0..MERKLE_TREE_CAPACITY /\ r <= n
      BY <1>1, PoolAssumption
  <2>3. \A r \in 0..n : r \in Nat
      OBVIOUS
  <2> HIDE DEF n
  <2>4. \A r : r \in acceptedRoots <=> r \in 0..n /\ r > n - ROOT_HISTORY_SIZE
      BY <1>1, <2>2
  <2> QED BY <2>1, <2>3, <2>4
<1> QED BY <1>3, <1>5, <1>6, <1>7, <1>8, <1>9, <1>10 DEF LogReplaysState

(* What a reader of the log reconstructs is the contract's state whenever  *)
(* no call is open (_recordCommitmentRoot, deposit, privateTransfer,       *)
(* withdraw), for every history size, capacity and nesting of calls.       *)
THEOREM PoolLogReplays == Spec => []LogReplaysState
<1>1. Init => LogInv
    BY LogInitInv
<1>2. PoolInv /\ LogInv /\ [Next]_vars => LogInv'
    BY LogNextInv
<1>3. PoolInv /\ LogInv => LogReplaysState
    BY LogInvReplays
<1> QED BY <1>1, <1>2, <1>3, PoolInvariant, PTL DEF Spec

(* The sum that ValueConserved takes. *)
LEMMA AmountsTotal ==
    ASSUME NEW S, IsFiniteSet(S), NEW U, \A i \in S : U[i] = Amount(i)
    PROVE  MapThenSumSet(Amount, S) = Total(U, S)
<1> DEFINE E(g) == [s \in SUBSET S |-> IF s = {} THEN 0
                        ELSE Amount(NextElement(s)) + g[s \ {NextElement(s)}]]
           G == CHOOSE g : g = E(g)
<1>1. MapThenSumSet(Amount, S) = G[S]
    BY DEF MapThenSumSet, MapThenFoldSet, NextElement
<1>2. ASSUME NEW g
      PROVE  Sums(g, U, S) <=> g = E(g)
  <2>1. \A s \in SUBSET S : s # {} => U[NextElement(s)] = Amount(NextElement(s))
      BY NextElementIn
  <2>2. E(g) = [s \in SUBSET S |-> IF s = {} THEN 0
                        ELSE U[NextElement(s)] + g[s \ {NextElement(s)}]]
      BY <2>1
  <2> HIDE DEF E
  <2> QED BY <2>2 DEF Sums
<1>3. Sums(SumsOver(U, S), U, S)
    BY SumsExist
<1>4. \E g : g = E(g)
    BY <1>2, <1>3
<1>5. G = E(G)
  <2> HIDE DEF E
  <2> QED BY <1>4
<1>6. Sums(G, U, S)
    BY <1>2, <1>5
<1> HIDE DEF G
<1>7. G[S] = SumsOver(U, S)[S]
    BY <1>3, <1>6, SumsAgree
<1> QED BY <1>1, <1>7 DEF Total

(* The running total over the leaves ends at the sum of the unspent notes. *)
LEMMA BackedIsConserved == ASSUME PoolInv PROVE ValueConserved
<1> USE PoolAssumption
<1> DEFINE U == [i \in LeafIndices |-> Amount(i)]
           A(k) == {i \in UnspentNotes : i < k}
<1>1. PICK P : /\ RunningTotal(P, UnspentValue)
               /\ P[MERKLE_TREE_CAPACITY] = WithdrawableAccounting
    BY DEF PoolInv, Backed
<1> DEFINE Bad == {k \in 0..MERKLE_TREE_CAPACITY : P[k] # Total(U, A(k))}
<1>2. \A k \in 0..MERKLE_TREE_CAPACITY : A(k) \in SUBSET LeafIndices /\ IsFiniteSet(A(k))
  <2>1. IsFiniteSet(LeafIndices)
      BY FS_Interval DEF LeafIndices
  <2>2. \A k : A(k) \in SUBSET LeafIndices
      BY DEF UnspentNotes
  <2> QED BY <2>1, <2>2, FS_Subset
<1>3. \A i \in LeafIndices : U[i] = Amount(i) /\ U[i] \in Int
    BY AmountType DEF PoolInv
<1>4. 0 \notin Bad
  <2>1. A(0) = {}
      BY DEF UnspentNotes, LeafIndices
  <2>2. P[0] = 0
      BY <1>1 DEF RunningTotal
  <2>3. Total(U, {}) = 0
      BY FS_EmptySet, TotalSteps
  <2> QED BY <2>1, <2>2, <2>3
<1>5. ASSUME NEW k \in 0..(MERKLE_TREE_CAPACITY - 1), k \notin Bad
      PROVE  k + 1 \notin Bad
  <2>1. k \in LeafIndices /\ k \in 0..MERKLE_TREE_CAPACITY /\ k + 1 \in 0..MERKLE_TREE_CAPACITY
      BY DEF LeafIndices
  <2>2. P[k] = Total(U, A(k)) /\ P[k + 1] = P[k] + UnspentValue[k]
      BY <1>1, <1>5, <2>1 DEF RunningTotal
  <2>3. CASE k \in UnspentNotes
    <3>1. A(k + 1) = A(k) \cup {k} /\ k \notin A(k)
        BY <2>1, <2>3 DEF UnspentNotes, LeafIndices
    <3>2. UnspentValue[k] = U[k]
        BY <2>1, <2>3 DEF UnspentValue, UnspentNotes
    <3>3. Total(U, A(k) \cup {k}) = Total(U, A(k)) + U[k]
      <4>1. IsFiniteSet(A(k)) /\ \A i \in A(k) \cup {k} : U[i] \in Int
          BY <1>2, <1>3, <2>1
      <4> HIDE DEF A, U
      <4> QED BY <3>1, <4>1, TotalWith
    <3> QED BY <2>2, <3>1, <3>2, <3>3
  <2>4. CASE k \notin UnspentNotes
    <3>1. A(k + 1) = A(k)
        BY <2>1, <2>4 DEF UnspentNotes, LeafIndices
    <3>2. UnspentValue[k] = 0
        BY <2>1, <2>4 DEF UnspentValue, UnspentNotes, Amount, PoolInv, TreeInv, TypeOK, LeafIndices
    <3>3. P[k] \in Int
        BY <1>1, <2>1 DEF RunningTotal
    <3> QED BY <2>2, <3>1, <3>2, <3>3
  <2> QED BY <2>3, <2>4
<1>6. Bad = {}
  <2> HIDE DEF Bad
  <2> QED BY <1>4, <1>5, NoBadNumber DEF Bad
<1>7. A(MERKLE_TREE_CAPACITY) = UnspentNotes
    BY DEF UnspentNotes, LeafIndices
<1>8. WithdrawableAccounting = Total(U, UnspentNotes) /\ IsFiniteSet(UnspentNotes)
    BY <1>1, <1>2, <1>6, <1>7
<1>9. MapThenSumSet(Amount, UnspentNotes) = Total(U, UnspentNotes)
  <2>1. \A i \in UnspentNotes : U[i] = Amount(i)
      BY DEF UnspentNotes
  <2> HIDE DEF U
  <2> QED BY <1>8, <2>1, AmountsTotal
<1> QED BY <1>8, <1>9 DEF ValueConserved

(* No inflation and no drift: what deposit, withdraw and sweepFees leave   *)
(* for withdrawals is the value of the unspent notes.                      *)
THEOREM PoolConservesValue == Spec => []ValueConserved
BY PoolInvariant, BackedIsConserved, PTL

-----------------------------------------------------------------------------
(* The contract among its clients. *)

(* A hash of an encrypted output note determines what was hashed. *)
LEMMA OutputNoteHashInjective ==
    ASSUME NEW d1, NEW s1, NEW f1, NEW n1, NEW c1, NEW b1,
           NEW d2, NEW s2, NEW f2, NEW n2, NEW c2, NEW b2,
           EncryptedOutputNoteHash(d1, s1, f1, n1, c1, b1)
              = EncryptedOutputNoteHash(d2, s2, f2, n2, c2, b2)
    PROVE  /\ d1.chainId = d2.chainId /\ d1.pool = d2.pool
           /\ s1 = s2 /\ f1 = f2 /\ n1 = n2 /\ c1 = c2 /\ b1 = b2
  BY DEF EncryptedOutputNoteHash, Keccak256

(* A hash of a proof context determines the call and its policy. *)
LEMMA ContextHashInjective ==
    ASSUME NEW d1, NEW s1, NEW f1, NEW r1, NEW n1, NEW a1, NEW g1, NEW w1, NEW h1, NEW p1,
           NEW d2, NEW s2, NEW f2, NEW r2, NEW n2, NEW a2, NEW g2, NEW w2, NEW h2, NEW p2,
           ProofContextHash(d1, s1, f1, r1, n1, a1, g1, w1, h1, p1)
              = ProofContextHash(d2, s2, f2, r2, n2, a2, g2, w2, h2, p2)
    PROVE  /\ r1 = r2 /\ n1 = n2 /\ a1 = a2 /\ g1 = g2 /\ w1 = w2
           /\ p1.relayer = p2.relayer /\ p1.minNetAmount = p2.minNetAmount
           /\ p1.maxFeeAmount = p2.maxFeeAmount /\ p1.deadlineOrZero = p2.deadlineOrZero
  BY DEF ProofContextHash, RelayerPolicyHash

(* What the owners' actions make of a plan: a known client, a known        *)
(* deployment, and the bounded overload for the two wallets.               *)
WellFormed(p) ==
    /\ p.client \in {"sdk", "web", "contract"}
    /\ p.client \in {"sdk", "web"} => p.selector = WithdrawNoteBounds
    /\ p.deployment \in Deployments

PlansWellFormed == \A p \in plans : WellFormed(p)

BindingInv == PlansWellFormed /\ ExecutedAsPlanned

(* The wallets compute the hashes that the contract computes.              *)
LEMMA ClientsAgree ==
    ASSUME NEW p, WellFormed(p)
    PROVE  /\ PlanNoteHash(p) = EncryptedOutputNoteHash(p.deployment, Shape(p.selector),
                                    p.selector, PlanNullifier(p), p.out, p.note)
           /\ PlanContextHash(p) = ProofContextHash(p.deployment, Shape(p.selector),
                                    p.selector, p.root, PlanNullifier(p), p.destination,
                                    p.gross, p.fee, PlanNoteHash(p), p.policy)
<1>1. WithdrawNoteBounds \notin TransferSelectors
  BY DEF WithdrawNoteBounds, TransferSelectors, Transfer, TransferNote, TransferNotePolicy
<1>2. CASE p.client = "sdk"
  BY <1>1, <1>2 DEF WellFormed, Shape, PlanNoteHash, PlanContextHash,
     SdkEncryptedOutputNoteHash, SdkProofContextHash, SdkRelayerPolicyHash,
     EncryptedOutputNoteHash, ProofContextHash, RelayerPolicyHash
<1>3. CASE p.client = "web"
  BY <1>1, <1>3 DEF WellFormed, Shape, PlanNoteHash, PlanContextHash,
     WebEncryptedOutputNoteHash, WebProofContextHash, WebRelayerPolicyHash,
     EncryptedOutputNoteHash, ProofContextHash, RelayerPolicyHash
<1>4. CASE p.client = "contract"
  BY <1>4 DEF PlanNoteHash, PlanContextHash
<1> QED
  BY <1>2, <1>3, <1>4 DEF WellFormed

(* A deployment is its chain and its pool.                                 *)
LEMMA DeploymentIsHere ==
    ASSUME NEW d \in Deployments, d.chainId = Here.chainId, d.pool = Here.pool
    PROVE  d = Here
<1>1. d = [chainId |-> d.chainId, pool |-> d.pool]
  BY BindingAssumption DEF BindingAssumption
<1>2. Here = [chainId |-> Here.chainId, pool |-> Here.pool]
  BY BindingAssumption DEF BindingAssumption
<1> QED
  BY <1>1, <1>2

(* The withdrawal that the pool accepts is a plan of an owner.             *)
LEMMA WithdrawalIsPlanned ==
    ASSUME PlansWellFormed, NEW call, NEW sender, WithdrawAccepted(call, sender)
    PROVE  SpendAuthorised(Execution(call, call.inputs.outputCommitment, call.destination,
                                     call.gross, FeeOf(call.gross), sender))
<1> DEFINE e == Execution(call, call.inputs.outputCommitment, call.destination, call.gross,
                          FeeOf(call.gross), sender)
           policy == PolicyOf(call)
<1>1. PICK p \in plans : SpendInputs(p) = call.inputs
  BY DEF WithdrawAccepted, VerifySpend
<1>2. WellFormed(p)
  BY <1>1 DEF PlansWellFormed
<1>3. /\ call.inputs.root = p.root
      /\ call.inputs.nullifier = PlanNullifier(p)
      /\ call.inputs.outputCommitment = p.out
      /\ call.inputs.proofContextHash = PlanContextHash(p)
      /\ call.inputs.encryptedNoteHash = PlanNoteHash(p)
  BY <1>1 DEF SpendInputs
<1>4. /\ call.inputs.nullifier = call.nullifier
      /\ PlanNoteHash(p) = EncryptedOutputNoteHash(Here, WITHDRAW_CONTEXT_SHAPE,
                              call.selector, call.nullifier, p.out, NoteOf(call))
      /\ PlanContextHash(p) = ProofContextHash(Here, WITHDRAW_CONTEXT_SHAPE, call.selector,
                              p.root, PlanNullifier(p), call.destination, call.gross,
                              FeeOf(call.gross), PlanNoteHash(p), policy)
  BY <1>3 DEF WithdrawAccepted, WithdrawalInputs, PublicInputsCommon, WithdrawalBindings
<1>5. /\ p.deployment = Here
      /\ p.selector = call.selector
      /\ p.note = NoteOf(call)
  <2>1. EncryptedOutputNoteHash(p.deployment, Shape(p.selector), p.selector,
                                PlanNullifier(p), p.out, p.note)
          = EncryptedOutputNoteHash(Here, WITHDRAW_CONTEXT_SHAPE, call.selector,
                                    call.nullifier, p.out, NoteOf(call))
    BY <1>2, <1>4, ClientsAgree
  <2>2. /\ p.deployment.chainId = Here.chainId
        /\ p.deployment.pool = Here.pool
        /\ p.selector = call.selector
        /\ p.note = NoteOf(call)
    BY <2>1, OutputNoteHashInjective
  <2> QED
    BY <2>2, <1>2, DeploymentIsHere DEF WellFormed
<1>6. /\ p.destination = call.destination
      /\ p.gross = call.gross
      /\ p.fee = FeeOf(call.gross)
      /\ p.policy.relayer = policy.relayer
      /\ p.policy.minNetAmount = policy.minNetAmount
      /\ p.policy.maxFeeAmount = policy.maxFeeAmount
      /\ p.policy.deadlineOrZero = policy.deadlineOrZero
  <2>1. ProofContextHash(p.deployment, Shape(p.selector), p.selector, p.root,
                         PlanNullifier(p), p.destination, p.gross, p.fee,
                         PlanNoteHash(p), p.policy)
          = ProofContextHash(Here, WITHDRAW_CONTEXT_SHAPE, call.selector, p.root,
                             PlanNullifier(p), call.destination, call.gross,
                             FeeOf(call.gross), PlanNoteHash(p), policy)
    BY <1>2, <1>4, ClientsAgree
  <2> QED
    BY <2>1, ContextHashInjective
<1>7. p.leaf = call.nullifier.leaf
  BY <1>3, <1>4 DEF PlanNullifier, Nullifier
<1>8. /\ p.policy.relayer # NoRelayer => sender = p.policy.relayer
      /\ p.policy.deadlineOrZero # 0 => timestamp <= p.policy.deadlineOrZero
      /\ WithinBounds(p.policy, call.gross, FeeOf(call.gross))
  <2>1. RelayerPolicyHolds(policy, sender) /\ WithinBounds(policy, call.gross, FeeOf(call.gross))
    BY DEF WithdrawAccepted
  <2> QED
    BY <2>1, <1>6 DEF RelayerPolicyHolds, WithinBounds
<1>9. /\ e.selector = call.selector /\ e.leaf = call.nullifier.leaf /\ e.root = call.inputs.root
      /\ e.out = call.inputs.outputCommitment /\ e.destination = call.destination
      /\ e.gross = call.gross /\ e.fee = FeeOf(call.gross) /\ e.note = NoteOf(call)
      /\ e.sender = sender /\ e.time = timestamp
  BY DEF Execution
<1> HIDE DEF e, policy
<1>10. /\ <<p.selector, p.leaf, p.root, p.out, p.destination, p.gross, p.fee, p.note>>
             = <<e.selector, e.leaf, e.root, e.out, e.destination, e.gross, e.fee, e.note>>
       /\ p.policy.relayer # NoRelayer => e.sender = p.policy.relayer
       /\ p.policy.deadlineOrZero # 0 => e.time <= p.policy.deadlineOrZero
       /\ WithinBounds(p.policy, e.gross, e.fee)
  BY <1>3, <1>5, <1>6, <1>7, <1>8, <1>9
<1>11. SpendAuthorised(e)
  BY <1>1, <1>5, <1>10 DEF SpendAuthorised
<1> QED
  BY <1>11 DEF e

(* The private transfer that the pool accepts is a plan of an owner.       *)
LEMMA TransferIsPlanned ==
    ASSUME PlansWellFormed, NEW call, NEW sender, PrivateTransferAccepted(call, sender)
    PROVE  SpendAuthorised(Execution(call, call.newCommitment, ZeroAddress, 0, 0, sender))
<1> DEFINE e == Execution(call, call.newCommitment, ZeroAddress, 0, 0, sender)
           policy == PolicyOf(call)
<1>1. PICK p \in plans : SpendInputs(p) = call.inputs
  BY DEF PrivateTransferAccepted, VerifySpend
<1>2. WellFormed(p)
  BY <1>1 DEF PlansWellFormed
<1>3. /\ call.inputs.root = p.root
      /\ call.inputs.nullifier = PlanNullifier(p)
      /\ call.inputs.outputCommitment = p.out
      /\ call.inputs.proofContextHash = PlanContextHash(p)
      /\ call.inputs.encryptedNoteHash = PlanNoteHash(p)
  BY <1>1 DEF SpendInputs
<1>4. /\ call.inputs.nullifier = call.nullifier
      /\ p.out = call.newCommitment
      /\ PlanNoteHash(p) = EncryptedOutputNoteHash(Here, PRIVATE_TRANSFER_CONTEXT_SHAPE,
                              call.selector, call.nullifier, p.out, NoteOf(call))
      /\ PlanContextHash(p) = ProofContextHash(Here, PRIVATE_TRANSFER_CONTEXT_SHAPE,
                              call.selector, p.root, PlanNullifier(p), ZeroAddress, 0, 0,
                              PlanNoteHash(p), policy)
  BY <1>3 DEF PrivateTransferAccepted, PrivateTransferInputs, PublicInputsCommon,
     TransferBindings
<1>5. /\ p.deployment = Here
      /\ p.selector = call.selector
      /\ p.note = NoteOf(call)
  <2>1. EncryptedOutputNoteHash(p.deployment, Shape(p.selector), p.selector,
                                PlanNullifier(p), p.out, p.note)
          = EncryptedOutputNoteHash(Here, PRIVATE_TRANSFER_CONTEXT_SHAPE, call.selector,
                                    call.nullifier, p.out, NoteOf(call))
    BY <1>2, <1>4, ClientsAgree
  <2>2. /\ p.deployment.chainId = Here.chainId
        /\ p.deployment.pool = Here.pool
        /\ p.selector = call.selector
        /\ p.note = NoteOf(call)
    BY <2>1, OutputNoteHashInjective
  <2> QED
    BY <2>2, <1>2, DeploymentIsHere DEF WellFormed
<1>6. /\ p.destination = ZeroAddress
      /\ p.gross = 0
      /\ p.fee = 0
      /\ p.policy.relayer = policy.relayer
      /\ p.policy.deadlineOrZero = policy.deadlineOrZero
  <2>1. ProofContextHash(p.deployment, Shape(p.selector), p.selector, p.root,
                         PlanNullifier(p), p.destination, p.gross, p.fee,
                         PlanNoteHash(p), p.policy)
          = ProofContextHash(Here, PRIVATE_TRANSFER_CONTEXT_SHAPE, call.selector, p.root,
                             PlanNullifier(p), ZeroAddress, 0, 0, PlanNoteHash(p), policy)
    BY <1>2, <1>4, ClientsAgree
  <2> QED
    BY <2>1, ContextHashInjective
<1>7. p.leaf = call.nullifier.leaf
  BY <1>3, <1>4 DEF PlanNullifier, Nullifier
<1>8. /\ p.policy.relayer # NoRelayer => sender = p.policy.relayer
      /\ p.policy.deadlineOrZero # 0 => timestamp <= p.policy.deadlineOrZero
  <2>1. RelayerPolicyHolds(policy, sender)
    BY DEF PrivateTransferAccepted
  <2> QED
    BY <2>1, <1>6 DEF RelayerPolicyHolds
<1>9. call.selector \notin WithdrawSelectors
  <2>1. call.selector \in TransferSelectors
    BY DEF PrivateTransferAccepted
  <2> QED
    BY <2>1 DEF TransferSelectors, WithdrawSelectors, Transfer, TransferNote,
       TransferNotePolicy, Withdraw, WithdrawNote, WithdrawBounds, WithdrawNoteBounds,
       WithdrawPolicy, WithdrawNotePolicy
<1>10. /\ e.selector = call.selector /\ e.leaf = call.nullifier.leaf
       /\ e.root = call.inputs.root /\ e.out = call.newCommitment
       /\ e.destination = ZeroAddress /\ e.gross = 0 /\ e.fee = 0
       /\ e.note = NoteOf(call) /\ e.sender = sender /\ e.time = timestamp
  BY DEF Execution
<1> HIDE DEF e, policy
<1>11. /\ <<p.selector, p.leaf, p.root, p.out, p.destination, p.gross, p.fee, p.note>>
             = <<e.selector, e.leaf, e.root, e.out, e.destination, e.gross, e.fee, e.note>>
       /\ p.policy.relayer # NoRelayer => e.sender = p.policy.relayer
       /\ p.policy.deadlineOrZero # 0 => e.time <= p.policy.deadlineOrZero
       /\ e.selector \notin WithdrawSelectors
  BY <1>3, <1>4, <1>5, <1>6, <1>7, <1>8, <1>9, <1>10
<1>12. SpendAuthorised(e)
  BY <1>1, <1>5, <1>11 DEF SpendAuthorised
<1> QED
  BY <1>12 DEF e

(* The deposit that the pool accepts is a plan of an owner.                *)
LEMMA DepositIsPlanned ==
    ASSUME NEW inputs, NEW value, NEW note, DepositAccepted(inputs, value, note)
    PROVE  DepositAuthorised([selector |-> DepositSelector, commitment |-> inputs.commitment,
                              amount |-> value, note |-> note])
<1>1. PICK p \in depositPlans : DepositInputs(p) = inputs
  BY DEF DepositAccepted, VerifyDeposit
<1>2. /\ inputs.commitment = p.commitment
      /\ inputs.amount = p.amount
      /\ inputs.encryptedNoteHash =
            IF p.client = "web" THEN WebDepositNoteHash(Here, p.commitment, p.note)
                                ELSE SdkDepositNoteHash(Here, p.commitment, p.note)
  BY <1>1 DEF DepositInputs
<1>3. /\ inputs.amount = value
      /\ inputs.encryptedNoteHash =
            DepositEncryptedNoteHash(Here, DepositSelector, inputs.commitment, note)
  BY DEF DepositAccepted, DepositBindings
<1>4. p.note = note
  <2>1. CASE p.client = "web"
    BY <1>2, <1>3, <2>1 DEF WebDepositNoteHash, DepositEncryptedNoteHash, EncryptedNoteHash
  <2>2. CASE p.client # "web"
    BY <1>2, <1>3, <2>2 DEF SdkDepositNoteHash, DepositEncryptedNoteHash, EncryptedNoteHash
  <2> QED
    BY <2>1, <2>2
<1> QED
  BY <1>1, <1>2, <1>3, <1>4 DEF DepositAuthorised

(* An executed call stays authorised: plans are never withdrawn.           *)
LEMMA AuthorisationLasts ==
    ASSUME ExecutedAsPlanned, depositPlans \subseteq depositPlans', plans \subseteq plans',
           NEW e \in executed
    PROVE  IF e.selector = DepositSelector THEN DepositAuthorised(e)' ELSE SpendAuthorised(e)'
<1>1. CASE e.selector = DepositSelector
  BY <1>1 DEF ExecutedAsPlanned, DepositAuthorised
<1>2. CASE e.selector # DepositSelector
  BY <1>2 DEF ExecutedAsPlanned, SpendAuthorised, WithinBounds
<1> QED
  BY <1>1, <1>2

(* Every step keeps the plans well formed.                                 *)
LEMMA PlansStayWellFormed ==
    ASSUME PlansWellFormed, [BindingNext]_allVars
    PROVE  PlansWellFormed' /\ plans \subseteq plans' /\ depositPlans \subseteq depositPlans'
<1>1. ASSUME NEW p, WellFormed(p), AddPlan(p)
      PROVE  PlansWellFormed' /\ plans \subseteq plans' /\ depositPlans \subseteq depositPlans'
  BY <1>1 DEF AddPlan, PlansWellFormed, WellFormed
<1>2. CASE OwnersStep
  <2>1. ASSUME NEW client \in DepositClients, NEW c \in Commitments,
               NEW amount \in Denominations, PrepareDeposit(client, c, amount, OtherBytes)
        PROVE  PlansWellFormed' /\ plans \subseteq plans' /\ depositPlans \subseteq depositPlans'
    BY <2>1 DEF PrepareDeposit, PlansWellFormed, WellFormed
  <2>2. ASSUME NEW leaf, NEW out, NEW gross, NEW destination,
               \/ SdkPlansWithdrawal(leaf, out, gross, destination)
               \/ WebPlansWithdrawal(leaf, out, gross, destination)
        PROVE  PlansWellFormed' /\ plans \subseteq plans' /\ depositPlans \subseteq depositPlans'
    <3>1. ASSUME NEW client \in {"sdk", "web"}
          PROVE  WellFormed(WalletPlan(client, leaf, out, gross, destination))
      BY BindingAssumption DEF BindingAssumption, WellFormed, WalletPlan
    <3>2. PICK client \in {"sdk", "web"} :
             AddPlan(WalletPlan(client, leaf, out, gross, destination))
      BY <2>2 DEF SdkPlansWithdrawal, WebPlansWithdrawal
    <3> QED
      BY <1>1, <3>1, <3>2
  <2>3. ASSUME NEW d \in Deployments, NEW selector, NEW leaf, NEW out, NEW gross,
               NEW destination, NEW note, NEW policy,
               OwnerPlansWithdrawal(d, selector, leaf, out, gross, destination, note, policy)
        PROVE  PlansWellFormed' /\ plans \subseteq plans' /\ depositPlans \subseteq depositPlans'
    <3> DEFINE p == [client |-> "contract", deployment |-> d, selector |-> selector,
                 leaf |-> leaf, root |-> currentRoot, out |-> out, destination |-> destination,
                 gross |-> gross, fee |-> FeeOf(gross), note |-> note,
                 policy |-> PolicyOf([selector |-> selector, policy |-> policy])]
    <3>1. AddPlan(p)
      BY <2>3 DEF OwnerPlansWithdrawal
    <3>2. WellFormed(p)
      BY DEF WellFormed
    <3> QED
      BY <1>1, <3>1, <3>2
  <2>4. ASSUME NEW d \in Deployments, NEW selector, NEW leaf, NEW out, NEW note, NEW policy,
               OwnerPlansTransfer(d, selector, leaf, out, note, policy)
        PROVE  PlansWellFormed' /\ plans \subseteq plans' /\ depositPlans \subseteq depositPlans'
    <3> DEFINE p == [client |-> "contract", deployment |-> d, selector |-> selector,
                 leaf |-> leaf, root |-> currentRoot, out |-> out,
                 destination |-> ZeroAddress, gross |-> 0, fee |-> 0, note |-> note,
                 policy |-> PolicyOf([selector |-> selector, policy |-> policy])]
    <3>1. AddPlan(p)
      BY <2>4 DEF OwnerPlansTransfer
    <3>2. WellFormed(p)
      BY DEF WellFormed
    <3> QED
      BY <1>1, <3>1, <3>2
  <2> QED
    BY <1>2, <2>1, <2>2, <2>3, <2>4 DEF OwnersStep
<1>3. CASE UNCHANGED <<depositPlans, plans>>
  BY <1>3 DEF PlansWellFormed, WellFormed
<1>4. CASE TransactionsStep
  <2>1. UNCHANGED <<depositPlans, plans>>
    BY <1>4 DEF TransactionsStep, SubmitDeposit, SubmitPrivateTransfer, SubmitWithdraw
  <2> QED
    BY <1>3, <2>1
<1>5. ASSUME NEW call, NEW deadline, RelayAdmits(call, deadline)
      PROVE  UNCHANGED <<depositPlans, plans>>
  BY <1>5 DEF RelayAdmits
<1>6. CASE UNCHANGED bindingVars
  BY <1>3, <1>6 DEF bindingVars
<1> QED
  BY <1>2, <1>3, <1>4, <1>5, <1>6 DEF BindingNext, allVars

(* Every step executes planned calls only.                                 *)
LEMMA StepExecutesPlans ==
    ASSUME BindingInv, [BindingNext]_allVars
    PROVE  BindingInv'
<1>1. PlansWellFormed' /\ plans \subseteq plans' /\ depositPlans \subseteq depositPlans'
  BY PlansStayWellFormed DEF BindingInv
<1>2. \A e \in executed :
         IF e.selector = DepositSelector THEN DepositAuthorised(e)' ELSE SpendAuthorised(e)'
  BY <1>1, AuthorisationLasts DEF BindingInv
<1>3. CASE UNCHANGED executed
  BY <1>1, <1>2, <1>3 DEF BindingInv, ExecutedAsPlanned
<1>4. ASSUME NEW inputs, NEW value, NEW note, SubmitDeposit(inputs, value, note)
      PROVE  BindingInv'
  <2> DEFINE e == [selector |-> DepositSelector, commitment |-> inputs.commitment,
                   amount |-> value, note |-> note]
  <2>1. executed' = executed \cup {e} /\ depositPlans' = depositPlans
    BY <1>4 DEF SubmitDeposit
  <2>2. DepositAuthorised(e)
    BY <1>4, DepositIsPlanned DEF SubmitDeposit
  <2>3. DepositAuthorised(e)' /\ e.selector = DepositSelector
    BY <2>1, <2>2 DEF DepositAuthorised
  <2> HIDE DEF e
  <2> QED
    BY <1>1, <1>2, <2>1, <2>3 DEF BindingInv, ExecutedAsPlanned
<1>5. ASSUME NEW e, SpendAuthorised(e), executed' = executed \cup {e},
             e.selector # DepositSelector
      PROVE  BindingInv'
  <2>1. SpendAuthorised(e)'
    BY <1>1, <1>5 DEF SpendAuthorised, WithinBounds
  <2> QED
    BY <1>1, <1>2, <1>5, <2>1 DEF BindingInv, ExecutedAsPlanned
<1>6. ASSUME NEW call, NEW sender, SubmitPrivateTransfer(call, sender)
      PROVE  BindingInv'
  <2> DEFINE e == Execution(call, call.newCommitment, ZeroAddress, 0, 0, sender)
  <2>1. executed' = executed \cup {e} /\ PrivateTransferAccepted(call, sender)
    BY <1>6 DEF SubmitPrivateTransfer
  <2>2. e.selector # DepositSelector
    BY <2>1 DEF Execution, PrivateTransferAccepted, TransferSelectors, DepositSelector,
       Transfer, TransferNote, TransferNotePolicy
  <2>3. SpendAuthorised(e)
    BY <2>1, TransferIsPlanned DEF BindingInv
  <2> QED
    BY <1>5, <2>1, <2>2, <2>3
<1>7. ASSUME NEW call, NEW sender, SubmitWithdraw(call, sender)
      PROVE  BindingInv'
  <2> DEFINE e == Execution(call, call.inputs.outputCommitment, call.destination, call.gross,
                            FeeOf(call.gross), sender)
  <2>1. executed' = executed \cup {e} /\ WithdrawAccepted(call, sender)
    BY <1>7 DEF SubmitWithdraw
  <2>2. e.selector # DepositSelector
    BY <2>1 DEF Execution, WithdrawAccepted, WithdrawSelectors, DepositSelector, Withdraw,
       WithdrawNote, WithdrawBounds, WithdrawNoteBounds, WithdrawPolicy, WithdrawNotePolicy
  <2>3. SpendAuthorised(e)
    BY <2>1, WithdrawalIsPlanned DEF BindingInv
  <2> QED
    BY <1>5, <2>1, <2>2, <2>3
<1>8. CASE TransactionsStep
  BY <1>4, <1>6, <1>7, <1>8 DEF TransactionsStep
<1>9. CASE OwnersStep
  <2>1. ASSUME NEW client, NEW c, NEW amount, PrepareDeposit(client, c, amount, OtherBytes)
        PROVE  UNCHANGED executed
    BY <2>1 DEF PrepareDeposit
  <2>2. ASSUME NEW p, AddPlan(p)
        PROVE  UNCHANGED executed
    BY <2>2 DEF AddPlan
  <2>3. ASSUME NEW leaf, NEW out, NEW gross, NEW destination,
               \/ SdkPlansWithdrawal(leaf, out, gross, destination)
               \/ WebPlansWithdrawal(leaf, out, gross, destination)
        PROVE  UNCHANGED executed
    BY <2>2, <2>3 DEF SdkPlansWithdrawal, WebPlansWithdrawal
  <2>4. ASSUME NEW d, NEW selector, NEW leaf, NEW out, NEW gross, NEW destination, NEW note,
               NEW policy,
               OwnerPlansWithdrawal(d, selector, leaf, out, gross, destination, note, policy)
        PROVE  UNCHANGED executed
    BY <2>2, <2>4 DEF OwnerPlansWithdrawal
  <2>5. ASSUME NEW d, NEW selector, NEW leaf, NEW out, NEW note, NEW policy,
               OwnerPlansTransfer(d, selector, leaf, out, note, policy)
        PROVE  UNCHANGED executed
    BY <2>2, <2>5 DEF OwnerPlansTransfer
  <2>6. UNCHANGED executed
    BY <1>9, <2>1, <2>3, <2>4, <2>5 DEF OwnersStep
  <2> QED
    BY <1>3, <2>6
<1>10. ASSUME NEW call, NEW deadline, RelayAdmits(call, deadline)
       PROVE  UNCHANGED executed
  BY <1>10 DEF RelayAdmits
<1>11. CASE UNCHANGED bindingVars
  BY <1>3, <1>11 DEF bindingVars
<1> QED
  BY <1>3, <1>8, <1>9, <1>10, <1>11 DEF BindingNext, allVars

(* Every call that the pool executes (_depositWithProof, _privateTransfer, *)
(* _withdraw) is exactly one that an owner planned and proved for this     *)
(* deployment, for any set of deployments, notes, policies and senders.    *)
THEOREM PoolExecutesPlans == BindingSpec => []ExecutedAsPlanned
<1>1. BindingInit => BindingInv
  BY DEF BindingInit, BindingInv, PlansWellFormed, ExecutedAsPlanned
<1>2. BindingInv /\ [BindingNext]_allVars => BindingInv'
  BY StepExecutesPlans
<1>3. BindingInv => ExecutedAsPlanned
  BY DEF BindingInv
<1> QED
  BY <1>1, <1>2, <1>3, PTL DEF BindingSpec

-----------------------------------------------------------------------------
(* What was planned and what was admitted.                                 *)

(* What else the owners' actions make of a plan: the two wallets plan      *)
(* withdrawals of denominations here, and a withdrawal's note is the       *)
(* envelope of its output.                                                 *)
WalletMade(p) ==
    /\ p.deployment = Here
    /\ p.gross \in Denominations
    /\ p.destination \in Destinations
    /\ p.fee \in 0..p.gross
    /\ p.policy = SdkRelayerPolicy(p.gross, p.fee)

PlanInOrder(p) ==
    /\ p.out \in Commitments
    /\ p.selector \in {TransferNote, TransferNotePolicy, WithdrawNoteBounds, WithdrawNotePolicy}
    /\ p.selector \in WithdrawSelectors => p.note = Envelope(p.deployment, p.out)
    /\ p.policy \in RelayerPolicies
    /\ p.client \in {"sdk", "web"} => WalletMade(p)

PlansInOrder == \A p \in plans : PlanInOrder(p)

DepositPlansInOrder ==
    \A p \in depositPlans :
        p.commitment \in Commitments /\ p.amount \in Denominations /\ p.note = OtherBytes

(* The fee of an admitted call is the one the relay read, and no increase  *)
(* is due before the call's deadline.                                      *)
AdmittedFee(r) == (r.call.gross * r.feeBps) \div BPS_DENOMINATOR

AdmittedForFee(r) ==
    /\ r.deadline \in Nat /\ r.deadline < timestamp + FEE_INCREASE_DELAY
    /\ timestamp <= r.deadline =>
          /\ feeBps <= r.feeBps
          /\ pendingFeeBps # 0 => pendingFeeActivationTime > r.deadline

(* What the relay checked of the calldata, which no later step changes.    *)
Admitted(r) ==
    /\ r.feeBps \in 0..MAX_FEE_BPS
    /\ r.call.selector = WithdrawNoteBounds
    /\ r.call.policy \in RelayerPolicies
    /\ r.call.destination # ZeroAddress
    /\ r.call.gross \in Denominations
    /\ RelayInputs(r.call, AdmittedFee(r))
    /\ RelayBounds(r.call, AdmittedFee(r))
    /\ NoteOf(r.call) = Envelope(Here, r.call.inputs.outputCommitment)
    /\ RelayBindings(r.call, AdmittedFee(r))
    /\ VerifySpend(r.call.inputs)

AdmissionsInOrder == \A r \in relayed : Admitted(r) /\ AdmittedForFee(r)

EvidenceInv ==
    /\ FeeInv
    /\ PlansWellFormed
    /\ PlansInOrder
    /\ DepositPlansInOrder
    /\ AdmissionsInOrder

(* No step of owners, relay or pool moves the fee, except governance and   *)
(* blocks.                                                                 *)
LEMMA BindingFees ==
    ASSUME [BindingNext]_allVars
    PROVE  UNCHANGED feeVars \/ FeeStep
<1>1. CASE OwnersStep
  <2>1. ASSUME NEW p, AddPlan(p) PROVE UNCHANGED feeVars
      BY <2>1 DEF AddPlan, vars
  <2>2. ASSUME NEW client, NEW c, NEW amount, PrepareDeposit(client, c, amount, OtherBytes)
        PROVE  UNCHANGED feeVars
      BY <2>2 DEF PrepareDeposit, vars
  <2>3. ASSUME NEW leaf, NEW out, NEW gross, NEW destination,
               \/ SdkPlansWithdrawal(leaf, out, gross, destination)
               \/ WebPlansWithdrawal(leaf, out, gross, destination)
        PROVE  UNCHANGED feeVars
      BY <2>1, <2>3 DEF SdkPlansWithdrawal, WebPlansWithdrawal
  <2>4. ASSUME NEW d, NEW selector, NEW leaf, NEW out, NEW gross, NEW destination, NEW note,
               NEW policy,
               OwnerPlansWithdrawal(d, selector, leaf, out, gross, destination, note, policy)
        PROVE  UNCHANGED feeVars
      BY <2>1, <2>4 DEF OwnerPlansWithdrawal
  <2>5. ASSUME NEW d, NEW selector, NEW leaf, NEW out, NEW note, NEW policy,
               OwnerPlansTransfer(d, selector, leaf, out, note, policy)
        PROVE  UNCHANGED feeVars
      BY <2>1, <2>5 DEF OwnerPlansTransfer
  <2> QED BY <1>1, <2>2, <2>3, <2>4, <2>5 DEF OwnersStep
<1>2. CASE TransactionsStep
  <2>1. ASSUME NEW inputs, NEW value, NEW note, SubmitDeposit(inputs, value, note)
        PROVE  UNCHANGED feeVars
      BY <2>1 DEF SubmitDeposit, Deposit
  <2>2. ASSUME NEW call, NEW sender, SubmitPrivateTransfer(call, sender) PROVE UNCHANGED feeVars
      BY <2>2 DEF SubmitPrivateTransfer, PrivateTransfer
  <2>3. ASSUME NEW call, NEW sender, SubmitWithdraw(call, sender) PROVE UNCHANGED feeVars
      BY <2>3 DEF SubmitWithdraw, WithdrawCall
  <2> QED BY <1>2, <2>1, <2>2, <2>3 DEF TransactionsStep
<1>3. ASSUME NEW call, NEW deadline, RelayAdmits(call, deadline) PROVE UNCHANGED feeVars
    BY <1>3 DEF RelayAdmits, vars
<1>4. CASE CallReturns
    BY <1>4 DEF CallReturns
<1>5. CASE UNCHANGED allVars
    BY <1>5 DEF allVars, vars
<1> QED BY <1>1, <1>2, <1>3, <1>4, <1>5 DEF BindingNext

LEMMA BindingKeepsFees == ASSUME FeeInv, [BindingNext]_allVars PROVE FeeInv'
<1>1. FeeStep => [FeeNext]_feeVars
    BY DEF FeeStep, FeeNext
<1> QED BY <1>1, BindingFees, FeeStepInv

(* The policy that an overload hands on is a policy. *)
LEMMA PolicyOfIsPolicy ==
    ASSUME NEW selector, NEW policy \in RelayerPolicies
    PROVE  PolicyOf([selector |-> selector, policy |-> policy]) \in RelayerPolicies
<1> DEFINE call == [selector |-> selector, policy |-> policy]
<1>1. call.selector = selector /\ call.policy = policy
    OBVIOUS
<1>2. MaxUint256 \in Nat
    BY BindingAssumption
<1>3. /\ [relayer |-> NoRelayer, minNetAmount |-> 0, maxFeeAmount |-> MaxUint256,
          deadlineOrZero |-> 0] \in RelayerPolicies
      /\ [policy EXCEPT !.relayer = NoRelayer, !.deadlineOrZero = 0] \in RelayerPolicies
    BY <1>2 DEF RelayerPolicies
<1> HIDE DEF call
<1>4. PolicyOf(call) \in RelayerPolicies
    BY <1>1, <1>3 DEF PolicyOf
<1> QED BY <1>4 DEF call

(* The selectors are different functions. *)
LEMMA SelectorsDiffer ==
    /\ WithdrawNoteBounds \in WithdrawSelectors /\ WithdrawNotePolicy \in WithdrawSelectors
    /\ WithdrawNoteBounds \notin TransferSelectors /\ WithdrawNotePolicy \notin TransferSelectors
    /\ WithdrawNoteBounds \notin {Withdraw, WithdrawNote, Transfer, TransferNote, WithdrawBounds,
                                  WithdrawPolicy, DepositSelector}
    /\ {TransferNote, TransferNotePolicy} \cap WithdrawSelectors = {}
BY DEF WithdrawNoteBounds, WithdrawNotePolicy, WithdrawSelectors, TransferSelectors, Withdraw,
   WithdrawNote, WithdrawBounds, WithdrawPolicy, Transfer, TransferNote, TransferNotePolicy,
   DepositSelector

(* What a wallet plans is in order ... *)
LEMMA WalletPlanInOrder ==
    ASSUME FeeInv, NEW client \in {"sdk", "web"}, NEW leaf, NEW out \in Commitments,
           NEW gross \in Denominations, NEW destination \in Destinations
    PROVE  PlanInOrder(WalletPlan(client, leaf, out, gross, destination))
<1> DEFINE p == WalletPlan(client, leaf, out, gross, destination)
<1>1. /\ p.deployment = Here /\ p.selector = WithdrawNoteBounds /\ p.out = out
      /\ p.destination = destination /\ p.gross = gross /\ p.fee = FeeOf(gross)
      /\ p.note = Envelope(Here, out) /\ p.policy = SdkRelayerPolicy(gross, FeeOf(gross))
    BY DEF WalletPlan
<1>2. gross \in Nat /\ FeeOf(gross) \in 0..gross
  <2>1. gross \in Nat
      BY PoolAssumption
  <2> QED BY <2>1, FeeBound DEF FeeInv, FeeTypeOK
<1> HIDE DEF p
<1>3. SdkRelayerPolicy(gross, FeeOf(gross)) \in RelayerPolicies
    BY <1>2 DEF SdkRelayerPolicy, RelayerPolicies
<1>4. PlanInOrder(p)
    BY <1>1, <1>2, <1>3 DEF PlanInOrder, WalletMade
<1> QED BY <1>4 DEF p

(* ... and so is everything that owners prepare. *)
LEMMA OwnersPlanInOrder ==
    ASSUME FeeInv, PlansInOrder, DepositPlansInOrder, [BindingNext]_allVars
    PROVE  PlansInOrder' /\ DepositPlansInOrder'
<1>1. ASSUME NEW p, PlanInOrder(p), AddPlan(p) PROVE PlansInOrder' /\ DepositPlansInOrder'
  <2>1. plans' = plans \cup {p} /\ UNCHANGED depositPlans
      BY <1>1 DEF AddPlan
  <2>2. \A q : PlanInOrder(q) => PlanInOrder(q)'
      BY DEF PlanInOrder, WalletMade, SdkRelayerPolicy
  <2> QED BY <1>1, <2>1, <2>2 DEF PlansInOrder, DepositPlansInOrder
<1>2. ASSUME UNCHANGED <<plans, depositPlans>> PROVE PlansInOrder' /\ DepositPlansInOrder'
  <2>1. \A q : PlanInOrder(q) => PlanInOrder(q)'
      BY DEF PlanInOrder, WalletMade, SdkRelayerPolicy
  <2> QED BY <1>2, <2>1 DEF PlansInOrder, DepositPlansInOrder
<1>3. CASE OwnersStep
  <2>1. ASSUME NEW client \in DepositClients, NEW c \in Commitments, NEW amount \in Denominations,
               PrepareDeposit(client, c, amount, OtherBytes)
        PROVE  PlansInOrder' /\ DepositPlansInOrder'
    <3> DEFINE d == [client |-> client, commitment |-> c, amount |-> amount, note |-> OtherBytes]
    <3>1. depositPlans' = depositPlans \cup {d} /\ UNCHANGED plans
        BY <2>1 DEF PrepareDeposit
    <3>2. d.commitment \in Commitments /\ d.amount \in Denominations /\ d.note = OtherBytes
        OBVIOUS
    <3> HIDE DEF d
    <3>3. DepositPlansInOrder'
        BY <3>1, <3>2 DEF DepositPlansInOrder
    <3>4. \A q : PlanInOrder(q) => PlanInOrder(q)'
        BY DEF PlanInOrder, WalletMade, SdkRelayerPolicy
    <3> QED BY <3>1, <3>3, <3>4 DEF PlansInOrder
  <2>2. ASSUME NEW leaf, NEW out \in Commitments, NEW gross \in Denominations,
               NEW destination \in Destinations,
               \/ SdkPlansWithdrawal(leaf, out, gross, destination)
               \/ WebPlansWithdrawal(leaf, out, gross, destination)
        PROVE  PlansInOrder' /\ DepositPlansInOrder'
      BY <1>1, <2>2, WalletPlanInOrder DEF SdkPlansWithdrawal, WebPlansWithdrawal
  <2>3. ASSUME NEW d \in Deployments, NEW policy \in Policies,
               NEW selector \in {WithdrawNoteBounds, WithdrawNotePolicy}, NEW leaf,
               NEW out \in Commitments, NEW gross \in Denominations,
               NEW destination \in Destinations,
               OwnerPlansWithdrawal(d, selector, leaf, out, gross, destination,
                                    Envelope(d, out), policy)
        PROVE  PlansInOrder' /\ DepositPlansInOrder'
    <3> DEFINE bound == PolicyOf([selector |-> selector, policy |-> policy])
               p == [client |-> "contract", deployment |-> d, selector |-> selector,
                     leaf |-> leaf, root |-> currentRoot, out |-> out,
                     destination |-> destination, gross |-> gross, fee |-> FeeOf(gross),
                     note |-> Envelope(d, out), policy |-> bound]
    <3>1. AddPlan(p)
        BY <2>3 DEF OwnerPlansWithdrawal
    <3>2. bound \in RelayerPolicies
        BY BindingAssumption, PolicyOfIsPolicy
    <3> HIDE DEF bound
    <3>3. PlanInOrder(p)
        BY <3>2 DEF PlanInOrder
    <3> HIDE DEF p
    <3> QED BY <1>1, <3>1, <3>3
  <2>4. ASSUME NEW d \in Deployments, NEW policy \in Policies,
               NEW selector \in {TransferNote, TransferNotePolicy}, NEW leaf,
               NEW out \in Commitments,
               OwnerPlansTransfer(d, selector, leaf, out, OtherBytes, policy)
        PROVE  PlansInOrder' /\ DepositPlansInOrder'
    <3> DEFINE bound == PolicyOf([selector |-> selector, policy |-> policy])
               p == [client |-> "contract", deployment |-> d, selector |-> selector,
                     leaf |-> leaf, root |-> currentRoot, out |-> out,
                     destination |-> ZeroAddress, gross |-> 0, fee |-> 0,
                     note |-> OtherBytes, policy |-> bound]
    <3>1. AddPlan(p)
        BY <2>4 DEF OwnerPlansTransfer
    <3>2. bound \in RelayerPolicies
        BY BindingAssumption, PolicyOfIsPolicy
    <3> HIDE DEF bound
    <3>3. PlanInOrder(p)
        BY <3>2, SelectorsDiffer DEF PlanInOrder
    <3> HIDE DEF p
    <3> QED BY <1>1, <3>1, <3>3
  <2> QED BY <1>3, <2>1, <2>2, <2>3, <2>4 DEF OwnersStep
<1>4. CASE TransactionsStep
    BY <1>2, <1>4 DEF TransactionsStep, SubmitDeposit, SubmitPrivateTransfer, SubmitWithdraw
<1>5. ASSUME NEW call, NEW deadline, RelayAdmits(call, deadline)
      PROVE  UNCHANGED <<plans, depositPlans>>
    BY <1>5 DEF RelayAdmits
<1>6. CASE UNCHANGED bindingVars
    BY <1>2, <1>6 DEF bindingVars
<1> QED BY <1>2, <1>3, <1>4, <1>5, <1>6 DEF BindingNext, allVars

(* What the relay's hashes say is what the pool's say. *)
LEMMA RelayHashes ==
    /\ \A d, f, n, c, b : RelayOutputNoteHash(d, f, n, c, b)
                            = EncryptedOutputNoteHash(d, WITHDRAW_CONTEXT_SHAPE, f, n, c, b)
    /\ \A d, f, r, n, a, g, w, h, p :
          RelayProofContextHash(d, f, r, n, a, g, w, h, p)
            = ProofContextHash(d, WITHDRAW_CONTEXT_SHAPE, f, r, n, a, g, w, h, p)
BY DEF RelayOutputNoteHash, EncryptedOutputNoteHash, RelayProofContextHash, ProofContextHash,
   RelayRelayerPolicyHash, RelayerPolicyHash

(* Only the overload with a note can carry an envelope to the relay. *)
LEMMA RelayedOverload ==
    ASSUME NEW call, call.selector \in RelaySelectors, NEW c, NoteOf(call) = Envelope(Here, c)
    PROVE  call.selector = WithdrawNoteBounds
<1>1. EmptyNote # Envelope(Here, c)
  <2>1. EmptyNote.kind = "empty" /\ Envelope(Here, c).kind = "envelope"
      BY DEF EmptyNote, Envelope, Bytes
  <2> QED BY <2>1
<1> QED BY <1>1 DEF NoteOf, RelaySelectors

(* A withdrawal whose public inputs the relay matched with the calldata    *)
(* and its hashes was proved for the withdrawal circuit.                   *)
LEMMA RelayedIsVerified ==
    ASSUME PlansWellFormed, NEW call, NEW fee, NEW p \in plans, SpendInputs(p) = call.inputs,
           call.selector = WithdrawNoteBounds, call.gross \in Denominations,
           call.destination # ZeroAddress, RelayInputs(call, fee), RelayBindings(call, fee)
    PROVE  VerifySpend(call.inputs)
<1>1. WellFormed(p)
    BY DEF PlansWellFormed
<1>2. call.inputs.encryptedNoteHash = PlanNoteHash(p)
  <2>1. SpendInputs(p).encryptedNoteHash = PlanNoteHash(p)
      BY DEF SpendInputs
  <2> QED BY <2>1
<1>3. EncryptedOutputNoteHash(p.deployment, Shape(p.selector), p.selector, PlanNullifier(p),
                              p.out, p.note)
        = EncryptedOutputNoteHash(Here, WITHDRAW_CONTEXT_SHAPE, call.selector, call.nullifier,
                                  call.inputs.outputCommitment, NoteOf(call))
    BY <1>1, <1>2, ClientsAgree, RelayHashes DEF RelayBindings
<1>4. p.selector = WithdrawNoteBounds
    BY <1>3, OutputNoteHashInjective
<1>5. call.gross \in Nat \ {0}
    BY PoolAssumption
<1>6. RoutedCircuit(call.inputs) = "withdraw"
    BY <1>5 DEF RoutedCircuit, RelayInputs
<1>7. Circuit(p.selector) = "withdraw"
    BY <1>4, SelectorsDiffer DEF Circuit
<1> QED BY <1>6, <1>7 DEF VerifySpend

(* What the relay admits is in order. *)
LEMMA AdmissionInOrder ==
    ASSUME FeeInv, PlansWellFormed, PlansInOrder, NEW call \in WithdrawCalls, NEW window \in Nat,
           NEW deadline, deadline = timestamp + window, RelayAllows(call, deadline),
           NEW r, r = [call |-> call, deadline |-> deadline, feeBps |-> feeBps]
    PROVE  Admitted(r) /\ AdmittedForFee(r)
<1>1. r.call = call /\ r.deadline = deadline /\ r.feeBps = feeBps
    OBVIOUS
<1>2. /\ call.inputs \in {SpendInputs(p) : p \in plans}
      /\ call.policy \in Policies \cup {p.policy : p \in plans}
    BY DEF WithdrawCalls, CallsWith
<1>3. PICK p \in plans : SpendInputs(p) = call.inputs
    BY <1>2
<1>4. call.policy \in RelayerPolicies
    BY <1>2, BindingAssumption DEF PlansInOrder, PlanInOrder
<1>5. AdmittedFee(r) = RelayFee(call.gross)
    BY <1>1 DEF AdmittedFee, RelayFee
<1>6. /\ call.selector \in RelaySelectors
      /\ RelayInputs(call, AdmittedFee(r))
      /\ RelayFeePolicy(call.inputs, call.gross, deadline)
      /\ call.destination # ZeroAddress
      /\ call.gross \in Denominations
      /\ RelayBounds(call, AdmittedFee(r))
      /\ NoteOf(call) = Envelope(Here, call.inputs.outputCommitment)
      /\ RelayBindings(call, AdmittedFee(r))
      /\ RelayDeadline(deadline)
    BY <1>5 DEF RelayAllows
<1>7. call.selector = WithdrawNoteBounds
    BY <1>6, RelayedOverload
<1>8. VerifySpend(call.inputs)
    BY <1>3, <1>6, <1>7, RelayedIsVerified
<1>9. feeBps \in 0..MAX_FEE_BPS /\ timestamp \in Nat /\ pendingFeeActivationTime \in Nat
    BY DEF FeeInv, FeeTypeOK
<1>10. Admitted(r)
    BY <1>1, <1>4, <1>6, <1>7, <1>8, <1>9 DEF Admitted
<1>11. AdmittedForFee(r)
  <2>1. deadline \in Nat /\ deadline <= timestamp + MAX_RELAY_DEADLINE_SECONDS_FROM_NOW
      BY <1>6, <1>9 DEF RelayDeadline
  <2>2. deadline < timestamp + FEE_INCREASE_DELAY
      BY <1>9, <2>1, BindingAssumption, FeeAssumption
  <2>3. pendingFeeBps # 0 => pendingFeeActivationTime > deadline
      BY <1>6 DEF RelayFeePolicy
  <2>4. feeBps <= feeBps
      BY <1>9
  <2> QED BY <1>1, <2>1, <2>2, <2>3, <2>4 DEF AdmittedForFee
<1> QED BY <1>10, <1>11

(* No fee increase overtakes an admitted call: what is scheduled later     *)
(* waits FEE_INCREASE_DELAY, which is longer than any admitted deadline.   *)
LEMMA AdmittedFeeStands ==
    ASSUME FeeInv, FeeInv', NEW r, AdmittedForFee(r), r.feeBps \in 0..MAX_FEE_BPS,
           UNCHANGED feeVars \/ FeeStep
    PROVE  AdmittedForFee(r)'
<1>1. /\ feeBps \in 0..MAX_FEE_BPS /\ pendingFeeBps \in 0..MAX_FEE_BPS
      /\ timestamp \in Nat /\ pendingFeeActivationTime \in Nat
      /\ FEE_INCREASE_DELAY \in Nat /\ MAX_FEE_BPS \in Nat /\ r.deadline \in Nat
    BY FeeAssumption DEF FeeInv, FeeTypeOK, AdmittedForFee
<1>2. CASE UNCHANGED feeVars
    BY <1>2 DEF feeVars, AdmittedForFee
<1>3. ASSUME NEW newFeeBps \in FeeArguments, SetFeeBps(newFeeBps) PROVE AdmittedForFee(r)'
  <2>1. newFeeBps \in Nat
      BY <1>1 DEF FeeArguments
  <2> QED BY <1>1, <1>3, <2>1 DEF SetFeeBps, AdmittedForFee, ClearPendingFee, ActivationTime
<1>4. CASE ExecutePendingFeeBps
    BY <1>1, <1>4 DEF ExecutePendingFeeBps, AdmittedForFee, ClearPendingFee
<1>5. CASE CancelPendingFeeBps
    BY <1>1, <1>5 DEF CancelPendingFeeBps, AdmittedForFee, ClearPendingFee
<1>6. CASE NextBlock
    BY <1>1, <1>6 DEF NextBlock, AdmittedForFee, feeState
<1> QED BY <1>2, <1>3, <1>4, <1>5, <1>6 DEF FeeStep, FeeGovernance

LEMMA AdmissionsStayInOrder ==
    ASSUME EvidenceInv, [BindingNext]_allVars
    PROVE  AdmissionsInOrder'
<1>1. /\ FeeInv /\ FeeInv' /\ PlansWellFormed /\ PlansInOrder
      /\ plans \subseteq plans'
    BY BindingKeepsFees, PlansStayWellFormed DEF EvidenceInv
<1>2. ASSUME NEW r, Admitted(r), AdmittedForFee(r) PROVE Admitted(r)' /\ AdmittedForFee(r)'
  <2>1. AdmittedForFee(r)'
      BY <1>1, <1>2, AdmittedFeeStands, BindingFees DEF Admitted
  <2>2. VerifySpend(r.call.inputs)'
      BY <1>1, <1>2 DEF Admitted, VerifySpend
  <2>3. Admitted(r)'
      BY <1>2, <2>2 DEF Admitted, AdmittedFee, RelayInputs, RelayBounds, RelayBindings
  <2> QED BY <2>1, <2>3
<1>3. CASE UNCHANGED relayed
    BY <1>2, <1>3 DEF EvidenceInv, AdmissionsInOrder
<1>4. ASSUME NEW call \in WithdrawCalls,
             NEW window \in 0..(MAX_RELAY_DEADLINE_SECONDS_FROM_NOW + 1),
             RelayAdmits(call, timestamp + window)
      PROVE  AdmissionsInOrder'
  <2> DEFINE deadline == timestamp + window
             r == [call |-> call, deadline |-> deadline, feeBps |-> feeBps]
  <2>1. RelayAllows(call, deadline) /\ relayed' = relayed \cup {r}
      BY <1>4 DEF RelayAdmits
  <2>2. window \in Nat
      BY BindingAssumption, FeeAssumption
  <2>3. Admitted(r) /\ AdmittedForFee(r)
      BY <1>1, <2>1, <2>2, AdmissionInOrder
  <2> HIDE DEF r
  <2> QED BY <1>2, <2>1, <2>3 DEF EvidenceInv, AdmissionsInOrder
<1>5. CASE OwnersStep
  <2>1. ASSUME NEW p, AddPlan(p) PROVE UNCHANGED relayed
      BY <2>1 DEF AddPlan
  <2>2. ASSUME NEW client, NEW c, NEW amount, PrepareDeposit(client, c, amount, OtherBytes)
        PROVE  UNCHANGED relayed
      BY <2>2 DEF PrepareDeposit
  <2>3. ASSUME NEW leaf, NEW out, NEW gross, NEW destination,
               \/ SdkPlansWithdrawal(leaf, out, gross, destination)
               \/ WebPlansWithdrawal(leaf, out, gross, destination)
        PROVE  UNCHANGED relayed
      BY <2>1, <2>3 DEF SdkPlansWithdrawal, WebPlansWithdrawal
  <2>4. ASSUME NEW d, NEW selector, NEW leaf, NEW out, NEW gross, NEW destination, NEW note,
               NEW policy,
               OwnerPlansWithdrawal(d, selector, leaf, out, gross, destination, note, policy)
        PROVE  UNCHANGED relayed
      BY <2>1, <2>4 DEF OwnerPlansWithdrawal
  <2>5. ASSUME NEW d, NEW selector, NEW leaf, NEW out, NEW note, NEW policy,
               OwnerPlansTransfer(d, selector, leaf, out, note, policy)
        PROVE  UNCHANGED relayed
      BY <2>1, <2>5 DEF OwnerPlansTransfer
  <2> QED BY <1>3, <1>5, <2>2, <2>3, <2>4, <2>5 DEF OwnersStep
<1>6. CASE TransactionsStep
    BY <1>3, <1>6 DEF TransactionsStep, SubmitDeposit, SubmitPrivateTransfer, SubmitWithdraw
<1>7. CASE UNCHANGED bindingVars
    BY <1>3, <1>7 DEF bindingVars
<1> QED BY <1>3, <1>4, <1>5, <1>6, <1>7 DEF BindingNext, allVars

LEMMA EvidenceInitInv == BindingInit => EvidenceInv
<1> SUFFICES ASSUME BindingInit PROVE EvidenceInv
    OBVIOUS
<1>1. FeeInv
    BY FeeInitInv DEF BindingInit, Init
<1> QED BY <1>1 DEF BindingInit, EvidenceInv, PlansWellFormed, PlansInOrder,
           DepositPlansInOrder, AdmissionsInOrder

LEMMA EvidenceStepInv == ASSUME EvidenceInv, [BindingNext]_allVars PROVE EvidenceInv'
BY BindingKeepsFees, PlansStayWellFormed, OwnersPlanInOrder, AdmissionsStayInOrder DEF EvidenceInv

LEMMA EvidenceHolds == BindingSpec => []EvidenceInv
<1>1. EvidenceInv /\ [BindingNext]_allVars => EvidenceInv'
    BY EvidenceStepInv
<1> QED BY <1>1, EvidenceInitInv, PTL DEF BindingSpec

-----------------------------------------------------------------------------
(* The relay and the pool.                                                 *)

(* The pool accepts an admitted call for the fee that the relay read.      *)
LEMMA AdmittedIsAccepted ==
    ASSUME FeeInv, NEW r, Admitted(r), feeBps = r.feeBps, NEW sender,
           IsAcceptedRoot(r.call.inputs.root), r.call.inputs.outputCommitment \notin commitments
    PROVE  WithdrawAccepted(r.call, sender)
<1> DEFINE call == r.call
           fee == FeeOf(call.gross)
           policy == PolicyOf(call)
<1>1. AdmittedFee(r) = fee
    BY DEF AdmittedFee, FeeOf
<1>2. /\ call.selector = WithdrawNoteBounds /\ call.policy \in RelayerPolicies
      /\ call.destination # ZeroAddress /\ call.gross \in Denominations
      /\ RelayInputs(call, fee) /\ RelayBounds(call, fee) /\ RelayBindings(call, fee)
      /\ NoteOf(call) = Envelope(Here, call.inputs.outputCommitment)
      /\ VerifySpend(call.inputs)
    BY <1>1 DEF Admitted
<1>3. call.gross \in Nat \ {0}
    BY <1>2, PoolAssumption
<1>4. fee \in 0..call.gross
    BY <1>3, FeeBound DEF FeeInv, FeeTypeOK
<1> HIDE DEF call, fee
<1>5. /\ policy.relayer = NoRelayer /\ policy.deadlineOrZero = 0
      /\ policy.minNetAmount = call.policy.minNetAmount
      /\ policy.maxFeeAmount = call.policy.maxFeeAmount
      /\ call.policy.minNetAmount \in Nat
  <2>1. policy = [call.policy EXCEPT !.relayer = NoRelayer, !.deadlineOrZero = 0]
      BY <1>2, SelectorsDiffer DEF PolicyOf
  <2> QED BY <1>2, <2>1 DEF RelayerPolicies
<1>6. RelayPolicyOf(call) = [relayer |-> NoRelayer, minNetAmount |-> call.policy.minNetAmount,
                             maxFeeAmount |-> call.policy.maxFeeAmount, deadlineOrZero |-> 0]
    BY <1>2, SelectorsDiffer DEF RelayPolicyOf
<1> HIDE DEF policy
<1>7. WithdrawalInputs(call.inputs, call, fee)
    BY <1>2 DEF WithdrawalInputs, PublicInputsCommon, RelayInputs, call
<1>8. RelayerPolicyHolds(policy, sender)
    BY <1>5 DEF RelayerPolicyHolds
<1>9. NoteAccepted(NoteOf(call))
    BY <1>2 DEF NoteAccepted, Envelope, Bytes
<1>10. WithdrawalBindings(call.inputs, call, fee, policy, NoteOf(call))
  <2> DEFINE noteHash == EncryptedOutputNoteHash(Here, WITHDRAW_CONTEXT_SHAPE, call.selector,
                             call.nullifier, call.inputs.outputCommitment, NoteOf(call))
  <2>1. /\ call.inputs.encryptedNoteHash = noteHash
        /\ call.inputs.proofContextHash =
              ProofContextHash(Here, WITHDRAW_CONTEXT_SHAPE, call.selector, call.inputs.root,
                               call.nullifier, call.destination, call.gross, fee, noteHash,
                               RelayPolicyOf(call))
      BY <1>2, RelayHashes DEF RelayBindings
  <2>2. call.inputs.nullifier = call.nullifier
      BY <1>2 DEF RelayInputs
  <2> HIDE DEF noteHash
  <2>3. ProofContextHash(Here, WITHDRAW_CONTEXT_SHAPE, call.selector, call.inputs.root,
                         call.nullifier, call.destination, call.gross, fee, noteHash,
                         RelayPolicyOf(call))
          = ProofContextHash(Here, WITHDRAW_CONTEXT_SHAPE, call.selector, call.inputs.root,
                             call.inputs.nullifier, call.destination, call.gross, fee, noteHash,
                             policy)
      BY <1>5, <1>6, <2>2 DEF ProofContextHash, RelayerPolicyHash
  <2> QED BY <2>1, <2>3 DEF WithdrawalBindings, noteHash
<1>11. WithinBounds(policy, call.gross, fee)
    BY <1>2, <1>3, <1>4, <1>5 DEF WithinBounds, RelayBounds
<1>12. call.selector \in WithdrawSelectors \ {Withdraw, WithdrawNote}
    BY <1>2, SelectorsDiffer
<1>13. WithdrawAccepted(call, sender)
    BY <1>2, <1>3, <1>7, <1>8, <1>9, <1>10, <1>11, <1>12 DEF WithdrawAccepted, fee, policy
<1> QED BY <1>13 DEF call

(* What the relay admits (resolveRelayRuntimeFeePolicy,                    *)
(* normalizeRelayRequest) the pool accepts until the deadline, whoever     *)
(* carries it: the two validations agree, for every fee schedule.          *)
THEOREM RelayedCallsAccepted == BindingSpec => []RelayedCallsExecutable
<1>1. EvidenceInv => RelayedCallsExecutable
  <2> SUFFICES ASSUME EvidenceInv, NEW r \in relayed, timestamp <= r.deadline,
                      IsAcceptedRoot(r.call.inputs.root),
                      r.call.inputs.outputCommitment \notin commitments,
                      ~(feeBps < r.feeBps), NEW sender \in Accounts
               PROVE  WithdrawAccepted(r.call, sender)
      BY Zenon DEF RelayedCallsExecutable
  <2>1. FeeInv /\ Admitted(r) /\ AdmittedForFee(r)
      BY DEF EvidenceInv, AdmissionsInOrder
  <2>2. feeBps = r.feeBps
      BY <2>1, FeeAssumption DEF FeeInv, FeeTypeOK, Admitted, AdmittedForFee
  <2> QED BY <2>1, <2>2, AdmittedIsAccepted
<1> QED BY <1>1, EvidenceHolds, PTL

-----------------------------------------------------------------------------
(* The wallets.                                                            *)

(* A fee increase is worth at least one wei of every denomination. *)
LEMMA IncreasePays ==
    ASSUME NEW g \in Nat, g >= BPS_DENOMINATOR, NEW low \in Nat, NEW high \in Nat, low < high
    PROVE  (g * low) \div BPS_DENOMINATOR # (g * high) \div BPS_DENOMINATOR
<1> DEFINE D == BPS_DENOMINATOR
           a == g * low
           b == g * high
<1>1. D \in Nat \ {0}
    BY PoolAssumption
<1>2. a \in Nat /\ b \in Nat /\ b >= a + D
  <2>1. g * high >= g * (low + 1)
      OBVIOUS
  <2>2. g * (low + 1) = g * low + g
      OBVIOUS
  <2>3. g * low \in Nat /\ g * high \in Nat
      OBVIOUS
  <2> QED BY <1>1, <2>1, <2>2, <2>3
<1> HIDE DEF a, b
<1>3. a \div D \in Nat /\ D * (a \div D) <= a
    BY <1>1, <1>2
<1>4. b \div D \in Nat /\ b < D * (b \div D) + D
    BY <1>1, <1>2
<1>5. a \div D # b \div D
    BY <1>1, <1>2, <1>3, <1>4
<1> QED BY <1>5 DEF a, b

(* A deposit that the web application prepared passes the pool's checks. *)
LEMMA WebDepositAccepted ==
    ASSUME DepositPlansInOrder, NEW p \in depositPlans, p.client = "web",
           p.commitment \notin commitments
    PROVE  DepositAccepted(DepositInputs(p), p.amount, p.note)
<1> DEFINE inputs == DepositInputs(p)
<1>1. p.amount \in Denominations /\ p.note = OtherBytes
    BY DEF DepositPlansInOrder
<1>2. NoteAccepted(p.note)
    BY <1>1 DEF NoteAccepted, OtherBytes, Bytes
<1>3. /\ inputs.commitment = p.commitment /\ inputs.amount = p.amount
      /\ inputs.chainId = Here.chainId /\ inputs.verifyingContract = Here.pool
      /\ inputs.encryptedNoteHash = WebDepositNoteHash(Here, p.commitment, p.note)
      /\ inputs.contextHash = WebDepositContextHash(Here, p.commitment, p.amount,
                                  WebDepositNoteHash(Here, p.commitment, p.note))
    BY DEF DepositInputs
<1>4. VerifyDeposit(inputs)
    BY DEF VerifyDeposit
<1> HIDE DEF inputs
<1>5. DepositBindings(inputs, p.note)
    BY <1>3 DEF DepositBindings, DepositEncryptedNoteHash, EncryptedNoteHash, DepositContextHash,
       WebDepositNoteHash, WebDepositContextHash
<1>6. DepositAccepted(inputs, p.amount, p.note)
    BY <1>1, <1>2, <1>3, <1>4, <1>5 DEF DepositAccepted
<1> QED BY <1>6 DEF inputs

(* What the two wallets plan, spelled out. *)
LEMMA WalletPlanFields ==
    ASSUME NEW p, WellFormed(p), PlanInOrder(p), p.client \in {"sdk", "web"}
    PROVE  /\ p.deployment = Here /\ p.selector = WithdrawNoteBounds
           /\ p.out \in Commitments /\ p.out # NoCommitment
           /\ p.note = Envelope(Here, p.out)
           /\ p.gross \in Denominations /\ p.gross \in Nat \ {0} /\ p.gross >= BPS_DENOMINATOR
           /\ p.destination # ZeroAddress /\ p.fee \in 0..p.gross
           /\ p.policy.relayer = NoRelayer /\ p.policy.deadlineOrZero = 0
           /\ p.policy.minNetAmount = p.gross - p.fee /\ p.policy.maxFeeAmount = p.fee
<1>1. WalletMade(p) /\ p.selector = WithdrawNoteBounds /\ p.out \in Commitments
    BY DEF WellFormed, PlanInOrder
<1>2. p.note = Envelope(Here, p.out)
    BY <1>1, SelectorsDiffer DEF PlanInOrder, WalletMade
<1>3. p.out # NoCommitment
    BY <1>1, PoolAssumption
<1>4. p.gross \in Nat \ {0} /\ p.gross >= BPS_DENOMINATOR
    BY <1>1, PoolAssumption, BindingAssumption DEF WalletMade
<1>5. p.destination # ZeroAddress
    BY <1>1, BindingAssumption DEF WalletMade, ZeroAddress
<1>6. /\ p.policy.relayer = NoRelayer /\ p.policy.deadlineOrZero = 0
      /\ p.policy.minNetAmount = p.gross - p.fee /\ p.policy.maxFeeAmount = p.fee
    BY <1>1 DEF WalletMade, SdkRelayerPolicy
<1> QED BY <1>1, <1>2, <1>3, <1>4, <1>5, <1>6 DEF WalletMade

(* A wallet's own checks let its proof through. *)
LEMMA WalletBuilds ==
    ASSUME NEW p, WellFormed(p), PlanInOrder(p), p.client \in {"sdk", "web"}
    PROVE  /\ p.root = currentRoot => SdkBuildsOutput(p, SpendInputs(p))
           /\ WebBuildsOutput(p, SpendInputs(p))
<1>1. /\ p.deployment = Here /\ p.selector = WithdrawNoteBounds
      /\ p.out # NoCommitment /\ p.note = Envelope(Here, p.out)
      /\ p.gross \in Nat \ {0} /\ p.fee \in 0..p.gross
      /\ p.policy.minNetAmount = p.gross - p.fee /\ p.policy.maxFeeAmount = p.fee
    BY WalletPlanFields
<1>2. p.note # EmptyNote
  <2>1. EmptyNote.kind = "empty" /\ Envelope(Here, p.out).kind = "envelope"
      BY DEF EmptyNote, Envelope, Bytes
  <2> QED BY <1>1, <2>1
<1>3. {p.policy.minNetAmount, p.policy.maxFeeAmount} \subseteq 0..p.gross
    BY <1>1
<1>4. ArgumentsEncodable(p)
    BY <1>1, <1>2, <1>3 DEF ArgumentsEncodable
<1>5. SdkOutputDecodes(WalletCall(p))
    BY <1>1, <1>2, <1>3 DEF SdkOutputDecodes, WalletCall
<1>6. PlanBound(SpendInputs(p), p) /\ SpendInputs(p).root = p.root
    BY <1>1 DEF PlanBound, SpendInputs
<1>7. SdkOutputIntentHolds(SpendInputs(p), p) /\ WebOutputIntentHolds(SpendInputs(p), p)
    BY DEF SdkOutputIntentHolds, WebOutputIntentHolds
<1> QED BY <1>4, <1>5, <1>6, <1>7 DEF SdkBuildsOutput, WebBuildsOutput, SdkOutputBindingHolds,
           WebOutputBindingHolds, SdkOutputEncodes, WebOutputEncodes

(* The relay admits a wallet's call while its fee stands. *)
LEMMA WalletCallAdmitted ==
    ASSUME FeeInv, NEW p, WellFormed(p), PlanInOrder(p), p.client \in {"sdk", "web"},
           p.fee = FeeOf(p.gross),
           pendingFeeBps # 0 => pendingFeeActivationTime > timestamp + SDK_DEADLINE_SECONDS
    PROVE  RelayAllows(WalletCall(p), timestamp + SDK_DEADLINE_SECONDS)
<1> DEFINE call == WalletCall(p)
           deadline == timestamp + SDK_DEADLINE_SECONDS
<1>1. /\ p.deployment = Here /\ p.selector = WithdrawNoteBounds
      /\ p.note = Envelope(Here, p.out)
      /\ p.gross \in Denominations /\ p.gross \in Nat \ {0} /\ p.gross >= BPS_DENOMINATOR
      /\ p.destination # ZeroAddress /\ p.fee \in 0..p.gross
      /\ p.policy.relayer = NoRelayer /\ p.policy.deadlineOrZero = 0
      /\ p.policy.minNetAmount = p.gross - p.fee /\ p.policy.maxFeeAmount = p.fee
    BY WalletPlanFields
<1>2. /\ call.selector = WithdrawNoteBounds /\ call.inputs = SpendInputs(p)
      /\ call.nullifier = PlanNullifier(p) /\ call.destination = p.destination
      /\ call.gross = p.gross /\ call.note = p.note /\ call.policy = p.policy
    BY DEF WalletCall
<1>3. /\ SpendInputs(p).nullifier = PlanNullifier(p) /\ SpendInputs(p).root = p.root
      /\ SpendInputs(p).outputCommitment = p.out /\ SpendInputs(p).destination = p.destination
      /\ SpendInputs(p).grossAmount = p.gross /\ SpendInputs(p).fee = p.fee
      /\ SpendInputs(p).chainId = Here.chainId /\ SpendInputs(p).verifyingContract = Here.pool
      /\ SpendInputs(p).proofContextHash = PlanContextHash(p)
      /\ SpendInputs(p).encryptedNoteHash = PlanNoteHash(p)
    BY <1>1 DEF SpendInputs
<1>4. RelayFee(call.gross) = p.fee
    BY <1>2 DEF RelayFee, FeeOf
<1>5. NoteOf(call) = p.note
    BY <1>2, SelectorsDiffer DEF NoteOf
<1>6. RelayPolicyOf(call)
        = [relayer |-> NoRelayer, minNetAmount |-> p.policy.minNetAmount,
           maxFeeAmount |-> p.policy.maxFeeAmount, deadlineOrZero |-> 0]
    BY <1>2, SelectorsDiffer DEF RelayPolicyOf
<1> HIDE DEF call
<1>7. RelayInputs(call, p.fee)
    BY <1>2, <1>3 DEF RelayInputs
<1>8. /\ timestamp \in Nat /\ pendingFeeActivationTime \in Nat
      /\ feeBps \in Nat /\ pendingFeeBps \in Nat
      /\ SDK_DEADLINE_SECONDS \in Nat \ {0}
      /\ SDK_DEADLINE_SECONDS <= MAX_RELAY_DEADLINE_SECONDS_FROM_NOW
      /\ MAX_RELAY_DEADLINE_SECONDS_FROM_NOW \in Nat
    BY BindingAssumption, FeeAssumption DEF FeeInv, FeeTypeOK
<1>9. RelayFeePolicy(call.inputs, call.gross, deadline)
  <2> SUFFICES ASSUME pendingFeeBps # 0
               PROVE  /\ pendingFeeActivationTime > timestamp
                      /\ pendingFeeActivationTime > deadline
                      /\ p.fee # (p.gross * pendingFeeBps) \div BPS_DENOMINATOR
      BY <1>2, <1>3 DEF RelayFeePolicy
  <2>1. feeBps < pendingFeeBps
      BY <1>8 DEF FeeInv, PendingIsIncrease
  <2>2. (p.gross * feeBps) \div BPS_DENOMINATOR # (p.gross * pendingFeeBps) \div BPS_DENOMINATOR
      BY <1>1, <1>8, <2>1, IncreasePays
  <2> QED BY <1>8, <2>2 DEF FeeOf
<1>10. RelayBounds(call, p.fee)
    BY <1>1, <1>2 DEF RelayBounds
<1>11. RelayDeadline(deadline)
    BY <1>8 DEF RelayDeadline
<1>12. RelayBindings(call, p.fee)
  <2> DEFINE noteHash == RelayOutputNoteHash(Here, call.selector, call.nullifier,
                             call.inputs.outputCommitment, NoteOf(call))
  <2>1. Shape(p.selector) = WITHDRAW_CONTEXT_SHAPE
      BY <1>1, SelectorsDiffer DEF Shape
  <2>2. PlanNoteHash(p) = noteHash
      BY <1>1, <1>2, <1>3, <1>5, <2>1, ClientsAgree, RelayHashes
  <2>3. PlanContextHash(p)
          = ProofContextHash(Here, WITHDRAW_CONTEXT_SHAPE, WithdrawNoteBounds, p.root,
                             PlanNullifier(p), p.destination, p.gross, p.fee, PlanNoteHash(p),
                             p.policy)
      BY <1>1, <2>1, ClientsAgree
  <2>4. ProofContextHash(Here, WITHDRAW_CONTEXT_SHAPE, WithdrawNoteBounds, p.root,
                         PlanNullifier(p), p.destination, p.gross, p.fee, PlanNoteHash(p),
                         p.policy)
          = ProofContextHash(Here, WITHDRAW_CONTEXT_SHAPE, WithdrawNoteBounds, p.root,
                             PlanNullifier(p), p.destination, p.gross, p.fee, PlanNoteHash(p),
                             RelayPolicyOf(call))
      BY <1>1, <1>6 DEF ProofContextHash, RelayerPolicyHash
  <2> QED BY <1>2, <1>3, <2>2, <2>3, <2>4, RelayHashes DEF RelayBindings
<1>13. call.selector \in RelaySelectors
    BY <1>2 DEF RelaySelectors
<1>14. RelayAllows(call, deadline)
    BY <1>1, <1>2, <1>3, <1>4, <1>5, <1>7, <1>9, <1>10, <1>11, <1>12, <1>13 DEF RelayAllows
<1> QED BY <1>14 DEF call

(* What the SDK (createV12UnlinkableWithdrawalPlan) and the web            *)
(* application build, their own checks and the relay let through while the *)
(* fee stands, and the pool accepts the web application's deposits.        *)
THEOREM WalletCallsAdmitted == BindingSpec => []WalletCallsAdmissible
<1>1. EvidenceInv => WalletCallsAdmissible
  <2> SUFFICES ASSUME EvidenceInv PROVE WalletCallsAdmissible
      OBVIOUS
  <2>1. DepositsAcceptedFrom("web")
      BY WebDepositAccepted DEF EvidenceInv, DepositsAcceptedFrom
  <2>2. ASSUME NEW p \in plans, p.client \in {"web", "sdk"}
        PROVE  /\ p.client = "sdk" /\ p.root = currentRoot => SdkBuildsOutput(p, SpendInputs(p))
               /\ p.client = "web" => WebBuildsOutput(p, SpendInputs(p))
               /\ (/\ p.fee = FeeOf(p.gross)
                   /\ pendingFeeBps # 0 =>
                         pendingFeeActivationTime > timestamp + SDK_DEADLINE_SECONDS)
                  => RelayAllows(WalletCall(p), timestamp + SDK_DEADLINE_SECONDS)
    <3>1. FeeInv /\ WellFormed(p) /\ PlanInOrder(p)
        BY DEF EvidenceInv, PlansWellFormed, PlansInOrder
    <3> QED BY <2>2, <3>1, WalletBuilds, WalletCallAdmitted
  <2> QED BY <2>1, <2>2, Zenon DEF WalletCallsAdmissible
<1> QED BY <1>1, EvidenceHolds, PTL

-----------------------------------------------------------------------------
(* The indexer.                                                            *)

(* The event of an executed withdrawal with the wallets' overload confirms *)
(* the plan it executed.                                                   *)
LEMMA OwnOutputConfirmed ==
    ASSUME NEW p, WellFormed(p), PlanInOrder(p), p.deployment = Here, NEW e,
           e.selector = WithdrawNoteBounds,
           <<p.selector, p.leaf, p.root, p.out, p.destination, p.gross, p.fee, p.note>>
              = <<e.selector, e.leaf, e.root, e.out, e.destination, e.gross, e.fee, e.note>>
    PROVE  IndexerConfirmsOutput(SpendInputs(p), e.note, OutputEvent(e), p.policy)
<1> DEFINE inputs == SpendInputs(p)
           event == OutputEvent(e)
<1>1. /\ inputs.root = p.root /\ inputs.nullifier = PlanNullifier(p)
      /\ inputs.outputCommitment = p.out /\ inputs.destination = p.destination
      /\ inputs.grossAmount = p.gross /\ inputs.fee = p.fee
      /\ inputs.chainId = Here.chainId /\ inputs.verifyingContract = Here.pool
      /\ inputs.proofContextHash = PlanContextHash(p)
      /\ inputs.encryptedNoteHash = PlanNoteHash(p)
    BY DEF SpendInputs
<1>2. /\ event.eventType = "withdraw-output" /\ event.chainId = Here.chainId
      /\ event.pool = Here.pool /\ event.commitment = e.out
      /\ event.nullifier = Nullifier(e.leaf, Here) /\ event.encryptedNote = e.note
    BY SelectorsDiffer DEF OutputEvent
<1>3. /\ p.selector = WithdrawNoteBounds /\ p.leaf = e.leaf /\ p.out = e.out /\ p.note = e.note
    OBVIOUS
<1>4. p.out # NoCommitment /\ p.note = Envelope(Here, p.out)
    BY <1>3, SelectorsDiffer, PoolAssumption DEF PlanInOrder
<1>5. NoteAccepted(e.note)
    BY <1>3, <1>4 DEF NoteAccepted, Envelope, Bytes
<1> HIDE DEF inputs, event
<1>6. IndexerOutputEventMatches(inputs, e.note, event)
    BY <1>1, <1>2, <1>3 DEF IndexerOutputEventMatches, PlanNullifier
<1>7. Shape(p.selector) = WITHDRAW_CONTEXT_SHAPE
    BY <1>3, SelectorsDiffer DEF Shape
<1>8. PlanNoteHash(p) = IndexerOutputNoteHash(inputs.nullifier, inputs.outputCommitment, e.note)
    BY <1>1, <1>3, <1>7, ClientsAgree DEF IndexerOutputNoteHash, EncryptedOutputNoteHash
<1>9. PlanContextHash(p)
        = RelayProofContextHash(Here, WithdrawNoteBounds, inputs.root, inputs.nullifier,
                                inputs.destination, inputs.grossAmount, inputs.fee,
                                PlanNoteHash(p), p.policy)
    BY <1>1, <1>3, <1>7, ClientsAgree, RelayHashes
<1>10. IndexerConfirmsOutput(inputs, e.note, event, p.policy)
    BY <1>1, <1>3, <1>4, <1>5, <1>6, <1>8, <1>9 DEF IndexerConfirmsOutput, IndexerEnvelopeMatches
<1> QED BY <1>10 DEF inputs, event

(* Bytes that the indexer confirms for an event are those of the event,    *)
(* and the proof was made for its leaf and output, here.                   *)
LEMMA ConfirmedIsProved ==
    ASSUME NEW p, WellFormed(p), NEW e, NEW note,
           IndexerConfirmsOutput(SpendInputs(p), note, OutputEvent(e), p.policy)
    PROVE  /\ p.deployment = Here
           /\ <<p.selector, p.leaf, p.out, note>> = <<WithdrawNoteBounds, e.leaf, e.out, e.note>>
<1> DEFINE inputs == SpendInputs(p)
           event == OutputEvent(e)
<1>1. /\ inputs.nullifier = PlanNullifier(p) /\ inputs.outputCommitment = p.out
      /\ inputs.chainId = p.deployment.chainId /\ inputs.verifyingContract = p.deployment.pool
      /\ inputs.encryptedNoteHash = PlanNoteHash(p)
    BY DEF SpendInputs
<1>2. /\ event.commitment = e.out
      /\ event.nullifier = Nullifier(e.leaf, Here) /\ event.encryptedNote = e.note
    BY DEF OutputEvent
<1> HIDE DEF inputs, event
<1>3. /\ inputs.chainId = Here.chainId /\ inputs.verifyingContract = Here.pool
      /\ event.commitment = inputs.outputCommitment /\ event.encryptedNote = note
      /\ event.nullifier = inputs.nullifier
      /\ inputs.encryptedNoteHash
            = IndexerOutputNoteHash(inputs.nullifier, inputs.outputCommitment, note)
    BY DEF IndexerConfirmsOutput, IndexerOutputEventMatches, inputs, event
<1>4. p.deployment = Here
    BY <1>1, <1>3, DeploymentIsHere DEF WellFormed
<1>5. p.leaf = e.leaf
  <2>1. Nullifier(e.leaf, Here) = PlanNullifier(p)
      BY <1>1, <1>2, <1>3
  <2> QED BY <2>1 DEF Nullifier, PlanNullifier
<1>6. p.selector = WithdrawNoteBounds
  <2>1. EncryptedOutputNoteHash(p.deployment, Shape(p.selector), p.selector, PlanNullifier(p),
                                p.out, p.note)
          = EncryptedOutputNoteHash(Here, WITHDRAW_CONTEXT_SHAPE, WithdrawNoteBounds,
                                    inputs.nullifier, inputs.outputCommitment, note)
      BY <1>1, <1>3, ClientsAgree DEF IndexerOutputNoteHash, EncryptedOutputNoteHash
  <2> QED BY <2>1, OutputNoteHashInjective
<1> QED BY <1>1, <1>2, <1>3, <1>4, <1>5, <1>6

(* The indexer (validateV12UnlinkableWithdrawOutputNoteIndexerBinding)     *)
(* confirms the wallets' executed withdrawals by their own events, and     *)
(* nothing that was not proved for that note, output, overload and pool.   *)
THEOREM IndexerConfirmsOutputs == BindingSpec => []OutputsConfirmed
<1>1. EvidenceInv => OutputsConfirmed
  <2> SUFFICES ASSUME EvidenceInv, NEW e \in executed, NEW p \in plans
               PROVE  /\ (/\ p.deployment = Here /\ e.selector = WithdrawNoteBounds
                          /\ <<p.selector, p.leaf, p.root, p.out, p.destination, p.gross, p.fee,
                               p.note>>
                                = <<e.selector, e.leaf, e.root, e.out, e.destination, e.gross,
                                    e.fee, e.note>>)
                         => IndexerConfirmsOutput(SpendInputs(p), e.note, OutputEvent(e), p.policy)
                      /\ \A note \in Notes :
                            IndexerConfirmsOutput(SpendInputs(p), note, OutputEvent(e), p.policy)
                            => /\ p.deployment = Here
                               /\ <<p.selector, p.leaf, p.out, note>>
                                     = <<WithdrawNoteBounds, e.leaf, e.out, e.note>>
      BY Zenon DEF OutputsConfirmed
  <2>1. WellFormed(p) /\ PlanInOrder(p)
      BY DEF EvidenceInv, PlansWellFormed, PlansInOrder
  <2> QED BY <2>1, OwnOutputConfirmed, ConfirmedIsProved
<1> QED BY <1>1, EvidenceHolds, PTL
=============================================================================
