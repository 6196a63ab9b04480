----------------------------- MODULE NullarkPool -----------------------------
(***************************************************************************)
(* The v1.2 pool contract (contracts/src/v1_2/NullarkPool.sol) with the    *)
(* statements its three circuits prove.                                    *)
(*                                                                         *)
(* A note is a leaf of the commitment tree. A commitment hides an amount   *)
(* and a secret and binds both (Poseidon), so AmountOf is a function of    *)
(* the commitment; the nullifier is a hash of the secret and the leaf      *)
(* index, so a leaf has exactly one nullifier and the model writes the     *)
(* leaf index for it. The tree only grows, so the root after n insertions  *)
(* stands for the first n leaves and the model writes n for it: leaf i is  *)
(* below root r iff i < r. MerkleTree checks the insertion algorithm that  *)
(* this identification rests on.                                           *)
(*                                                                         *)
(* A transaction that reverts changes nothing and is not a step. deposit,  *)
(* withdraw and sweepFees take the reentrancy lock; privateTransfer and    *)
(* the fee calls do not, so while withdraw or sweepFees is in its external *)
(* call the callee can run them: those two are split at the call.          *)
(***************************************************************************)
EXTENDS FeePolicy, Sequences, FiniteSets, FiniteSetsExt

CONSTANTS
    Commitments,            \* commitments wallets may create
    AmountOf,               \* the amount a commitment binds
    Denominations,          \* supportedDenominations(), in units
    BPS_DENOMINATOR,        \* 10000 in the contract
    ROOT_HISTORY_SIZE,      \* 256 in the contract
    MERKLE_TREE_CAPACITY,   \* 2^20 in the contract
    Accounts,               \* accounts that send transactions
    NoRelayer,              \* address(0) in a relayer policy
    Policies,               \* relayer policies wallets bind their proofs to
    SweepAmounts            \* amounts the fee controller tries to sweep

NoCommitment == "none"      \* an empty leaf
NoRoot == -1                \* bytes32(0)

ASSUME PoolAssumption ==
    /\ Denominations \subseteq Nat \ {0}
    /\ AmountOf \in [Commitments -> Denominations \cup {0}]
    /\ NoCommitment \notin Commitments
    /\ BPS_DENOMINATOR \in Nat \ {0}
    /\ MAX_FEE_BPS <= BPS_DENOMINATOR
    /\ ROOT_HISTORY_SIZE \in Nat \ {0, 1}
    /\ MERKLE_TREE_CAPACITY \in Nat
    /\ SweepAmounts \subseteq Nat \ {0}

VARIABLES
    commitments, nullifiers,            \* mappings, as sets
    leaves, nextLeafIndex,              \* the commitment tree
    currentRoot, rootHistory, rootHistoryIndex, acceptedRoots,
    accruedProtocolFees, feeSweptAccounting,
    totalDepositedAccounting, totalWithdrawnAccounting,
    balance,                            \* address(this).balance
    entered,                            \* the reentrancy lock
    pendingEvents,                      \* what the locked call emits on return
    log                                 \* the emitted events

treeVars == <<commitments, leaves, nextLeafIndex,
              currentRoot, rootHistory, rootHistoryIndex, acceptedRoots>>
accountingVars == <<accruedProtocolFees, feeSweptAccounting,
                    totalDepositedAccounting, totalWithdrawnAccounting, balance>>
poolVars == <<treeVars, accountingVars, nullifiers, entered, pendingEvents, log>>
vars == <<feeVars, poolVars>>

LeafIndices == 0..(MERKLE_TREE_CAPACITY - 1)
Amount(i) == IF leaves[i] \in Commitments THEN AmountOf[leaves[i]] ELSE 0

-----------------------------------------------------------------------------
(* Events the indexer and the SDK read.                                    *)
RootExpired(root) == [event |-> "RootExpired", root |-> root]
RootAccepted(root) == [event |-> "RootAccepted", root |-> root]
NullifierSpent(i) == [event |-> "NullifierSpent", nullifier |-> i]
NoteCreated(c, i) == [event |-> "NoteCreated", commitment |-> c, leafIndex |-> i]

-----------------------------------------------------------------------------
(* Faulty variants of the definitions below, for mutation checks.          *)
MarkSpent_Forgotten(i) == UNCHANGED nullifiers
Expires_Never(root, nextRoot) == FALSE
Sweepable_Unchecked(amount) == TRUE
UnsweptFees_IgnoresSweeps == accruedProtocolFees
CallReturns_LateLeafIndex ==
    /\ entered
    /\ entered' = FALSE
    /\ log' = log \o
          [k \in DOMAIN pendingEvents |->
              IF pendingEvents[k].event = "NoteCreated"
              THEN NoteCreated(pendingEvents[k].commitment, nextLeafIndex - 1)
              ELSE pendingEvents[k]]
    /\ pendingEvents' = << >>
    /\ UNCHANGED <<feeVars, treeVars, accountingVars, nullifiers>>

-----------------------------------------------------------------------------
(* Circuits. A withdrawal splits the old note into the public gross amount *)
(* and the amount of the output note; a private transfer re-commits the    *)
(* old amount; both open a leaf below the root they name.                  *)
SpendsLeaf(i, root) == i < root

WithdrawCircuit(i, root, out, gross) ==
    /\ SpendsLeaf(i, root)
    /\ Amount(i) \in Denominations
    /\ gross \in Denominations
    /\ AmountOf[out] \in Denominations \cup {0}
    /\ Amount(i) = gross + AmountOf[out]

PrivateTransferCircuit(i, root, out) ==
    /\ SpendsLeaf(i, root)
    /\ Amount(i) \in Denominations
    /\ AmountOf[out] = Amount(i)

DepositCircuit(c, amount) ==
    /\ amount \in Denominations
    /\ AmountOf[c] = amount

-----------------------------------------------------------------------------
Init ==
    /\ FeeInit
    /\ commitments = {}
    /\ nullifiers = {}
    /\ leaves = [i \in LeafIndices |-> NoCommitment]
    /\ nextLeafIndex = 0
    /\ currentRoot = 0
    /\ rootHistory = [k \in 0..(ROOT_HISTORY_SIZE - 1) |-> IF k = 0 THEN 0 ELSE NoRoot]
    /\ rootHistoryIndex = 0
    /\ acceptedRoots = {0}
    /\ accruedProtocolFees = 0
    /\ feeSweptAccounting = 0
    /\ totalDepositedAccounting = 0
    /\ totalWithdrawnAccounting = 0
    /\ balance = 0
    /\ entered = FALSE
    /\ pendingEvents = << >>
    /\ log = <<RootAccepted(0)>>

(* _insertMerkleLeaf and _recordCommitmentRoot: append the leaf, write the *)
(* new root over the oldest entry of the ring and expire that entry.       *)
NextHistoryIndex == (rootHistoryIndex + 1) % ROOT_HISTORY_SIZE

Expires(root, nextRoot) == root # NoRoot /\ root # nextRoot

RootEvents ==
    LET nextRoot == nextLeafIndex + 1
        expired == rootHistory[NextHistoryIndex]
    IN  (IF Expires(expired, nextRoot) THEN <<RootExpired(expired)>> ELSE << >>)
            \o <<RootAccepted(nextRoot)>>

RecordCommitmentRoot(c) ==
    LET nextRoot == nextLeafIndex + 1
        expired == rootHistory[NextHistoryIndex]
    IN  /\ nextLeafIndex < MERKLE_TREE_CAPACITY
        /\ commitments' = commitments \cup {c}
        /\ leaves' = [leaves EXCEPT ![nextLeafIndex] = c]
        /\ nextLeafIndex' = nextLeafIndex + 1
        /\ currentRoot' = nextRoot
        /\ rootHistory' = [rootHistory EXCEPT ![NextHistoryIndex] = nextRoot]
        /\ rootHistoryIndex' = NextHistoryIndex
        /\ acceptedRoots' =
              (IF Expires(expired, nextRoot) THEN acceptedRoots \ {expired}
                                             ELSE acceptedRoots) \cup {nextRoot}

(* The spent flag of the nullifier of leaf i. *)
MarkSpent(i) == nullifiers' = nullifiers \cup {i}

(* deposit with msg.value = amount. *)
Deposit(c, amount) ==
    /\ ~entered
    /\ c \notin commitments
    /\ amount > 0 /\ amount \in Denominations
    /\ DepositCircuit(c, amount)
    /\ RecordCommitmentRoot(c)
    /\ totalDepositedAccounting' = totalDepositedAccounting + amount
    /\ balance' = balance + amount
    /\ log' = log \o RootEvents \o <<NoteCreated(c, nextLeafIndex)>>
    /\ UNCHANGED <<feeVars, nullifiers, accruedProtocolFees, feeSweptAccounting,
                   totalWithdrawnAccounting, entered, pendingEvents>>

(* _requireRelayerPolicy *)
RelayerPolicyHolds(policy, sender) ==
    /\ policy.relayer # NoRelayer => sender = policy.relayer
    /\ policy.deadlineOrZero # 0 => timestamp <= policy.deadlineOrZero

(* isAcceptedRoot *)
IsAcceptedRoot(root) == root # NoRoot /\ root \in acceptedRoots

(* privateTransfer; there is no lock on it. *)
PrivateTransfer(i, root, out, policy, sender) ==
    /\ IsAcceptedRoot(root)
    /\ RelayerPolicyHolds(policy, sender)
    /\ PrivateTransferCircuit(i, root, out)
    /\ i \notin nullifiers
    /\ out \notin commitments
    /\ MarkSpent(i)
    /\ RecordCommitmentRoot(out)
    /\ log' = log \o RootEvents \o <<NullifierSpent(i), NoteCreated(out, nextLeafIndex)>>
    /\ UNCHANGED <<feeVars, accountingVars, entered, pendingEvents>>

FeeOf(gross) == (gross * feeBps) \div BPS_DENOMINATOR

UnsweptFees == accruedProtocolFees - feeSweptAccounting
WithdrawableAccounting ==
    totalDepositedAccounting - totalWithdrawnAccounting - accruedProtocolFees

Liquid(gross) ==
    /\ gross <= WithdrawableAccounting
    /\ gross <= balance - UnsweptFees

WithinBounds(policy, gross, fee) ==
    /\ policy.minNetAmount <= gross
    /\ fee <= policy.maxFeeAmount
    /\ gross - fee >= policy.minNetAmount

(* The effects of withdraw that precede the call of the destination: the   *)
(* nullifier, the accounting and the output leaf. The call pays the net    *)
(* amount; the events follow when it returns.                              *)
WithdrawCall(i, root, out, gross, policy, sender) ==
    LET fee == FeeOf(gross)
    IN  /\ ~entered
        /\ i \notin nullifiers
        /\ gross > 0
        /\ IsAcceptedRoot(root)
        /\ out \notin commitments
        /\ RelayerPolicyHolds(policy, sender)
        /\ gross \in Denominations
        /\ WithdrawCircuit(i, root, out, gross)
        /\ WithinBounds(policy, gross, fee)
        /\ Liquid(gross)
        /\ MarkSpent(i)
        /\ accruedProtocolFees' = accruedProtocolFees + fee
        /\ totalWithdrawnAccounting' = totalWithdrawnAccounting + (gross - fee)
        /\ RecordCommitmentRoot(out)
        /\ balance' = balance - (gross - fee)
        /\ entered' = TRUE
        /\ log' = log \o RootEvents
        /\ pendingEvents' = <<NullifierSpent(i), NoteCreated(out, nextLeafIndex)>>
        /\ UNCHANGED <<feeVars, feeSweptAccounting, totalDepositedAccounting>>

Sweepable(amount) == feeSweptAccounting + amount <= accruedProtocolFees

(* sweepFees up to and including the call of the destination. *)
SweepFeesCall(amount) ==
    /\ ~entered
    /\ amount > 0
    /\ Sweepable(amount)
    /\ feeSweptAccounting' = feeSweptAccounting + amount
    /\ balance' = balance - amount
    /\ entered' = TRUE
    /\ UNCHANGED <<feeVars, treeVars, nullifiers, accruedProtocolFees,
                   totalDepositedAccounting, totalWithdrawnAccounting,
                   pendingEvents, log>>

(* The external call succeeded: emit the events and release the lock. *)
CallReturns ==
    /\ entered
    /\ entered' = FALSE
    /\ log' = log \o pendingEvents
    /\ pendingEvents' = << >>
    /\ UNCHANGED <<feeVars, treeVars, accountingVars, nullifiers>>

(* Fee governance calls may run inside the external call, blocks may not.  *)
FeeStep ==
    /\ \/ FeeGovernance
       \/ ~entered /\ NextBlock
    /\ UNCHANGED poolVars

Next ==
    \/ FeeStep
    \/ \E c \in Commitments, amount \in Denominations : Deposit(c, amount)
    \/ \E i \in LeafIndices, root \in 0..MERKLE_TREE_CAPACITY, out \in Commitments,
          policy \in Policies, sender \in Accounts :
          \/ PrivateTransfer(i, root, out, policy, sender)
          \/ \E gross \in Denominations : WithdrawCall(i, root, out, gross, policy, sender)
    \/ \E amount \in SweepAmounts : SweepFeesCall(amount)
    \/ CallReturns

Spec == Init /\ [][Next]_vars

-----------------------------------------------------------------------------
(* Types of the pool's state.                                              *)
TypeOK ==
    /\ FeeTypeOK
    /\ commitments \subseteq Commitments
    /\ nullifiers \subseteq LeafIndices
    /\ leaves \in [LeafIndices -> Commitments \cup {NoCommitment}]
    /\ nextLeafIndex \in 0..MERKLE_TREE_CAPACITY
    /\ currentRoot \in 0..MERKLE_TREE_CAPACITY
    /\ rootHistory \in [0..(ROOT_HISTORY_SIZE - 1) -> 0..MERKLE_TREE_CAPACITY \cup {NoRoot}]
    /\ rootHistoryIndex \in 0..(ROOT_HISTORY_SIZE - 1)
    /\ acceptedRoots \subseteq 0..MERKLE_TREE_CAPACITY
    /\ accruedProtocolFees \in Nat
    /\ feeSweptAccounting \in Nat
    /\ totalDepositedAccounting \in Nat
    /\ totalWithdrawnAccounting \in Nat
    /\ balance \in Nat
    /\ entered \in BOOLEAN

UnspentNotes == {i \in LeafIndices : i < nextLeafIndex /\ i \notin nullifiers}

(* No inflation and no drift (docs/security/threat-model.md): what the     *)
(* accounting of deposit, withdraw and sweepFees leaves for withdrawals is *)
(* exactly the value of the unspent notes, also in the middle of an        *)
(* external call.                                                          *)
ValueConserved ==
    WithdrawableAccounting = MapThenSumSet(Amount, UnspentNotes)

(* The ether in the contract is what the accounting says: deposits less    *)
(* net withdrawals less swept fees, and unswept fees are never negative.   *)
BalanceMatchesAccounting ==
    /\ balance = totalDepositedAccounting - totalWithdrawnAccounting - feeSweptAccounting
    /\ feeSweptAccounting <= accruedProtocolFees

(* No stuck principal from accounting drift (threat-model.md): as long as  *)
(* the tree has room for the output leaf, every unspent note passes the    *)
(* root check of withdraw with a root that is accepted now, and its two    *)
(* liquidity checks for the full amount.                                   *)
PrincipalNeverStuck ==
    nextLeafIndex < MERKLE_TREE_CAPACITY =>
        \A i \in UnspentNotes :
            /\ \E root \in acceptedRoots : IsAcceptedRoot(root) /\ SpendsLeaf(i, root)
            /\ Liquid(Amount(i))

(* acceptedRoots, which is maintained by adding and expiring single        *)
(* entries of the ring, is the set of the last ROOT_HISTORY_SIZE roots.    *)
RootWindow ==
    acceptedRoots =
        {r \in 0..MERKLE_TREE_CAPACITY :
            r <= nextLeafIndex /\ r > nextLeafIndex - ROOT_HISTORY_SIZE}

(* What a reader of the log reconstructs agrees with the contract's state  *)
(* whenever no call is open, although a privateTransfer made from inside   *)
(* the external call of a withdrawal emits its note event before the       *)
(* withdrawal emits its own: roots are announced in tree order, every leaf *)
(* has exactly one note event, every nullifier exactly one spent event,    *)
(* and dropping the expired roots leaves the accepted ones.                *)
EventsOf(kind) == {k \in 1..Len(log) : log[k].event = kind}

LogReplaysState ==
    ~entered =>
        /\ Cardinality(EventsOf("RootAccepted")) = nextLeafIndex + 1
        /\ \A j, k \in EventsOf("RootAccepted") : j < k => log[j].root < log[k].root
        /\ {log[k].root : k \in EventsOf("RootAccepted")}
              \ {log[k].root : k \in EventsOf("RootExpired")} = acceptedRoots
        /\ Cardinality(EventsOf("NullifierSpent")) = Cardinality(nullifiers)
        /\ {log[k].nullifier : k \in EventsOf("NullifierSpent")} = nullifiers
        /\ Cardinality(EventsOf("NoteCreated")) = nextLeafIndex
        /\ \A i \in 0..(nextLeafIndex - 1) :
              \E k \in EventsOf("NoteCreated") : log[k] = NoteCreated(leaves[i], i)

(* A leaf that is spent stays spent and a leaf that is written is never    *)
(* rewritten: proofs made against an accepted root stay statements about   *)
(* the tree.                                                               *)
AppendOnly ==
    [][/\ nullifiers \subseteq nullifiers'
       /\ nextLeafIndex <= nextLeafIndex'
       /\ \A i \in LeafIndices : i < nextLeafIndex => leaves'[i] = leaves[i]]_vars

(* What the note of leaf i is still worth. *)
UnspentValue == [i \in LeafIndices |-> IF i \in nullifiers THEN 0 ELSE Amount(i)]

Ledger == INSTANCE ShieldedLedger
            WITH Ids <- LeafIndices, Amounts <- Denominations,
                 value <- UnspentValue, fees <- UnsweptFees, cash <- balance

(* The pool, with its tree, window of roots, nullifiers, lock and          *)
(* reentrant calls, does what the ledger of ShieldedLedger does: no step   *)
(* of deposit, privateTransfer, withdraw or sweepFees revives a spent      *)
(* note, changes the worth of another one, or pays more than leaves the    *)
(* note it spends.                                                         *)
ImplementsLedger == Ledger!LedgerSpec
=============================================================================
