----------------------------- MODULE LegacyPool -----------------------------
(***************************************************************************)
(* The v1.1 pool (contracts/src/NullarkPool.sol). It differs from the v1.2 *)
(* pool in what it publishes and trusts: a deposit needs no proof, the     *)
(* pool records the amount of every commitment, a spend publishes the      *)
(* commitment it spends and the amount of that note, and a withdrawal      *)
(* either leaves nothing or inserts a change note of a denomination. The   *)
(* fee is fixed.                                                           *)
(*                                                                         *)
(* A commitment hides an amount, OpenAmount. Nobody compares it with the   *)
(* value of a deposit: a note deposited with another value can never be    *)
(* spent, its value stays in the pool.                                     *)
(*                                                                         *)
(* A root is the number of leaves under it: MerkleInsertion justifies it.  *)
(* The external calls at the end of withdraw, sweepFees and                *)
(* recoverExcessBalance come after every write to storage; what a callee   *)
(* does (deposit, privateTransfer) is a transaction that follows.          *)
(***************************************************************************)
EXTENDS ProofEncodings, Integers, Sequences, FiniteSets, FiniteSetsExt

CONSTANTS
    Commitments,            \* commitments, bytes32(0) excluded
    OpenAmount,             \* the amount inside each commitment
    Denominations,          \* supportedDenominations()
    WITHDRAWAL_FEE_BPS, BPS_DENOMINATOR,
    ROOT_HISTORY_SIZE, MERKLE_TREE_CAPACITY,
    Here,                   \* this deployment, [chainId, pool]
    Accounts, NoRelayer,    \* senders; address(0)
    StartTime, TimeBound,   \* TLC bound on block.timestamp
    MaxDisturbed            \* TLC bound: switches on, and ether forced in, at a time

NoCommitment == "bytes32(0)"
ZeroAddress == NoRelayer

ASSUME LegacyAssumption ==
    /\ NoCommitment \notin Commitments
    /\ OpenAmount \in [Commitments -> Nat \ {0}]
    /\ Denominations \subseteq Nat \ {0}
    /\ BPS_DENOMINATOR \in Nat \ {0} /\ WITHDRAWAL_FEE_BPS \in 0..(BPS_DENOMINATOR - 1)
    /\ ROOT_HISTORY_SIZE \in Nat \ {0} /\ MERKLE_TREE_CAPACITY \in Nat
    /\ NoRelayer \notin Accounts
    /\ StartTime \in Nat /\ TimeBound \in Nat /\ MaxDisturbed \in Nat

VARIABLES
    leaves,             \* the leaves of the tree, in order
    commitmentAmounts,  \* amount recorded for each commitment, 0 for none
    nullifiers,         \* spent nullifiers
    totalDepositedAccounting, totalWithdrawnAccounting,
    accruedProtocolFees, feeSweptAccounting,
    balance,            \* address(this).balance
    paused,             \* the switches that are on
    timestamp           \* block.timestamp

accounting == <<totalDepositedAccounting, totalWithdrawnAccounting, accruedProtocolFees,
                feeSweptAccounting, balance>>
poolVars == <<leaves, commitmentAmounts, nullifiers, accounting, paused, timestamp>>

-----------------------------------------------------------------------------
(* Faulty variants of the definitions below, for mutation checks. *)
Bindings_NoteOnly(inputs, shape, selector, noteAmount, note, destination, gross, fee, policy) ==
    inputs.encryptedNoteHash =
        <<"nullark.encrypted-note.v1", 1, Here.chainId, Here.pool, shape, selector,
          inputs.nullifier, inputs.newCommitment, noteAmount, note>>
ChangeRecorded_AsNote(out, noteAmount, gross) ==
    IF out = NoCommitment THEN commitmentAmounts
                          ELSE [commitmentAmounts EXCEPT ![out] = noteAmount]

-----------------------------------------------------------------------------
WITHDRAW_SHAPE_V1_1 == "withdraw_context_v1_1"
TRANSFER_SHAPE_V1_1 == "private_transfer_context_v1_1"

commitments == Range(leaves)
currentRoot == Len(leaves)

IsAcceptedRoot(root) == root \in 0..currentRoot /\ root > currentRoot - ROOT_HISTORY_SIZE

FeeOf(gross) == (gross * WITHDRAWAL_FEE_BPS) \div BPS_DENOMINATOR

(* The bytes of an encrypted note argument: only their presence and length *)
(* matter to the pool.                                                     *)
EmptyNote == "0x"
OversizedNote == "more than MAX_ENCRYPTED_NOTE_BYTES"

LegacyNoteHash(d, shape, selector, nullifier, commitment, noteAmount, note) ==
    <<"nullark.encrypted-note.v1", 1, d.chainId, d.pool, shape, selector, nullifier,
      commitment, noteAmount, note>>

LegacyPolicyHash(policy) ==
    <<"nullark.relayer-policy.v1", 1, policy.relayer, policy.minNetAmount,
      policy.maxFeeAmount, policy.deadlineOrZero>>

LegacyContextHash(d, shape, selector, root, nullifier, destination, gross, fee, noteHash, policy) ==
    <<"nullark.proof-context.v1", 1, d.chainId, d.pool, shape, selector, root, nullifier,
      destination, gross, fee, noteHash, LegacyPolicyHash(policy), policy.deadlineOrZero>>

-----------------------------------------------------------------------------
LegacyInit ==
    /\ leaves = <<>>
    /\ commitmentAmounts = [c \in Commitments |-> 0]
    /\ nullifiers = {}
    /\ totalDepositedAccounting = 0 /\ totalWithdrawnAccounting = 0
    /\ accruedProtocolFees = 0 /\ feeSweptAccounting = 0
    /\ balance = 0
    /\ paused = {}
    /\ timestamp = StartTime

(* _recordCommitmentRoot *)
RecordCommitment(c) ==
    /\ Len(leaves) < MERKLE_TREE_CAPACITY
    /\ leaves' = Append(leaves, c)

(* deposit, with or without an encrypted note *)
LegacyDeposit(c, value, note) ==
    /\ "deposits" \notin paused
    /\ value \in Denominations
    /\ c \notin commitments
    /\ note # OversizedNote
    /\ commitmentAmounts' = [commitmentAmounts EXCEPT ![c] = value]
    /\ totalDepositedAccounting' = totalDepositedAccounting + value
    /\ balance' = balance + value
    /\ RecordCommitment(c)
    /\ UNCHANGED <<nullifiers, totalWithdrawnAccounting, accruedProtocolFees,
                   feeSweptAccounting, paused, timestamp>>

SpentCommitmentAmount(inputs) ==
    /\ inputs.spentCommitment \in commitments
    /\ commitmentAmounts[inputs.spentCommitment] = inputs.noteAmount

LegacyInputsCommon(inputs, nullifier) ==
    /\ IsAcceptedRoot(inputs.root)
    /\ inputs.nullifier = nullifier
    /\ inputs.chainId = Here.chainId
    /\ inputs.verifyingContract = Here.pool

LegacyTransferInputs(inputs, call) ==
    /\ LegacyInputsCommon(inputs, call.nullifier)
    /\ inputs.newCommitment = call.newCommitment
    /\ inputs.destination = ZeroAddress /\ inputs.grossAmount = 0 /\ inputs.fee = 0
    /\ SpentCommitmentAmount(inputs)

LegacyWithdrawInputs(inputs, call) ==
    /\ LegacyInputsCommon(inputs, call.nullifier)
    /\ inputs.newCommitment \notin commitments
    /\ inputs.destination = call.destination
    /\ inputs.grossAmount = call.gross
    /\ inputs.fee = FeeOf(call.gross)
    /\ SpentCommitmentAmount(inputs)

LegacyPolicyHolds(policy, sender) ==
    /\ policy.relayer # NoRelayer => sender = policy.relayer
    /\ policy.deadlineOrZero # 0 => timestamp <= policy.deadlineOrZero

Bindings(inputs, shape, selector, noteAmount, note, destination, gross, fee, policy) ==
    LET noteHash == LegacyNoteHash(Here, shape, selector, inputs.nullifier,
                                   inputs.newCommitment, noteAmount, note)
    IN  /\ inputs.encryptedNoteHash = noteHash
        /\ inputs.proofContextHash =
              LegacyContextHash(Here, shape, selector, inputs.root, inputs.nullifier,
                                destination, gross, fee, noteHash, policy)

(* The amount in the encrypted note's hash: the change, or the whole note. *)
BoundAmount(inputs) ==
    IF inputs.newCommitment = NoCommitment THEN inputs.noteAmount
                                           ELSE inputs.noteAmount - inputs.grossAmount

(* A full exit has neither change nor note, a partial one has both, and    *)
(* every amount is a denomination.                                         *)
ExitShape(inputs, gross, note) ==
    /\ {inputs.noteAmount, gross} \subseteq Denominations
    /\ \/ /\ inputs.newCommitment = NoCommitment
          /\ gross = inputs.noteAmount
          /\ note = EmptyNote
       \/ /\ inputs.newCommitment # NoCommitment
          /\ inputs.noteAmount - gross \in Denominations
          /\ note # EmptyNote

(* The guards of privateTransfer. *)
LegacyTransferAccepted(call, policy, note, sender) ==
    /\ "internalSends" \notin paused
    /\ note # OversizedNote
    /\ LegacyTransferInputs(call.inputs, call)
    /\ LegacyPolicyHolds(policy, sender)
    /\ Bindings(call.inputs, TRANSFER_SHAPE_V1_1, call.selector, call.inputs.noteAmount, note,
                ZeroAddress, 0, 0, policy)
    /\ call.nullifier \notin nullifiers
    /\ call.newCommitment \notin commitments

LegacyPrivateTransfer(call, policy, note, sender) ==
    /\ LegacyTransferAccepted(call, policy, note, sender)
    /\ nullifiers' = nullifiers \cup {call.nullifier}
    /\ commitmentAmounts' =
          [commitmentAmounts EXCEPT ![call.newCommitment] = call.inputs.noteAmount]
    /\ RecordCommitment(call.newCommitment)
    /\ UNCHANGED <<accounting, paused, timestamp>>

(* The guards of _withdraw before and after the proof is verified. *)
LegacyWithdrawAccepted(call, policy, note, sender) ==
    /\ call.nullifier \notin nullifiers
    /\ call.destination # ZeroAddress
    /\ call.gross > 0
    /\ note # OversizedNote
    /\ LegacyWithdrawInputs(call.inputs, call)
    /\ LegacyPolicyHolds(policy, sender)
    /\ policy.minNetAmount <= call.gross
    /\ ExitShape(call.inputs, call.gross, note)
    /\ Bindings(call.inputs, WITHDRAW_SHAPE_V1_1, call.selector, BoundAmount(call.inputs), note,
                call.destination, call.gross, FeeOf(call.gross), policy)
    /\ FeeOf(call.gross) <= policy.maxFeeAmount
    /\ call.gross - FeeOf(call.gross) >= policy.minNetAmount
    /\ call.gross <= totalDepositedAccounting - totalWithdrawnAccounting - accruedProtocolFees
    /\ call.gross <= balance - (accruedProtocolFees - feeSweptAccounting)

ChangeRecorded(out, noteAmount, gross) ==
    IF out = NoCommitment THEN commitmentAmounts
                          ELSE [commitmentAmounts EXCEPT ![out] = noteAmount - gross]

LegacyWithdraw(call, policy, note, sender) ==
    LET out == call.inputs.newCommitment
        net == call.gross - FeeOf(call.gross)
    IN  /\ LegacyWithdrawAccepted(call, policy, note, sender)
        /\ nullifiers' = nullifiers \cup {call.nullifier}
        /\ accruedProtocolFees' = accruedProtocolFees + FeeOf(call.gross)
        /\ totalWithdrawnAccounting' = totalWithdrawnAccounting + net
        /\ balance' = balance - net
        /\ commitmentAmounts' = ChangeRecorded(out, call.inputs.noteAmount, call.gross)
        /\ IF out = NoCommitment THEN UNCHANGED leaves ELSE RecordCommitment(out)
        /\ UNCHANGED <<totalDepositedAccounting, feeSweptAccounting, paused, timestamp>>

(* sweepFees, by the fee controller *)
LegacySweepFees(amount) ==
    /\ "feeSweeps" \notin paused
    /\ amount > 0
    /\ feeSweptAccounting + amount <= accruedProtocolFees
    /\ feeSweptAccounting' = feeSweptAccounting + amount
    /\ balance' = balance - amount
    /\ UNCHANGED <<leaves, commitmentAmounts, nullifiers, totalDepositedAccounting,
                   totalWithdrawnAccounting, accruedProtocolFees, paused, timestamp>>

ExcessBalance ==
    balance - (totalDepositedAccounting - totalWithdrawnAccounting - feeSweptAccounting)

(* recoverExcessBalance, by the fee controller *)
LegacyRecoverExcess(amount) ==
    /\ "feeSweeps" \notin paused
    /\ amount > 0
    /\ amount <= ExcessBalance
    /\ balance' = balance - amount
    /\ UNCHANGED <<leaves, commitmentAmounts, nullifiers, totalDepositedAccounting,
                   totalWithdrawnAccounting, accruedProtocolFees, feeSweptAccounting,
                   paused, timestamp>>

(* pauseDeposits, pauseInternalSends, pauseFeeSweeps *)
LegacyPause(switch, on) ==
    /\ paused' = IF on THEN paused \cup {switch} ELSE paused \ {switch}
    /\ Cardinality(paused') + ExcessBalance <= MaxDisturbed
    /\ UNCHANGED <<leaves, commitmentAmounts, nullifiers, accounting, timestamp>>

(* Ether that reaches the pool without a call of it. *)
ForceEther(amount) ==
    /\ Cardinality(paused) + ExcessBalance + amount <= MaxDisturbed
    /\ balance' = balance + amount
    /\ UNCHANGED <<leaves, commitmentAmounts, nullifiers, totalDepositedAccounting,
                   totalWithdrawnAccounting, accruedProtocolFees, feeSweptAccounting,
                   paused, timestamp>>

TimePasses ==
    /\ timestamp < TimeBound
    /\ timestamp' = timestamp + 1
    /\ UNCHANGED <<leaves, commitmentAmounts, nullifiers, accounting, paused>>

ControllerStep ==
    \/ \E amount \in 1..(accruedProtocolFees - feeSweptAccounting) : LegacySweepFees(amount)
    \/ \E amount \in 1..ExcessBalance : LegacyRecoverExcess(amount)
    \/ \E switch \in {"deposits", "internalSends", "feeSweeps"}, on \in BOOLEAN :
          LegacyPause(switch, on)
=============================================================================
