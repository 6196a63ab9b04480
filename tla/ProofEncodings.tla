--------------------------- MODULE ProofEncodings ---------------------------
(***************************************************************************)
(* What the public inputs of a proof commit to besides the spent note: the *)
(* encrypted note in the calldata, the relayer policy and the context of   *)
(* the call. The pool, the SDK, the web application and the relay compute  *)
(* these hashes each with its own code; a proof is usable only where all   *)
(* of them agree.                                                          *)
(*                                                                         *)
(* abi.encode is written as the tuple of its arguments and keccak256,      *)
(* reduced to the scalar field, as the identity on that tuple: two hashes  *)
(* are equal iff the same words were encoded in the same order. That is    *)
(* collision resistance. `d' is a deployment: a chain id and a pool.       *)
(***************************************************************************)

(* Function selectors, named for the parameters after the public inputs. *)
DepositSelector == "deposit(note)"
Transfer == "privateTransfer()"
TransferNote == "privateTransfer(note)"
TransferNotePolicy == "privateTransfer(note,policy)"
Withdraw == "withdraw()"
WithdrawNote == "withdraw(note)"
WithdrawBounds == "withdraw(bounds)"
WithdrawNoteBounds == "withdraw(note,bounds)"
WithdrawPolicy == "withdraw(policy)"
WithdrawNotePolicy == "withdraw(note,policy)"

TransferSelectors == {Transfer, TransferNote, TransferNotePolicy}
WithdrawSelectors == {Withdraw, WithdrawNote, WithdrawBounds, WithdrawNoteBounds,
                      WithdrawPolicy, WithdrawNotePolicy}

DEPOSIT_CONTEXT_SHAPE == "deposit_context_v1_2"
PRIVATE_TRANSFER_CONTEXT_SHAPE == "private_transfer_context_v1_2_fee_governance"
WITHDRAW_CONTEXT_SHAPE == "withdraw_context_v1_2_fee_governance"
ZeroBytes32 == "0x00"

Keccak256(bytes) == <<"keccak256", bytes>>

(* PoseidonNullifier: the note's secret and leaf index stand for the leaf. *)
Nullifier(leaf, d) == [leaf |-> leaf, chainId |-> d.chainId, verifyingContract |-> d.pool]

-----------------------------------------------------------------------------
(* The pool contract. *)
RelayerPolicyHash(policy) ==
    <<"nullark.relayer-policy.v1", 1, policy.relayer, policy.minNetAmount,
      policy.maxFeeAmount, policy.deadlineOrZero>>

EncryptedNoteHash(d, shape, selector, nullifier, commitment, note) ==
    <<"nullark.encrypted-note.v1", 1, d.chainId, d.pool, shape, selector,
      nullifier, commitment, note>>

DepositEncryptedNoteHash(d, selector, commitment, note) ==
    EncryptedNoteHash(d, DEPOSIT_CONTEXT_SHAPE, selector, ZeroBytes32, commitment, note)

DepositContextHash(d, selector, commitment, amount, noteHash) ==
    <<"nullark.deposit-context.v1", 1, d.chainId, d.pool, DEPOSIT_CONTEXT_SHAPE,
      selector, commitment, amount, noteHash>>

EncryptedOutputNoteHash(d, shape, selector, nullifier, outputCommitment, note) ==
    <<"nullark.encrypted-output-note.v2", 2, d.chainId, d.pool, shape, selector,
      nullifier, outputCommitment, Keccak256(note)>>

ProofContextHash(d, shape, selector, root, nullifier, destination, gross, fee, noteHash, policy) ==
    <<"nullark.proof-context.v1", 1, d.chainId, d.pool, shape, selector, root,
      nullifier, destination, gross, fee, noteHash, RelayerPolicyHash(policy),
      policy.deadlineOrZero>>

-----------------------------------------------------------------------------
(* The SDK's withdrawal witness (withdraw/witness.ts). *)
SdkRelayerPolicyHash(policy) ==
    <<"nullark.relayer-policy.v1", 1, policy.relayer, policy.minNetAmount,
      policy.maxFeeAmount, policy.deadlineOrZero>>

SdkEncryptedOutputNoteHash(d, nullifier, outputCommitment, note) ==
    <<"nullark.encrypted-output-note.v2", 2, d.chainId, d.pool, WITHDRAW_CONTEXT_SHAPE,
      WithdrawNoteBounds, nullifier, outputCommitment, Keccak256(note)>>

SdkProofContextHash(d, root, nullifier, destination, gross, fee, noteHash, policy) ==
    <<"nullark.proof-context.v1", 1, d.chainId, d.pool, WITHDRAW_CONTEXT_SHAPE,
      WithdrawNoteBounds, root, nullifier, destination, gross, fee, noteHash,
      SdkRelayerPolicyHash(policy), policy.deadlineOrZero>>

(* The SDK's deposit (deposit/prepare.ts). *)
SdkDepositNoteHash(d, commitment, note) ==
    <<"nullark.v1.2.encrypted-deposit-note", 1, d.chainId, d.pool, commitment, note>>

SdkDepositContextHash(d, commitment, amount, noteHash) ==
    <<"nullark.v1.2.deposit-context", 1, d.chainId, d.pool, commitment, amount, noteHash>>

(* The web application's withdrawal witness (withdrawWitness.ts). *)
WebRelayerPolicyHash(policy) ==
    <<"nullark.relayer-policy.v1", 1, policy.relayer, policy.minNetAmount,
      policy.maxFeeAmount, policy.deadlineOrZero>>

WebEncryptedOutputNoteHash(d, nullifier, outputCommitment, note) ==
    <<"nullark.encrypted-output-note.v2", 2, d.chainId, d.pool, WITHDRAW_CONTEXT_SHAPE,
      WithdrawNoteBounds, nullifier, outputCommitment, Keccak256(note)>>

WebProofContextHash(d, root, nullifier, destination, gross, fee, noteHash, policy) ==
    <<"nullark.proof-context.v1", 1, d.chainId, d.pool, WITHDRAW_CONTEXT_SHAPE,
      WithdrawNoteBounds, root, nullifier, destination, gross, fee, noteHash,
      WebRelayerPolicyHash(policy), policy.deadlineOrZero>>

(* The web application's deposit (browserDepositProver.ts). *)
WebDepositNoteHash(d, commitment, note) ==
    <<"nullark.encrypted-note.v1", 1, d.chainId, d.pool, DEPOSIT_CONTEXT_SHAPE,
      DepositSelector, ZeroBytes32, commitment, note>>

WebDepositContextHash(d, commitment, amount, noteHash) ==
    <<"nullark.deposit-context.v1", 1, d.chainId, d.pool, DEPOSIT_CONTEXT_SHAPE,
      DepositSelector, commitment, amount, noteHash>>

-----------------------------------------------------------------------------
(* The relay (withdrawalCalldata.ts with packages/core/src/proofs.ts). *)
RelayRelayerPolicyHash(policy) ==
    <<"nullark.relayer-policy.v1", 1, policy.relayer, policy.minNetAmount,
      policy.maxFeeAmount, policy.deadlineOrZero>>

RelayOutputNoteHash(d, selector, nullifier, outputCommitment, note) ==
    <<"nullark.encrypted-output-note.v2", 2, d.chainId, d.pool, WITHDRAW_CONTEXT_SHAPE,
      selector, nullifier, outputCommitment, Keccak256(note)>>

RelayProofContextHash(d, selector, root, nullifier, destination, gross, fee, noteHash, policy) ==
    <<"nullark.proof-context.v1", 1, d.chainId, d.pool, WITHDRAW_CONTEXT_SHAPE,
      selector, root, nullifier, destination, gross, fee, noteHash,
      RelayRelayerPolicyHash(policy), policy.deadlineOrZero>>
=============================================================================
