--------------------------- MODULE LegacyBinding ----------------------------
(***************************************************************************)
(* Who decides what about a spend of the v1.1 pool: the owner's wallet     *)
(* (SDK or web application), which computes the hashes and builds the      *)
(* calldata; anybody, who may put the published proof into another call;   *)
(* the relay in its v1.1 mode; the pool; and the indexer, which checks a   *)
(* withdrawal against its public inputs afterwards. Each has its own code  *)
(* for the same hashes and amounts.                                        *)
(*                                                                         *)
(* Proofs are sound and cannot be altered: the verifier accepts public     *)
(* inputs iff a plan was proved with them. The relay's clock is the        *)
(* chain's. The relay runs without a fee policy, as v1.1 fees are fixed.   *)
(***************************************************************************)
EXTENDS LegacyPool

CONSTANTS
    Deployments,            \* deployments owners hold notes in, Here included
    Destinations,           \* addresses, address(0) excluded
    Ciphertexts,            \* encrypted notes of acceptable size
    OwnerPolicies,          \* policies that owners choose
    RelayAccount,           \* the relay's signing account
    MaxUint256,
    MAX_RELAY_DEADLINE_SECONDS_FROM_NOW,
    MaxDeposits,            \* TLC bound: leaves before the first plan, and one more per plan
    MaxPlans, MaxRelayed    \* TLC bounds

ASSUME LegacyBindingAssumption ==
    /\ Here \in Deployments
    /\ \A d \in Deployments : d = [chainId |-> d.chainId, pool |-> d.pool]
    /\ RelayAccount \in Accounts
    /\ NoRelayer \notin Destinations
    /\ {EmptyNote, OversizedNote} \cap Ciphertexts = {}
    /\ \A policy \in OwnerPolicies :
          /\ policy = [relayer |-> policy.relayer, minNetAmount |-> policy.minNetAmount,
                        maxFeeAmount |-> policy.maxFeeAmount,
                        deadlineOrZero |-> policy.deadlineOrZero]
          /\ {policy.minNetAmount, policy.maxFeeAmount, policy.deadlineOrZero} \subseteq Nat
    /\ MaxUint256 \in Nat /\ MAX_RELAY_DEADLINE_SECONDS_FROM_NOW \in Nat \ {0}
    /\ MaxDeposits \in Nat /\ MaxPlans \in Nat /\ MaxRelayed \in Nat

VARIABLES
    plans,      \* spends that owners prepared and proved
    built,      \* calls that a wallet built and handed out, with their plan
    relayed,    \* calls that the relay admitted, with their deadline
    executed    \* calls that the pool executed

bindingVars == <<plans, built, relayed, executed>>
allVars == <<poolVars, bindingVars>>

-----------------------------------------------------------------------------
(* Plans. The change of a plan is what the withdrawal leaves of the note;  *)
(* its commitment is NoCommitment iff nothing is left.                     *)
Change(p) == p.noteAmount - p.gross
PlanNullifier(p) == Nullifier(p.leaf, p.deployment)
PlanShape(p) == IF p.selector \in TransferSelectors THEN TRANSFER_SHAPE_V1_1 ELSE WITHDRAW_SHAPE_V1_1
PlanAmount(p) ==
    IF p.selector \in TransferSelectors \/ p.out = NoCommitment THEN p.noteAmount ELSE Change(p)

(* The hashes, as the SDK computes them ...                                *)
SdkNoteHashV1(d, selector, nullifier, commitment, noteAmount, note) ==
    <<"nullark.encrypted-note.v1", 1, d.chainId, d.pool, WITHDRAW_SHAPE_V1_1, selector,
      nullifier, commitment, noteAmount, note>>

(* ... and as packages/core does for the web application, the relay and    *)
(* the indexer.                                                            *)
CoreNoteHash(d, selector, nullifier, commitment, noteAmount, note) ==
    <<"nullark.encrypted-note.v1", 1, d.chainId, d.pool, WITHDRAW_SHAPE_V1_1, selector,
      nullifier, commitment, noteAmount, note>>

CorePolicyHash(policy) ==
    <<"nullark.relayer-policy.v1", 1, policy.relayer, policy.minNetAmount,
      policy.maxFeeAmount, policy.deadlineOrZero>>

CoreContextHash(d, selector, root, nullifier, destination, gross, fee, noteHash, policyHash, deadline) ==
    <<"nullark.proof-context.v1", 1, d.chainId, d.pool, WITHDRAW_SHAPE_V1_1, selector, root,
      nullifier, destination, gross, fee, noteHash, policyHash, deadline>>

(* The SDK's hashes of a full exit and of an exit with change. *)
SdkExitNoteHash(p) ==
    SdkNoteHashV1(p.deployment, p.selector, PlanNullifier(p), NoCommitment, p.noteAmount, EmptyNote)
SdkChangeNoteHash(p) ==
    SdkNoteHashV1(p.deployment, p.selector, PlanNullifier(p), p.out, Change(p), p.note)
SdkContextHashV1(p, noteHash) ==
    <<"nullark.proof-context.v1", 1, p.deployment.chainId, p.deployment.pool,
      WITHDRAW_SHAPE_V1_1, p.selector, p.root, PlanNullifier(p), p.destination, p.gross, p.fee,
      noteHash, SdkRelayerPolicyHash(p.policy), p.policy.deadlineOrZero>>

(* The web application's. *)
WebExitNoteHash(p) ==
    CoreNoteHash(p.deployment, p.selector, PlanNullifier(p), NoCommitment, p.noteAmount, EmptyNote)
WebChangeNoteHash(p) ==
    CoreNoteHash(p.deployment, p.selector, PlanNullifier(p), p.out, Change(p), p.note)
WebContextHashV1(p, noteHash) ==
    CoreContextHash(p.deployment, p.selector, p.root, PlanNullifier(p), p.destination, p.gross,
                    p.fee, noteHash, CorePolicyHash(p.policy), p.policy.deadlineOrZero)

PlanNoteHash(p) ==
    CASE p.client = "sdk" -> IF p.out = NoCommitment THEN SdkExitNoteHash(p) ELSE SdkChangeNoteHash(p)
      [] p.client = "web" -> IF p.out = NoCommitment THEN WebExitNoteHash(p) ELSE WebChangeNoteHash(p)
      [] p.client = "contract" ->       \* the compute views of the pool
            LegacyNoteHash(p.deployment, PlanShape(p), p.selector, PlanNullifier(p), p.out,
                           PlanAmount(p), p.note)

PlanContextHash(p) ==
    CASE p.client = "sdk" -> SdkContextHashV1(p, PlanNoteHash(p))
      [] p.client = "web" -> WebContextHashV1(p, PlanNoteHash(p))
      [] p.client = "contract" ->
            LegacyContextHash(p.deployment, PlanShape(p), p.selector, p.root, PlanNullifier(p),
                              p.destination, p.gross, p.fee, PlanNoteHash(p), p.policy)

SpendInputs(p) ==
    [root |-> p.root, nullifier |-> PlanNullifier(p), newCommitment |-> p.out,
     destination |-> p.destination, grossAmount |-> p.gross, fee |-> p.fee,
     chainId |-> p.deployment.chainId, verifyingContract |-> p.deployment.pool,
     spentCommitment |-> p.spent, noteAmount |-> p.noteAmount,
     proofContextHash |-> PlanContextHash(p), encryptedNoteHash |-> PlanNoteHash(p)]

(* The circuits: the spent note is in the tree, the amounts balance, the   *)
(* fee is the fixed one, the new commitment holds what is left.            *)
WithdrawCircuitV1(p) ==
    /\ p.gross \in 1..p.noteAmount
    /\ p.fee = FeeOf(p.gross)
    /\ IF p.gross = p.noteAmount THEN p.out = NoCommitment
                                 ELSE p.out \in Commitments /\ OpenAmount[p.out] = Change(p)

TransferCircuitV1(p) == p.out \in Commitments /\ OpenAmount[p.out] = p.noteAmount

NoteInTree(p) ==
    /\ p.leaf < p.root
    /\ p.spent = leaves[p.leaf + 1]
    /\ p.noteAmount = OpenAmount[p.spent]

VerifyProof(inputs) == \E p \in plans : SpendInputs(p) = inputs

-----------------------------------------------------------------------------
(* The policy and the note that an overload hands to _privateTransfer or   *)
(* _withdraw.                                                              *)
OverloadPolicy(call) ==
    CASE call.selector \in {Transfer, TransferNote} ->
            [relayer |-> NoRelayer, minNetAmount |-> 0, maxFeeAmount |-> MaxUint256,
             deadlineOrZero |-> 0]
      [] call.selector \in {WithdrawBounds, WithdrawNoteBounds} ->
            [call.policy EXCEPT !.relayer = NoRelayer, !.deadlineOrZero = 0]
      [] OTHER -> call.policy

OverloadNote(call) ==
    IF call.selector \in {Transfer, WithdrawBounds, WithdrawPolicy} THEN EmptyNote ELSE call.note

TransferAccepted(call, sender) ==
    /\ call.selector \in TransferSelectors
    /\ LegacyTransferAccepted(call, OverloadPolicy(call), OverloadNote(call), sender)
    /\ VerifyProof(call.inputs)

(* The two overloads without bounds revert at once. *)
WithdrawAccepted(call, sender) ==
    /\ call.selector \in WithdrawSelectors \ {Withdraw, WithdrawNote}
    /\ LegacyWithdrawAccepted(call, OverloadPolicy(call), OverloadNote(call), sender)
    /\ VerifyProof(call.inputs)

-----------------------------------------------------------------------------
(* The relay, v1.1 mode. *)
RelayInputsMatch(call) ==
    /\ call.inputs.nullifier = call.nullifier
    /\ call.inputs.destination = call.destination
    /\ call.inputs.grossAmount = call.gross
    /\ call.inputs.fee = FeeOf(call.gross)
    /\ call.inputs.chainId = Here.chainId
    /\ call.inputs.verifyingContract = Here.pool

RelayBoundsHold(call) ==
    /\ FeeOf(call.gross) <= call.policy.maxFeeAmount
    /\ call.gross - FeeOf(call.gross) >= call.policy.minNetAmount
    /\ call.policy.maxFeeAmount <= call.gross

(* The policy that createStageCRelayerPolicy and the preflight of bounded  *)
(* full exits put into the hash.                                           *)
RelayBoundsPolicy(call) ==
    [relayer |-> ZeroAddress, minNetAmount |-> call.policy.minNetAmount,
     maxFeeAmount |-> call.policy.maxFeeAmount, deadlineOrZero |-> 0]

(* The hash of a full exit binds the whole note and no bytes, the hash of  *)
(* a change note binds the change.                                         *)
RelayExitNoteHash(call) ==
    CoreNoteHash(Here, call.selector, call.nullifier, NoCommitment, call.inputs.noteAmount, EmptyNote)

RelayChangeNoteHash(call) ==
    CoreNoteHash(Here, call.selector, call.nullifier, call.inputs.newCommitment,
                 call.inputs.noteAmount - call.gross, call.note)

RelayContextHash(call, noteHash, policy) ==
    CoreContextHash(Here, call.selector, call.inputs.root, call.nullifier, call.destination,
                    call.gross, FeeOf(call.gross), noteHash, CorePolicyHash(policy),
                    policy.deadlineOrZero)

RelayHashesMatch(call, noteHash, policy) ==
    /\ call.inputs.encryptedNoteHash = noteHash
    /\ call.inputs.proofContextHash = RelayContextHash(call, noteHash, policy)

(* withdraw(policy): a full exit bound to the relay and its deadline.      *)
RelayPolicyPreflight_AnyDeadline(call, deadline) ==
    /\ call.policy.relayer = RelayAccount
    /\ RelayHashesMatch(call, RelayExitNoteHash(call), call.policy)
RelayPolicyPreflight(call, deadline) ==
    /\ call.policy.deadlineOrZero = deadline
    /\ call.policy.relayer = RelayAccount
    /\ RelayHashesMatch(call, RelayExitNoteHash(call), call.policy)

(* withdraw(bounds): a full exit with bounds. *)
RelayBoundedPreflight(call) ==
    RelayHashesMatch(call, RelayExitNoteHash(call), RelayBoundsPolicy(call))

(* withdraw(note,bounds): with change, or a full exit in the same form.    *)
RelayChangePreflight(call) ==
    /\ call.inputs.newCommitment # NoCommitment
    /\ call.note \notin {EmptyNote, OversizedNote}
    /\ call.inputs.noteAmount - call.gross \in Denominations
    /\ RelayHashesMatch(call, RelayChangeNoteHash(call), RelayBoundsPolicy(call))

RelayUnifiedExitPreflight(call) ==
    /\ call.inputs.newCommitment = NoCommitment
    /\ call.note = EmptyNote
    /\ call.inputs.noteAmount = call.gross
    /\ RelayHashesMatch(call, RelayExitNoteHash(call), RelayBoundsPolicy(call))

FullExit(call) ==
    call.gross = call.inputs.noteAmount /\ call.inputs.newCommitment = NoCommitment

(* Which preflight a request goes through. *)
RelayPreflight(call, deadline) ==
    \/ call.selector = WithdrawPolicy /\ FullExit(call) /\ RelayPolicyPreflight(call, deadline)
    \/ call.selector = WithdrawBounds /\ FullExit(call) /\ RelayBoundedPreflight(call)
    \/ /\ call.selector = WithdrawNoteBounds
       /\ RelayChangePreflight(call) \/ RelayUnifiedExitPreflight(call)

RelayAllows(call, deadline) ==
    /\ RelayInputsMatch(call)
    /\ call.destination # ZeroAddress
    /\ {call.inputs.noteAmount, call.gross} \subseteq Denominations
    /\ call.gross <= call.inputs.noteAmount
    /\ RelayBoundsHold(call)
    /\ RelayPreflight(call, deadline)
    /\ deadline > timestamp
    /\ deadline <= timestamp + MAX_RELAY_DEADLINE_SECONDS_FROM_NOW

-----------------------------------------------------------------------------
(* The wallets. *)
WalletPolicy(gross, fee) ==
    [relayer |-> ZeroAddress, minNetAmount |-> gross - fee, maxFeeAmount |-> fee,
     deadlineOrZero |-> 0]

(* A proof of the circuit for a note that is still unspent. Other          *)
(* deployments are taken to hold the same tree: the worst case for a       *)
(* replayed proof.                                                         *)
Prove(p) ==
    /\ NoteInTree(p)
    /\ PlanNullifier(p) \notin nullifiers
    /\ p.out \notin commitments
    /\ IF p.selector \in TransferSelectors THEN TransferCircuitV1(p) ELSE WithdrawCircuitV1(p)
    /\ plans' = plans \cup {p}
    /\ UNCHANGED <<poolVars, built, relayed, executed>>

(* The bytes of the change note; none for a full exit. *)
SdkChangeBytes(out, cipher) == IF out = NoCommitment THEN EmptyNote ELSE cipher
WebChangeBytes(out, cipher) == IF out = NoCommitment THEN EmptyNote ELSE cipher

WalletPlan(client, leaf, out, gross, destination, bytes) ==
    LET spent == leaves[leaf + 1]
    IN  [client |-> client, deployment |-> Here, selector |-> WithdrawNoteBounds,
         leaf |-> leaf, root |-> currentRoot, spent |-> spent,
         noteAmount |-> OpenAmount[spent], out |-> out, destination |-> destination,
         gross |-> gross, fee |-> FeeOf(gross),
         note |-> bytes,
         policy |-> WalletPolicy(gross, FeeOf(gross))]

(* buildWithdrawalWitness, and the proof of the witness *)
SdkPlans(leaf, out, gross, destination, cipher) ==
    Prove(WalletPlan("sdk", leaf, out, gross, destination, SdkChangeBytes(out, cipher)))

(* buildBrowserWithdrawWitness, and the proof of the witness *)
WebPlans(leaf, out, gross, destination, cipher) ==
    Prove(WalletPlan("web", leaf, out, gross, destination, WebChangeBytes(out, cipher)))

(* An owner with another wallet, which takes the hashes from the views of  *)
(* the contract, plans any spend in any deployment.                        *)
OwnerPlans(d, selector, leaf, out, gross, destination, note, policy) ==
    LET spent == leaves[leaf + 1]
        call == [selector |-> selector, policy |-> policy, note |-> note]
    IN  Prove([client |-> "contract", deployment |-> d, selector |-> selector,
               leaf |-> leaf, root |-> currentRoot, spent |-> spent,
               noteAmount |-> OpenAmount[spent], out |-> out, destination |-> destination,
               gross |-> gross, fee |-> FeeOf(gross), note |-> OverloadNote(call),
               policy |-> OverloadPolicy(call)])

(* What the SDK (validateWithdrawProofIntent) and the web application      *)
(* require of the public signals that the prover returns. The panel hands  *)
(* three of the prover's own signals to the check, which says nothing      *)
(* about them.                                                             *)
SdkIntentHolds(inputs, p) == \A f \in DOMAIN inputs : inputs[f] = SpendInputs(p)[f]
WebIntentHolds(inputs, p) ==
    \A f \in DOMAIN inputs \ {"spentCommitment", "noteAmount", "encryptedNoteHash"} :
        inputs[f] = SpendInputs(p)[f]

(* assertWithdrawPublicInputBinding, before the calldata is encoded. The   *)
(* SDK compares the root with the current one; the panel hands the proof's *)
(* own root to the check and leaves the root to the preflight.             *)
SdkBindingHolds(inputs, p) ==
    /\ inputs.root = currentRoot
    /\ inputs.nullifier = PlanNullifier(p)
    /\ inputs.newCommitment = p.out
    /\ inputs.destination = p.destination
    /\ inputs.grossAmount = p.gross
    /\ inputs.chainId = Here.chainId
    /\ inputs.verifyingContract = Here.pool
    /\ inputs.noteAmount # 0
WebBindingHolds(inputs, p) ==
    /\ inputs.nullifier = PlanNullifier(p)
    /\ inputs.newCommitment = p.out
    /\ inputs.destination = p.destination
    /\ inputs.grossAmount = p.gross
    /\ inputs.chainId = Here.chainId
    /\ inputs.verifyingContract = Here.pool
    /\ inputs.noteAmount # 0

(* The calldata: the overload with note and bounds, for full exits too.    *)
(* The encoders refuse bounds beyond the gross amount.                     *)
SdkCall(p, inputs) ==
    [selector |-> WithdrawNoteBounds, inputs |-> inputs, nullifier |-> PlanNullifier(p),
     newCommitment |-> NoCommitment, destination |-> p.destination, gross |-> p.gross,
     note |-> p.note, policy |-> p.policy]
WebCall(p, inputs) ==
    [selector |-> WithdrawNoteBounds, inputs |-> inputs, nullifier |-> PlanNullifier(p),
     newCommitment |-> NoCommitment, destination |-> p.destination, gross |-> p.gross,
     note |-> p.note, policy |-> p.policy]

SdkEncodes(p) == p.gross > 0 /\ {p.policy.minNetAmount, p.policy.maxFeeAmount} \subseteq 0..p.gross
WebEncodes(p) == p.gross > 0 /\ {p.policy.minNetAmount, p.policy.maxFeeAmount} \subseteq 0..p.gross

(* buildWithdrawalRelayerRequest decodes the calldata again. *)
SdkDecodes(call) ==
    /\ call.selector = WithdrawNoteBounds
    /\ call.gross > 0
    /\ {call.policy.minNetAmount, call.policy.maxFeeAmount} \subseteq 0..call.gross

(* createWithdrawalPlan of the SDK; the prover that the caller injects     *)
(* returned `inputs'.                                                      *)
SdkBuilds(p, inputs) ==
    /\ p.client = "sdk"
    /\ SdkIntentHolds(inputs, p)
    /\ SdkBindingHolds(inputs, p)
    /\ SdkEncodes(p)
    /\ SdkDecodes(SdkCall(p, inputs))
    /\ built' = built \cup {[plan |-> p, call |-> SdkCall(p, inputs)]}
    /\ UNCHANGED <<poolVars, plans, relayed, executed>>

(* assertWithdrawalPreflightSucceeds: an eth_call without a sender. *)
WebPreflight(call) == WithdrawAccepted(call, ZeroAddress)

WebBuilds(p, inputs) ==
    /\ p.client = "web"
    /\ WebIntentHolds(inputs, p)
    /\ WebBindingHolds(inputs, p)
    /\ WebEncodes(p)
    /\ WebPreflight(WebCall(p, inputs))
    /\ built' = built \cup {[plan |-> p, call |-> WebCall(p, inputs)]}
    /\ UNCHANGED <<poolVars, plans, relayed, executed>>

-----------------------------------------------------------------------------
(* Transactions, sent by anybody. *)
SubmitDeposit(c, value, note) ==
    /\ Len(leaves) < MaxDeposits + Cardinality(plans)
    /\ LegacyDeposit(c, value, note)
    /\ UNCHANGED bindingVars

Execution(call, sender) ==
    [call |-> call, note |-> OverloadNote(call), fee |-> FeeOf(call.gross),
     sender |-> sender, time |-> timestamp]

SubmitTransfer(call, sender) ==
    /\ TransferAccepted(call, sender)
    /\ LegacyPrivateTransfer(call, OverloadPolicy(call), OverloadNote(call), sender)
    /\ executed' = executed \cup {Execution(call, sender)}
    /\ UNCHANGED <<plans, built, relayed>>

SubmitWithdraw(call, sender) ==
    /\ WithdrawAccepted(call, sender)
    /\ LegacyWithdraw(call, OverloadPolicy(call), OverloadNote(call), sender)
    /\ executed' = executed \cup {Execution(call, sender)}
    /\ UNCHANGED <<plans, built, relayed>>

RelayAdmits(call, deadline) ==
    /\ Cardinality(relayed) < MaxRelayed
    /\ RelayAllows(call, deadline)
    /\ relayed' = relayed \cup {[call |-> call, deadline |-> deadline]}
    /\ UNCHANGED <<poolVars, plans, built, executed>>

-----------------------------------------------------------------------------
(* The indexer. An event of a withdrawal that left change: *)
ChangeEvent(e) ==
    [eventType |-> "withdraw-change", chainId |-> Here.chainId, pool |-> Here.pool,
     commitment |-> e.call.inputs.newCommitment, nullifier |-> e.call.nullifier,
     encryptedNote |-> e.note]

(* A claim about a withdrawal: somebody's statement of its amounts, note,  *)
(* destination and policy, checked against hashes of a proof.              *)
IndexerChangeShape(claim) ==
    /\ claim.commitment # NoCommitment
    /\ claim.note \notin {EmptyNote, OversizedNote}
    /\ {claim.noteAmount, claim.gross, claim.change} \subseteq Denominations
    /\ claim.fee <= claim.gross
    /\ claim.noteAmount = claim.gross + claim.change

IndexerEventMatches(claim, event) ==
    /\ event.chainId = Here.chainId /\ event.pool = Here.pool
    /\ event.eventType = "withdraw-change"
    /\ event.commitment = claim.commitment
    /\ event.encryptedNote = claim.note
    /\ event.nullifier = claim.nullifier

IndexerContextMatches(claim, selector, noteHash, inputs) ==
    inputs.proofContextHash =
        CoreContextHash(Here, selector, claim.root, claim.nullifier, claim.destination,
                        claim.gross, claim.fee, noteHash, CorePolicyHash(claim.policy),
                        claim.policy.deadlineOrZero)

IndexerExitNoteHash(claim) ==
    CoreNoteHash(Here, WithdrawPolicy, claim.nullifier, NoCommitment, claim.noteAmount, EmptyNote)

IndexerChangeNoteHash(claim) ==
    CoreNoteHash(Here, WithdrawNoteBounds, claim.nullifier, claim.commitment, claim.change,
                 claim.note)

(* validateStageCWithdrawChangeNoteIndexerBinding without errors. Without  *)
(* the fields of the context (withContext) it notes a limitation instead.  *)
IndexerConfirmsChange_WithoutHash(claim, inputs, event, withContext) ==
    IndexerChangeShape(claim) /\ IndexerEventMatches(claim, event)
IndexerConfirmsChange(claim, inputs, event, withContext) ==
    /\ IndexerChangeShape(claim)
    /\ IndexerEventMatches(claim, event)
    /\ inputs.encryptedNoteHash = IndexerChangeNoteHash(claim)
    /\ withContext => IndexerContextMatches(claim, WithdrawNoteBounds,
                                            IndexerChangeNoteHash(claim), inputs)

(* validateStageBWithdrawPublicExitIndexerBinding: the full exit bound to  *)
(* a relayer.                                                              *)
IndexerConfirmsExit(claim, inputs, withContext) ==
    /\ claim.commitment = NoCommitment
    /\ claim.note = EmptyNote
    /\ inputs.encryptedNoteHash = IndexerExitNoteHash(claim)
    /\ withContext => IndexerContextMatches(claim, WithdrawPolicy, IndexerExitNoteHash(claim), inputs)

(* The claim that is true of an executed withdrawal, and variants of it in *)
(* the amounts.                                                            *)
TrueClaim(e) ==
    LET inputs == e.call.inputs
    IN  [noteAmount |-> inputs.noteAmount, gross |-> e.call.gross,
         change |-> inputs.noteAmount - e.call.gross, fee |-> e.fee,
         commitment |-> inputs.newCommitment, nullifier |-> e.call.nullifier, note |-> e.note,
         root |-> inputs.root, destination |-> e.call.destination,
         policy |-> OverloadPolicy(e.call)]

ClaimOf(e, n, g, c, f, d) ==
    [TrueClaim(e) EXCEPT !.noteAmount = n, !.gross = g, !.change = c, !.fee = f,
                         !.destination = d]

Claims(e) ==
    {ClaimOf(e, n, g, c, f, d) :
        n \in Denominations, g \in Denominations, c \in Denominations \cup {0},
        f \in {FeeOf(a) : a \in Denominations}, d \in Destinations}

(* createWithdrawChangeV1_1 of packages/core: the public inputs it expects *)
(* of a withdrawal with change, and the amounts it refuses.                *)
CoreValueConserved(claim) ==
    /\ claim.change > 0
    /\ claim.fee = FeeOf(claim.gross)
    /\ claim.noteAmount = claim.gross + claim.change
    /\ claim.fee < claim.gross

CoreChangeInputs(claim, spent) ==
    LET noteHash == CoreNoteHash(Here, WithdrawNoteBounds, claim.nullifier, claim.commitment,
                                 claim.change, claim.note)
    IN  [root |-> claim.root, nullifier |-> claim.nullifier, newCommitment |-> claim.commitment,
         destination |-> claim.destination, grossAmount |-> claim.gross, fee |-> claim.fee,
         chainId |-> Here.chainId, verifyingContract |-> Here.pool,
         spentCommitment |-> spent, noteAmount |-> claim.noteAmount,
         proofContextHash |->
            CoreContextHash(Here, WithdrawNoteBounds, claim.root, claim.nullifier,
                            claim.destination, claim.gross, claim.fee, noteHash,
                            CorePolicyHash(claim.policy), claim.policy.deadlineOrZero),
         encryptedNoteHash |-> noteHash]

CoreInputsMatch(claim, spent, inputs) ==
    \A f \in DOMAIN inputs : inputs[f] = CoreChangeInputs(claim, spent)[f]

(* The web application's preflight of a change note. *)
WebChangePreflight(p) ==
    /\ p.out # NoCommitment
    /\ p.note \notin {EmptyNote, OversizedNote}
    /\ Change(p) > 0
    /\ p.fee <= p.gross
    /\ SpendInputs(p).encryptedNoteHash = WebChangeNoteHash(p)
    /\ SpendInputs(p).proofContextHash = WebContextHashV1(p, WebChangeNoteHash(p))

-----------------------------------------------------------------------------
(* The arguments tried: every published proof with every nullifier,        *)
(* commitment, destination, amount, note and policy of the instance.       *)
Notes == {EmptyNote, OversizedNote} \cup Ciphertexts

CallsWith(selector, outs, destinations, amounts) ==
    LET policies == OwnerPolicies \cup {p.policy : p \in plans}
    IN  [selector : {selector},
         inputs : {SpendInputs(p) : p \in plans},
         nullifier : {Nullifier(i, Here) : i \in 0..(Len(leaves) - 1)}
                        \cup {PlanNullifier(p) : p \in plans},
         newCommitment : outs, destination : destinations, gross : amounts,
         note : {OverloadNote([selector |-> selector, note |-> note]) : note \in Notes},
         policy : {OverloadPolicy([selector |-> selector, policy |-> policy]) :
                      policy \in policies}]

TransferCalls(selector) == CallsWith(selector, Commitments, {ZeroAddress}, {0})
WithdrawCalls(selector) ==
    CallsWith(selector, {NoCommitment}, Destinations \cup {ZeroAddress},
              Denominations \cup {p.gross : p \in plans})

OwnersStep ==
    /\ Cardinality(plans) < MaxPlans
    /\ \E leaf \in 0..(Len(leaves) - 1), out \in Commitments \cup {NoCommitment} :
           \/ \E gross \in 1..Max(Range(OpenAmount)), destination \in Destinations,
                 cipher \in Ciphertexts :
                 \/ SdkPlans(leaf, out, gross, destination, cipher)
                 \/ WebPlans(leaf, out, gross, destination, cipher)
           \/ \E d \in Deployments, policy \in OwnerPolicies, note \in {EmptyNote} \cup Ciphertexts :
                 \/ \E selector \in WithdrawSelectors, gross \in Denominations,
                       destination \in Destinations :
                       OwnerPlans(d, selector, leaf, out, gross, destination, note, policy)
                 \/ \E selector \in TransferSelectors :
                       OwnerPlans(d, selector, leaf, out, 0, ZeroAddress, note, policy)

LegacyNext ==
    \/ \E c \in Commitments, value \in Denominations, note \in Notes : SubmitDeposit(c, value, note)
    \/ OwnersStep
    \/ \E p \in plans, q \in plans :
          SdkBuilds(p, SpendInputs(q)) \/ WebBuilds(p, SpendInputs(q))
    \/ \E selector \in TransferSelectors : \E call \in TransferCalls(selector) :
          \E sender \in Accounts : SubmitTransfer(call, sender)
    \/ \E selector \in WithdrawSelectors : \E call \in WithdrawCalls(selector) :
          \/ \E sender \in Accounts : SubmitWithdraw(call, sender)
          \/ \E window \in 0..(MAX_RELAY_DEADLINE_SECONDS_FROM_NOW + 1) :
                RelayAdmits(call, timestamp + window)
    \/ ControllerStep /\ UNCHANGED bindingVars
    \/ \E amount \in 1..MaxDisturbed : ForceEther(amount) /\ UNCHANGED bindingVars
    \/ TimePasses /\ UNCHANGED bindingVars

LegacyBindingInit == LegacyInit /\ executed = {} /\ plans = {} /\ built = {} /\ relayed = {}

LegacySpec == LegacyBindingInit /\ [][LegacyNext]_allVars

-----------------------------------------------------------------------------
(* The pool can pay every note: what it recorded for the unspent notes is  *)
(* exactly what its accounting says was deposited and not withdrawn or     *)
(* charged, and its balance covers that and the unswept fees. Spending a   *)
(* note, leaving change, sweeping and recovering an excess keep this       *)
(* although deposits are not proved (_withdraw, recoverExcessBalance).     *)
Unspent == {c \in commitments :
               \A i \in DOMAIN leaves : leaves[i] = c => Nullifier(i - 1, Here) \notin nullifiers}

NotesAccounted ==
    MapThenSumSet(LAMBDA c : commitmentAmounts[c], Unspent)
        = totalDepositedAccounting - totalWithdrawnAccounting - accruedProtocolFees

BalanceCovers ==
    /\ balance >= totalDepositedAccounting - totalWithdrawnAccounting - feeSweptAccounting
    /\ feeSweptAccounting <= accruedProtocolFees

LegacySolvent == NotesAccounted /\ BalanceCovers

(* Whatever call the pool executes, an owner planned exactly it, for this  *)
(* deployment, overload, note, root, change, destination, amount, fee and  *)
(* encrypted bytes, and it was sent by the relayer, before the deadline    *)
(* and within the bounds of that plan (_requireWithdrawalStageBBindings,   *)
(* _requireRelayerPolicy).                                                 *)
LegacyExecutedAsPlanned ==
    \A e \in executed : \E p \in plans :
        LET call == e.call
        IN  /\ p.deployment = Here
            /\ p.selector = call.selector
            /\ SpendInputs(p) = call.inputs
            /\ <<PlanNullifier(p), p.note>> = <<call.nullifier, e.note>>
            /\ p.out \in {call.newCommitment, call.inputs.newCommitment}
            /\ <<p.destination, p.gross, p.fee>> = <<call.destination, call.gross, e.fee>>
            /\ p.policy.relayer # NoRelayer => e.sender = p.policy.relayer
            /\ p.policy.deadlineOrZero # 0 => e.time <= p.policy.deadlineOrZero
            /\ call.selector \in WithdrawSelectors =>
                  /\ e.fee <= p.policy.maxFeeAmount
                  /\ call.gross - e.fee >= p.policy.minNetAmount

(* What may have happened to a withdrawal since its proof was made. *)
Overtaken(inputs) ==
    \/ inputs.nullifier \in nullifiers
    \/ ~IsAcceptedRoot(inputs.root)
    \/ inputs.newCommitment \in commitments
    \/ commitmentAmounts[inputs.spentCommitment] # inputs.noteAmount
    \/ inputs.newCommitment # NoCommitment /\ Len(leaves) = MERKLE_TREE_CAPACITY

PlanOfDenominations(p) ==
    {p.noteAmount, p.gross} \subseteq Denominations /\ Change(p) \in Denominations \cup {0}

(* The relay's validation and the pool's agree. A call that the relay      *)
(* admitted is accepted by the pool from the relay's account until its     *)
(* deadline, unless the note was spent, the root expired, the change       *)
(* commitment was inserted by somebody else, the tree is full, or the note *)
(* was deposited with a value that is not its amount: the last three the   *)
(* relay does not look at. A call that the SDK or the web application      *)
(* built is admitted by both iff its amounts are denominations: the SDK    *)
(* (buildWithdrawalWitness, createWithdrawalPlan) takes any amounts, and   *)
(* the relay stops what the pool would refuse; the web application stops   *)
(* it itself, and its change passes its own validation.                    *)
LegacyChecksAgree ==
    /\ \A r \in relayed :
          timestamp <= r.deadline =>
              Overtaken(r.call.inputs) \/ WithdrawAccepted(r.call, RelayAccount)
    /\ \A b \in built :
          /\ RelayAllows(b.call, timestamp + 1) <=> PlanOfDenominations(b.plan)
          /\ \A sender \in Accounts :
                ~Overtaken(b.call.inputs) =>
                    (WithdrawAccepted(b.call, sender) <=> PlanOfDenominations(b.plan))
          /\ b.plan.client = "web" =>
                /\ PlanOfDenominations(b.plan)
                /\ b.plan.out # NoCommitment => WebChangePreflight(b.plan)

(* What the indexer confirms about an executed withdrawal is what the pool *)
(* recorded: the amount of the change note, and with the context also      *)
(* destination, gross amount and fee. Every withdrawal with change through *)
(* the overload the wallets use is confirmed by its own event, and is one  *)
(* that packages/core would have prepared.                                 *)
WithChange(e) == e.call.selector \in WithdrawSelectors /\ e.call.inputs.newCommitment # NoCommitment

ConfirmedAsRecorded ==
    \A e \in executed :
        /\ WithChange(e) =>
              /\ \A claim \in Claims(e), withContext \in BOOLEAN :
                    IndexerConfirmsChange(claim, e.call.inputs, ChangeEvent(e), withContext) =>
                        /\ claim.change = commitmentAmounts[claim.commitment]
                        /\ withContext => claim = TrueClaim(e)
              /\ e.call.selector = WithdrawNoteBounds =>
                    /\ IndexerConfirmsChange(TrueClaim(e), e.call.inputs, ChangeEvent(e), TRUE)
                    /\ CoreValueConserved(TrueClaim(e))
                    /\ CoreInputsMatch(TrueClaim(e), e.call.inputs.spentCommitment, e.call.inputs)
        /\ e.call.selector = WithdrawPolicy =>
              /\ IndexerConfirmsExit(TrueClaim(e), e.call.inputs, TRUE)
              /\ \A claim \in Claims(e), withContext \in BOOLEAN :
                    IndexerConfirmsExit(claim, e.call.inputs, withContext) =>
                        claim.noteAmount = commitmentAmounts[e.call.inputs.spentCommitment]
=============================================================================
