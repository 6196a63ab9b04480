---------------------------- MODULE SpendBinding ----------------------------
(***************************************************************************)
(* From an owner's decision to a transaction of the v1.2 pool.             *)
(*                                                                         *)
(* An owner plans a deposit or a spend and proves it. From then on the     *)
(* proof and its public inputs are public: anybody may put them into any   *)
(* overload of deposit, privateTransfer or withdraw, with any other        *)
(* arguments, and the relay may be asked to carry any such call. The pool  *)
(* checks the arguments against the public inputs. NullarkPool models what *)
(* an accepted transaction then does; its actions are conjuncts here.      *)
(*                                                                         *)
(* Proofs are sound and cannot be altered: the verifier accepts public     *)
(* inputs iff a plan was proved with them. The relay's clock is the        *)
(* chain's.                                                                *)
(***************************************************************************)
EXTENDS NullarkPool, ProofEncodings

CONSTANTS
    Here,                   \* this deployment, [chainId, pool]
    Deployments,            \* deployments owners hold notes in, Here included
    DepositClients,         \* the wallets that prepare deposits
    Destinations,           \* addresses, address(0) excluded
    MaxUint256,             \* type(uint256).max
    MAX_RELAY_DEADLINE_SECONDS_FROM_NOW,
    SDK_DEADLINE_SECONDS,   \* deadlineSeconds of buildWithdrawalRelayerRequest
    MaxDeposits, MaxPlans, MaxRelayed   \* TLC bounds: proofs made, calls relayed

(* RelayerPolicy of the contract; address(0) is NoRelayer. *)
RelayerPolicies ==
    [relayer : Accounts \cup {NoRelayer}, minNetAmount : Nat, maxFeeAmount : Nat,
     deadlineOrZero : Nat]

ASSUME BindingAssumption ==
    /\ Here \in Deployments
    /\ \A d \in Deployments : d = [chainId |-> d.chainId, pool |-> d.pool]
    /\ DepositClients \subseteq {"web", "sdk"}
    /\ NoRelayer \notin Destinations
    /\ MaxUint256 \in Nat
    /\ Policies \subseteq RelayerPolicies
    /\ \A amount \in Denominations : amount >= BPS_DENOMINATOR
    /\ MAX_RELAY_DEADLINE_SECONDS_FROM_NOW \in 0..(FEE_INCREASE_DELAY - 1)
    /\ SDK_DEADLINE_SECONDS \in 1..MAX_RELAY_DEADLINE_SECONDS_FROM_NOW
    /\ MaxDeposits \in Nat /\ MaxPlans \in Nat /\ MaxRelayed \in Nat

VARIABLES
    depositPlans,   \* deposits that owners prepared and proved
    plans,          \* spends that owners prepared and proved
    relayed,        \* calls the relay admitted, with deadline and fee read
    executed        \* the calls that the pool executed

bindingVars == <<depositPlans, plans, relayed, executed>>
allVars == <<vars, bindingVars>>

ZeroAddress == NoRelayer

(* The bytes of an encrypted note argument: nothing, more than             *)
(* MAX_ENCRYPTED_NOTE_BYTES, bytes that are no V2 envelope, or an envelope *)
(* that names a deployment and a commitment.                               *)
Bytes(kind, d, c) == [kind |-> kind, chainId |-> d.chainId, pool |-> d.pool, commitment |-> c]
EmptyNote == Bytes("empty", Here, NoCommitment)
OversizedNote == Bytes("oversized", Here, NoCommitment)
OtherBytes == Bytes("other", Here, NoCommitment)
Envelope(d, c) == Bytes("envelope", d, c)

-----------------------------------------------------------------------------
(* Faulty variants of the definitions below, for mutation checks.          *)
WithdrawalBindings_NoContext(inputs, call, fee, policy, note) ==
    inputs.encryptedNoteHash = EncryptedOutputNoteHash(Here, WITHDRAW_CONTEXT_SHAPE,
        call.selector, call.nullifier, inputs.outputCommitment, note)
RelayFeePolicy_IgnoresPending(inputs, gross, deadline) == TRUE
SdkRelayerPolicy_BindsDeadline(gross, fee) ==
    [relayer |-> NoRelayer, minNetAmount |-> gross - fee, maxFeeAmount |-> fee,
     deadlineOrZero |-> timestamp + SDK_DEADLINE_SECONDS]

-----------------------------------------------------------------------------
(* Public inputs that the wallets compute for their plans. *)
DepositInputs(p) ==
    LET noteHash == IF p.client = "web" THEN WebDepositNoteHash(Here, p.commitment, p.note)
                                        ELSE SdkDepositNoteHash(Here, p.commitment, p.note)
    IN  [commitment |-> p.commitment,
         amount |-> p.amount,
         chainId |-> Here.chainId,
         verifyingContract |-> Here.pool,
         contextHash |->
            IF p.client = "web" THEN WebDepositContextHash(Here, p.commitment, p.amount, noteHash)
                                ELSE SdkDepositContextHash(Here, p.commitment, p.amount, noteHash),
         encryptedNoteHash |-> noteHash]

Shape(selector) ==
    IF selector \in TransferSelectors THEN PRIVATE_TRANSFER_CONTEXT_SHAPE
                                      ELSE WITHDRAW_CONTEXT_SHAPE

PlanNullifier(p) == Nullifier(p.leaf, p.deployment)

PlanNoteHash(p) ==
    CASE p.client = "sdk" ->
            SdkEncryptedOutputNoteHash(p.deployment, PlanNullifier(p), p.out, p.note)
      [] p.client = "web" ->
            WebEncryptedOutputNoteHash(p.deployment, PlanNullifier(p), p.out, p.note)
      [] p.client = "contract" ->       \* computeOutputEncryptedNoteHash
            EncryptedOutputNoteHash(p.deployment, Shape(p.selector), p.selector,
                                    PlanNullifier(p), p.out, p.note)

PlanContextHash(p) ==
    CASE p.client = "sdk" ->
            SdkProofContextHash(p.deployment, p.root, PlanNullifier(p), p.destination,
                                p.gross, p.fee, PlanNoteHash(p), p.policy)
      [] p.client = "web" ->
            WebProofContextHash(p.deployment, p.root, PlanNullifier(p), p.destination,
                                p.gross, p.fee, PlanNoteHash(p), p.policy)
      [] p.client = "contract" ->       \* computeProofContextHash
            ProofContextHash(p.deployment, Shape(p.selector), p.selector, p.root,
                             PlanNullifier(p), p.destination, p.gross, p.fee,
                             PlanNoteHash(p), p.policy)

SpendInputs(p) ==
    [root |-> p.root,
     nullifier |-> PlanNullifier(p),
     outputCommitment |-> p.out,
     destination |-> p.destination,
     grossAmount |-> p.gross,
     fee |-> p.fee,
     chainId |-> p.deployment.chainId,
     verifyingContract |-> p.deployment.pool,
     proofContextHash |-> PlanContextHash(p),
     encryptedNoteHash |-> PlanNoteHash(p)]

-----------------------------------------------------------------------------
(* The verifier router: the public inputs select the circuit. *)
Circuit(selector) == IF selector \in TransferSelectors THEN "privateTransfer" ELSE "withdraw"

RoutedCircuit(inputs) ==
    CASE inputs.destination = ZeroAddress /\ inputs.grossAmount = 0 /\ inputs.fee = 0 ->
            "privateTransfer"
      [] inputs.destination # ZeroAddress /\ inputs.grossAmount > 0 -> "withdraw"
      [] OTHER -> "none"

VerifySpend(inputs) ==
    \E p \in plans : Circuit(p.selector) = RoutedCircuit(inputs) /\ SpendInputs(p) = inputs

VerifyDeposit(inputs) == \E p \in depositPlans : DepositInputs(p) = inputs

-----------------------------------------------------------------------------
(* The pool's argument checks. *)

(* The policy that an overload hands on: the ones without a policy         *)
(* argument build one without relayer and deadline.                        *)
PolicyOf(call) ==
    CASE call.selector \in {Transfer, TransferNote} ->
            [relayer |-> NoRelayer, minNetAmount |-> 0, maxFeeAmount |-> MaxUint256,
             deadlineOrZero |-> 0]
      [] call.selector \in {WithdrawBounds, WithdrawNoteBounds} ->
            [call.policy EXCEPT !.relayer = NoRelayer, !.deadlineOrZero = 0]
      [] OTHER -> call.policy

(* The overloads without a note argument hand on empty bytes. *)
NoteOf(call) ==
    IF call.selector \in {Transfer, WithdrawBounds, WithdrawPolicy} THEN EmptyNote
                                                                    ELSE call.note

NoteAccepted(note) == note.kind \notin {"empty", "oversized"}

PublicInputsCommon(inputs, nullifier) ==
    /\ IsAcceptedRoot(inputs.root)
    /\ inputs.nullifier = nullifier
    /\ inputs.chainId = Here.chainId
    /\ inputs.verifyingContract = Here.pool

PrivateTransferInputs(inputs, call) ==
    /\ PublicInputsCommon(inputs, call.nullifier)
    /\ inputs.outputCommitment = call.newCommitment
    /\ inputs.destination = ZeroAddress
    /\ inputs.grossAmount = 0
    /\ inputs.fee = 0

WithdrawalInputs(inputs, call, fee) ==
    /\ PublicInputsCommon(inputs, call.nullifier)
    /\ inputs.outputCommitment \notin commitments
    /\ inputs.destination = call.destination
    /\ inputs.grossAmount = call.gross
    /\ inputs.fee = fee

TransferBindings(inputs, call, policy, note) ==
    LET noteHash == EncryptedOutputNoteHash(Here, PRIVATE_TRANSFER_CONTEXT_SHAPE,
                        call.selector, call.nullifier, call.newCommitment, note)
    IN  /\ inputs.encryptedNoteHash = noteHash
        /\ inputs.proofContextHash =
              ProofContextHash(Here, PRIVATE_TRANSFER_CONTEXT_SHAPE, call.selector, inputs.root,
                               inputs.nullifier, ZeroAddress, 0, 0, noteHash, policy)

WithdrawalBindings(inputs, call, fee, policy, note) ==
    LET noteHash == EncryptedOutputNoteHash(Here, WITHDRAW_CONTEXT_SHAPE,
                        call.selector, call.nullifier, inputs.outputCommitment, note)
    IN  /\ inputs.encryptedNoteHash = noteHash
        /\ inputs.proofContextHash =
              ProofContextHash(Here, WITHDRAW_CONTEXT_SHAPE, call.selector, inputs.root,
                               inputs.nullifier, call.destination, call.gross, fee,
                               noteHash, policy)

DepositBindings(inputs, note) ==
    LET noteHash == DepositEncryptedNoteHash(Here, DepositSelector, inputs.commitment, note)
    IN  /\ inputs.encryptedNoteHash = noteHash
        /\ inputs.contextHash =
              DepositContextHash(Here, DepositSelector, inputs.commitment, inputs.amount, noteHash)

DepositAccepted(inputs, value, note) ==
    /\ inputs.commitment \notin commitments
    /\ inputs.amount = value
    /\ value \in Denominations
    /\ inputs.chainId = Here.chainId
    /\ inputs.verifyingContract = Here.pool
    /\ NoteAccepted(note)
    /\ DepositBindings(inputs, note)
    /\ VerifyDeposit(inputs)

PrivateTransferAccepted(call, sender) ==
    /\ call.selector \in TransferSelectors
    /\ NoteAccepted(NoteOf(call))
    /\ PrivateTransferInputs(call.inputs, call)
    /\ RelayerPolicyHolds(PolicyOf(call), sender)
    /\ TransferBindings(call.inputs, call, PolicyOf(call), NoteOf(call))
    /\ VerifySpend(call.inputs)

(* The two overloads without bounds revert at once. *)
WithdrawAccepted(call, sender) ==
    /\ call.selector \in WithdrawSelectors \ {Withdraw, WithdrawNote}
    /\ call.destination # ZeroAddress
    /\ call.gross > 0
    /\ WithdrawalInputs(call.inputs, call, FeeOf(call.gross))
    /\ RelayerPolicyHolds(PolicyOf(call), sender)
    /\ call.gross \in Denominations
    /\ NoteAccepted(NoteOf(call))
    /\ WithdrawalBindings(call.inputs, call, FeeOf(call.gross), PolicyOf(call), NoteOf(call))
    /\ VerifySpend(call.inputs)
    /\ WithinBounds(PolicyOf(call), call.gross, FeeOf(call.gross))

-----------------------------------------------------------------------------
(* The relay's validation of a request (v1.2-unlinkable mode). *)
RelayPolicyOf(call) ==
    IF call.selector = WithdrawPolicy
    THEN call.policy
    ELSE [relayer |-> NoRelayer, minNetAmount |-> call.policy.minNetAmount,
          maxFeeAmount |-> call.policy.maxFeeAmount, deadlineOrZero |-> 0]

RelayFee(gross) == (gross * feeBps) \div BPS_DENOMINATOR

(* The fee state is read when the request comes in; a pending fee must not *)
(* activate before the deadline of the request.                            *)
RelayFeePolicy(inputs, gross, deadline) ==
    pendingFeeBps # 0 =>
        /\ pendingFeeActivationTime > timestamp
        /\ pendingFeeActivationTime > deadline
        /\ inputs.fee # (gross * pendingFeeBps) \div BPS_DENOMINATOR

RelayDeadline(deadline) ==
    /\ deadline > timestamp
    /\ deadline <= timestamp + MAX_RELAY_DEADLINE_SECONDS_FROM_NOW

RelayInputs(call, fee) ==
    /\ call.inputs.nullifier = call.nullifier
    /\ call.inputs.destination = call.destination
    /\ call.inputs.grossAmount = call.gross
    /\ call.inputs.fee = fee
    /\ call.inputs.chainId = Here.chainId
    /\ call.inputs.verifyingContract = Here.pool

RelayBindings(call, fee) ==
    LET noteHash == RelayOutputNoteHash(Here, call.selector, call.nullifier,
                        call.inputs.outputCommitment, NoteOf(call))
    IN  /\ call.inputs.encryptedNoteHash = noteHash
        /\ call.inputs.proofContextHash =
              RelayProofContextHash(Here, call.selector, call.inputs.root, call.nullifier,
                                    call.destination, call.gross, fee, noteHash,
                                    RelayPolicyOf(call))

(* The overloads that the relay decodes. *)
RelaySelectors == {WithdrawBounds, WithdrawPolicy, WithdrawNoteBounds}

RelayBounds(call, fee) ==
    /\ fee <= call.policy.maxFeeAmount
    /\ call.gross - fee >= call.policy.minNetAmount
    /\ call.policy.maxFeeAmount <= call.gross

RelayAllows(call, deadline) ==
    LET fee == RelayFee(call.gross)
    IN  /\ call.selector \in RelaySelectors
        /\ RelayInputs(call, fee)
        /\ RelayFeePolicy(call.inputs, call.gross, deadline)
        /\ call.destination # ZeroAddress
        /\ call.gross \in Denominations
        /\ RelayBounds(call, fee)
        /\ NoteOf(call) = Envelope(Here, call.inputs.outputCommitment)
        /\ RelayBindings(call, fee)
        /\ RelayDeadline(deadline)

-----------------------------------------------------------------------------
BindingInit ==
    /\ Init
    /\ depositPlans = {}
    /\ plans = {}
    /\ relayed = {}
    /\ executed = {}

(* An owner prepares and proves a deposit, with the web application        *)
(* (generateBrowserDepositProof) or the SDK (prepareDepositNote with a     *)
(* prover); both accept only a proof for the public inputs they computed.  *)
PrepareDeposit(client, c, amount, note) ==
    /\ Cardinality(depositPlans) < MaxDeposits
    /\ c \notin commitments
    /\ DepositCircuit(c, amount)
    /\ depositPlans' = depositPlans \cup
          {[client |-> client, commitment |-> c, amount |-> amount, note |-> note]}
    /\ UNCHANGED <<vars, plans, relayed, executed>>

(* The policy the SDK and the web application bind: no relayer, no         *)
(* deadline, and bounds that leave the fee no room.                        *)
SdkRelayerPolicy(gross, fee) ==
    [relayer |-> NoRelayer, minNetAmount |-> gross - fee, maxFeeAmount |-> fee,
     deadlineOrZero |-> 0]

(* The owner proves a spend of an unspent note. Other deployments are      *)
(* taken to hold the same tree: the worst case for a replayed proof.       *)
AddPlan(p) ==
    /\ Cardinality(plans) < MaxPlans
    /\ p.leaf < currentRoot
    /\ p.leaf \notin nullifiers
    /\ p.out \notin commitments
    /\ \/ p.selector \in WithdrawSelectors /\ WithdrawCircuit(p.leaf, p.root, p.out, p.gross)
       \/ p.selector \in TransferSelectors /\ PrivateTransferCircuit(p.leaf, p.root, p.out)
    /\ plans' = plans \cup {p}
    /\ UNCHANGED <<vars, depositPlans, relayed, executed>>

(* What the SDK and the web application plan alike: the root is the        *)
(* current one, the fee is the one read from the pool, the output note is  *)
(* always present.                                                         *)
WalletPlan(client, leaf, out, gross, destination) ==
    [client |-> client, deployment |-> Here, selector |-> WithdrawNoteBounds,
     leaf |-> leaf, root |-> currentRoot, out |-> out, destination |-> destination,
     gross |-> gross, fee |-> FeeOf(gross), note |-> Envelope(Here, out),
     policy |-> SdkRelayerPolicy(gross, FeeOf(gross))]

(* buildV12UnlinkableWithdrawalWitness, and the proof of the witness. *)
SdkPlansWithdrawal(leaf, out, gross, destination) ==
    AddPlan(WalletPlan("sdk", leaf, out, gross, destination))

(* buildBrowserV12UnlinkableWithdrawWitness, and the proof of the witness. *)
WebPlansWithdrawal(leaf, out, gross, destination) ==
    AddPlan(WalletPlan("web", leaf, out, gross, destination))

(* An owner with another wallet, which takes the hashes from the views of  *)
(* the contract, plans any spend in any deployment.                        *)
OwnerPlansWithdrawal(d, selector, leaf, out, gross, destination, note, policy) ==
    LET call == [selector |-> selector, policy |-> policy]
    IN  AddPlan([client |-> "contract", deployment |-> d, selector |-> selector,
                 leaf |-> leaf, root |-> currentRoot, out |-> out, destination |-> destination,
                 gross |-> gross, fee |-> FeeOf(gross), note |-> note,
                 policy |-> PolicyOf(call)])

OwnerPlansTransfer(d, selector, leaf, out, note, policy) ==
    LET call == [selector |-> selector, policy |-> policy]
    IN  AddPlan([client |-> "contract", deployment |-> d, selector |-> selector,
                 leaf |-> leaf, root |-> currentRoot, out |-> out,
                 destination |-> ZeroAddress, gross |-> 0, fee |-> 0, note |-> note,
                 policy |-> PolicyOf(call)])

(* createV12UnlinkableWithdrawalPlan: the calldata of a wallet's plan. *)
WalletCall(p) ==
    [selector |-> WithdrawNoteBounds, inputs |-> SpendInputs(p), nullifier |-> PlanNullifier(p),
     newCommitment |-> NoCommitment, destination |-> p.destination, gross |-> p.gross,
     note |-> p.note, policy |-> p.policy]

-----------------------------------------------------------------------------
(* Transactions, sent by anybody. *)
SubmitDeposit(inputs, value, note) ==
    /\ DepositAccepted(inputs, value, note)
    /\ Deposit(inputs.commitment, value)
    /\ executed' = executed \cup
          {[selector |-> DepositSelector, commitment |-> inputs.commitment,
            amount |-> value, note |-> note]}
    /\ UNCHANGED <<depositPlans, plans, relayed>>

Execution(call, out, destination, gross, fee, sender) ==
    [selector |-> call.selector, leaf |-> call.nullifier.leaf, root |-> call.inputs.root,
     out |-> out, destination |-> destination, gross |-> gross, fee |-> fee,
     note |-> NoteOf(call), sender |-> sender, time |-> timestamp]

SubmitPrivateTransfer(call, sender) ==
    /\ PrivateTransferAccepted(call, sender)
    /\ PrivateTransfer(call.nullifier.leaf, call.inputs.root, call.newCommitment,
                       PolicyOf(call), sender)
    /\ executed' = executed \cup
          {Execution(call, call.newCommitment, ZeroAddress, 0, 0, sender)}
    /\ UNCHANGED <<depositPlans, plans, relayed>>

SubmitWithdraw(call, sender) ==
    /\ WithdrawAccepted(call, sender)
    /\ WithdrawCall(call.nullifier.leaf, call.inputs.root, call.inputs.outputCommitment,
                    call.gross, PolicyOf(call), sender)
    /\ executed' = executed \cup
          {Execution(call, call.inputs.outputCommitment, call.destination, call.gross,
                     FeeOf(call.gross), sender)}
    /\ UNCHANGED <<depositPlans, plans, relayed>>

(* The relay admits a request: resolveRelayRuntimeFeePolicy and            *)
(* normalizeRelayRequest.                                                  *)
RelayAdmits(call, deadline) ==
    /\ Cardinality(relayed) < MaxRelayed
    /\ RelayAllows(call, deadline)
    /\ relayed' = relayed \cup {[call |-> call, deadline |-> deadline, feeBps |-> feeBps]}
    /\ UNCHANGED <<vars, depositPlans, plans, executed>>

-----------------------------------------------------------------------------
(* The arguments tried: every published proof with every nullifier,        *)
(* commitment, destination, amount, note and policy of the instance.       *)
Notes == {EmptyNote, OversizedNote, OtherBytes} \cup {Envelope(Here, p.out) : p \in plans}

CallsWith(selectors, outs, destinations, amounts) ==
    [selector : selectors,
     inputs : {SpendInputs(p) : p \in plans},
     nullifier : {Nullifier(i, Here) : i \in 0..(nextLeafIndex - 1)}
                    \cup {PlanNullifier(p) : p \in plans},
     newCommitment : outs,
     destination : destinations,
     gross : amounts,
     note : Notes,
     policy : Policies \cup {p.policy : p \in plans}]

TransferCalls == CallsWith(TransferSelectors, Commitments, {ZeroAddress}, {0})
WithdrawCalls == CallsWith(WithdrawSelectors, {NoCommitment},
                           Destinations \cup {ZeroAddress}, Denominations)

OwnersStep ==
    \/ \E client \in DepositClients, c \in Commitments, amount \in Denominations :
          PrepareDeposit(client, c, amount, OtherBytes)
    \/ \E leaf \in 0..(nextLeafIndex - 1), out \in Commitments :
          \/ \E gross \in Denominations, destination \in Destinations :
                \/ SdkPlansWithdrawal(leaf, out, gross, destination)
                \/ WebPlansWithdrawal(leaf, out, gross, destination)
          \/ \E d \in Deployments, policy \in Policies :
                \/ \E selector \in {WithdrawNoteBounds, WithdrawNotePolicy},
                      gross \in Denominations, destination \in Destinations :
                      OwnerPlansWithdrawal(d, selector, leaf, out, gross, destination,
                                           Envelope(d, out), policy)
                \/ \E selector \in {TransferNote, TransferNotePolicy} :
                      OwnerPlansTransfer(d, selector, leaf, out, OtherBytes, policy)

TransactionsStep ==
    \/ \E p \in depositPlans, value \in Denominations, note \in Notes :
          SubmitDeposit(DepositInputs(p), value, note)
    \/ \E call \in TransferCalls, sender \in Accounts : SubmitPrivateTransfer(call, sender)
    \/ \E call \in WithdrawCalls, sender \in Accounts : SubmitWithdraw(call, sender)

BindingNext ==
    \/ OwnersStep
    \/ TransactionsStep
    \/ \E call \in WithdrawCalls, window \in 0..(MAX_RELAY_DEADLINE_SECONDS_FROM_NOW + 1) :
          RelayAdmits(call, timestamp + window)
    \/ FeeStep /\ UNCHANGED bindingVars
    \/ CallReturns /\ UNCHANGED bindingVars

BindingSpec == BindingInit /\ [][BindingNext]_allVars

-----------------------------------------------------------------------------
(* No unauthorized withdrawal (docs/security/threat-model.md), for every   *)
(* kind of spend: whatever call the pool executes, some owner planned      *)
(* exactly it, for this deployment, overload, note, root, output,          *)
(* destination, amount, fee and encrypted bytes, and it was sent by the    *)
(* relayer, before the deadline and within the bounds of that plan. A      *)
(* published proof authorises nothing else.                                *)
DepositAuthorised(e) ==
    \E p \in depositPlans :
        <<p.commitment, p.amount, p.note>> = <<e.commitment, e.amount, e.note>>

SpendAuthorised(e) ==
    \E p \in plans :
        /\ p.deployment = Here
        /\ <<p.selector, p.leaf, p.root, p.out, p.destination, p.gross, p.fee, p.note>>
              = <<e.selector, e.leaf, e.root, e.out, e.destination, e.gross, e.fee, e.note>>
        /\ p.policy.relayer # NoRelayer => e.sender = p.policy.relayer
        /\ p.policy.deadlineOrZero # 0 => e.time <= p.policy.deadlineOrZero
        /\ e.selector \in WithdrawSelectors => WithinBounds(p.policy, e.gross, e.fee)

ExecutedAsPlanned ==
    \A e \in executed :
        IF e.selector = DepositSelector THEN DepositAuthorised(e) ELSE SpendAuthorised(e)

(* The relay's own validation of the calldata and the pool's agree: a call *)
(* that the relay admitted with a genuine proof is accepted by the pool,   *)
(* whoever carries it, until its deadline, unless the note was spent, the  *)
(* root expired, the output exists or the fee was lowered meanwhile. An    *)
(* increase of the fee cannot come in between.                             *)
RelayedCallsExecutable ==
    \A r \in relayed :
        timestamp <= r.deadline =>
            \/ r.call.nullifier.leaf \in nullifiers
            \/ ~IsAcceptedRoot(r.call.inputs.root)
            \/ r.call.inputs.outputCommitment \in commitments
            \/ feeBps < r.feeBps
            \/ \A sender \in Accounts : WithdrawAccepted(r.call, sender)

DepositsAcceptedFrom(client) ==
    \A p \in depositPlans :
        p.client = client /\ p.commitment \notin commitments
            => DepositAccepted(DepositInputs(p), p.amount, p.note)

(* A deposit prepared by the SDK passes the pool's checks: the SDK's test  *)
(* calls it a transaction that funds a recoverable note.                   *)
SdkDepositsAccepted == DepositsAcceptedFrom("sdk")
=============================================================================
